----------------------------- MODULE DesignExport -----------------------------
(***************************************************************************)
(* What the studio makes of a design: ESPHome YAML (generate/yaml_gen.py), *)
(* a SKiDL script (kicad/generator.py), a picture of the schematic that    *)
(* the script draws (kicad/render.py) and a check of the bill of materials *)
(* (jlcpcb/check.py), behind the HTTP endpoints and the agent's tools.     *)
(* All are pure functions of the document and of what programs and         *)
(* services outside answer, so here they are operators on the documents    *)
(* that DesignEdit reaches.                                                *)
(***************************************************************************)
EXTENDS DesignEdit

CONSTANTS
    TemplateUses, \* library id with a yaml_template -> what the template reads:
                  \* "bus", "parent" and pin roles
    SymbolPins,   \* library id with a kicad block -> the pins of its KiCad symbol
    PinMap        \* the same -> (pin role -> pin of the symbol), where they differ

\* No role is called bus or parent, and the template of an i2s component leaves
\* the bus alone.
ASSUME TemplateAssumption ==
    /\ DOMAIN TemplateUses \subseteq Libraries
    /\ None \notin {"unknown_board", "unknown_expander", "undefined"}
    /\ {"bus", "parent"} \cap (PinRoles \cup {p[1] : p \in Picks}) = {}
    /\ \A lib \in DOMAIN TemplateUses :
          "bus" \in TemplateUses[lib] => "i2s" \notin NeededBusTypes(lib)
ASSUME SymbolAssumption == DOMAIN PinMap = DOMAIN SymbolPins

-----------------------------------------------------------------------------
(* ESPHome YAML.  A result is [err, ...], where err is None or what the    *)
(* generator raises.                                                       *)

\* Mutant: the first bus connection, whether its bus exists or not.
MutBusFor(d, id) ==
    First(d.connections, LAMBDA c : c.owner = id /\ c.target.kind = "bus",
          LAMBDA c : c.target.at)

\* The bus of the first connection that names one there is.
BusFor(d, id) ==
    First(d.connections,
          LAMBDA c : /\ c.owner = id /\ c.target.kind = "bus"
                     /\ c.target.at \in IdsOf(d.buses),
          LAMBDA c : c.target.at)

ParentFor(d, id) ==
    First(d.connections,
          LAMBDA c : /\ c.owner = id /\ c.target.kind = "component"
                     /\ c.target.at \in IdsOf(d.components),
          LAMBDA c : c.target.at)

\* The connections of a component that _pins_for puts into `pins`.  A board pin
\* nobody picked is there too, as an empty string.
PinsFor(d, id) ==
    {c \in ToSet(d.connections) : c.owner = id /\ c.target.kind \in {"gpio", "expander_pin"}}

LostExpanders(d, id) ==
    {c \in PinsFor(d, id) : c.target.kind = "expander_pin" /\ c.target.at \notin IdsOf(d.components)}

Provided(d, id) ==
    {c.role : c \in PinsFor(d, id)}
    \cup {"bus" : x \in {BusFor(d, id)} \ {None}}
    \cup {"parent" : x \in {ParentFor(d, id)} \ {None}}

\* _render_component: StrictUndefined raises for what the template reads and
\* the design does not provide.
ComponentError(d, e) ==
    CASE e.lib \notin DOMAIN TemplateUses -> None
      [] e.lib \in DOMAIN TemplateUses /\ LostExpanders(d, e.id) # {} -> "unknown_expander"
      [] OTHER -> IF TemplateUses[e.lib] \subseteq Provided(d, e.id) THEN None ELSE "undefined"

\* What a rendered component names: a bus, a parent, expanders.
NamesIn(d, e) ==
    LET uses == TemplateUses[e.lib] IN
    {<<"bus", BusFor(d, e.id)>> : x \in uses \cap {"bus"}}
    \cup {<<"component", ParentFor(d, e.id)>> : x \in uses \cap {"parent"}}
    \cup {<<"component", c.target.at>> : c \in
            {p \in PinsFor(d, e.id) : p.role \in uses /\ p.target.kind = "expander_pin"}}

Rendered(d) == {e \in ToSet(d.components) : e.lib \in DOMAIN TemplateUses}

\* build_yaml_dict: the error of the first component that has one, or the ids
\* of the bus blocks and what the rendered components name.  The i2s block
\* carries no id.
Yaml(d) ==
    LET bad == SelectInSeq(d.components, LAMBDA e : ComponentError(d, e) # None) IN
    CASE d.board \notin Boards -> [err |-> "unknown_board"]
      [] d.board \in Boards /\ bad # 0 -> [err |-> ComponentError(d, d.components[bad])]
      [] OTHER ->
            [err   |-> None,
             buses |-> {b.id : b \in {x \in ToSet(d.buses) : x.type # "i2s"}},
             names |-> UNION {NamesIn(d, e) : e \in Rendered(d)}]

\* POST /design/render without its strict mode, and the agent's tools render and validate.
RenderEndpoint(d) == IF Yaml(d).err = None THEN 200 ELSE 422
RenderTool(d)     == [ok |-> Yaml(d).err = None]

ValidateTool(d) == [ok |-> Yaml(d).err = None]

-----------------------------------------------------------------------------
(* The SKiDL script.                                                       *)

\* Mutant: only the buses with the board's default pins are declared.
MutBusNets(d) == {b.id : b \in {x \in ToSet(d.buses) : x.pins # None}}

\* _render_buses: one net handle per bus.
BusNets(d) == IdsOf(d.buses)

\* _render_rails: the handles of the rails that connections name; ground is
\* always there.
RailNets(d) ==
    {RailGND} \cup {c.target.at : c \in {x \in ToSet(d.connections) : x.target.kind = "rail"}}

\* _render_components: connections of a component that is not in the design
\* become comments.
Wired(d) == {c \in ToSet(d.connections) : c.owner \in IdsOf(d.components)}

\* _net_handle_for: a connection lands on a handle that the script assigned, or
\* on one that it did not; a pin, a slot or a hub gets its net in place.
HasNet(d, c) ==
    CASE c.target.kind = "rail" -> c.target.at \in RailNets(d)
      [] c.target.kind = "bus"  -> c.target.at \in BusNets(d)
      [] OTHER -> TRUE

\* The pins of the header Conn_01x04 that stands in for a symbol.
HeaderPins == {"Pin_1", "Pin_2", "Pin_3", "Pin_4"}

\* The pins of the part that a component is declared as: of its symbol, or of
\* the header if its library entry has no kicad block.
PartPins(lib) == IF lib \in DOMAIN SymbolPins THEN SymbolPins[lib] ELSE HeaderPins

\* _resolve_pin_role: the pin of the part by which the script calls a role.
PinName(lib, role) ==
    IF lib \in DOMAIN PinMap /\ role \in DOMAIN PinMap[lib] THEN PinMap[lib][role] ELSE role

\* The connection of the line `part[pin] += net` finds its pin.
HasPin(d, c) ==
    LET lib == ById(d.components, c.owner).lib IN PinName(lib, c.role) \in PartPins(lib)

\* generate_skidl: the script runs unless it reads a handle that it did not
\* assign or asks a part for a pin that the part does not have.
ScriptRuns(d) == \A c \in Wired(d) : HasNet(d, c) /\ HasPin(d, c)

-----------------------------------------------------------------------------
(* The picture: kicad/render.py runs the script, kicad-cli and, for png, a *)
(* converter, each as a subprocess with a timeout.                         *)

Formats == {"svg", "png"}

\* What can go wrong, in the order render_schematic meets it, and what it raises.
\* A timeout is subprocess.TimeoutExpired.
Unavailable(trouble) == [trouble |-> trouble, raises |-> "RenderUnavailable"]
Failing(trouble)     == [trouble |-> trouble, raises |-> "RenderError"]
Hanging(trouble)     == [trouble |-> trouble, raises |-> "TimeoutExpired"]

ConverterTroubles == {"no_converter", "converter_hangs", "converter_fails"}

RenderSteps ==
    << Unavailable("no_kicad_cli"), Unavailable("no_skidl"), Unavailable("no_converter"),
       Hanging("script_hangs"), Failing("script_fails"), Failing("no_schematic"),
       Hanging("kicad_cli_hangs"), Failing("kicad_cli_fails"), Failing("no_svg"),
       Hanging("converter_hangs"), Failing("converter_fails") >>

Troubles == {RenderSteps[i].trouble : i \in DOMAIN RenderSteps}

ASSUME TroubleAssumption ==
    None \notin Troubles \cup {RenderSteps[i].raises : i \in DOMAIN RenderSteps}

\* render_schematic of a script that runs or does not, when one program is in
\* trouble or none is: what it raises, or None.
RenderSchematic ==
    [runs \in BOOLEAN |-> [format \in Formats |-> [trouble \in Troubles \cup {None} |->
        LET met == ({trouble} \ IF format = "svg" THEN ConverterTroubles ELSE {})
                   \cup (IF runs THEN {} ELSE {"script_fails"})
            k   == SelectInSeq(RenderSteps, LAMBDA s : s.trouble \in met)
        IN  IF k = 0 THEN None ELSE RenderSteps[k].raises]]]

\* Nothing catches a TimeoutExpired, which ends as a 500 as well.
PictureEndpoint(runs, format, trouble) ==
    LET raised == RenderSchematic[runs][format][trouble] IN
    CASE raised = None -> 200 [] raised = "RenderUnavailable" -> 503 [] OTHER -> 500

-----------------------------------------------------------------------------
(* The bill of materials: check.py.  The market says of a library id what  *)
(* JlcpcbClient.search finds: parts, parts without stock, nothing, or it   *)
(* is down.                                                                *)

MarketStates == {"parts", "sold_out", "none", "down"}

\* The library ids of the components in the order of their first.
BomOrder(d) ==
    LET again  == {k \in DOMAIN d.components :
                      \E j \in 1 .. k - 1 : d.components[j].lib = d.components[k].lib}
        firsts == Without([k \in DOMAIN d.components |-> k], again)
    IN  [i \in DOMAIN firsts |-> d.components[firsts[i]].lib]

Classify(found) ==
    CASE found = "none" -> "not_found" [] found = "sold_out" -> "out_of_stock" [] OTHER -> "ok"

Quantity(d, lib) == Cardinality({k \in DOMAIN d.components : d.components[k].lib = lib})

BomLine(d, lib, market) ==
    [lib |-> lib, quantity |-> Quantity(d, lib), status |-> Classify(market[lib])]

\* Mutant: a search that fails is skipped.
MutCheckBom(d, market) ==
    LET up == SelectSeq(BomOrder(d), LAMBDA lib : market[lib] # "down")
    IN  [available |-> TRUE, lines |-> [i \in DOMAIN up |-> BomLine(d, up[i], market)]]

\* check_bom: the lines before the first search that fails.
CheckBom(d, market) ==
    LET order == BomOrder(d)
        down  == SelectInSeq(order, LAMBDA lib : market[lib] = "down")
        done  == IF down = 0 THEN order ELSE SubSeq(order, 1, down - 1)
    IN  [available |-> down = 0,
         lines |-> [i \in DOMAIN done |-> BomLine(d, done[i], market)]]

-----------------------------------------------------------------------------
BusTypeIn(d, id) == First(d.buses, LAMBDA b : b.id = id, LAMBDA b : b.type)

\* A YAML that renders names only buses and components of the design, whatever
\* was removed under the connections before; and the bus of a component has its
\* block in it and is of the type that its pins need, unless somebody named it
\* wrongly.
YamlIsClosed ==
    LET y == Yaml(design) IN
    y.err = None =>
        /\ \A n \in y.names :
              n[2] \in IF n[1] = "bus" THEN IdsOf(design.buses) ELSE IdsOf(design.components)
        /\ \A e \in Rendered(design) :
              LET b == BusFor(design, e.id) IN
              "bus" \in TemplateUses[e.lib] =>
                  \/ b \in y.buses /\ BusTypeIn(design, b) \in NeededBusTypes(e.lib)
                  \/ b \in loose

IsSignal(kind) == BusTypeOf(kind) = None /\ kind \notin {"power", "ground", "hub_ref"}

\* What a template can read of a component whose pins all have the sort of
\* target that their kind asks for.
Given(lib) ==
    LET pins == ToSet(LibPins[lib]) IN
    {p.role : p \in {x \in pins : IsSignal(x.kind)}}
    \cup {"bus" : type \in NeededBusTypes(lib)}
    \cup {"parent" : p \in {x \in pins : x.kind = "hub_ref"}}

\* The template of a component reads no more than its pins can give it, its
\* connections are as it was seeded, every target that its kind of pin takes
\* names something, and all of it fits.
Complete(d, e) ==
    /\ e.id \notin astray
    /\ e.lib \in DOMAIN TemplateUses => TemplateUses[e.lib] \subseteq Given(e.lib)
    /\ \A c \in {x \in ToSet(d.connections) : x.owner = e.id} :
          LET kind == KindOfRole(d, c) IN
          /\ Fits(d, c)
          /\ BusTypeOf(kind) # None <=> c.target.kind = "bus"
          /\ kind = "hub_ref" => c.target.kind = "component"
          /\ IsSignal(kind) => c.target.kind \in {"gpio", "expander_pin"}
          /\ c.target.kind # "gpio" => c.target.at # None

\* The part of a library entry has a pin for each of its roles.
Mapped(lib) == \A p \in ToSet(LibPins[lib]) : PinName(lib, p.role) \in PartPins(lib)

\* On a board the library has, a design of complete components renders, for the
\* endpoint and for both tools of the agent; and if the parts of all its components
\* have their pins, its script runs and its picture is drawn while no program
\* outside fails.  No edit leaves anything else behind that a generator trips over.
SoundDesignsRender ==
    LET used == ToSet(design.components) IN
    design.board \in Boards /\ (\A e \in used : Complete(design, e)) =>
        /\ RenderEndpoint(design) = 200 /\ RenderTool(design).ok /\ ValidateTool(design).ok
        /\ (\A e \in used : Mapped(e.lib)) =>
               \A f \in Formats : PictureEndpoint(ScriptRuns(design), f, None) = 200

\* "the script always runs" (generator.py:17, app.py:396), whatever the design.
ScriptAlwaysRuns == ScriptRuns(design)

\* A report that calls itself available accounts for every component once; one
\* that does not is the beginning of the report that would have been.
BomIsWhole ==
    LET used == {e.lib : e \in ToSet(design.components)} IN
    \A market \in [used -> MarketStates] :
        LET r     == CheckBom(design, market)
            whole == CheckBom(design, [lib \in used |-> IF market[lib] = "down" THEN "none" ELSE market[lib]])
        IN  /\ r.available =>
                  /\ {r.lines[i].lib : i \in DOMAIN r.lines} = used
                  /\ SumFunction([i \in DOMAIN r.lines |-> r.lines[i].quantity]) = Len(design.components)
            /\ r.lines = SubSeq(whole.lines, 1, Len(r.lines))
            /\ r.available <=> \A lib \in used : market[lib] # "down"
===============================================================================
