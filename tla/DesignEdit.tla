------------------------------ MODULE DesignEdit ------------------------------
(***************************************************************************)
(* One design document under the edits of the agent's tools                *)
(* (wirestudio/agent/tools.py, wirestudio/designs/seed.py) and of the      *)
(* browser (web/src/lib/design.ts), in any order.  Every edit is a pure    *)
(* function of the document, as it is in the code; connections name their  *)
(* targets by id, so what matters is which ids exist, who takes them up    *)
(* again, and what still points at them.                                   *)
(*                                                                         *)
(* An id is a triple: <<"i2c", 1, "_">> is i2c_1 and <<"i2c", 0, "">> is   *)
(* i2c0.  Voltages are in tenths of a volt.                                *)
(***************************************************************************)
EXTENDS Naturals, SequencesExt, FiniteSetsExt

CONSTANTS
    None,           \* an absent value and the empty field of a target
    Pin,            \* a board pin somebody picked; which one is PinSolver's matter
    LibPins,        \* library id -> its pins, a sequence of [role, kind]
    Band,           \* library id -> [min, max], its supply voltage
    Parent,         \* library id with a hub_ref pin -> parent_library_id
    ExpanderLibs,   \* library ids of category io_expander
    Rails,          \* board -> its rails, a sequence of [name, volts]
    DefaultBuses,   \* board -> bus types with default pins
    Rail3V3, RailGND, \* the two rail names the code spells out
    GndNames,       \* rail names with "gnd" in them
    BoardNames,     \* what board.library_id may be in a stored design
    Hints,          \* instance ids the agent asks for
    Picks,          \* <<pin role, kind>>: what the agent and the user re-target
    BusIds,         \* bus ids the agent or the user types
    MaxComponents, MaxBuses, MaxConnections, \* bounds on the document
    MaxMisfits      \* and on the ids in the two histories

Libraries == DOMAIN LibPins
Boards    == DOMAIN Rails
BusTypes  == {"i2c", "spi", "uart", "i2s", "1wire"}
TargetKinds == {"rail", "gpio", "bus", "expander_pin", "component"}

BusKindToType ==
    [i2c_sda |-> "i2c", i2c_scl |-> "i2c",
     spi_clk |-> "spi", spi_miso |-> "spi", spi_mosi |-> "spi",
     i2s_lrclk |-> "i2s", i2s_bclk |-> "i2s",
     uart_rx |-> "uart", uart_tx |-> "uart", onewire_data |-> "1wire"]

\* Ids: what is asked for or typed, and what the counters make.
Separators   == {"_", ""}
ComponentIds == Hints \cup (Libraries \X Nat \X {"_"})
AllBusIds    == BusIds \cup (BusTypes \X Nat \X Separators)

\* No library component has two pins of one role.
ASSUME LibraryAssumption ==
    /\ None \notin Boards \cup ComponentIds \cup AllBusIds
    /\ None \notin BusTypes \cup DOMAIN BusKindToType
    /\ \A lib \in Libraries :
          /\ LibPins[lib] \in Seq(ToSet(LibPins[lib]))
          /\ \A j, k \in DOMAIN LibPins[lib] :
                j # k => LibPins[lib][j].role # LibPins[lib][k].role
    /\ \A b \in Boards : Rails[b] \in Seq(ToSet(Rails[b]))
    /\ {MaxComponents, MaxBuses, MaxConnections, MaxMisfits} \subseteq Nat

\* Whoever re-targets a pin names one of the schema's kinds of target.
ASSUME PickAssumption == \A pick \in Picks : pick[2] \in TargetKinds

VARIABLES
    design,  \* the document: board, components, buses, connections
    shown,   \* boardData of the browser: the board it last fetched
    loose,   \* history: ids that were removed while something named them, or
             \* that somebody named although they do not fit
    astray   \* history: owners set_connection made a connection up for

vars == <<design, shown, loose, astray>>

IdsOf(s)     == {e.id : e \in ToSet(s)}
ById(s, id)  == s[SelectInSeq(s, LAMBDA e : e.id = id)]
First(s, Test(_), field(_)) ==
    LET k == SelectInSeq(s, Test) IN IF k = 0 THEN None ELSE field(s[k])
IdOf(e)      == e.id

\* s without the elements of S, in order: SelectSeq as a recursive function.
Without(s, S) ==
    LET kept[n \in 0 .. Len(s)] ==
            IF n = 0 THEN <<>>
            ELSE IF s[n] \in S THEN kept[n - 1] ELSE Append(kept[n - 1], s[n])
    IN  kept[Len(s)]

\* The counters give up on ids after number 999, those of the buses in the browser
\* after 99, and then take the time of day or the number of buses for a name
\* (seed.py:117, design.ts:287 and 395).  A document within the bounds has fewer ids.
ASSUME NumberingAssumption == MaxComponents <= 998 /\ MaxBuses <= 99

\* The least number from a start on whose id is free.
Fresh(used, from, Id(_)) ==
    Min({n \in from .. from + Cardinality(used) : Id(n) \notin used})

-----------------------------------------------------------------------------
(* Default targets and buses of a new component: seed.py.                  *)

BusTypeOf(kind) ==
    IF kind \in DOMAIN BusKindToType THEN BusKindToType[kind] ELSE None

RailsOf(b) == IF b \in Boards THEN Rails[b] ELSE <<>>

\* The name of the first rail of the first set that has one.
FirstRail(rails, tried, default) ==
    LET k == SelectInSeq(tried, LAMBDA S : S # {})
    IN  IF k = 0 THEN default ELSE rails[Min(tried[k])].name

PowerRail(lib, rails) ==
    LET fits   == {k \in DOMAIN rails : rails[k].volts \in Band[lib].min .. Band[lib].max}
        lowest == {k \in fits : \A j \in fits : rails[k].volts <= rails[j].volts}
        named  == {k \in DOMAIN rails : rails[k].name = Rail3V3}
        live   == {k \in DOMAIN rails : rails[k].volts > 0}
    IN  FirstRail(rails, <<lowest, named, live, DOMAIN rails>>, Rail3V3)

GroundRail(rails) ==
    LET zero == {k \in DOMAIN rails : rails[k].volts = 0}
        gnd  == {k \in DOMAIN rails : rails[k].name \in GndNames}
    IN  FirstRail(rails, <<zero, gnd>>, RailGND)

\* Mutant: any bus will do.
MutDefaultTarget(kind, lib, rails, buses) ==
    CASE kind = "power"  -> [kind |-> "rail", at |-> PowerRail(lib, rails)]
      [] kind = "ground" -> [kind |-> "rail", at |-> GroundRail(rails)]
      [] BusTypeOf(kind) # None -> [kind |-> "bus", at |-> First(buses, LAMBDA b : TRUE, IdOf)]
      [] OTHER -> [kind |-> "gpio", at |-> None]

DefaultTarget(kind, lib, rails, buses) ==
    CASE kind = "power"  -> [kind |-> "rail", at |-> PowerRail(lib, rails)]
      [] kind = "ground" -> [kind |-> "rail", at |-> GroundRail(rails)]
      [] BusTypeOf(kind) # None ->
            [kind |-> "bus", at |-> First(buses, LAMBDA b : b.type = BusTypeOf(kind), IdOf)]
      [] OTHER -> [kind |-> "gpio", at |-> None]

\* A bus; pins is the board whose default pins it carries, None when it has
\* none or others.
NewBus(id, type, b) ==
    [id |-> id, type |-> type,
     pins |-> IF b \in Boards /\ type \in DefaultBuses[b] THEN b ELSE None]

NeededBusTypes(lib) == {BusTypeOf(p.kind) : p \in ToSet(LibPins[lib])} \ {None}

\* No library component has pins of two bus types, so the order in which
\* buses are added does not matter.
ASSUME OneBusAssumption == \A lib \in Libraries : Cardinality(NeededBusTypes(lib)) <= 1

TypesOf(buses) == {b.type : b \in ToSet(buses)}

PrepareBuses(d, lib) ==
    LET need == SetToSeq(NeededBusTypes(lib) \ TypesOf(d.buses))
        NextBusId(type) == LET Id(n) == <<type, n, "_">> IN Id(Fresh(IdsOf(d.buses), 1, Id))
    IN  [d EXCEPT !.buses =
            @ \o [k \in DOMAIN need |-> NewBus(NextBusId(need[k]), need[k], d.board)]]

InstanceId(d, lib, hint) ==
    LET used  == IdsOf(d.components)
        Id(n) == <<lib, n, "_">>
    IN  IF hint # None /\ hint \notin used THEN hint ELSE Id(Fresh(used, 1, Id))

\* One connection per pin of the library entry.
Seed(d, id, lib, TargetFor(_)) ==
    [d EXCEPT !.connections =
        @ \o [k \in DOMAIN LibPins[lib] |->
                [owner |-> id, role |-> LibPins[lib][k].role,
                 target |-> TargetFor(LibPins[lib][k].kind)]]]

\* Mutant: the connections are seeded before the buses are prepared.
MutAddWithConnections(d, lib, hint) ==
    LET id     == InstanceId(d, lib, hint)
        placed == [d EXCEPT !.components = Append(@, [id |-> id, lib |-> lib])]
        seeded == Seed(placed, id, lib,
                       LAMBDA kind : DefaultTarget(kind, lib, RailsOf(d.board), placed.buses))
    IN  IF d.board \in Boards THEN PrepareBuses(seeded, lib) ELSE seeded

AddWithConnections(d, lib, hint) ==
    LET id     == InstanceId(d, lib, hint)
        placed == [d EXCEPT !.components = Append(@, [id |-> id, lib |-> lib])]
        ready  == IF d.board \in Boards THEN PrepareBuses(placed, lib) ELSE placed
    IN  Seed(ready, id, lib,
             LAMBDA kind : DefaultTarget(kind, lib, RailsOf(d.board), ready.buses))

-----------------------------------------------------------------------------
(* The same in the browser: design.ts.  The rules for the rails are the    *)
(* same text; the rest is its own, and takes the board from boardData.     *)

KindsOfType(type) ==
    CASE type = "i2c"   -> {"i2c_sda", "i2c_scl"}
      [] type = "spi"   -> {"spi_clk", "spi_miso", "spi_mosi"}
      [] type = "i2s"   -> {"i2s_lrclk", "i2s_bclk"}
      [] type = "uart"  -> {"uart_rx", "uart_tx"}
      [] type = "1wire" -> {"onewire_data"}

NeededBusTypesUi(lib) ==
    {type \in BusTypes : \E p \in ToSet(LibPins[lib]) : p.kind \in KindsOfType(type)}

\* Mutant: numbering starts at the count of buses without looking at ids.
MutNextBusIdUi(d, type) == <<type, Cardinality({b \in ToSet(d.buses) : b.type = type}), "">>

NextBusIdUi(d, type) ==
    LET Id(n) == <<type, n, "">> IN Id(Fresh(IdsOf(d.buses), 0, Id))

PrepareBusesForLib(d, lib, b) ==
    LET need == SetToSeq(NeededBusTypesUi(lib) \ TypesOf(d.buses))
    IN  [d EXCEPT !.buses =
            @ \o [k \in DOMAIN need |-> NewBus(NextBusIdUi(d, need[k]), need[k], b)]]

WantedBus(kind) ==
    CASE kind \in {"i2c_sda", "i2c_scl"}              -> "i2c"
      [] kind \in {"spi_clk", "spi_miso", "spi_mosi"} -> "spi"
      [] kind \in {"i2s_lrclk", "i2s_bclk"}           -> "i2s"
      [] kind \in {"uart_rx", "uart_tx"}              -> "uart"
      [] kind = "onewire_data"                        -> "1wire"
      [] OTHER                                        -> None

DefaultTargetUi(kind, lib, rails, buses) ==
    CASE kind = "power"  -> [kind |-> "rail", at |-> PowerRail(lib, rails)]
      [] kind = "ground" -> [kind |-> "rail", at |-> GroundRail(rails)]
      [] WantedBus(kind) # None ->
            [kind |-> "bus", at |-> First(buses, LAMBDA b : b.type = WantedBus(kind), IdOf)]
      [] OTHER -> [kind |-> "gpio", at |-> None]

AddComponentUi(d, lib, b) ==
    LET id     == InstanceId(d, lib, None)
        ready  == PrepareBusesForLib(d, lib, b)
        placed == [ready EXCEPT !.components = Append(@, [id |-> id, lib |-> lib])]
    IN  Seed(placed, id, lib,
             LAMBDA kind : DefaultTargetUi(kind, lib, RailsOf(b), ready.buses))

-----------------------------------------------------------------------------
(* What a target is good for.                                              *)

KindOfRole(d, c) ==
    IF c.owner \notin IdsOf(d.components) THEN None
    ELSE LET pins == LibPins[ById(d.components, c.owner).lib]
         IN  First(pins, LAMBDA p : p.role = c.role, LAMBDA p : p.kind)

\* The id a target names exists and is of the sort its pin needs; a
\* placeholder names nothing.
Fits(d, c) ==
    \/ c.target.kind \in {"rail", "gpio"}
    \/ c.target.at = None
    \/ /\ c.target.kind = "bus"
       /\ \E b \in ToSet(d.buses) :
             b.id = c.target.at /\ b.type = BusTypeOf(KindOfRole(d, c))
    \/ /\ c.target.kind = "expander_pin"
       /\ \E e \in ToSet(d.components) : e.id = c.target.at /\ e.lib \in ExpanderLibs
    \/ /\ c.target.kind = "component"
       /\ \E e \in ToSet(d.components) : e.id = c.target.at

\* What solve_pins makes of one connection: the first candidate of its kind.
SolvedTarget(d, c) ==
    LET t    == c.target
        kind == KindOfRole(d, c)
        lib  == ById(d.components, c.owner).lib
        at   == CASE t.kind = "gpio" -> Pin
                  [] t.kind = "bus"  ->
                        First(d.buses, LAMBDA b : b.type = BusTypeOf(kind), IdOf)
                  [] t.kind = "expander_pin" ->
                        First(d.components, LAMBDA e : e.lib \in ExpanderLibs, IdOf)
                  [] t.kind = "component" ->
                        IF lib \in DOMAIN Parent
                        THEN First(d.components,
                                   LAMBDA e : e.lib = Parent[lib] /\ e.id # c.owner, IdOf)
                        ELSE None
    IN  IF t.kind = "rail" \/ t.at # None \/ kind = None THEN t ELSE [t EXCEPT !.at = at]

-----------------------------------------------------------------------------
(* The edits.                                                              *)

Bounded(d) ==
    /\ Len(d.components) <= MaxComponents
    /\ Len(d.buses) <= MaxBuses
    /\ Len(d.connections) <= MaxConnections

\* A stored design opened in a browser that has fetched no board yet.
Init ==
    /\ design \in [board : BoardNames, components : {<<>>}, buses : {<<>>},
                   connections : {<<>>}]
    /\ shown = None
    /\ loose = {}
    /\ astray = {}

\* The bounds leave room for another component, buses aside.
Room(lib) ==
    /\ Len(design.components) < MaxComponents
    /\ Len(design.connections) + Len(LibPins[lib]) <= MaxConnections

Edit(d) ==
    /\ Bounded(d)
    /\ design' = d
    /\ UNCHANGED shown

\* The history of an edit: ids that now name or are something unfit, and the
\* owners without a seeded set of connections.
Note(ids, owners) ==
    /\ Cardinality(loose \cup ids) + Cardinality(owners) <= MaxMisfits
    /\ loose' = loose \cup ids
    /\ astray' = owners

Misfit(c) == IF Fits(design, c) THEN {} ELSE {c.target.at}
Orphaned(id) == IF \E c \in ToSet(design.connections) : c.target.at = id THEN {id} ELSE {}

\* add_component of the agent and of the MCP server.
AddComponentTool(lib, hint) ==
    /\ Room(lib)
    /\ Note({}, astray)
    /\ Edit(AddWithConnections(design, lib, hint))

\* handleAddComponent of the browser.
AddComponentStudio(lib) ==
    /\ Room(lib)
    /\ Note({}, astray)
    /\ Edit(AddComponentUi(design, lib, shown))

\* Mutant: the connections of the removed component stay.
MutRemoveComponent(id) ==
    /\ id \in IdsOf(design.components)
    /\ Note(Orphaned(id), astray \ {id})
    /\ Edit([design EXCEPT !.components = Without(@, {e \in ToSet(@) : e.id = id})])

\* Connections that name the component as their expander or hub stay.
RemoveComponent(id) ==
    /\ id \in IdsOf(design.components)
    /\ Note(Orphaned(id), astray \ {id})
    /\ Edit([design EXCEPT !.components = Without(@, {e \in ToSet(@) : e.id = id}),
                           !.connections = Without(@, {c \in ToSet(@) : c.owner = id})])

Retarget(d, i, t) == [d EXCEPT !.connections[i].target = t]

\* Nothing about the owner, the role or the target is checked.
SetConnection(owner, role, t) ==
    LET i == SelectInSeq(design.connections, LAMBDA c : c.owner = owner /\ c.role = role)
        c == [owner |-> owner, role |-> role, target |-> t]
    IN  IF i # 0
        THEN /\ Note(Misfit(c), astray)
             /\ Edit(Retarget(design, i, t))
        ELSE /\ Note(Misfit(c), astray \cup {owner})
             /\ Edit([design EXCEPT !.connections = Append(@, c)])

\* A row of the connection form.
UpdateConnectionTarget(i, t) ==
    /\ t # design.connections[i].target
    /\ Note(Misfit([design.connections[i] EXCEPT !.target = t]), astray)
    /\ Edit(Retarget(design, i, t))

AddBusTool(id, type) ==
    /\ id \notin IdsOf(design.buses)
    /\ Note({}, astray)
    /\ Edit([design EXCEPT !.buses = Append(@, NewBus(id, type, design.board))])

AddBus(type) ==
    /\ Note({}, astray)
    /\ Edit([design EXCEPT !.buses = Append(@, NewBus(NextBusIdUi(design, type), type, shown))])

Patch(buses, id, To(_)) ==
    [k \in DOMAIN buses |-> IF buses[k].id = id THEN To(buses[k]) ELSE buses[k]]

\* Pins and speed of a bus; an id in the patch is dropped.
UpdateBus(id) ==
    /\ id \in IdsOf(design.buses)
    /\ Note({}, astray)
    /\ Edit([design EXCEPT !.buses = Patch(@, id, LAMBDA b : [b EXCEPT !.pins = None])])

\* Mutant: the connections do not follow.
MutRenamed(d, old, new) ==
    [d EXCEPT !.buses = Patch(@, old, LAMBDA b : [b EXCEPT !.id = new])]

\* The connections that name the bus follow it.
Renamed(d, old, new) ==
    LET Follow(c) == IF c.target.kind = "bus" /\ c.target.at = old
                     THEN [c EXCEPT !.target.at = new] ELSE c
    IN  [d EXCEPT
            !.buses = Patch(@, old, LAMBDA b : [b EXCEPT !.id = new]),
            !.connections = [i \in DOMAIN d.connections |-> Follow(d.connections[i])]]

RenameBus(old, new) ==
    /\ old # new
    /\ old \in IdsOf(design.buses)
    /\ new \notin IdsOf(design.buses)
    /\ Note(IF old \in loose THEN {new} ELSE {}, astray)
    /\ Edit(Renamed(design, old, new))

\* Connections that name the bus stay.
RemoveBus(id) ==
    /\ id \in IdsOf(design.buses)
    /\ Note(Orphaned(id), astray)
    /\ Edit([design EXCEPT !.buses = Without(@, {b \in ToSet(@) : b.id = id})])

\* Buses and connections keep what they had from the board before.
SetBoard(b) ==
    /\ b # design.board
    /\ Note({}, astray)
    /\ Edit([design EXCEPT !.board = b])

\* The board fetched for the design; until then the browser has the old one.
\* A board the library does not have is never shown.
BoardArrives ==
    /\ design.board \in Boards \ {shown}
    /\ shown' = design.board
    /\ UNCHANGED <<design, loose, astray>>

SolvePins ==
    /\ design.board \in Boards
    /\ Note({}, astray)
    /\ LET Solved(c) == [c EXCEPT !.target = SolvedTarget(design, c)]
       IN  Edit([design EXCEPT !.connections =
                    [i \in DOMAIN design.connections |-> Solved(design.connections[i])]])

RailNames == {Rail3V3, RailGND} \cup {r.name : r \in UNION {ToSet(Rails[b]) : b \in Boards}}

\* What the agent passes to set_connection: any id for any pin.
ToolTargets(kind) ==
    [kind : {kind},
     at : CASE kind = "bus"  -> BusIds \cup IdsOf(design.buses)
            [] kind = "gpio" -> {None, Pin}
            [] kind = "rail" -> RailNames
            [] OTHER         -> Hints \cup IdsOf(design.components)]

\* What the form offers: any rail of the board it shows, any bus, any expander,
\* any component for any pin, and the empty field when there is none.
FormTargets(kind, owner) ==
    LET offered ==
            CASE kind = "bus"  -> IdsOf(design.buses)
              [] kind = "gpio" -> {Pin : b \in {shown} \ {None}}
              [] kind = "rail" ->
                    LET names == {r.name : r \in ToSet(RailsOf(shown))}
                    IN  IF names = {} THEN {RailGND} ELSE names
              [] kind = "expander_pin" ->
                    {e.id : e \in {x \in ToSet(design.components) : x.lib \in ExpanderLibs}}
              \* the list leaves the owner out, the first choice does not
              [] kind = "component" ->
                    (IdsOf(design.components) \ {owner}) \cup {First(design.components, LAMBDA e : TRUE, IdOf)}
    IN  [kind : {kind}, at : IF offered = {} THEN {None} ELSE offered]

Next ==
    \/ \E lib \in Libraries, hint \in Hints \cup {None} : AddComponentTool(lib, hint)
    \/ \E lib \in Libraries : AddComponentStudio(lib)
    \/ \E id \in IdsOf(design.components) : RemoveComponent(id)
    \/ \E owner \in Hints \cup IdsOf(design.components), pick \in Picks :
          \E t \in ToolTargets(pick[2]) : SetConnection(owner, pick[1], t)
    \/ \E i \in DOMAIN design.connections, pick \in Picks :
          /\ design.connections[i].role = pick[1]
          /\ \E t \in FormTargets(pick[2], design.connections[i].owner) :
                UpdateConnectionTarget(i, t)
    \/ \E type \in UNION {NeededBusTypes(lib) : lib \in Libraries} :
          AddBus(type) \/ \E id \in BusIds : AddBusTool(id, type)
    \/ \E id \in IdsOf(design.buses) :
          UpdateBus(id) \/ RemoveBus(id) \/ \E new \in BusIds : RenameBus(id, new)
    \/ \E b \in Boards : SetBoard(b)
    \/ BoardArrives
    \/ SolvePins

Spec == Init /\ [][Next]_vars

-----------------------------------------------------------------------------
PinRoles  == {p.role : p \in UNION {ToSet(LibPins[lib]) : lib \in Libraries}}

Component  == [id : ComponentIds, lib : Libraries]
Bus        == [id : AllBusIds, type : BusTypes, pins : Boards \cup {None}]
Target     == [kind : TargetKinds,
               at : {None, Pin} \cup RailNames \cup AllBusIds \cup ComponentIds]
Connection == [owner : ComponentIds, role : PinRoles \cup {p[1] : p \in Picks}, target : Target]

\* The document has the shape of schema/design.schema.json.
TypeOK ==
    /\ design \in [board : BoardNames \cup Boards, components : Seq(Component),
                   buses : Seq(Bus), connections : Seq(Connection)]
    /\ shown \in Boards \cup {None}
    /\ astray \subseteq ComponentIds

Distinct(s) == \A j, k \in DOMAIN s : s[j].id = s[k].id => j = k

\* No two components and no two buses share an id, whoever added, renamed and
\* removed what in between: every lookup of the code takes the first match.
UniqueIds == Distinct(design.components) /\ Distinct(design.buses)

\* The connections that a component owns are those of its pins, in their order.
OwnedAt(id) == {i \in DOMAIN design.connections : design.connections[i].owner = id}

WiredAs(id, pins) ==
    \E at \in [DOMAIN pins -> OwnedAt(id)] :
        /\ \A i \in OwnedAt(id) : \E k \in DOMAIN pins : at[k] = i
        /\ \A j, k \in DOMAIN pins : j < k => at[j] < at[k]
        /\ \A k \in DOMAIN pins : design.connections[at[k]].role = pins[k].role

\* A component has one connection per pin of its library entry, in that
\* order, and no connection belongs to a component that is gone; only
\* set_connection of the agent makes up others, for the owners in astray.
FullyWired ==
    /\ \A e \in ToSet(design.components) : e.id \in astray \/ WiredAs(e.id, LibPins[e.lib])
    /\ \A c \in ToSet(design.connections) :
          c.owner \in astray \cup IdsOf(design.components)

\* What a connection names exists and is of the sort its pin needs, unless
\* it was removed under the connection or named by somebody who was wrong.
\* A name handed out by a default, by the solver or by a rename is right.
ReferencesAreSound ==
    \A c \in ToSet(design.connections) : Fits(design, c) \/ c.target.at \in loose

BusOf(d, c) == IF c.target.kind = "bus"
               THEN SelectInSeq(d.buses, LAMBDA b : b.id = c.target.at) ELSE 0

\* Adding, patching and renaming buses leaves every connection on the bus
\* it was on: a new bus takes up no id in use, and a rename is followed.
BindingsSurvive ==
    [][ /\ design'.buses # design.buses
        /\ Len(design'.buses) >= Len(design.buses)
        => \A i \in DOMAIN design.connections :
              BusOf(design, design.connections[i]) # 0 =>
                 BusOf(design', design'.connections[i]) = BusOf(design, design.connections[i])
      ]_vars

\* What an edit of the document made of it: its components, its buses without
\* the names of the new ones, which are i2c_1 on one side and i2c0 on the
\* other, and the connections that are new.
Added(d) ==
    LET Reach(c) == <<c.owner, c.role, c.target.kind,
                      IF c.target.kind = "bus" THEN BusOf(d, c) ELSE c.target.at>>
    IN  [components |-> d.components,
         buses |-> {<<b.type, b.pins>> : b \in ToSet(d.buses)},
         connections |-> {<<i, Reach(d.connections[i])>> :
                             i \in Len(design.connections) + 1 .. Len(d.connections)}]

\* Adding a component by the tool and in the browser is the same edit while
\* the browser shows the board of the design.
SeedersAgree ==
    design.board \in Boards /\ shown = design.board =>
        \A lib \in Libraries :
            Added(AddWithConnections(design, lib, None)) = Added(AddComponentUi(design, lib, shown))
===============================================================================
