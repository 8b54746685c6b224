------------------------------ MODULE PinSolver ------------------------------
(***************************************************************************)
(* wirestudio/csp/pin_solver.py: solve_pins fills the unbound connections  *)
(* of a design.  The solver is one sequential pass over the connections    *)
(* for the locks of the user and a second one that picks a board pin, a    *)
(* bus, an expander slot or a parent component for whatever is left.  One  *)
(* action is one iteration of one of those loops.  The designs and the     *)
(* library the solver may be called with are the initial states.           *)
(*                                                                         *)
(* A board pin is a natural number, its rank in the name order that the    *)
(* solver sorts by; a component and a bus are numbered in design order.    *)
(***************************************************************************)
EXTENDS Naturals, FiniteSets

CONSTANTS
    N,              \* number of connections of the design
    None,           \* the empty field of an unbound target
    Caps,           \* board.gpio_capabilities: [board pins -> sets of tags]
    ClassicEsp32,   \* board.chip_variant = "esp32"
    LibraryOf,      \* component -> library id
    PinKind,        \* library id -> (pin role -> pin kind), known libraries only
    HubOf,          \* <<library id, role>> -> parent_library_id, where there is one
    ExpanderSize,   \* library id of an io_expander -> number of its pins
    BusType,        \* the buses of the design: bus -> type
    OverBudget,     \* the peak current exceeds power.budget_ma
    Boards,         \* what board.library_id may be: missing, unknown or known
    Designs,        \* the inputs: the components of a design, and the slot and
                    \* the target of each connection
    LockMaps        \* what the locked_pins maps may be: slot -> pin name

BoardPins == DOMAIN Caps
Libraries == DOMAIN PinKind
Buses     == DOMAIN BusType
Conns     == 1 .. N

\* What a connection can belong to, and the pins of an expander.
Slots      == {d.wires[i].slot : d \in Designs, i \in Conns}
SlotsOf(e) == {e} \X (0 .. ExpanderSize[LibraryOf[e]] - 1)

\* A target is unbound while the field its kind is about is empty.
Targets ==
    [kind : {"expander_pin"}, at : {None} \cup (Nat \X Nat)]
    \cup [kind : {"gpio", "bus", "component"}, at : {None} \cup Nat]
    \cup [kind : {"rail"}, at : {None}]

ASSUME SizeAssumption == N \in Nat
ASSUME LibraryAssumption ==
    /\ BoardPins \subseteq Nat
    /\ Buses \subseteq Nat
    /\ DOMAIN LibraryOf \subseteq Nat
    /\ None \notin Nat
    /\ None \notin Nat \X Nat
    /\ \A lib \in DOMAIN ExpanderSize : ExpanderSize[lib] \in Nat
ASSUME DesignAssumption ==
    /\ \A d \in Designs :
          /\ d.components \subseteq DOMAIN LibraryOf
          /\ \A i \in Conns : d.wires[i].target \in Targets
    /\ \A m \in LockMaps : \A s \in DOMAIN m : m[s] \in Nat

VARIABLES
    board,      \* design.board as the library resolves it
    components, \* the components of the design
    slot,       \* connection -> the component and role it belongs to
    lock,       \* component.locked_pins, flattened over the components
    target,     \* connection -> its target, rewritten by the solver
    orig,       \* the targets the solver was called with
    used,       \* used_gpios
    usedExp,    \* used_expander_pins
    assigned,   \* SolveResult.assigned
    unresolved, \* SolveResult.unresolved
    warnings,   \* SolveResult.warnings
    phase,      \* where solve_pins is
    idx,        \* the connection the running loop is at
    round       \* how many times the solver was called on its own result

result == <<assigned, unresolved, warnings>>
design == <<board, components, slot, lock, orig, round>>
vars   == <<design, target, used, usedExp, result, phase, idx>>

-----------------------------------------------------------------------------
(* Capabilities and preference of board pins.                              *)

Special == {"boot", "strap", "builtin_led", "boot_high", "boot_low",
            "serial_tx", "serial_rx"}

RequiredCaps(kind) == IF kind = "analog_in" THEN {"adc"} ELSE {"gpio"}

Candidates(kind) ==
    {p \in BoardPins :
        /\ RequiredCaps(kind) \subseteq Caps[p]
        /\ kind \in {"digital_out", "i2s_dout"} => "input_only" \notin Caps[p]}

\* Mutant: the boot_high / boot_low and serial tags added later are forgotten.
MutLegacySpecial(p) == IF Caps[p] \cap {"boot", "strap", "builtin_led"} # {} THEN 1 ELSE 0

SpecialRank(p) == IF Caps[p] \cap Special # {} THEN 1 ELSE 0

Adc2Penalty(kind, p) ==
    IF kind = "analog_in" /\ ClassicEsp32 /\ "adc2" \in Caps[p] THEN 1 ELSE 0

\* Candidate p sorts before candidate q for a pin of this kind.
Before(kind, p, q) ==
    \/ SpecialRank(p) < SpecialRank(q)
    \/ /\ SpecialRank(p) = SpecialRank(q)
       /\ \/ Adc2Penalty(kind, p) < Adc2Penalty(kind, q)
          \/ /\ Adc2Penalty(kind, p) = Adc2Penalty(kind, q)
             /\ p < q

BusTypeFor(kind) ==
    CASE kind \in {"i2c_sda", "i2c_scl"}               -> "i2c"
      [] kind \in {"spi_clk", "spi_miso", "spi_mosi"}  -> "spi"
      [] kind \in {"i2s_lrclk", "i2s_bclk"}            -> "i2s"
      [] kind \in {"uart_rx", "uart_tx"}               -> "uart"
      [] kind = "onewire_data"                         -> "1wire"
      [] OTHER                                         -> "none"

-----------------------------------------------------------------------------
(* Reading the design.                                                     *)

IsUnbound(t) == t.kind # "rail" /\ t.at = None
Unbound(k)   == [kind |-> k, at |-> None]

\* Mutant: bound expander slots are not collected.
MutUsedNoExpander == {}

UsedGpioPins     == {target[i].at : i \in {j \in Conns : target[j].kind = "gpio"}} \ {None}
UsedExpanderPins ==
    {target[i].at : i \in {j \in Conns : target[j].kind = "expander_pin"}} \ {None}

\* Why a connection cannot be resolved against the library, or "ok".
Lookup(s) ==
    IF s.comp \notin components THEN "unknown_component"
    ELSE IF LibraryOf[s.comp] \notin Libraries THEN "unknown_library_component"
    ELSE IF s.role \notin DOMAIN PinKind[LibraryOf[s.comp]] THEN "unknown_pin_role"
    ELSE "ok"

KindOf(i)   == PinKind[LibraryOf[slot[i].comp]][slot[i].role]
IsLocked(i) == slot[i].comp \in components /\ slot[i] \in DOMAIN lock

-----------------------------------------------------------------------------
Init ==
    /\ board \in Boards
    /\ lock \in LockMaps
    /\ \E d \in Designs :
        /\ components = d.components
        /\ slot = [i \in Conns |-> d.wires[i].slot]
        /\ target = [i \in Conns |-> d.wires[i].target]
    /\ orig = target
    /\ used = {} /\ usedExp = {}
    /\ assigned = {} /\ unresolved = {} /\ warnings = {}
    /\ phase = "start" /\ idx = 1 /\ round = 1

\* The early returns for a design without a board or with an unknown one.
NoBoard ==
    /\ phase = "start" /\ board # "known"
    /\ warnings' = {<<IF board = "missing" THEN "no_board" ELSE "unknown_board", None>>}
    /\ phase' = "done"
    /\ UNCHANGED <<design, target, used, usedExp, assigned, unresolved, idx>>

\* What the bound targets already use, and the locks of roles that the
\* library component does not have.
Start ==
    /\ phase = "start" /\ board = "known"
    /\ used' = UsedGpioPins
    /\ usedExp' = UsedExpanderPins
    /\ unresolved' = {<<"locked_pin_unknown_role", s>> :
                         s \in {t \in DOMAIN lock : Lookup(t) = "unknown_pin_role"}}
    /\ phase' = "locks"
    /\ UNCHANGED <<design, target, assigned, warnings, idx>>

-----------------------------------------------------------------------------
(* The first loop: _apply_locked_pins.                                     *)

AtLock(i) == phase = "locks" /\ i = idx /\ idx' = i + 1

Flag(i, code) == unresolved' = unresolved \cup {<<code, i>>}

NotLocked(i) ==
    /\ AtLock(i)
    /\ ~IsLocked(i)
    /\ UNCHANGED <<design, target, used, usedExp, result, phase>>

\* Mutant: an ignored lock reserves its pin.
MutWrongKindReserves(i) ==
    /\ AtLock(i)
    /\ IsLocked(i) /\ target[i].kind # "gpio"
    /\ Flag(i, "locked_pin_wrong_kind")
    /\ used' = used \cup {lock[slot[i]]}
    /\ UNCHANGED <<design, target, usedExp, assigned, warnings, phase>>

LockWrongKind(i) ==
    /\ AtLock(i)
    /\ IsLocked(i) /\ target[i].kind # "gpio"
    /\ Flag(i, "locked_pin_wrong_kind")
    /\ UNCHANGED <<design, target, used, usedExp, assigned, warnings, phase>>

LockAligned(i) ==
    /\ AtLock(i)
    /\ IsLocked(i) /\ target[i] = [kind |-> "gpio", at |-> lock[slot[i]]]
    /\ used' = used \cup {lock[slot[i]]}
    /\ UNCHANGED <<design, target, usedExp, result, phase>>

\* Mutants: the locked pin is not reserved; the disagreeing target is cleared
\* for the second loop to fill.
MutMismatchNotReserved(i) ==
    /\ AtLock(i)
    /\ IsLocked(i) /\ target[i].kind = "gpio"
    /\ target[i].at \notin {None, lock[slot[i]]}
    /\ Flag(i, "locked_pin_mismatch")
    /\ UNCHANGED <<design, target, used, usedExp, assigned, warnings, phase>>

MutMismatchClears(i) ==
    /\ AtLock(i)
    /\ IsLocked(i) /\ target[i].kind = "gpio"
    /\ target[i].at \notin {None, lock[slot[i]]}
    /\ target' = [target EXCEPT ![i] = Unbound("gpio")]
    /\ used' = used \cup {lock[slot[i]]}
    /\ UNCHANGED <<design, usedExp, result, phase>>

\* A bound pin is not rewritten; the locked pin is reserved all the same.
LockMismatch(i) ==
    /\ AtLock(i)
    /\ IsLocked(i) /\ target[i].kind = "gpio"
    /\ target[i].at \notin {None, lock[slot[i]]}
    /\ Flag(i, "locked_pin_mismatch")
    /\ used' = used \cup {lock[slot[i]]}
    /\ UNCHANGED <<design, target, usedExp, assigned, warnings, phase>>

\* Mutant: the entry of the diff keeps a reference to the target, not a copy.
MutAssignAliased(i, new) ==
    /\ target' = [target EXCEPT ![i] = new]
    /\ assigned' = assigned \cup {[conn |-> i, old |-> new, new |-> new]}

Assign(i, new) ==
    /\ target' = [target EXCEPT ![i] = new]
    /\ assigned' = assigned \cup {[conn |-> i, old |-> target[i], new |-> new]}

LockFill(i) ==
    /\ AtLock(i)
    /\ IsLocked(i) /\ target[i] = Unbound("gpio")
    /\ Assign(i, [kind |-> "gpio", at |-> lock[slot[i]]])
    /\ used' = used \cup {lock[slot[i]]}
    /\ UNCHANGED <<design, usedExp, unresolved, warnings, phase>>

LocksDone ==
    /\ phase = "locks" /\ idx = N + 1
    /\ phase' = "solve" /\ idx' = 1
    /\ UNCHANGED <<design, target, used, usedExp, result>>

-----------------------------------------------------------------------------
(* The second loop: the body of solve_pins.                                *)

AtSolve(i) == phase = "solve" /\ i = idx /\ idx' = i + 1

\* The connection is unbound, of this kind, and known to the library.
Solvable(i, kind) ==
    /\ AtSolve(i)
    /\ target[i] = Unbound(kind)
    /\ Lookup(slot[i]) = "ok"

Unsolved(i, code) ==
    /\ Flag(i, code)
    /\ UNCHANGED <<design, target, used, usedExp, assigned, warnings, phase>>

AlreadyBound(i) ==
    /\ AtSolve(i)
    /\ ~IsUnbound(target[i])
    /\ UNCHANGED <<design, target, used, usedExp, result, phase>>

Unresolvable(i) ==
    /\ AtSolve(i)
    /\ IsUnbound(target[i]) /\ Lookup(slot[i]) # "ok"
    /\ Unsolved(i, Lookup(slot[i]))

\* Mutant: candidates already handed out are offered again.
MutAllCandidates(i) == Candidates(KindOf(i))

FreeCandidates(i) == Candidates(KindOf(i)) \ used

SolveGpio(i) ==
    /\ Solvable(i, "gpio")
    /\ \E p \in FreeCandidates(i) :
        /\ \A q \in FreeCandidates(i) \ {p} : Before(KindOf(i), p, q)
        /\ Assign(i, [kind |-> "gpio", at |-> p])
        /\ used' = used \cup {p}
    /\ UNCHANGED <<design, usedExp, unresolved, warnings, phase>>

NoGpioCandidate(i) ==
    /\ Solvable(i, "gpio")
    /\ FreeCandidates(i) = {}
    /\ Unsolved(i, "no_gpio_candidate")

BusOptions(i) == {b \in Buses : BusType[b] = BusTypeFor(KindOf(i))}

SolveBus(i) ==
    /\ Solvable(i, "bus")
    /\ \E b \in BusOptions(i) :
        /\ \A c \in BusOptions(i) : b <= c
        /\ Assign(i, [kind |-> "bus", at |-> b])
    /\ UNCHANGED <<design, used, usedExp, unresolved, warnings, phase>>

NoBus(i) ==
    /\ Solvable(i, "bus")
    /\ BusOptions(i) = {}
    /\ Unsolved(i, IF BusTypeFor(KindOf(i)) = "none" THEN "bus_pin_no_type"
                                                   ELSE "no_matching_bus")

Expanders == {c \in components : LibraryOf[c] \in DOMAIN ExpanderSize}

FreeExpanderPins == (UNION {SlotsOf(e) : e \in Expanders}) \ usedExp

SolveExpanderPin(i) ==
    /\ Solvable(i, "expander_pin")
    /\ \E s \in FreeExpanderPins :
        /\ \A t \in FreeExpanderPins : s[1] < t[1] \/ (s[1] = t[1] /\ s[2] <= t[2])
        /\ Assign(i, [kind |-> "expander_pin", at |-> s])
        /\ usedExp' = usedExp \cup {s}
    /\ UNCHANGED <<design, used, unresolved, warnings, phase>>

NoExpanderPin(i) ==
    /\ Solvable(i, "expander_pin")
    /\ FreeExpanderPins = {}
    /\ Unsolved(i, IF Expanders = {} THEN "no_expander" ELSE "no_expander_pin")

Parents(i) ==
    {c \in components \ {slot[i].comp} :
        LET hint == <<LibraryOf[slot[i].comp], slot[i].role>>
        IN  hint \in DOMAIN HubOf /\ LibraryOf[c] = HubOf[hint]}

SolveParent(i) ==
    /\ Solvable(i, "component")
    /\ \E c \in Parents(i) :
        /\ \A d \in Parents(i) : c <= d
        /\ Assign(i, [kind |-> "component", at |-> c])
    /\ UNCHANGED <<design, used, usedExp, unresolved, warnings, phase>>

\* Mutant: a missing hub is skipped without a word.
MutNoParentSilent(i) ==
    /\ Solvable(i, "component")
    /\ Parents(i) = {}
    /\ UNCHANGED <<design, target, used, usedExp, result, phase>>

NoParent(i) ==
    /\ Solvable(i, "component")
    /\ Parents(i) = {}
    /\ Unsolved(i, "no_parent_component")

\* Two or more connections hold the same pin: _static_warnings.
Shared(kind) ==
    {target[i].at : i \in {j \in Conns :
        /\ target[j].kind = kind /\ target[j].at # None
        /\ \E k \in Conns \ {j} : target[k] = target[j]}}

Finish ==
    /\ phase = "solve" /\ idx = N + 1
    /\ warnings' = {<<"gpio_conflict", p>> : p \in Shared("gpio")}
                   \cup {<<"expander_pin_conflict", s>> : s \in Shared("expander_pin")}
                   \cup {<<"current_budget", None>> : b \in {TRUE} \cap {OverBudget}}
    /\ phase' = "done"
    /\ UNCHANGED <<design, target, used, usedExp, assigned, unresolved, idx>>

\* The user presses Solve pins again on the design the solver returned.
SolveAgain ==
    /\ phase = "done" /\ board = "known" /\ round = 1
    /\ orig' = target
    /\ used' = {} /\ usedExp' = {}
    /\ assigned' = {} /\ unresolved' = {} /\ warnings' = {}
    /\ phase' = "start" /\ idx' = 1 /\ round' = 2
    /\ UNCHANGED <<board, components, slot, lock, target>>

ApplyLock(i) ==
    NotLocked(i) \/ LockWrongKind(i) \/ LockAligned(i) \/ LockMismatch(i) \/ LockFill(i)

SolveStep(i) ==
    \/ AlreadyBound(i) \/ Unresolvable(i)
    \/ SolveGpio(i) \/ NoGpioCandidate(i)
    \/ SolveBus(i) \/ NoBus(i)
    \/ SolveExpanderPin(i) \/ NoExpanderPin(i)
    \/ SolveParent(i) \/ NoParent(i)

Next ==
    \/ NoBoard \/ Start \/ LocksDone \/ Finish \/ SolveAgain
    \/ \E i \in Conns : ApplyLock(i) \/ SolveStep(i)

Spec == Init /\ [][Next]_vars

-----------------------------------------------------------------------------
(* Properties.                                                             *)

\* The solver itself picked the target; a gpio lock is the choice of the user.
SolverChose(i) ==
    /\ IsUnbound(orig[i]) /\ ~IsUnbound(target[i])
    /\ ~(target[i].kind = "gpio" /\ IsLocked(i))

LockedPins == {lock[slot[i]] : i \in {j \in Conns : target[j].kind = "gpio" /\ IsLocked(j)}}

\* What a connection may not be given: a pin a gpio connection holds, and
\* the pin a lock asks for even where the connection is bound elsewhere.
Held == UsedGpioPins \cup LockedPins

\* The variables have the types the code gives them.
TypeOK ==
    /\ board \in Boards
    /\ lock \in LockMaps
    /\ components \subseteq DOMAIN LibraryOf
    /\ slot \in [Conns -> Slots]
    /\ target \in [Conns -> Targets]
    /\ orig \in [Conns -> Targets]
    /\ used \subseteq Nat
    /\ usedExp \subseteq Nat \X Nat
    /\ assigned \subseteq [conn : Conns, old : Targets, new : Targets]
    /\ phase \in {"start", "locks", "solve", "done"}
    /\ idx \in 1 .. N + 1
    /\ round \in {1, 2}

\* A pin or an expander slot that the solver picks is never one that another
\* connection of the returned design has, whichever of the two came first:
\* the conflicts solve_pins warns about are all between choices of the user.
NoSolverCollision ==
    \A i, j \in Conns :
        /\ i # j /\ SolverChose(i)
        /\ target[i].kind \in {"gpio", "expander_pin"}
        => target[j] # target[i]

\* A pin that the user locked for one gpio connection is not handed to
\* another one, also when the lock disagrees with the bound pin (the comment
\* at the reservation in _apply_locked_pins).
LockedPinsReserved ==
    \A i, j \in Conns :
        /\ i # j /\ SolverChose(i)
        /\ target[i].kind = "gpio" /\ target[j].kind = "gpio" /\ IsLocked(j)
        => target[i].at # lock[slot[j]]

\* Why those two hold.  While the loops run, used_gpios and used_expander_pins
\* cover what the connections hold and the locks already looked at ...
UsedCovers ==
    phase \in {"locks", "solve"} =>
        UsedGpioPins \subseteq used /\ UsedExpanderPins \subseteq usedExp

LocksCovered ==
    \A i \in Conns :
        /\ target[i].kind = "gpio" /\ IsLocked(i)
        /\ phase = "solve" \/ (phase = "locks" /\ i < idx)
        => lock[slot[i]] \in used

\* ... the solver chooses nothing before it has seen every lock ...
OnlyLocksSoFar ==
    phase \in {"start", "locks"} =>
        \A i \in Conns :
            target[i] = orig[i] \/ (target[i].kind = "gpio" /\ IsLocked(i))

\* ... and a connection that is still unbound has not been touched.
UnboundIsUntouched == \A i \in Conns : IsUnbound(target[i]) => target[i] = orig[i]

\* What the user bound stays as it was through both loops, locks included.
BoundTargetsKept ==
    \A i \in Conns :
        /\ target[i].kind = orig[i].kind
        /\ ~IsUnbound(orig[i]) => target[i] = orig[i]

\* A gpio connection with a lock leaves the first loop bound.
LocksFilled ==
    \A i \in Conns :
        /\ target[i].kind = "gpio" /\ IsLocked(i)
        /\ phase = "solve" \/ (phase = "locks" /\ i < idx)
        => target[i].at # None

\* Both loops start at the first connection.
StartsAtOne == phase = "start" => idx = 1

\* The inductive invariant of the solver: a slot is free for the second loop
\* only if no connection and no lock of the whole design holds it.
SafeChoices ==
    /\ TypeOK /\ StartsAtOne
    /\ UsedCovers /\ LocksCovered /\ OnlyLocksSoFar /\ UnboundIsUntouched
    /\ NoSolverCollision /\ LockedPinsReserved /\ BoundTargetsKept

\* SolveResult.assigned, which the banner of the web UI lists, is exactly
\* the difference between the design passed in and the design returned: each
\* connection that changed, with what it was and what it is.
DiffIsExact ==
    assigned = {[conn |-> i, old |-> orig[i], new |-> target[i]] :
                   i \in {j \in Conns : target[j] # orig[j]}}

\* `unresolved` gives a reason for exactly the connections left unbound (the
\* other entries are about locks).
GapCodes ==
    {"unknown_component", "unknown_library_component", "unknown_pin_role",
     "no_gpio_candidate", "bus_pin_no_type", "no_matching_bus", "no_expander",
     "no_expander_pin", "no_parent_component"}

Explained(i) == \E c \in GapCodes : <<c, i>> \in unresolved

GapsExplained ==
    phase = "done" /\ board = "known" =>
        \A i \in Conns : IsUnbound(target[i]) <=> Explained(i)

\* Why it holds: a gap is explained by the iteration that leaves it.
GapsExplainedSoFar ==
    /\ phase \in {"start", "locks", "solve"} =>
           \A i \in Conns : Explained(i) => phase = "solve" /\ i < idx
    /\ phase = "solve" =>
           \A i \in Conns : i < idx => (IsUnbound(target[i]) <=> Explained(i))

\* The greedy choice is never worse than it has to be against the finished
\* design: a candidate the solver likes better than the one it picked, and
\* every candidate of a connection it gave up on, is held by a connection
\* or a lock at the end.  No pin is lost to the bookkeeping of used_gpios.
GreedyChoiceJustified ==
    phase = "done" /\ board = "known" =>
        \A i \in Conns : orig[i] = Unbound("gpio") =>
            /\ SolverChose(i) =>
                   \A q \in Candidates(KindOf(i)) :
                       Before(KindOf(i), q, target[i].at) => q \in Held
            /\ <<"no_gpio_candidate", i>> \in unresolved =>
                   Candidates(KindOf(i)) \subseteq Held

\* The abstract assigner, with the locks as one wish per connection.
Wish == [i \in Conns |-> IF IsLocked(i) THEN lock[slot[i]] ELSE None]

Choices ==
    [kind : {"gpio"}, at : BoardPins]
    \cup [kind : {"bus"}, at : Buses]
    \cup [kind : {"component"}, at : DOMAIN LibraryOf]
    \cup [kind : {"expander_pin"},
          at : UNION {SlotsOf(e) : e \in {c \in DOMAIN LibraryOf :
                                            LibraryOf[c] \in DOMAIN ExpanderSize}}]

Assigner == INSTANCE PinAssign WITH wish <- Wish

\* The two loops, with their sets of used pins and the order of their
\* iterations, do what the assigner does, over both rounds: every step fills
\* one empty target that nobody holds or wishes for, or changes no target.
SolverIsAnAssigner == Assigner!Spec

\* Solving a solved design changes nothing
\* (tests/test_pin_solver.py, test_already_solved_design_makes_no_changes).
SolveIsIdempotent == round = 2 => assigned = {}
=============================================================================
