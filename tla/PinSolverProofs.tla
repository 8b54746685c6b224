--------------------------- MODULE PinSolverProofs ---------------------------
(***************************************************************************)
(* Proofs about PinSolver and PinCompat, for every design, board and       *)
(* library: the types, that the solver's own choices never collide with    *)
(* anything and are the best there were, and what the checker makes of     *)
(* them.                                                                   *)
(***************************************************************************)
EXTENDS PinCompat, TLAPS

USE SizeAssumption DEF Conns

-----------------------------------------------------------------------------
(* Facts about targets and about the operators of the solver.              *)

LEMMA TargetFields ==
    ASSUME NEW t \in Targets
    PROVE  /\ t.kind \in {"gpio", "bus", "component", "expander_pin", "rail"}
           /\ t = [kind |-> t.kind, at |-> t.at]
           /\ t.kind = "gpio" => t.at \in {None} \cup Nat
           /\ t.kind = "expander_pin" => t.at \in {None} \cup (Nat \X Nat)
  BY DEF Targets

LEMMA TargetIntro ==
    /\ \A p \in Nat : /\ [kind |-> "gpio", at |-> p] \in Targets
                      /\ [kind |-> "bus", at |-> p] \in Targets
                      /\ [kind |-> "component", at |-> p] \in Targets
    /\ \A s \in Nat \X Nat : [kind |-> "expander_pin", at |-> s] \in Targets
  BY DEF Targets

LEMMA LockIsPin ==
    ASSUME TypeOK, NEW i \in Conns, IsLocked(i)
    PROVE  lock[slot[i]] \in Nat
  BY DesignAssumption DEF TypeOK, IsLocked

LEMMA UsedPinTypes ==
    ASSUME TypeOK
    PROVE  UsedGpioPins \subseteq Nat /\ UsedExpanderPins \subseteq Nat \X Nat
  BY TargetFields DEF TypeOK, UsedGpioPins, UsedExpanderPins

LEMMA CandidatesArePins ==
    ASSUME NEW k PROVE Candidates(k) \subseteq Nat
  BY LibraryAssumption DEF Candidates

LEMMA ExpanderSlotTypes ==
    ASSUME TypeOK
    PROVE  \A s \in FreeExpanderPins : s \in Nat \X Nat
<1>1. ASSUME NEW e \in Expanders PROVE SlotsOf(e) \subseteq Nat \X Nat
  <2>1. e \in Nat /\ ExpanderSize[LibraryOf[e]] \in Nat
    BY LibraryAssumption DEF Expanders, TypeOK
  <2>2. QED
    BY <2>1 DEF SlotsOf
<1>2. QED
  BY <1>1 DEF FreeExpanderPins

-----------------------------------------------------------------------------
(* Type correctness.                                                       *)

LEMMA InitTypeOK == Init => TypeOK
<1> SUFFICES ASSUME Init PROVE TypeOK
  OBVIOUS
<1>1. PICK d \in Designs :
        /\ components = d.components
        /\ slot = [i \in Conns |-> d.wires[i].slot]
        /\ target = [i \in Conns |-> d.wires[i].target]
  BY DEF Init
<1>2. \A i \in Conns : d.wires[i].slot \in Slots
  BY DEF Slots
<1>3. slot \in [Conns -> Slots] /\ components \subseteq DOMAIN LibraryOf
  BY <1>1, <1>2, DesignAssumption
<1>4. target \in [Conns -> Targets]
  BY <1>1, DesignAssumption
<1>5. QED
  BY <1>3, <1>4 DEF Init, TypeOK

\* A connection is given a target, and the diff one entry.
LEMMA AssignType ==
    ASSUME TypeOK, NEW i \in Conns, NEW t \in Targets, Assign(i, t)
    PROVE  /\ target' \in [Conns -> Targets]
           /\ assigned' \subseteq [conn : Conns, old : Targets, new : Targets]
  BY DEF TypeOK, Assign

LEMMA LockStepTypeOK ==
    ASSUME TypeOK, NEW i \in Conns, ApplyLock(i)
    PROVE  TypeOK'
<1>1. idx' \in 1 .. N + 1
  BY DEF TypeOK, ApplyLock, NotLocked, LockWrongKind, LockAligned, LockMismatch, LockFill, AtLock
<1>2. CASE NotLocked(i) \/ LockWrongKind(i)
  BY <1>1, <1>2 DEF TypeOK, NotLocked, LockWrongKind, AtLock, Flag, design, result
<1>3. CASE LockAligned(i) \/ LockMismatch(i)
  <2>1. lock[slot[i]] \in Nat
    BY <1>3, LockIsPin DEF LockAligned, LockMismatch
  <2>2. QED
    BY <1>1, <1>3, <2>1 DEF TypeOK, LockAligned, LockMismatch, AtLock, Flag, design, result
<1>4. CASE LockFill(i)
  <2>1. lock[slot[i]] \in Nat
    BY <1>4, LockIsPin DEF LockFill
  <2>2. /\ target' \in [Conns -> Targets]
        /\ assigned' \subseteq [conn : Conns, old : Targets, new : Targets]
    BY <1>4, <2>1, AssignType, TargetIntro DEF LockFill
  <2>3. QED
    BY <1>1, <1>4, <2>1, <2>2 DEF TypeOK, LockFill, AtLock, design
<1>5. QED
  BY <1>2, <1>3, <1>4 DEF ApplyLock

LEMMA SolveStepTypeOK ==
    ASSUME TypeOK, NEW i \in Conns, SolveStep(i)
    PROVE  TypeOK'
<1>1. idx' \in 1 .. N + 1
  BY DEF TypeOK, SolveStep, AlreadyBound, Unresolvable, SolveGpio, NoGpioCandidate, SolveBus,
         NoBus, SolveExpanderPin, NoExpanderPin, SolveParent, NoParent, Solvable, AtSolve
<1>2. CASE \/ AlreadyBound(i) \/ Unresolvable(i) \/ NoGpioCandidate(i) \/ NoBus(i)
           \/ NoExpanderPin(i) \/ NoParent(i)
  BY <1>1, <1>2 DEF TypeOK, AlreadyBound, Unresolvable, NoGpioCandidate, NoBus, NoExpanderPin,
         NoParent, Unsolved, Flag, Solvable, AtSolve, design, result
<1>3. CASE SolveGpio(i)
  <2>1. PICK p \in FreeCandidates(i) :
          /\ Assign(i, [kind |-> "gpio", at |-> p])
          /\ used' = used \cup {p}
    BY <1>3 DEF SolveGpio
  <2>2. p \in Nat
    BY CandidatesArePins DEF FreeCandidates
  <2>3. /\ target' \in [Conns -> Targets]
        /\ assigned' \subseteq [conn : Conns, old : Targets, new : Targets]
    BY <2>1, <2>2, AssignType, TargetIntro
  <2>4. QED
    BY <1>1, <1>3, <2>1, <2>2, <2>3 DEF TypeOK, SolveGpio, Solvable, AtSolve, design
<1>4. CASE SolveBus(i) \/ SolveParent(i)
  <2>1. \E t \in Targets : Assign(i, t)
    BY <1>4, TargetIntro, LibraryAssumption DEF SolveBus, SolveParent, BusOptions, Parents, TypeOK
  <2>2. /\ target' \in [Conns -> Targets]
        /\ assigned' \subseteq [conn : Conns, old : Targets, new : Targets]
    BY <2>1, AssignType
  <2>3. QED
    BY <1>1, <1>4, <2>2 DEF TypeOK, SolveBus, SolveParent, Solvable, AtSolve, design
<1>5. CASE SolveExpanderPin(i)
  <2>1. PICK s \in FreeExpanderPins :
          /\ Assign(i, [kind |-> "expander_pin", at |-> s])
          /\ usedExp' = usedExp \cup {s}
    BY <1>5 DEF SolveExpanderPin
  <2>2. s \in Nat \X Nat
    BY ExpanderSlotTypes
  <2>3. /\ target' \in [Conns -> Targets]
        /\ assigned' \subseteq [conn : Conns, old : Targets, new : Targets]
    BY <2>1, <2>2, AssignType, TargetIntro
  <2>4. QED
    BY <1>1, <1>5, <2>1, <2>2, <2>3 DEF TypeOK, SolveExpanderPin, Solvable, AtSolve, design
<1>6. QED
  BY <1>2, <1>3, <1>4, <1>5 DEF SolveStep

LEMMA NextTypeOK == TypeOK /\ [Next]_vars => TypeOK'
<1> SUFFICES ASSUME TypeOK, [Next]_vars PROVE TypeOK'
  OBVIOUS
<1>1. CASE NoBoard \/ LocksDone \/ Finish
  <2>1. UNCHANGED <<board, components, slot, lock, orig, round, target, used, usedExp, assigned>>
    BY <1>1 DEF NoBoard, LocksDone, Finish, design, result
  <2>2. phase' \in {"solve", "done"} /\ idx' \in {1, idx}
    BY <1>1 DEF NoBoard, LocksDone, Finish
  <2>3. QED
    BY <2>1, <2>2 DEF TypeOK
<1>2. CASE Start
  BY <1>2, UsedPinTypes DEF TypeOK, Start, design
<1>3. CASE SolveAgain
  BY <1>3 DEF TypeOK, SolveAgain
<1>4. ASSUME NEW i \in Conns, ApplyLock(i) PROVE TypeOK'
  BY <1>4, LockStepTypeOK
<1>5. ASSUME NEW i \in Conns, SolveStep(i) PROVE TypeOK'
  BY <1>5, SolveStepTypeOK
<1>6. CASE UNCHANGED vars
  BY <1>6 DEF TypeOK, vars, design, result
<1>7. QED
  BY <1>1, <1>2, <1>3, <1>4, <1>5, <1>6 DEF Next

\* The variables of the solver keep their types.
THEOREM TypeCorrect == Spec => []TypeOK
  BY InitTypeOK, NextTypeOK, PTL DEF Spec

-----------------------------------------------------------------------------
(* The inductive invariant.                                                *)

\* A step that leaves every target alone.
Quiet ==
    /\ UNCHANGED <<target, orig, slot, lock, components>>
    /\ used \subseteq used' /\ usedExp \subseteq usedExp'

\* A step of the second loop that gives connection i the fresh target t.
Binds(i, t) ==
    /\ phase = "solve" /\ phase' = "solve"
    /\ IsUnbound(target[i])
    /\ t \in Targets /\ t.kind = target[i].kind /\ ~IsUnbound(t)
    /\ target' = [target EXCEPT ![i] = t]
    /\ UNCHANGED <<orig, slot, lock, components>>
    /\ used \subseteq used' /\ usedExp \subseteq usedExp'
    /\ t.kind = "gpio" => t.at \notin used /\ t.at \in used'
    /\ t.kind = "expander_pin" => t.at \notin usedExp /\ t.at \in usedExp'

\* What the steps that bind connection i have in common.
SolveFrame(i, kind) ==
    /\ phase = "solve" /\ phase' = "solve"
    /\ IsUnbound(target[i]) /\ target[i].kind = kind
    /\ UNCHANGED <<orig, slot, lock, components>>

LEMMA SolveBinds ==
    ASSUME TypeOK, NEW i \in Conns,
           SolveGpio(i) \/ SolveBus(i) \/ SolveExpanderPin(i) \/ SolveParent(i)
    PROVE  \E t : Binds(i, t)
<1>1. CASE SolveGpio(i)
  <2>1. PICK p \in FreeCandidates(i) :
          /\ target' = [target EXCEPT ![i] = [kind |-> "gpio", at |-> p]]
          /\ used' = used \cup {p}
    BY <1>1 DEF SolveGpio, Assign
  <2>2. p \in Nat /\ p \notin used
    BY CandidatesArePins DEF FreeCandidates
  <2>3. SolveFrame(i, "gpio") /\ usedExp' = usedExp
    BY <1>1 DEF SolveFrame, SolveGpio, Solvable, AtSolve, Unbound, IsUnbound, design
  <2>4. Binds(i, [kind |-> "gpio", at |-> p])
    BY <2>1, <2>2, <2>3, TargetIntro, LibraryAssumption DEF Binds, SolveFrame, IsUnbound
  <2>5. QED
    BY <2>4
<1>2. CASE SolveBus(i)
  <2>1. PICK b \in Nat : target' = [target EXCEPT ![i] = [kind |-> "bus", at |-> b]]
    BY <1>2, LibraryAssumption DEF SolveBus, Assign, BusOptions
  <2>2. SolveFrame(i, "bus") /\ used' = used /\ usedExp' = usedExp
    BY <1>2 DEF SolveFrame, SolveBus, Solvable, AtSolve, Unbound, IsUnbound, design
  <2>3. Binds(i, [kind |-> "bus", at |-> b])
    BY <2>1, <2>2, TargetIntro, LibraryAssumption DEF Binds, SolveFrame, IsUnbound
  <2>4. QED
    BY <2>3
<1>3. CASE SolveExpanderPin(i)
  <2>1. PICK s \in FreeExpanderPins :
          /\ target' = [target EXCEPT ![i] = [kind |-> "expander_pin", at |-> s]]
          /\ usedExp' = usedExp \cup {s}
    BY <1>3 DEF SolveExpanderPin, Assign
  <2>2. s \in Nat \X Nat /\ s # None
    BY ExpanderSlotTypes, LibraryAssumption
  <2>3. s \notin usedExp
    BY DEF FreeExpanderPins
  <2>4. SolveFrame(i, "expander_pin") /\ used' = used
    BY <1>3 DEF SolveFrame, SolveExpanderPin, Solvable, AtSolve, Unbound, IsUnbound, design
  <2>5. Binds(i, [kind |-> "expander_pin", at |-> s])
    BY <2>1, <2>2, <2>3, <2>4, TargetIntro DEF Binds, SolveFrame, IsUnbound
  <2>6. QED
    BY <2>5
<1>4. CASE SolveParent(i)
  <2>1. PICK c \in Nat : target' = [target EXCEPT ![i] = [kind |-> "component", at |-> c]]
    BY <1>4, LibraryAssumption DEF SolveParent, Assign, Parents, TypeOK
  <2>2. SolveFrame(i, "component") /\ used' = used /\ usedExp' = usedExp
    BY <1>4 DEF SolveFrame, SolveParent, Solvable, AtSolve, Unbound, IsUnbound, design
  <2>3. Binds(i, [kind |-> "component", at |-> c])
    BY <2>1, <2>2, TargetIntro, LibraryAssumption DEF Binds, SolveFrame, IsUnbound
  <2>4. QED
    BY <2>3
<1>5. QED
  BY <1>1, <1>2, <1>3, <1>4

LEMMA NoSolverChoiceEarly ==
    ASSUME OnlyLocksSoFar, phase \in {"start", "locks"}, NEW i \in Conns
    PROVE  ~SolverChose(i)
  BY DEF OnlyLocksSoFar, SolverChose

\* What a connection holds is in used_gpios or used_expander_pins.
LEMMA HeldIsUsed ==
    ASSUME UsedCovers, phase \in {"locks", "solve"}, NEW i \in Conns
    PROVE  /\ target[i].kind = "gpio" /\ target[i].at # None => target[i].at \in used
           /\ target[i].kind = "expander_pin" /\ target[i].at # None
                => target[i].at \in usedExp
  BY DEF UsedCovers, UsedGpioPins, UsedExpanderPins

LEMMA QuietKeeps ==
    ASSUME SafeChoices, Quiet
    PROVE  /\ UnboundIsUntouched' /\ NoSolverCollision' /\ LockedPinsReserved'
           /\ BoundTargetsKept'
           /\ phase' = phase => UsedCovers' /\ OnlyLocksSoFar'
<1>1. \A i \in Conns : SolverChose(i)' = SolverChose(i) /\ IsLocked(i)' = IsLocked(i)
  BY DEF Quiet, SolverChose, IsUnbound, IsLocked
<1>2. UsedGpioPins' = UsedGpioPins /\ UsedExpanderPins' = UsedExpanderPins
  BY DEF Quiet, UsedGpioPins, UsedExpanderPins
<1>3. UnboundIsUntouched' /\ BoundTargetsKept'
  BY DEF Quiet, SafeChoices, UnboundIsUntouched, BoundTargetsKept, IsUnbound
<1>4. NoSolverCollision' /\ LockedPinsReserved'
  BY <1>1 DEF Quiet, SafeChoices, NoSolverCollision, LockedPinsReserved
<1>5. phase' = phase => UsedCovers' /\ OnlyLocksSoFar'
  BY <1>1, <1>2 DEF Quiet, SafeChoices, UsedCovers, OnlyLocksSoFar
<1>6. QED
  BY <1>3, <1>4, <1>5

LEMMA BindsKeeps ==
    ASSUME SafeChoices, NEW i \in Conns, NEW t, Binds(i, t)
    PROVE  /\ UsedCovers' /\ LocksCovered' /\ OnlyLocksSoFar' /\ UnboundIsUntouched'
           /\ NoSolverCollision' /\ LockedPinsReserved' /\ BoundTargetsKept'
<1>1. target \in [Conns -> Targets] /\ target' = [target EXCEPT ![i] = t]
  BY DEF SafeChoices, TypeOK, Binds
<1>2. target'[i] = t /\ \A j \in Conns \ {i} : target'[j] = target[j]
  BY <1>1
<1>3. \A j \in Conns : target'[j].kind = target[j].kind
  BY <1>2 DEF Binds
<1>4. /\ \A j \in Conns : IsLocked(j)' = IsLocked(j)
      /\ \A j \in Conns \ {i} : SolverChose(j)' = SolverChose(j)
  BY <1>2 DEF Binds, IsLocked, SolverChose, IsUnbound
<1>5. UsedCovers'
  <2>1. UsedGpioPins' \subseteq UsedGpioPins \cup (IF t.kind = "gpio" THEN {t.at} ELSE {})
    BY <1>2 DEF UsedGpioPins
  <2>2. UsedExpanderPins' \subseteq
            UsedExpanderPins \cup (IF t.kind = "expander_pin" THEN {t.at} ELSE {})
    BY <1>2 DEF UsedExpanderPins
  <2>3. QED
    BY <2>1, <2>2 DEF SafeChoices, UsedCovers, Binds
<1>6. LocksCovered' /\ OnlyLocksSoFar'
  BY <1>3, <1>4 DEF SafeChoices, LocksCovered, OnlyLocksSoFar, Binds
<1>7. UnboundIsUntouched' /\ BoundTargetsKept'
  <2>1. target[i] = orig[i]
    BY DEF SafeChoices, UnboundIsUntouched, Binds
  <2>2. QED
    BY <1>2, <1>3, <2>1 DEF SafeChoices, UnboundIsUntouched, BoundTargetsKept, Binds, IsUnbound
<1>8. NoSolverCollision'
  <2> SUFFICES ASSUME NEW j \in Conns, NEW k \in Conns, j # k, SolverChose(j)',
                      target'[j].kind \in {"gpio", "expander_pin"}, target'[k] = target'[j]
               PROVE  FALSE
    BY DEF NoSolverCollision
  <2>1. CASE j = i
    <3>1. target[k] = t
      BY <1>2, <2>1
    <3>2. QED
      BY <1>2, <2>1, <3>1, HeldIsUsed DEF SafeChoices, Binds, IsUnbound
  <2>2. CASE k = i
    <3>1. target[j] = t
      BY <1>2, <2>2
    <3>2. QED
      BY <1>2, <2>2, <3>1, HeldIsUsed DEF SafeChoices, Binds, IsUnbound
  <2>3. CASE j # i /\ k # i
    BY <1>2, <1>4, <2>3 DEF SafeChoices, NoSolverCollision
  <2>4. QED
    BY <2>1, <2>2, <2>3
<1>9. LockedPinsReserved'
  <2> SUFFICES ASSUME NEW j \in Conns, NEW k \in Conns, j # k, SolverChose(j)',
                      target'[j].kind = "gpio", target'[k].kind = "gpio", IsLocked(k)'
               PROVE  target'[j].at # lock'[slot'[k]]
    BY DEF LockedPinsReserved
  <2>1. IsLocked(k) /\ target[k].kind = "gpio" /\ lock'[slot'[k]] = lock[slot[k]]
    BY <1>3, <1>4 DEF Binds
  <2>2. CASE j = i
    BY <1>2, <2>1, <2>2 DEF SafeChoices, LocksCovered, Binds
  <2>3. CASE j # i
    BY <1>2, <1>4, <2>1, <2>3 DEF SafeChoices, LockedPinsReserved
  <2>4. QED
    BY <2>2, <2>3
<1>10. QED
  BY <1>5, <1>6, <1>7, <1>8, <1>9

\* One iteration of the loop over the locks.
LEMMA LockStepSafe ==
    ASSUME SafeChoices, NEW i \in Conns, ApplyLock(i)
    PROVE  SafeChoices'
<1>1. TypeOK'
  BY LockStepTypeOK DEF SafeChoices
<1>2. phase = "locks" /\ phase' = "locks" /\ i = idx /\ idx' = idx + 1
  BY DEF ApplyLock, NotLocked, LockWrongKind, LockAligned, LockMismatch, LockFill, AtLock, result
<1>3. CASE NotLocked(i) \/ LockWrongKind(i) \/ LockAligned(i) \/ LockMismatch(i)
  <2>1. Quiet
    BY <1>3 DEF Quiet, NotLocked, LockWrongKind, LockAligned, LockMismatch, design, result
  <2>2. target[i].kind = "gpio" /\ IsLocked(i) => lock[slot[i]] \in used'
    BY <1>3 DEF NotLocked, LockWrongKind, LockAligned, LockMismatch
  <2>3. LocksCovered'
    <3> SUFFICES ASSUME NEW j \in Conns, target[j].kind = "gpio", IsLocked(j), j < idx'
                 PROVE  lock[slot[j]] \in used'
      BY <1>2, <2>1 DEF LocksCovered, Quiet, IsLocked
    <3>1. j = i \/ j < idx
      BY <1>2 DEF SafeChoices, TypeOK
    <3>2. QED
      BY <1>2, <2>1, <2>2, <3>1 DEF SafeChoices, LocksCovered, Quiet
  <2>4. QED
    BY <1>1, <1>2, <2>1, <2>3, QuietKeeps DEF SafeChoices, StartsAtOne
<1>4. CASE LockFill(i)
  <2> DEFINE p == lock[slot[i]]
             t == [kind |-> "gpio", at |-> p]
  <2>1. /\ target' = [target EXCEPT ![i] = t] /\ used' = used \cup {p}
        /\ target[i] = Unbound("gpio") /\ IsLocked(i)
        /\ UNCHANGED <<orig, slot, lock, components, usedExp>>
    BY <1>4 DEF LockFill, Assign, design
  <2>2. /\ target'[i] = t /\ \A j \in Conns \ {i} : target'[j] = target[j]
        /\ \A j \in Conns : target'[j].kind = target[j].kind
    BY <2>1 DEF SafeChoices, TypeOK, Unbound
  <2>3. \A j \in Conns : IsLocked(j)' = IsLocked(j)
    BY <2>1 DEF IsLocked
  <2>4. UsedCovers'
    <3>1. UsedGpioPins' \subseteq UsedGpioPins \cup {p}
      BY <2>2 DEF UsedGpioPins
    <3>2. UsedExpanderPins' = UsedExpanderPins
      BY <2>2 DEF UsedExpanderPins
    <3>3. QED
      BY <1>2, <2>1, <3>1, <3>2 DEF SafeChoices, UsedCovers
  <2>5. LocksCovered'
    <3> SUFFICES ASSUME NEW j \in Conns, target[j].kind = "gpio", IsLocked(j), j < idx'
                 PROVE  lock[slot[j]] \in used'
      BY <1>2, <2>1, <2>2, <2>3 DEF LocksCovered
    <3>1. j = i \/ j < idx
      BY <1>2 DEF SafeChoices, TypeOK
    <3>2. QED
      BY <1>2, <2>1, <3>1 DEF SafeChoices, LocksCovered
  <2>6. OnlyLocksSoFar'
    BY <1>2, <2>1, <2>2, <2>3 DEF SafeChoices, OnlyLocksSoFar
  <2>7. UnboundIsUntouched' /\ BoundTargetsKept'
    <3>1. p # None
      BY LockIsPin, <2>1, LibraryAssumption DEF SafeChoices
    <3>2. target[i] = orig[i]
      BY <2>1 DEF SafeChoices, UnboundIsUntouched, IsUnbound, Unbound
    <3>3. QED
      BY <2>1, <2>2, <3>1, <3>2
         DEF SafeChoices, UnboundIsUntouched, BoundTargetsKept, IsUnbound, Unbound
  <2>8. NoSolverCollision' /\ LockedPinsReserved'
    <3>1. \A j \in Conns : ~SolverChose(j)'
      BY <1>2, <2>6, NoSolverChoiceEarly DEF OnlyLocksSoFar, SolverChose
    <3>2. QED
      BY <3>1 DEF NoSolverCollision, LockedPinsReserved
  <2>9. QED
    BY <1>1, <1>2, <2>4, <2>5, <2>6, <2>7, <2>8 DEF SafeChoices, StartsAtOne
<1>5. QED
  BY <1>3, <1>4 DEF ApplyLock

\* One iteration of the loop that solves.
LEMMA SolveStepSafe ==
    ASSUME SafeChoices, NEW i \in Conns, SolveStep(i)
    PROVE  SafeChoices'
<1>1. TypeOK'
  BY SolveStepTypeOK DEF SafeChoices
<1>2. CASE SolveGpio(i) \/ SolveBus(i) \/ SolveExpanderPin(i) \/ SolveParent(i)
  <2>1. PICK t : Binds(i, t)
    BY <1>2, SolveBinds DEF SafeChoices
  <2>2. StartsAtOne'
    BY <2>1 DEF Binds, StartsAtOne
  <2>3. QED
    BY <1>1, <2>1, <2>2, BindsKeeps DEF SafeChoices
<1>3. CASE \/ AlreadyBound(i) \/ Unresolvable(i) \/ NoGpioCandidate(i) \/ NoBus(i)
           \/ NoExpanderPin(i) \/ NoParent(i)
  <2>1. Quiet /\ phase = "solve" /\ phase' = "solve"
    BY <1>3 DEF Quiet, AlreadyBound, Unresolvable, NoGpioCandidate, NoBus, NoExpanderPin,
                NoParent, Unsolved, Solvable, AtSolve, design, result
  <2>2. LocksCovered'
    BY <2>1 DEF Quiet, SafeChoices, LocksCovered, IsLocked
  <2>3. QED
    BY <1>1, <2>1, <2>2, QuietKeeps DEF SafeChoices, StartsAtOne
<1>4. QED
  BY <1>2, <1>3 DEF SolveStep

LEMMA InitSafeChoices == Init => SafeChoices
<1> SUFFICES ASSUME Init PROVE SafeChoices
  OBVIOUS
<1>1. TypeOK /\ orig = target /\ phase = "start" /\ idx = 1
  BY InitTypeOK DEF Init
<1>2. \A i \in Conns : ~SolverChose(i)
  BY <1>1 DEF SolverChose
<1>3. QED
  BY <1>1, <1>2 DEF SafeChoices, UsedCovers, LocksCovered, OnlyLocksSoFar, UnboundIsUntouched,
                    NoSolverCollision, LockedPinsReserved, BoundTargetsKept, StartsAtOne

LEMMA NextSafeChoices == SafeChoices /\ [Next]_vars => SafeChoices'
<1> SUFFICES ASSUME SafeChoices, [Next]_vars PROVE SafeChoices'
  OBVIOUS
<1>1. TypeOK'
  BY NextTypeOK DEF SafeChoices
<1>2. CASE Start
  <2>1. UNCHANGED <<target, orig, slot, lock, components>> /\ phase = "start" /\ phase' = "locks" /\ idx' = idx
    BY <1>2 DEF Start, design
  <2>2. used' = UsedGpioPins /\ usedExp' = UsedExpanderPins
    BY <1>2 DEF Start
  <2>3. UsedCovers'
    BY <2>1, <2>2 DEF UsedCovers, UsedGpioPins, UsedExpanderPins
  <2>4. OnlyLocksSoFar'
    BY <2>1 DEF SafeChoices, OnlyLocksSoFar, IsLocked
  <2>5. LocksCovered'
    <3>1. idx = 1
      BY <2>1 DEF SafeChoices, StartsAtOne
    <3>2. QED
      BY <2>1, <3>1 DEF LocksCovered
  <2>6. UnboundIsUntouched' /\ BoundTargetsKept'
    BY <2>1 DEF SafeChoices, UnboundIsUntouched, BoundTargetsKept, IsUnbound
  <2>7. NoSolverCollision' /\ LockedPinsReserved'
    <3>1. \A j \in Conns : ~SolverChose(j)'
      BY <2>1, <2>4 DEF OnlyLocksSoFar, SolverChose
    <3>2. QED
      BY <3>1 DEF NoSolverCollision, LockedPinsReserved
  <2>8. QED
    BY <1>1, <2>1, <2>3, <2>4, <2>5, <2>6, <2>7 DEF SafeChoices, StartsAtOne
<1>3. CASE LocksDone
  <2>1. Quiet /\ phase = "locks" /\ phase' = "solve" /\ idx = N + 1 /\ used' = used /\ usedExp' = usedExp
    BY <1>3 DEF LocksDone, Quiet, design
  <2>2. UsedCovers'
    BY <2>1 DEF Quiet, SafeChoices, UsedCovers, UsedGpioPins, UsedExpanderPins
  <2>3. LocksCovered'
    <3>1. \A i \in Conns : i < idx
      BY <2>1
    <3>2. QED
      BY <2>1, <3>1 DEF Quiet, SafeChoices, LocksCovered, IsLocked
  <2>4. QED
    BY <1>1, <2>1, <2>2, <2>3, QuietKeeps DEF SafeChoices, OnlyLocksSoFar, StartsAtOne
<1>4. CASE NoBoard \/ Finish
  <2>1. Quiet /\ phase' = "done"
    BY <1>4 DEF NoBoard, Finish, Quiet, design
  <2>2. QED
    BY <1>1, <2>1, QuietKeeps
       DEF SafeChoices, UsedCovers, LocksCovered, OnlyLocksSoFar, StartsAtOne
<1>5. CASE SolveAgain
  <2>1. phase' = "start" /\ idx' = 1 /\ orig' = target /\ target' = target
    BY <1>5 DEF SolveAgain
  <2>2. \A i \in Conns : ~SolverChose(i)'
    BY <2>1 DEF SolverChose
  <2>3. QED
    BY <1>1, <2>1, <2>2 DEF SafeChoices, UsedCovers, LocksCovered, OnlyLocksSoFar,
                            UnboundIsUntouched, NoSolverCollision, LockedPinsReserved,
                            BoundTargetsKept, StartsAtOne
<1>6. ASSUME NEW i \in Conns, ApplyLock(i) PROVE SafeChoices'
  BY <1>6, LockStepSafe
<1>7. ASSUME NEW i \in Conns, SolveStep(i) PROVE SafeChoices'
  BY <1>7, SolveStepSafe
<1>8. CASE UNCHANGED vars
  <2>1. Quiet /\ phase' = phase /\ idx' = idx
    BY <1>8 DEF vars, design, Quiet
  <2>2. LocksCovered'
    BY <2>1 DEF Quiet, SafeChoices, LocksCovered, IsLocked
  <2>3. QED
    BY <1>1, <2>1, <2>2, QuietKeeps DEF SafeChoices, StartsAtOne
<1>9. QED
  BY <1>2, <1>3, <1>4, <1>5, <1>6, <1>7, <1>8 DEF Next

\* The inductive invariant holds of every behaviour.
THEOREM SafeChoicesHold == Spec => []SafeChoices
  BY InitSafeChoices, NextSafeChoices, PTL DEF Spec

\* A pin or expander slot the solver picks is no other connection's.
THEOREM SolverNeverCollides == Spec => []NoSolverCollision
<1>1. SafeChoices => NoSolverCollision
  BY DEF SafeChoices
<1>2. QED
  BY <1>1, SafeChoicesHold, PTL

\* The solver hands out no pin that the user locked for another connection.
THEOREM LocksAreRespected == Spec => []LockedPinsReserved
<1>1. SafeChoices => LockedPinsReserved
  BY DEF SafeChoices
<1>2. QED
  BY <1>1, SafeChoicesHold, PTL

\* Solving never moves a connection the user bound.
THEOREM BoundStaysBound == Spec => []BoundTargetsKept
<1>1. SafeChoices => BoundTargetsKept
  BY DEF SafeChoices
<1>2. QED
  BY <1>1, SafeChoicesHold, PTL

-----------------------------------------------------------------------------
(* The solver implements the abstract assigner.                            *)

LEMMA LockStepFills ==
    ASSUME SafeChoices, LocksFilled, NEW i \in Conns, ApplyLock(i)
    PROVE  LocksFilled'
<1>1. /\ phase = "locks" /\ phase' = "locks" /\ i = idx /\ idx' = idx + 1
      /\ UNCHANGED <<slot, lock, components>>
  BY DEF ApplyLock, NotLocked, LockWrongKind, LockAligned, LockMismatch, LockFill, AtLock,
         result, design
<1>2. \A j \in Conns \ {i} : target'[j] = target[j]
  BY DEF ApplyLock, NotLocked, LockWrongKind, LockAligned, LockMismatch, LockFill, Assign,
         SafeChoices, TypeOK
<1>3. target'[i].kind = "gpio" /\ IsLocked(i) => target'[i].at # None
  <2>1. IsLocked(i) => lock[slot[i]] # None
    BY LockIsPin, LibraryAssumption DEF SafeChoices
  <2>2. CASE NotLocked(i) \/ LockWrongKind(i) \/ LockMismatch(i)
    BY <2>2 DEF NotLocked, LockWrongKind, LockMismatch
  <2>3. CASE LockAligned(i)
    BY <2>1, <2>3 DEF LockAligned
  <2>4. CASE LockFill(i)
    BY <2>1, <2>4 DEF LockFill, Assign, SafeChoices, TypeOK
  <2>5. QED
    BY <2>2, <2>3, <2>4 DEF ApplyLock
<1>4. \A j \in Conns : j < idx' => j = i \/ j < idx
  BY <1>1 DEF SafeChoices, TypeOK
<1>5. QED
  BY <1>1, <1>2, <1>3, <1>4 DEF LocksFilled, IsLocked

\* Nothing that a connection holds is ever emptied.
LEMMA SolveStepFills ==
    ASSUME SafeChoices, LocksFilled, NEW i \in Conns, SolveStep(i)
    PROVE  LocksFilled'
<1>1. CASE SolveGpio(i) \/ SolveBus(i) \/ SolveExpanderPin(i) \/ SolveParent(i)
  <2>1. PICK t : Binds(i, t)
    BY <1>1, SolveBinds DEF SafeChoices
  <2>2. target'[i] = t /\ \A j \in Conns \ {i} : target'[j] = target[j]
    BY <2>1 DEF Binds, SafeChoices, TypeOK
  <2>3. \A j \in Conns : IsLocked(j)' = IsLocked(j)
    BY <2>1 DEF Binds, IsLocked
  <2>4. QED
    BY <2>1, <2>2, <2>3 DEF LocksFilled, Binds, IsUnbound
<1>2. CASE \/ AlreadyBound(i) \/ Unresolvable(i) \/ NoGpioCandidate(i) \/ NoBus(i)
           \/ NoExpanderPin(i) \/ NoParent(i)
  <2>1. UNCHANGED <<target, slot, lock, components>> /\ phase = "solve" /\ phase' = "solve"
    BY <1>2 DEF AlreadyBound, Unresolvable, NoGpioCandidate, NoBus, NoExpanderPin,
                NoParent, Unsolved, Solvable, AtSolve, design, result
  <2>2. QED
    BY <2>1 DEF LocksFilled, IsLocked
<1>3. QED
  BY <1>1, <1>2 DEF SolveStep

LEMMA NextFills == SafeChoices /\ LocksFilled /\ [Next]_vars => LocksFilled'
<1> SUFFICES ASSUME SafeChoices, LocksFilled, [Next]_vars PROVE LocksFilled'
  OBVIOUS
<1>1. CASE Start
  <2>1. idx' = 1 /\ phase' = "locks"
    BY <1>1 DEF Start, SafeChoices, StartsAtOne
  <2>2. QED
    BY <2>1 DEF LocksFilled
<1>2. CASE LocksDone
  <2>1. phase = "locks" /\ \A i \in Conns : i < idx
    BY <1>2 DEF LocksDone
  <2>2. UNCHANGED <<target, slot, lock, components>>
    BY <1>2 DEF LocksDone, design
  <2>3. QED
    BY <2>1, <2>2 DEF LocksFilled, IsLocked
<1>3. CASE NoBoard \/ Finish \/ SolveAgain
  BY <1>3 DEF NoBoard, Finish, SolveAgain, LocksFilled
<1>4. ASSUME NEW i \in Conns, ApplyLock(i) PROVE LocksFilled'
  BY <1>4, LockStepFills
<1>5. ASSUME NEW i \in Conns, SolveStep(i) PROVE LocksFilled'
  BY <1>5, SolveStepFills
<1>6. CASE UNCHANGED vars
  BY <1>6 DEF vars, design, LocksFilled, IsLocked
<1>7. QED
  BY <1>1, <1>2, <1>3, <1>4, <1>5, <1>6 DEF Next

\* What the second loop picks is there to be chosen.
LEMMA BindsAChoice ==
    ASSUME TypeOK, NEW i \in Conns,
           SolveGpio(i) \/ SolveBus(i) \/ SolveExpanderPin(i) \/ SolveParent(i)
    PROVE  \E t \in Choices : Binds(i, t)
<1>1. PICK t : Binds(i, t)
  BY SolveBinds
<1>2. target' = [target EXCEPT ![i] = t] /\ target'[i] = t
  BY <1>1 DEF Binds, TypeOK
<1>3. CASE SolveGpio(i)
  <2>1. PICK p \in FreeCandidates(i) : target'[i] = [kind |-> "gpio", at |-> p]
    BY <1>3 DEF SolveGpio, Assign, TypeOK
  <2>2. p \in BoardPins
    BY DEF FreeCandidates, Candidates
  <2>3. QED
    BY <1>1, <1>2, <2>1, <2>2 DEF Choices
<1>4. CASE SolveBus(i)
  <2>1. PICK b \in BusOptions(i) : target'[i] = [kind |-> "bus", at |-> b]
    BY <1>4 DEF SolveBus, Assign, TypeOK
  <2>2. b \in Buses
    BY DEF BusOptions
  <2>3. QED
    BY <1>1, <1>2, <2>1, <2>2 DEF Choices
<1>5. CASE SolveExpanderPin(i)
  <2>1. PICK s \in FreeExpanderPins : target'[i] = [kind |-> "expander_pin", at |-> s]
    BY <1>5 DEF SolveExpanderPin, Assign, TypeOK
  <2>2. PICK e \in Expanders : s \in SlotsOf(e)
    BY DEF FreeExpanderPins
  <2>3. e \in DOMAIN LibraryOf /\ LibraryOf[e] \in DOMAIN ExpanderSize
    BY DEF Expanders, TypeOK
  <2>4. QED
    BY <1>1, <1>2, <2>1, <2>2, <2>3 DEF Choices
<1>6. CASE SolveParent(i)
  <2>1. PICK c \in Parents(i) : target'[i] = [kind |-> "component", at |-> c]
    BY <1>6 DEF SolveParent, Assign, TypeOK
  <2>2. c \in DOMAIN LibraryOf
    BY DEF Parents, TypeOK
  <2>3. QED
    BY <1>1, <1>2, <2>1, <2>2 DEF Choices
<1>7. QED
  BY <1>3, <1>4, <1>5, <1>6

\* Such a step is a choice of the assigner.
LEMMA BindsChooses ==
    ASSUME SafeChoices, LocksFilled, NEW i \in Conns, NEW t \in Choices, Binds(i, t)
    PROVE  Assigner!Choose(i)
<1>1. Wish' = Wish
  BY DEF Binds, Wish, IsLocked
<1>2. Assigner!Open(i)
  BY DEF Binds, IsUnbound, Assigner!Open
<1>3. target[i].kind = "gpio" => Wish[i] = None
  BY DEF LocksFilled, Binds, IsUnbound, Wish
<1>4. ASSUME Assigner!Exclusive(t) PROVE ~Assigner!Taken(i, t)
  <2> SUFFICES ASSUME NEW j \in Conns \ {i},
                      \/ target[j] = t
                      \/ t.kind = "gpio" /\ target[j].kind = "gpio" /\ Wish[j] = t.at
               PROVE  FALSE
    BY DEF Assigner!Taken
  <2>1. CASE target[j] = t
    BY <1>4, <2>1, HeldIsUsed DEF SafeChoices, Binds, IsUnbound, Assigner!Exclusive
  <2>2. CASE t.kind = "gpio" /\ target[j].kind = "gpio" /\ Wish[j] = t.at
    <3>1. IsLocked(j) /\ lock[slot[j]] = t.at
      BY <2>2 DEF Wish, Binds, IsUnbound
    <3>2. QED
      BY <2>2, <3>1 DEF SafeChoices, LocksCovered, Binds
  <2>3. QED
    BY <2>1, <2>2
<1>5. Assigner!Fill(i, t) /\ t.kind = target[i].kind
  BY DEF Assigner!Fill, Binds
<1>6. QED
  BY <1>1, <1>2, <1>3, <1>4, <1>5 DEF Assigner!Choose

LEMMA StepAssigns ==
    ASSUME SafeChoices, LocksFilled, [Next]_vars
    PROVE  [Assigner!Next]_(Assigner!avars)
<1>1. ASSUME UNCHANGED <<target, slot, lock, components>> PROVE UNCHANGED Assigner!avars
  BY <1>1 DEF Assigner!avars, Wish, IsLocked
<1>2. CASE NoBoard \/ Start \/ LocksDone \/ Finish \/ SolveAgain \/ UNCHANGED vars
  BY <1>1, <1>2 DEF NoBoard, Start, LocksDone, Finish, SolveAgain, vars, design
<1>3. ASSUME NEW i \in Conns, ApplyLock(i) PROVE [Assigner!Next]_(Assigner!avars)
  <2>1. CASE LockFill(i)
    <3>1. Wish' = Wish
      BY <2>1 DEF LockFill, design, Wish, IsLocked
    <3>2. Wish[i] = lock[slot[i]] /\ Wish[i] # None
      BY <2>1, LockIsPin, LibraryAssumption DEF LockFill, Wish, SafeChoices
    <3>3. Assigner!Obey(i)
      BY <2>1, <3>1, <3>2
         DEF LockFill, Assign, Unbound, Assigner!Obey, Assigner!Open, Assigner!Fill
    <3>4. QED
      BY <3>3 DEF Assigner!Next
  <2>2. CASE NotLocked(i) \/ LockWrongKind(i) \/ LockAligned(i) \/ LockMismatch(i)
    BY <1>1, <2>2 DEF NotLocked, LockWrongKind, LockAligned, LockMismatch, design
  <2>3. QED
    BY <1>3, <2>1, <2>2 DEF ApplyLock
<1>4. ASSUME NEW i \in Conns, SolveStep(i) PROVE [Assigner!Next]_(Assigner!avars)
  <2>1. CASE SolveGpio(i) \/ SolveBus(i) \/ SolveExpanderPin(i) \/ SolveParent(i)
    <3>1. PICK t \in Choices : Binds(i, t)
      BY <2>1, BindsAChoice DEF SafeChoices
    <3>2. Assigner!Choose(i)
      BY <3>1, BindsChooses
    <3>3. QED
      BY <3>2 DEF Assigner!Next
  <2>2. CASE \/ AlreadyBound(i) \/ Unresolvable(i) \/ NoGpioCandidate(i) \/ NoBus(i)
             \/ NoExpanderPin(i) \/ NoParent(i)
    BY <1>1, <2>2 DEF AlreadyBound, Unresolvable, NoGpioCandidate, NoBus, NoExpanderPin,
                      NoParent, Unsolved, Solvable, AtSolve, design
  <2>3. QED
    BY <1>4, <2>1, <2>2 DEF SolveStep
<1>5. QED
  BY <1>2, <1>3, <1>4 DEF Next

\* The solver, whatever the order of the design and of its own bookkeeping,
\* does nothing that the abstract assigner would not do.
THEOREM SolverImplementsAssigner == Spec => SolverIsAnAssigner
<1>1. Init => LocksFilled
  BY DEF Init, LocksFilled
<1>2. Init => Assigner!Init
  <2> SUFFICES ASSUME Init PROVE Assigner!Init
    OBVIOUS
  <2>1. DOMAIN target = Conns
    BY InitTypeOK DEF TypeOK
  <2>2. QED
    BY <2>1 DEF Assigner!Init, Wish
<1>3. QED
  BY <1>1, <1>2, SafeChoicesHold, NextFills, StepAssigns, PTL
     DEF Spec, SolverIsAnAssigner, Assigner!Spec

-----------------------------------------------------------------------------
(* The diff.                                                               *)

Differs == {j \in Conns : target[j] # orig[j]}

\* One target that was as the solver found it is filled, and the diff grows
\* by just that.
LEMMA AssignKeepsDiff ==
    ASSUME SafeChoices, DiffIsExact, NEW i \in Conns, NEW t, Assign(i, t),
           target[i] = orig[i], t # target[i], orig' = orig
    PROVE  DiffIsExact'
<1>1. target'[i] = t /\ \A j \in Conns \ {i} : target'[j] = target[j]
  BY DEF Assign, SafeChoices, TypeOK
<1>2. Differs' = Differs \cup {i} /\ i \notin Differs
  BY <1>1 DEF Differs
<1>3. assigned' = {[conn |-> j, old |-> orig[j], new |-> target[j]] : j \in Differs}
                  \cup {[conn |-> i, old |-> orig[i], new |-> t]}
  BY DEF Assign, DiffIsExact, Differs
<1>4. {[conn |-> j, old |-> orig[j], new |-> target[j]] : j \in Differs}
        = {[conn |-> j, old |-> orig[j], new |-> target'[j]] : j \in Differs}
  <2>1. \A j \in Differs : target'[j] = target[j]
    BY <1>1, <1>2 DEF Differs
  <2>2. QED
    BY <2>1
<1>5. {[conn |-> j, old |-> orig[j], new |-> target'[j]] : j \in Differs'}
        = {[conn |-> j, old |-> orig[j], new |-> target'[j]] : j \in Differs}
          \cup {[conn |-> i, old |-> orig[i], new |-> target'[i]]}
  BY <1>2
<1>6. assigned' = {[conn |-> j, old |-> orig'[j], new |-> target'[j]] : j \in Differs'}
  BY <1>1, <1>3, <1>4, <1>5
<1>7. QED
  BY <1>6 DEF DiffIsExact, Differs

LEMMA NextKeepsDiff == SafeChoices /\ DiffIsExact /\ [Next]_vars => DiffIsExact'
<1> SUFFICES ASSUME SafeChoices, DiffIsExact, [Next]_vars PROVE DiffIsExact'
  OBVIOUS
<1>1. ASSUME UNCHANGED <<target, orig, assigned>> PROVE DiffIsExact'
  BY <1>1 DEF DiffIsExact
<1>2. CASE NoBoard \/ Start \/ LocksDone \/ Finish \/ UNCHANGED vars
  BY <1>1, <1>2 DEF NoBoard, Start, LocksDone, Finish, vars, design, result
<1>3. CASE SolveAgain
  BY <1>3 DEF SolveAgain, DiffIsExact
<1>4. ASSUME NEW i \in Conns, ApplyLock(i) PROVE DiffIsExact'
  <2>1. CASE LockFill(i)
    <3>1. target[i] = orig[i]
      BY <2>1 DEF LockFill, SafeChoices, UnboundIsUntouched, Unbound, IsUnbound
    <3>2. [kind |-> "gpio", at |-> lock[slot[i]]] # target[i]
      BY <2>1, LockIsPin, LibraryAssumption DEF LockFill, Unbound, SafeChoices
    <3>3. QED
      BY <2>1, <3>1, <3>2, AssignKeepsDiff DEF LockFill, design
  <2>2. CASE NotLocked(i) \/ LockWrongKind(i) \/ LockAligned(i) \/ LockMismatch(i)
    BY <1>1, <2>2 DEF NotLocked, LockWrongKind, LockAligned, LockMismatch, design, result
  <2>3. QED
    BY <1>4, <2>1, <2>2 DEF ApplyLock
<1>5. ASSUME NEW i \in Conns, SolveStep(i) PROVE DiffIsExact'
  <2>1. CASE SolveGpio(i) \/ SolveBus(i) \/ SolveExpanderPin(i) \/ SolveParent(i)
    <3>1. PICK t : Binds(i, t)
      BY <2>1, SolveBinds DEF SafeChoices
    <3>2. PICK u : Assign(i, u)
      BY <2>1 DEF SolveGpio, SolveBus, SolveExpanderPin, SolveParent
    <3>3. t = u
      BY <3>1, <3>2 DEF Binds, Assign, SafeChoices, TypeOK
    <3>4. target[i] = orig[i] /\ t # target[i]
      BY <3>1 DEF Binds, SafeChoices, UnboundIsUntouched, IsUnbound
    <3>5. QED
      BY <3>1, <3>2, <3>3, <3>4, AssignKeepsDiff DEF Binds
  <2>2. CASE \/ AlreadyBound(i) \/ Unresolvable(i) \/ NoGpioCandidate(i) \/ NoBus(i)
             \/ NoExpanderPin(i) \/ NoParent(i)
    BY <1>1, <2>2 DEF AlreadyBound, Unresolvable, NoGpioCandidate, NoBus, NoExpanderPin,
                      NoParent, Unsolved, Solvable, AtSolve, design, result
  <2>3. QED
    BY <1>5, <2>1, <2>2 DEF SolveStep
<1>6. QED
  BY <1>2, <1>3, <1>4, <1>5 DEF Next

\* SolveResult.assigned is the difference between the two designs, always.
THEOREM DiffIsAlwaysExact == Spec => []DiffIsExact
<1>1. Init => DiffIsExact
  BY DEF Init, DiffIsExact
<1>2. QED
  BY <1>1, SafeChoicesHold, NextKeepsDiff, PTL DEF Spec

-----------------------------------------------------------------------------
(* The gaps.                                                               *)

\* A code of the second loop explains its own connection and no other.
LEMMA FlagExplains ==
    ASSUME NEW i \in Conns, NEW code, Flag(i, code)
    PROVE  /\ code \in GapCodes => Explained(i)'
           /\ \A j \in Conns : j # i => Explained(j)' = Explained(j)
           /\ code \notin GapCodes => Explained(i)' = Explained(i)
  BY DEF Flag, Explained

LEMMA LookupCodes == \A s : Lookup(s) = "ok" \/ Lookup(s) \in GapCodes
  BY DEF Lookup, GapCodes

LEMMA SolveStepExplains ==
    ASSUME SafeChoices, GapsExplainedSoFar, NEW i \in Conns, SolveStep(i)
    PROVE  GapsExplainedSoFar'
<1>1. phase = "solve" /\ i = idx /\ idx' = idx + 1 /\ phase' = "solve" /\ ~Explained(i)
  <2>1. phase = "solve" /\ i = idx /\ idx' = i + 1
    BY DEF SolveStep, AlreadyBound, Unresolvable, SolveGpio, NoGpioCandidate, SolveBus, NoBus,
           SolveExpanderPin, NoExpanderPin, SolveParent, NoParent, Solvable, AtSolve
  <2>2. phase' = phase
    BY DEF SolveStep, AlreadyBound, Unresolvable, SolveGpio, NoGpioCandidate, SolveBus, NoBus,
           SolveExpanderPin, NoExpanderPin, SolveParent, NoParent, Unsolved, result
  <2>3. QED
    BY <2>1, <2>2 DEF GapsExplainedSoFar
<1>2. /\ \A j \in Conns \ {i} : target'[j] = target[j] /\ Explained(j)' = Explained(j)
      /\ IsUnbound(target'[i]) <=> Explained(i)'
  <2>1. CASE SolveGpio(i) \/ SolveBus(i) \/ SolveExpanderPin(i) \/ SolveParent(i)
    <3>1. PICK t : Binds(i, t)
      BY <2>1, SolveBinds DEF SafeChoices
    <3>2. target'[i] = t /\ \A j \in Conns \ {i} : target'[j] = target[j]
      BY <3>1 DEF Binds, SafeChoices, TypeOK
    <3>3. unresolved' = unresolved
      BY <2>1 DEF SolveGpio, SolveBus, SolveExpanderPin, SolveParent
    <3>4. QED
      BY <1>1, <3>1, <3>2, <3>3 DEF Binds, Explained
  <2>2. CASE AlreadyBound(i)
    BY <1>1, <2>2 DEF AlreadyBound, Explained, result
  <2>3. CASE \/ Unresolvable(i) \/ NoGpioCandidate(i) \/ NoBus(i)
             \/ NoExpanderPin(i) \/ NoParent(i)
    <3>1. PICK code \in GapCodes : Unsolved(i, code)
      BY <2>3, LookupCodes DEF Unresolvable, NoGpioCandidate, NoBus, NoExpanderPin,
                               NoParent, GapCodes
    <3>2. IsUnbound(target[i])
      BY <2>3, LibraryAssumption DEF Unresolvable, NoGpioCandidate, NoBus, NoExpanderPin,
                               NoParent, Solvable, IsUnbound, Unbound
    <3>3. target' = target
      BY <3>1 DEF Unsolved
    <3>4. QED
      BY <3>1, <3>2, <3>3, FlagExplains DEF Unsolved
  <2>4. QED
    BY <2>1, <2>2, <2>3 DEF SolveStep
<1>3. \A j \in Conns : j < idx' <=> (j = i \/ j < idx)
  BY <1>1 DEF SafeChoices, TypeOK
<1>4. QED
  BY <1>1, <1>2, <1>3 DEF GapsExplainedSoFar

LEMMA NextExplains ==
    SafeChoices /\ GapsExplainedSoFar /\ GapsExplained /\ [Next]_vars
        => GapsExplainedSoFar' /\ GapsExplained'
<1> SUFFICES ASSUME SafeChoices, GapsExplainedSoFar, GapsExplained, [Next]_vars
             PROVE  GapsExplainedSoFar' /\ GapsExplained'
  OBVIOUS
<1>1. CASE NoBoard
  BY <1>1 DEF NoBoard, GapsExplainedSoFar, GapsExplained, design
<1>2. CASE Start
  <2>1. \A i \in Conns : ~Explained(i)'
    BY <1>2 DEF Start, Explained, GapCodes
  <2>2. phase' = "locks"
    BY <1>2 DEF Start
  <2>3. QED
    BY <2>1, <2>2 DEF GapsExplainedSoFar, GapsExplained
<1>3. CASE LocksDone
  <2>1. \A i \in Conns : ~Explained(i)'
    BY <1>3 DEF LocksDone, GapsExplainedSoFar, Explained, result
  <2>2. phase' = "solve" /\ \A i \in Conns : ~(i < idx')
    BY <1>3 DEF LocksDone
  <2>3. QED
    BY <2>1, <2>2 DEF GapsExplainedSoFar, GapsExplained
<1>4. CASE Finish
  <2>1. phase = "solve" /\ phase' = "done" /\ \A i \in Conns : i < idx
    BY <1>4 DEF Finish
  <2>2. target' = target /\ unresolved' = unresolved
    BY <1>4 DEF Finish
  <2>3. QED
    BY <2>1, <2>2 DEF GapsExplainedSoFar, GapsExplained, Explained
<1>5. CASE SolveAgain
  BY <1>5 DEF SolveAgain, GapsExplainedSoFar, GapsExplained, Explained
<1>6. ASSUME NEW i \in Conns, ApplyLock(i) PROVE GapsExplainedSoFar' /\ GapsExplained'
  <2>1. phase = "locks" /\ phase' = "locks"
    BY <1>6 DEF ApplyLock, NotLocked, LockWrongKind, LockAligned, LockMismatch, LockFill,
                AtLock, result
  <2>2. \A j \in Conns : Explained(j)' = Explained(j)
    <3>1. unresolved' = unresolved \/ \E c \in {"locked_pin_wrong_kind", "locked_pin_mismatch"} : Flag(i, c)
      BY <1>6 DEF ApplyLock, NotLocked, LockWrongKind, LockAligned, LockMismatch, LockFill,
                  result
    <3>2. \A c \in {"locked_pin_wrong_kind", "locked_pin_mismatch"} : c \notin GapCodes
      BY DEF GapCodes
    <3>3. QED
      BY <3>1, <3>2, FlagExplains DEF Explained
  <2>3. QED
    BY <2>1, <2>2 DEF GapsExplainedSoFar, GapsExplained
<1>7. ASSUME NEW i \in Conns, SolveStep(i) PROVE GapsExplainedSoFar' /\ GapsExplained'
  <2>1. phase' = "solve"
    BY <1>7 DEF SolveStep, AlreadyBound, Unresolvable, SolveGpio, NoGpioCandidate, SolveBus,
                NoBus, SolveExpanderPin, NoExpanderPin, SolveParent, NoParent, Solvable,
                AtSolve, Unsolved, result
  <2>2. QED
    BY <1>7, <2>1, SolveStepExplains DEF GapsExplained
<1>8. CASE UNCHANGED vars
  BY <1>8 DEF vars, design, result, GapsExplainedSoFar, GapsExplained, Explained
<1>9. QED
  BY <1>1, <1>2, <1>3, <1>4, <1>5, <1>6, <1>7, <1>8 DEF Next

\* The solver leaves no connection empty without a reason, and gives a reason
\* for none that it filled.
THEOREM EveryGapIsExplained == Spec => []GapsExplained
<1>1. Init => GapsExplainedSoFar /\ GapsExplained
  BY DEF Init, GapsExplainedSoFar, GapsExplained, Explained
<1>2. QED
  BY <1>1, SafeChoicesHold, NextExplains, PTL DEF Spec

-----------------------------------------------------------------------------
(* The greedy choice.                                                      *)

\* While the loops run, nothing is counted as used that nobody holds.
UsedIsHeld ==
    phase \in {"locks", "solve"} => used \subseteq Held /\ usedExp \subseteq UsedExpanderPins

\* GreedyChoiceJustified for one connection, in every phase.
Justified(i) ==
    /\ SolverChose(i) =>
           \A q \in Candidates(KindOf(i)) :
               Before(KindOf(i), q, target[i].at) => q \in Held
    /\ <<"no_gpio_candidate", i>> \in unresolved => Candidates(KindOf(i)) \subseteq Held

GreedySoFar == \A i \in Conns : orig[i] = Unbound("gpio") => Justified(i)

GreedyInv == SafeChoices /\ GapsExplainedSoFar /\ UsedIsHeld /\ GreedySoFar

LEMMA BeforeIsStrict ==
    ASSUME NEW k, NEW p \in Nat, NEW q \in Nat, Before(k, p, q)
    PROVE  ~Before(k, q, p)
<1>1. \A r : SpecialRank(r) \in {0, 1} /\ Adc2Penalty(k, r) \in {0, 1}
  BY DEF SpecialRank, Adc2Penalty
<1>2. QED
  BY <1>1 DEF Before

\* No step but the user's next call takes a pin from a connection.
HeldGrows == Held \subseteq Held' /\ UsedExpanderPins \subseteq UsedExpanderPins'

LEMMA SameTargetsHold ==
    ASSUME UNCHANGED <<target, slot, lock, components>>
    PROVE  Held' = Held /\ UsedExpanderPins' = UsedExpanderPins /\ HeldGrows
<1>1. UsedGpioPins' = UsedGpioPins /\ UsedExpanderPins' = UsedExpanderPins
  BY DEF UsedGpioPins, UsedExpanderPins
<1>2. LockedPins' = LockedPins
  BY DEF LockedPins, IsLocked
<1>3. QED
  BY <1>1, <1>2 DEF Held, HeldGrows

\* One empty target is filled, with one that is not.
LEMMA FillHolds ==
    ASSUME TypeOK, NEW i \in Conns, NEW t, ~IsUnbound(t), t.kind = target[i].kind,
           IsUnbound(target[i]), target' = [target EXCEPT ![i] = t],
           UNCHANGED <<slot, lock, components>>
    PROVE  /\ HeldGrows
           /\ t.kind = "gpio" => t.at \in Held'
           /\ t.kind = "expander_pin" => t.at \in UsedExpanderPins'
<1>1. /\ target'[i] = t /\ \A j \in Conns \ {i} : target'[j] = target[j]
      /\ \A j \in Conns : target'[j].kind = target[j].kind
  BY DEF TypeOK
<1>2. UsedGpioPins \subseteq UsedGpioPins'
  <2> SUFFICES ASSUME NEW p \in UsedGpioPins PROVE p \in UsedGpioPins'
    OBVIOUS
  <2>1. PICK j \in Conns : target[j].kind = "gpio" /\ p = target[j].at /\ p # None
    BY DEF UsedGpioPins
  <2>2. j # i
    BY <2>1 DEF IsUnbound
  <2>3. QED
    BY <1>1, <2>1, <2>2 DEF UsedGpioPins
<1>3. UsedExpanderPins \subseteq UsedExpanderPins'
  <2> SUFFICES ASSUME NEW p \in UsedExpanderPins PROVE p \in UsedExpanderPins'
    OBVIOUS
  <2>1. PICK j \in Conns : target[j].kind = "expander_pin" /\ p = target[j].at /\ p # None
    BY DEF UsedExpanderPins
  <2>2. j # i
    BY <2>1 DEF IsUnbound
  <2>3. QED
    BY <1>1, <2>1, <2>2 DEF UsedExpanderPins
<1>4. LockedPins' = LockedPins
  BY <1>1 DEF LockedPins, IsLocked
<1>5. t.kind = "gpio" => t.at \in UsedGpioPins'
  BY <1>1 DEF UsedGpioPins, IsUnbound
<1>6. t.kind = "expander_pin" => t.at \in UsedExpanderPins'
  BY <1>1 DEF UsedExpanderPins, IsUnbound
<1>7. QED
  BY <1>2, <1>3, <1>4, <1>5, <1>6 DEF Held, HeldGrows

\* A step that leaves the reasons of a connection as they were and takes no
\* pin away leaves it justified.
LEMMA JustifiedStays ==
    ASSUME NEW i \in Conns, Justified(i), HeldGrows,
           UNCHANGED <<slot, components, orig>>,
           SolverChose(i)' => SolverChose(i) /\ target'[i] = target[i],
           <<"no_gpio_candidate", i>> \in unresolved' => <<"no_gpio_candidate", i>> \in unresolved
    PROVE  Justified(i)'
<1>1. KindOf(i)' = KindOf(i)
  BY DEF KindOf
<1>2. \A k : Candidates(k)' = Candidates(k)
  BY DEF Candidates
<1>3. \A k, p, q : Before(k, p, q)' = Before(k, p, q)
  BY DEF Before, SpecialRank, Adc2Penalty
<1>4. QED
  BY <1>1, <1>2, <1>3 DEF Justified, HeldGrows

\* One iteration of the loop over the locks: what it reserves is what a lock
\* asks for.
LEMMA LockStepGreedy ==
    ASSUME GreedyInv, NEW i \in Conns, ApplyLock(i)
    PROVE  UsedIsHeld' /\ GreedySoFar'
<1>1. /\ phase = "locks" /\ UNCHANGED <<slot, lock, components, orig, usedExp>>
      /\ SafeChoices /\ TypeOK /\ UsedIsHeld /\ GreedySoFar
  BY DEF ApplyLock, NotLocked, LockWrongKind, LockAligned, LockMismatch, LockFill, AtLock,
         design, GreedyInv, SafeChoices
<1>2. HeldGrows
  <2>1. CASE LockFill(i)
    <3> DEFINE t == [kind |-> "gpio", at |-> lock[slot[i]]]
    <3>1. lock[slot[i]] # None
      BY <1>1, <2>1, LockIsPin, LibraryAssumption DEF LockFill
    <3>2. /\ ~IsUnbound(t) /\ t.kind = target[i].kind /\ IsUnbound(target[i])
          /\ target' = [target EXCEPT ![i] = t]
      BY <2>1, <3>1 DEF LockFill, Assign, IsUnbound, Unbound
    <3> HIDE DEF t
    <3>3. QED
      BY <1>1, <3>2, FillHolds
  <2>2. CASE NotLocked(i) \/ LockWrongKind(i) \/ LockAligned(i) \/ LockMismatch(i)
    <3>1. target' = target
      BY <2>2 DEF NotLocked, LockWrongKind, LockAligned, LockMismatch
    <3>2. QED
      BY <1>1, <3>1, SameTargetsHold
  <2>3. QED
    BY <2>1, <2>2 DEF ApplyLock
<1>3. used' \subseteq used \cup LockedPins
  <2>1. used' = used \/ (target[i].kind = "gpio" /\ IsLocked(i) /\ used' = used \cup {lock[slot[i]]})
    BY DEF ApplyLock, NotLocked, LockWrongKind, LockAligned, LockMismatch, LockFill, Unbound
  <2>2. QED
    BY <2>1 DEF LockedPins
<1>4. UsedIsHeld'
  BY <1>1, <1>2, <1>3 DEF UsedIsHeld, HeldGrows, Held
<1>5. SafeChoices' /\ phase' = "locks"
  BY <1>1, LockStepSafe DEF ApplyLock, NotLocked, LockWrongKind, LockAligned, LockMismatch,
                            LockFill, AtLock, result
<1>6. \A j \in Conns : ~SolverChose(j)'
  BY <1>5, NoSolverChoiceEarly DEF SafeChoices, OnlyLocksSoFar, SolverChose
<1>7. \A j \in Conns : <<"no_gpio_candidate", j>> \in unresolved'
                           => <<"no_gpio_candidate", j>> \in unresolved
  BY DEF ApplyLock, NotLocked, LockWrongKind, LockAligned, LockMismatch, LockFill, Flag, result
<1>8. GreedySoFar'
  <2> SUFFICES ASSUME NEW j \in Conns, orig[j] = Unbound("gpio") PROVE Justified(j)'
    BY <1>1 DEF GreedySoFar
  <2>1. Justified(j)
    BY <1>1 DEF GreedySoFar
  <2>2. QED
    BY <1>1, <1>2, <1>6, <1>7, <2>1, JustifiedStays
<1>9. QED
  BY <1>4, <1>8

\* The pin that the solver takes is the best that nobody held.
LEMMA SolveGpioGreedy ==
    ASSUME GreedyInv, NEW i \in Conns, SolveGpio(i), HeldGrows
    PROVE  Justified(i)'
<1>1. PICK p \in FreeCandidates(i) :
        /\ \A q \in FreeCandidates(i) \ {p} : Before(KindOf(i), p, q)
        /\ target' = [target EXCEPT ![i] = [kind |-> "gpio", at |-> p]]
        /\ used' = used \cup {p}
  BY DEF SolveGpio, Assign
<1>2. /\ phase = "solve" /\ unresolved' = unresolved /\ SafeChoices /\ TypeOK
      /\ UNCHANGED <<slot, lock, components, orig>> /\ target[i] = Unbound("gpio")
  BY DEF SolveGpio, Solvable, AtSolve, design, GreedyInv, SafeChoices
<1>3. target'[i].at = p /\ p \in Nat
  BY <1>1, <1>2, CandidatesArePins DEF TypeOK, FreeCandidates
<1>4. ASSUME NEW q \in Candidates(KindOf(i)), Before(KindOf(i), q, p)
      PROVE  q \in Held
  <2>1. q \in Nat /\ ~Before(KindOf(i), p, q) /\ q # p
    BY <1>3, <1>4, CandidatesArePins, BeforeIsStrict
  <2>2. q \in used
    BY <1>1, <2>1 DEF FreeCandidates
  <2>3. QED
    BY <1>2, <2>2 DEF GreedyInv, UsedIsHeld
<1>5. <<"no_gpio_candidate", i>> \notin unresolved
  <2>1. ~Explained(i)
    BY <1>2 DEF GreedyInv, GapsExplainedSoFar, SolveGpio, Solvable, AtSolve, TypeOK
  <2>2. QED
    BY <2>1 DEF Explained, GapCodes
<1>6. KindOf(i)' = KindOf(i)
  BY <1>2 DEF KindOf
<1>7. \A k : Candidates(k)' = Candidates(k)
  BY DEF Candidates
<1>8. \A k, r, q : Before(k, r, q)' = Before(k, r, q)
  BY DEF Before, SpecialRank, Adc2Penalty
<1>9. QED
  BY <1>2, <1>3, <1>4, <1>5, <1>6, <1>7, <1>8 DEF Justified, HeldGrows

LEMMA SolveStepGreedy ==
    ASSUME GreedyInv, NEW i \in Conns, SolveStep(i)
    PROVE  UsedIsHeld' /\ GreedySoFar'
<1>1. /\ phase = "solve" /\ UNCHANGED <<slot, lock, components, orig>>
      /\ SafeChoices /\ TypeOK /\ UsedIsHeld /\ GreedySoFar
  BY DEF SolveStep, AlreadyBound, Unresolvable, SolveGpio, NoGpioCandidate, SolveBus, NoBus,
         SolveExpanderPin, NoExpanderPin, SolveParent, NoParent, Unsolved, Solvable, AtSolve,
         design, GreedyInv, SafeChoices
<1>2. CASE SolveGpio(i) \/ SolveBus(i) \/ SolveExpanderPin(i) \/ SolveParent(i)
  <2>1. PICK t : Binds(i, t)
    BY <1>1, <1>2, SolveBinds
  <2>2. /\ target'[i] = t /\ \A j \in Conns \ {i} : target'[j] = target[j]
        /\ ~IsUnbound(t) /\ t.kind = target[i].kind /\ IsUnbound(target[i])
        /\ target' = [target EXCEPT ![i] = t]
    BY <1>1, <2>1 DEF Binds, TypeOK
  <2>3. /\ HeldGrows
        /\ t.kind = "gpio" => t.at \in Held'
        /\ t.kind = "expander_pin" => t.at \in UsedExpanderPins'
    BY <1>1, <2>2, FillHolds
  <2>4. /\ used' \subseteq used \cup (IF t.kind = "gpio" THEN {t.at} ELSE {})
        /\ usedExp' \subseteq usedExp \cup (IF t.kind = "expander_pin" THEN {t.at} ELSE {})
        /\ unresolved' = unresolved
    <3>1. CASE SolveGpio(i)
      <4>1. PICK p : Assign(i, [kind |-> "gpio", at |-> p]) /\ used' = used \cup {p}
        BY <3>1 DEF SolveGpio
      <4>2. t = [kind |-> "gpio", at |-> p]
        BY <1>1, <2>2, <4>1 DEF Assign, TypeOK
      <4>3. QED
        BY <3>1, <4>1, <4>2 DEF SolveGpio
    <3>2. CASE SolveBus(i) \/ SolveParent(i)
      BY <3>2 DEF SolveBus, SolveParent
    <3>3. CASE SolveExpanderPin(i)
      <4>1. PICK p : Assign(i, [kind |-> "expander_pin", at |-> p]) /\ usedExp' = usedExp \cup {p}
        BY <3>3 DEF SolveExpanderPin
      <4>2. t = [kind |-> "expander_pin", at |-> p]
        BY <1>1, <2>2, <4>1 DEF Assign, TypeOK
      <4>3. QED
        BY <3>3, <4>1, <4>2 DEF SolveExpanderPin
    <3>4. QED
      BY <1>2, <3>1, <3>2, <3>3
  <2>5. UsedIsHeld'
    BY <1>1, <2>3, <2>4 DEF UsedIsHeld, HeldGrows
  <2>6. ASSUME NEW j \in Conns, j # i, orig[j] = Unbound("gpio") PROVE Justified(j)'
    <3>1. Justified(j)
      BY <1>1, <2>6 DEF GreedySoFar
    <3>2. SolverChose(j)' => SolverChose(j) /\ target'[j] = target[j]
      BY <1>1, <2>2, <2>6 DEF SolverChose, IsLocked, IsUnbound
    <3>3. QED
      BY <1>1, <2>3, <2>4, <3>1, <3>2, JustifiedStays
  <2>7. ASSUME orig[i] = Unbound("gpio") PROVE Justified(i)'
    <3>1. target[i].kind = "gpio"
      BY <1>1, <2>7 DEF SafeChoices, BoundTargetsKept, Unbound
    <3>2. SolveGpio(i)
      BY <1>2, <3>1 DEF SolveBus, SolveExpanderPin, SolveParent, Solvable, Unbound
    <3>3. QED
      BY <2>3, <3>2, SolveGpioGreedy
  <2>8. QED
    BY <1>1, <2>5, <2>6, <2>7 DEF GreedySoFar
<1>3. CASE \/ AlreadyBound(i) \/ Unresolvable(i) \/ NoGpioCandidate(i) \/ NoBus(i)
           \/ NoExpanderPin(i) \/ NoParent(i)
  <2>1. UNCHANGED <<target, used, usedExp>>
    BY <1>3 DEF AlreadyBound, Unresolvable, NoGpioCandidate, NoBus, NoExpanderPin, NoParent,
                Unsolved, Solvable, AtSolve, design, result
  <2>2. HeldGrows /\ Held' = Held /\ UsedExpanderPins' = UsedExpanderPins
    BY <1>1, <2>1, SameTargetsHold
  <2>3. UsedIsHeld'
    BY <1>1, <2>1, <2>2 DEF UsedIsHeld
  <2>4. \A j \in Conns : SolverChose(j)' = SolverChose(j)
    BY <1>1, <2>1 DEF SolverChose, IsLocked, IsUnbound
  <2>5. \/ unresolved' = unresolved
        \/ \E c : c # "no_gpio_candidate" /\ Flag(i, c)
        \/ NoGpioCandidate(i) /\ Flag(i, "no_gpio_candidate")
    <3>1. Lookup(slot[i]) # "no_gpio_candidate"
      BY DEF Lookup
    <3>2. QED
      BY <1>3, <3>1 DEF AlreadyBound, Unresolvable, NoGpioCandidate, NoBus, NoExpanderPin,
                        NoParent, Unsolved, result
  <2>6. ASSUME NEW j \in Conns, orig[j] = Unbound("gpio"),
               <<"no_gpio_candidate", j>> \in unresolved' => <<"no_gpio_candidate", j>> \in unresolved
        PROVE  Justified(j)'
    <3>1. Justified(j)
      BY <1>1, <2>6 DEF GreedySoFar
    <3>2. SolverChose(j)' => SolverChose(j) /\ target'[j] = target[j]
      BY <2>1, <2>4
    <3>3. QED
      BY <1>1, <2>2, <2>6, <3>1, <3>2, JustifiedStays
  <2>7. ASSUME NoGpioCandidate(i), orig[i] = Unbound("gpio") PROVE Justified(i)'
    <3>1. Candidates(KindOf(i)) \subseteq Held
      BY <1>1, <2>7 DEF NoGpioCandidate, FreeCandidates, UsedIsHeld
    <3>2. ~SolverChose(i)'
      <4>1. target'[i] = target[i] /\ IsUnbound(target[i])
        BY <2>1, <2>7 DEF NoGpioCandidate, Solvable, Unbound, IsUnbound
      <4>2. QED
        BY <4>1 DEF SolverChose, IsUnbound
    <3>3. KindOf(i)' = KindOf(i)
      BY <1>1 DEF KindOf
    <3>4. \A k : Candidates(k)' = Candidates(k)
      BY DEF Candidates
    <3>5. QED
      BY <2>2, <3>1, <3>2, <3>3, <3>4 DEF Justified
  <2>8. ASSUME NEW j \in Conns, orig[j] = Unbound("gpio") PROVE Justified(j)'
    <3>1. CASE j = i /\ NoGpioCandidate(i)
      BY <2>7, <2>8, <3>1
    <3>2. CASE ~(j = i /\ NoGpioCandidate(i))
      <4>1. <<"no_gpio_candidate", j>> \in unresolved' => <<"no_gpio_candidate", j>> \in unresolved
        BY <2>5, <3>2 DEF Flag
      <4>2. QED
        BY <2>6, <2>8, <4>1
    <3>3. QED
      BY <3>1, <3>2
  <2>9. QED
    BY <1>1, <2>3, <2>8 DEF GreedySoFar
<1>4. QED
  BY <1>2, <1>3 DEF SolveStep

LEMMA NextGreedy == GreedyInv /\ [Next]_vars => UsedIsHeld' /\ GreedySoFar'
<1> SUFFICES ASSUME GreedyInv, [Next]_vars PROVE UsedIsHeld' /\ GreedySoFar'
  OBVIOUS
<1>1. SafeChoices /\ TypeOK /\ UsedIsHeld /\ GreedySoFar
  BY DEF GreedyInv, SafeChoices
<1>2. ASSUME UNCHANGED <<target, slot, lock, components, orig>>,
             \A j \in Conns : <<"no_gpio_candidate", j>> \in unresolved'
                                => <<"no_gpio_candidate", j>> \in unresolved
      PROVE  GreedySoFar'
  <2>1. HeldGrows
    BY <1>2, SameTargetsHold
  <2> SUFFICES ASSUME NEW j \in Conns, orig[j] = Unbound("gpio") PROVE Justified(j)'
    BY <1>2 DEF GreedySoFar
  <2>2. Justified(j)
    BY <1>1 DEF GreedySoFar
  <2>3. SolverChose(j)' => SolverChose(j) /\ target'[j] = target[j]
    BY <1>2 DEF SolverChose, IsLocked, IsUnbound
  <2>4. QED
    BY <1>2, <2>1, <2>2, <2>3, JustifiedStays
<1>3. CASE NoBoard \/ Finish
  <2>1. UNCHANGED <<target, slot, lock, components, orig, unresolved>> /\ phase' = "done"
    BY <1>3 DEF NoBoard, Finish, design
  <2>2. QED
    BY <1>2, <2>1 DEF UsedIsHeld
<1>4. CASE Start
  <2>1. /\ UNCHANGED <<target, slot, lock, components, orig>>
        /\ used' = UsedGpioPins /\ usedExp' = UsedExpanderPins
    BY <1>4 DEF Start, design
  <2>2. \A j \in Conns : <<"no_gpio_candidate", j>> \notin unresolved'
    BY <1>4 DEF Start
  <2>3. Held' = Held /\ UsedExpanderPins' = UsedExpanderPins
    BY <2>1, SameTargetsHold
  <2>4. UsedIsHeld'
    BY <2>1, <2>3 DEF UsedIsHeld, Held
  <2>5. QED
    BY <1>2, <2>1, <2>2, <2>4
<1>5. CASE LocksDone \/ UNCHANGED vars
  <2>1. /\ UNCHANGED <<target, slot, lock, components, orig, unresolved, used, usedExp>>
        /\ phase' \in {"locks", "solve"} => phase \in {"locks", "solve"}
    BY <1>5 DEF LocksDone, vars, design, result
  <2>2. Held' = Held /\ UsedExpanderPins' = UsedExpanderPins
    BY <2>1, SameTargetsHold
  <2>3. UsedIsHeld'
    BY <1>1, <2>1, <2>2 DEF UsedIsHeld
  <2>4. QED
    BY <1>2, <2>1, <2>3
<1>6. CASE SolveAgain
  <2>1. phase' = "start" /\ orig' = target' /\ unresolved' = {}
    BY <1>6 DEF SolveAgain
  <2>2. \A j \in Conns : ~SolverChose(j)'
    BY <2>1 DEF SolverChose
  <2>3. QED
    BY <2>1, <2>2 DEF UsedIsHeld, GreedySoFar, Justified
<1>7. ASSUME NEW i \in Conns, ApplyLock(i) PROVE UsedIsHeld' /\ GreedySoFar'
  BY <1>7, LockStepGreedy
<1>8. ASSUME NEW i \in Conns, SolveStep(i) PROVE UsedIsHeld' /\ GreedySoFar'
  BY <1>8, SolveStepGreedy
<1>9. QED
  BY <1>3, <1>4, <1>5, <1>6, <1>7, <1>8 DEF Next

LEMMA InitGreedy == Init => UsedIsHeld /\ GreedySoFar
<1> SUFFICES ASSUME Init PROVE UsedIsHeld /\ GreedySoFar
  OBVIOUS
<1>1. orig = target /\ unresolved = {} /\ phase = "start"
  BY DEF Init
<1>2. \A i \in Conns : ~SolverChose(i)
  BY <1>1 DEF SolverChose
<1>3. QED
  BY <1>1, <1>2 DEF UsedIsHeld, GreedySoFar, Justified

LEMMA GreedyInvHolds == Spec => []GreedyInv
<1>1. Init => GapsExplainedSoFar /\ GapsExplained
  BY DEF Init, GapsExplainedSoFar, GapsExplained, Explained
<1>2. SafeChoices /\ GapsExplainedSoFar /\ UsedIsHeld /\ GreedySoFar => GreedyInv
  BY DEF GreedyInv
<1>3. QED
  BY <1>1, <1>2, InitGreedy, SafeChoicesHold, NextExplains, NextGreedy, PTL DEF Spec

\* No pin is lost to the bookkeeping: whatever the solver would have liked
\* better, and whatever it says there is none of, somebody has.
THEOREM ChoicesAreGreedy == Spec => []GreedyChoiceJustified
<1>1. GreedyInv => GreedyChoiceJustified
  BY DEF GreedyInv, GreedySoFar, Justified, GreedyChoiceJustified
<1>2. QED
  BY <1>1, GreedyInvHolds, PTL

-----------------------------------------------------------------------------
(* Solving twice.                                                          *)

\* No lock and nothing that the board, the design or an expander has is left
\* for an empty connection.
Stuck(i) ==
    /\ target[i].kind = "gpio" => ~IsLocked(i)
    /\ Lookup(slot[i]) = "ok" =>
          /\ target[i].kind = "gpio" => Candidates(KindOf(i)) \subseteq Held
          /\ target[i].kind = "bus" => BusOptions(i) = {}
          /\ target[i].kind = "expander_pin" =>
                 UNION {SlotsOf(e) : e \in Expanders} \subseteq UsedExpanderPins
          /\ target[i].kind = "component" => Parents(i) = {}

AllStuck == \A i \in Conns : IsUnbound(target[i]) => Stuck(i)

\* What the second loop has left empty is stuck, and so is all that the
\* solver finds empty in its second round.
StuckSoFar ==
    /\ round = 1 /\ phase = "solve" => \A i \in Conns : i < idx /\ IsUnbound(target[i]) => Stuck(i)
    /\ round = 1 /\ phase = "done" /\ board = "known" => AllStuck
    /\ round = 2 => AllStuck /\ assigned = {}

StuckInv == GreedyInv /\ LocksFilled /\ StuckSoFar

LEMMA StuckStays ==
    ASSUME NEW i \in Conns, Stuck(i), HeldGrows, UNCHANGED <<slot, lock, components>>,
           target'[i] = target[i]
    PROVE  Stuck(i)'
<1>1. IsLocked(i)' = IsLocked(i) /\ Lookup(slot[i])' = Lookup(slot[i]) /\ KindOf(i)' = KindOf(i)
  BY DEF IsLocked, Lookup, KindOf
<1>2. BusOptions(i)' = BusOptions(i)
  BY <1>1 DEF BusOptions, BusTypeFor
<1>3. Parents(i)' = Parents(i)
  BY DEF Parents
<1>4. Expanders' = Expanders /\ \A e : SlotsOf(e)' = SlotsOf(e)
  BY DEF Expanders, SlotsOf
<1>5. (UNION {SlotsOf(e) : e \in Expanders})' = UNION {SlotsOf(e) : e \in Expanders}
  BY <1>4
<1>6. Candidates(KindOf(i))' = Candidates(KindOf(i))
  BY <1>1 DEF Candidates
<1>7. QED
  BY <1>1, <1>2, <1>3, <1>5, <1>6 DEF Stuck, HeldGrows

LEMMA AllStuckStays ==
    ASSUME AllStuck, UNCHANGED <<target, slot, lock, components>>
    PROVE  AllStuck'
<1>1. HeldGrows
  BY SameTargetsHold
<1>2. QED
  BY <1>1, StuckStays DEF AllStuck, IsUnbound

\* Nothing is left to do for a connection that is stuck.
LEMMA StuckIsIdle ==
    ASSUME StuckInv, NEW i \in Conns, IsUnbound(target[i]) => Stuck(i)
    PROVE  /\ ~LockFill(i) /\ ~SolveGpio(i) /\ ~SolveBus(i) /\ ~SolveExpanderPin(i)
           /\ ~SolveParent(i)
<1>1. SafeChoices /\ UsedCovers /\ LocksCovered
  BY DEF StuckInv, GreedyInv, SafeChoices
<1>2. ~LockFill(i)
  BY DEF LockFill, Stuck, IsUnbound, Unbound
<1>3. ~SolveGpio(i)
  <2> SUFFICES ASSUME SolveGpio(i) PROVE FALSE
    OBVIOUS
  <2>1. phase = "solve" /\ Lookup(slot[i]) = "ok" /\ target[i] = Unbound("gpio")
    BY DEF SolveGpio, Solvable, AtSolve
  <2>2. Candidates(KindOf(i)) \subseteq Held
    BY <2>1 DEF Stuck, Unbound, IsUnbound
  <2>3. UsedGpioPins \subseteq used
    BY <1>1, <2>1 DEF UsedCovers
  <2>4. LockedPins \subseteq used
    BY <1>1, <2>1 DEF LocksCovered, LockedPins
  <2>5. FreeCandidates(i) = {}
    BY <2>2, <2>3, <2>4 DEF FreeCandidates, Held
  <2>6. QED
    BY <2>5 DEF SolveGpio
<1>4. ~SolveBus(i)
  <2> SUFFICES ASSUME SolveBus(i) PROVE FALSE
    OBVIOUS
  <2>1. Lookup(slot[i]) = "ok" /\ target[i] = Unbound("bus")
    BY DEF SolveBus, Solvable
  <2>2. BusOptions(i) = {}
    BY <2>1 DEF Stuck, Unbound, IsUnbound
  <2>3. QED
    BY <2>2 DEF SolveBus
<1>5. ~SolveExpanderPin(i)
  <2> SUFFICES ASSUME SolveExpanderPin(i) PROVE FALSE
    OBVIOUS
  <2>1. phase = "solve" /\ Lookup(slot[i]) = "ok" /\ target[i] = Unbound("expander_pin")
    BY DEF SolveExpanderPin, Solvable, AtSolve
  <2>2. UNION {SlotsOf(e) : e \in Expanders} \subseteq UsedExpanderPins
    BY <2>1 DEF Stuck, Unbound, IsUnbound
  <2>3. UsedExpanderPins \subseteq usedExp
    BY <1>1, <2>1 DEF UsedCovers
  <2>4. FreeExpanderPins = {}
    BY <2>2, <2>3 DEF FreeExpanderPins
  <2>5. QED
    BY <2>4 DEF SolveExpanderPin
<1>6. ~SolveParent(i)
  <2> SUFFICES ASSUME SolveParent(i) PROVE FALSE
    OBVIOUS
  <2>1. Lookup(slot[i]) = "ok" /\ target[i] = Unbound("component")
    BY DEF SolveParent, Solvable
  <2>2. Parents(i) = {}
    BY <2>1 DEF Stuck, Unbound, IsUnbound
  <2>3. QED
    BY <2>2 DEF SolveParent
<1>7. QED
  BY <1>2, <1>3, <1>4, <1>5, <1>6

LEMMA LockStepStuck ==
    ASSUME StuckInv, NEW i \in Conns, ApplyLock(i)
    PROVE  StuckSoFar'
<1>1. phase' = "locks" /\ UNCHANGED <<round, slot, lock, components>>
  BY DEF ApplyLock, NotLocked, LockWrongKind, LockAligned, LockMismatch, LockFill, AtLock,
         design, result
<1>2. ASSUME round = 2 PROVE AllStuck' /\ assigned' = {}
  <2>1. AllStuck /\ assigned = {}
    BY <1>2 DEF StuckInv, StuckSoFar
  <2>2. ~LockFill(i)
    BY <2>1, StuckIsIdle DEF AllStuck
  <2>3. UNCHANGED <<target, assigned>>
    BY <2>2 DEF ApplyLock, NotLocked, LockWrongKind, LockAligned, LockMismatch, result
  <2>4. QED
    BY <1>1, <2>1, <2>3, AllStuckStays
<1>3. QED
  BY <1>1, <1>2 DEF StuckSoFar

\* A connection that an iteration leaves empty is stuck.
LEMMA GaveUpIsStuck ==
    ASSUME StuckInv, NEW i \in Conns,
           \/ Unresolvable(i) \/ NoGpioCandidate(i) \/ NoBus(i)
           \/ NoExpanderPin(i) \/ NoParent(i)
    PROVE  Stuck(i)
<1>1. phase = "solve" /\ IsUnbound(target[i])
  BY LibraryAssumption DEF Unresolvable, NoGpioCandidate, NoBus, NoExpanderPin, NoParent,
     Solvable, AtSolve, IsUnbound, Unbound
<1>2. target[i].kind = "gpio" => ~IsLocked(i)
  BY <1>1 DEF StuckInv, LocksFilled, IsUnbound
<1>3. used \subseteq Held /\ usedExp \subseteq UsedExpanderPins
  BY <1>1 DEF StuckInv, GreedyInv, UsedIsHeld
<1>4. CASE Unresolvable(i)
  BY <1>2, <1>4 DEF Unresolvable, Stuck
<1>5. CASE NoGpioCandidate(i)
  <2>1. target[i].kind = "gpio" /\ Candidates(KindOf(i)) \subseteq Held
    BY <1>3, <1>5 DEF NoGpioCandidate, FreeCandidates, Solvable, Unbound
  <2>2. QED
    BY <1>2, <2>1 DEF Stuck
<1>6. CASE NoBus(i)
  BY <1>2, <1>6 DEF NoBus, Stuck, Solvable, Unbound
<1>7. CASE NoExpanderPin(i)
  <2>1. /\ target[i].kind = "expander_pin"
        /\ UNION {SlotsOf(e) : e \in Expanders} \subseteq UsedExpanderPins
    BY <1>3, <1>7 DEF NoExpanderPin, FreeExpanderPins, Solvable, Unbound
  <2>2. QED
    BY <2>1 DEF Stuck
<1>8. CASE NoParent(i)
  BY <1>2, <1>8 DEF NoParent, Stuck, Solvable, Unbound
<1>9. QED
  BY <1>4, <1>5, <1>6, <1>7, <1>8

LEMMA SolveStepStuck ==
    ASSUME StuckInv, NEW i \in Conns, SolveStep(i)
    PROVE  StuckSoFar'
<1>1. /\ phase = "solve" /\ phase' = "solve" /\ i = idx /\ idx' = idx + 1
      /\ UNCHANGED <<round, slot, lock, components>> /\ SafeChoices /\ TypeOK
  <2>1. phase = "solve" /\ i = idx /\ idx' = i + 1
    BY DEF SolveStep, AlreadyBound, Unresolvable, SolveGpio, NoGpioCandidate, SolveBus, NoBus,
           SolveExpanderPin, NoExpanderPin, SolveParent, NoParent, Solvable, AtSolve
  <2>2. phase' = phase /\ UNCHANGED <<round, slot, lock, components>>
    BY DEF SolveStep, AlreadyBound, Unresolvable, SolveGpio, NoGpioCandidate, SolveBus, NoBus,
           SolveExpanderPin, NoExpanderPin, SolveParent, NoParent, Unsolved, result, design
  <2>3. QED
    BY <2>1, <2>2 DEF StuckInv, GreedyInv, SafeChoices
<1>2. CASE SolveGpio(i) \/ SolveBus(i) \/ SolveExpanderPin(i) \/ SolveParent(i)
  <2>1. PICK t : Binds(i, t)
    BY <1>1, <1>2, SolveBinds
  <2>2. /\ target'[i] = t /\ \A j \in Conns \ {i} : target'[j] = target[j]
        /\ ~IsUnbound(t) /\ t.kind = target[i].kind /\ IsUnbound(target[i])
        /\ target' = [target EXCEPT ![i] = t]
    BY <1>1, <2>1 DEF Binds, TypeOK
  <2>3. HeldGrows
    BY <1>1, <2>2, FillHolds
  <2>4. round = 1
    <3>1. round = 2 => ~(IsUnbound(target[i]) => Stuck(i))
      BY <1>2, StuckIsIdle
    <3>2. round = 2 => AllStuck
      BY DEF StuckInv, StuckSoFar
    <3>3. QED
      BY <1>1, <3>1, <3>2 DEF AllStuck, TypeOK
  <2>5. ASSUME NEW j \in Conns, j < idx', IsUnbound(target'[j]) PROVE Stuck(j)'
    <3>1. j # i /\ j < idx
      BY <1>1, <2>2, <2>5 DEF TypeOK, IsUnbound
    <3>2. target'[j] = target[j] /\ IsUnbound(target[j])
      BY <2>2, <2>5, <3>1 DEF IsUnbound
    <3>3. Stuck(j)
      BY <1>1, <2>4, <3>1, <3>2 DEF StuckInv, StuckSoFar
    <3>4. QED
      BY <1>1, <2>3, <3>2, <3>3, StuckStays
  <2>6. QED
    BY <1>1, <2>4, <2>5 DEF StuckSoFar, IsUnbound
<1>3. CASE \/ AlreadyBound(i) \/ Unresolvable(i) \/ NoGpioCandidate(i) \/ NoBus(i)
           \/ NoExpanderPin(i) \/ NoParent(i)
  <2>1. UNCHANGED <<target, assigned>>
    BY <1>3 DEF AlreadyBound, Unresolvable, NoGpioCandidate, NoBus, NoExpanderPin, NoParent,
                Unsolved, Solvable, AtSolve, design, result
  <2>2. HeldGrows
    BY <1>1, <2>1, SameTargetsHold
  <2>3. IsUnbound(target[i]) => Stuck(i)
    BY <1>3, GaveUpIsStuck DEF AlreadyBound
  <2>4. ASSUME round = 1, NEW j \in Conns, j < idx', IsUnbound(target'[j]) PROVE Stuck(j)'
    <3>1. j = i \/ j < idx
      BY <1>1, <2>4 DEF TypeOK
    <3>2. IsUnbound(target[j]) /\ target'[j] = target[j]
      BY <2>1, <2>4 DEF IsUnbound
    <3>3. Stuck(j)
      BY <1>1, <2>3, <2>4, <3>1, <3>2 DEF StuckInv, StuckSoFar
    <3>4. QED
      BY <1>1, <2>2, <3>2, <3>3, StuckStays
  <2>5. round = 2 => AllStuck' /\ assigned' = {}
    BY <1>1, <2>1, AllStuckStays DEF StuckInv, StuckSoFar
  <2>6. QED
    BY <1>1, <2>4, <2>5 DEF StuckSoFar, IsUnbound
<1>4. QED
  BY <1>2, <1>3 DEF SolveStep

LEMMA NextStuck == StuckInv /\ [Next]_vars => StuckSoFar'
<1> SUFFICES ASSUME StuckInv, [Next]_vars PROVE StuckSoFar'
  OBVIOUS
<1>1. TypeOK
  BY DEF StuckInv, GreedyInv, SafeChoices
<1>2. ASSUME UNCHANGED <<target, slot, lock, components, assigned, round>> 
      PROVE  round = 2 => AllStuck' /\ assigned' = {}
  BY <1>2, AllStuckStays DEF StuckInv, StuckSoFar
<1>3. CASE NoBoard \/ Start
  <2>1. /\ UNCHANGED <<target, slot, lock, components, assigned, round>>
        /\ phase' # "solve" /\ ~(phase' = "done" /\ board' = "known")
    BY <1>3 DEF NoBoard, Start, design
  <2>2. QED
    BY <1>2, <2>1 DEF StuckSoFar
<1>4. CASE LocksDone
  <2>1. UNCHANGED <<target, slot, lock, components, assigned, round>> /\ phase' = "solve" /\ idx' = 1
    BY <1>4 DEF LocksDone, design, result
  <2>2. \A i \in Conns : ~(i < idx')
    BY <2>1
  <2>3. QED
    BY <1>2, <2>1, <2>2 DEF StuckSoFar
<1>5. CASE Finish
  <2>1. /\ UNCHANGED <<target, slot, lock, components, assigned, round>>
        /\ phase = "solve" /\ phase' = "done" /\ \A i \in Conns : i < idx
    BY <1>5 DEF Finish, design
  <2>2. round = 1 => AllStuck
    BY <2>1 DEF StuckInv, StuckSoFar, AllStuck
  <2>3. round = 1 => AllStuck'
    BY <2>1, <2>2, AllStuckStays
  <2>4. QED
    BY <1>2, <2>1, <2>3 DEF StuckSoFar
<1>6. CASE SolveAgain
  <2>1. /\ UNCHANGED <<target, slot, lock, components>> /\ round' = 2 /\ assigned' = {}
        /\ round = 1 /\ phase = "done" /\ board = "known"
    BY <1>6 DEF SolveAgain
  <2>2. AllStuck'
    BY <2>1, AllStuckStays DEF StuckInv, StuckSoFar
  <2>3. QED
    BY <2>1, <2>2 DEF StuckSoFar
<1>7. CASE UNCHANGED vars
  <2>1. UNCHANGED <<target, slot, lock, components, assigned, round, phase, idx, board>>
    BY <1>7 DEF vars, design, result
  <2>2. HeldGrows
    BY <2>1, SameTargetsHold
  <2>3. \A i \in Conns : Stuck(i) => Stuck(i)'
    BY <2>1, <2>2, StuckStays
  <2>4. QED
    BY <2>1, <2>3 DEF StuckInv, StuckSoFar, AllStuck, IsUnbound
<1>8. ASSUME NEW i \in Conns, ApplyLock(i) PROVE StuckSoFar'
  BY <1>8, LockStepStuck
<1>9. ASSUME NEW i \in Conns, SolveStep(i) PROVE StuckSoFar'
  BY <1>9, SolveStepStuck
<1>10. QED
  BY <1>3, <1>4, <1>5, <1>6, <1>7, <1>8, <1>9 DEF Next

\* A second press of Solve pins has nothing to do: whatever the first left
\* empty it left for a reason that its own choices did not take away.
THEOREM SolvingTwiceIsSolvingOnce == Spec => []SolveIsIdempotent
<1>1. Init => LocksFilled /\ StuckSoFar
  BY DEF Init, LocksFilled, StuckSoFar
<1>2. GreedyInv => SafeChoices
  BY DEF GreedyInv
<1>3. GreedyInv /\ LocksFilled /\ StuckSoFar => StuckInv
  BY DEF StuckInv
<1>4. StuckSoFar => SolveIsIdempotent
  BY DEF StuckSoFar, SolveIsIdempotent
<1>5. QED
  BY <1>1, <1>2, <1>3, <1>4, GreedyInvHolds, NextFills, NextStuck, PTL DEF Spec

-----------------------------------------------------------------------------
(* What the checker makes of a solved design.                              *)

\* A pin the solver chose, and every candidate it would have liked better.
LEMMA ChosenPin ==
    ASSUME SafeChoices, GreedyChoiceJustified, Solved, NEW i \in Conns, GpioChosen(i)
    PROVE  \A q \in Candidates(KindOf(i)) :
               Before(KindOf(i), q, target[i].at) => q \in Held
<1>1. orig[i] \in Targets /\ orig[i].kind = "gpio" /\ orig[i].at = None
  BY DEF SafeChoices, TypeOK, BoundTargetsKept, GpioChosen, SolverChose, IsUnbound
<1>2. orig[i] = Unbound("gpio")
  BY <1>1, TargetFields DEF Unbound
<1>3. QED
  BY <1>2 DEF GreedyChoiceJustified, Solved, GpioChosen

LEMMA RanksAreBits ==
    \A k, p : SpecialRank(p) \in {0, 1} /\ Adc2Penalty(k, p) \in {0, 1}
  BY DEF SpecialRank, Adc2Penalty

\* The pins that the checker warns about are pins that the solver avoids.
LEMMA RiskIsForced ==
    ASSUME SafeChoices, GreedyChoiceJustified, Solved, NEW i \in Conns, GpioChosen(i)
    PROVE  /\ ConnectionWarnings(i) \cap {"boot_strap_output", "serial_console"} # {}
                => PlainCandidates(i) \subseteq Held
           /\ "adc2_wifi_conflict" \in ConnectionWarnings(i)
                => {p \in PlainCandidates(i) : "adc2" \notin Caps[p]} \subseteq Held
<1> DEFINE at == target[i].at
<1>1. ASSUME NEW code \in ConnectionWarnings(i)
      PROVE  code \in Complaints(KindOf(i), CapsOf(at))
  BY <1>1 DEF ConnectionWarnings
<1>2. CapsOf(at) # {} => CapsOf(at) = Caps[at]
  BY DEF CapsOf
<1>3. ASSUME ConnectionWarnings(i) \cap {"boot_strap_output", "serial_console"} # {},
             NEW q \in PlainCandidates(i)
      PROVE  q \in Held
  <2>1. CapsOf(at) \cap {"boot_high", "boot_low", "serial_tx", "serial_rx"} # {}
    BY <1>1, <1>3 DEF Complaints
  <2>2. SpecialRank(at) = 1
    BY <1>2, <2>1 DEF SpecialRank, Special
  <2>3. q \in Candidates(KindOf(i)) /\ SpecialRank(q) = 0
    BY <1>3 DEF PlainCandidates
  <2>4. Before(KindOf(i), q, at)
    BY <2>2, <2>3 DEF Before
  <2>5. QED
    BY <2>3, <2>4, ChosenPin
<1>4. ASSUME "adc2_wifi_conflict" \in ConnectionWarnings(i),
             NEW q \in PlainCandidates(i), "adc2" \notin Caps[q]
      PROVE  q \in Held
  <2>1. KindOf(i) = "analog_in" /\ "adc2" \in CapsOf(at) /\ ClassicEsp32
    BY <1>1, <1>4 DEF Complaints
  <2>2. Adc2Penalty(KindOf(i), at) = 1 /\ Adc2Penalty(KindOf(i), q) = 0
    BY <1>2, <1>4, <2>1 DEF Adc2Penalty
  <2>3. q \in Candidates(KindOf(i)) /\ SpecialRank(q) = 0
    BY <1>4 DEF PlainCandidates
  <2>4. Before(KindOf(i), q, at)
    BY <2>2, <2>3, RanksAreBits DEF Before
  <2>5. QED
    BY <2>3, <2>4, ChosenPin
<1>5. QED
  BY <1>3, <1>4

\* A pin that the checker warns about is the solver's last resort.
THEOREM RiskIsTheLastResort == Spec => []RiskOnlyWhenForced
<1>1. SafeChoices /\ GreedyChoiceJustified => RiskOnlyWhenForced
  BY RiskIsForced DEF RiskOnlyWhenForced
<1>2. QED
  BY <1>1, SafeChoicesHold, ChoicesAreGreedy, PTL

\* An empty gpio connection with a lock gets the pin of its lock.
LocksDecide ==
    \A i \in Conns :
        orig[i] = Unbound("gpio") /\ IsLocked(i) =>
            target[i] \in {Unbound("gpio"), [kind |-> "gpio", at |-> lock[slot[i]]]}

LEMMA NextDecides == SafeChoices /\ LocksFilled /\ LocksDecide /\ [Next]_vars => LocksDecide'
<1> SUFFICES ASSUME SafeChoices, LocksFilled, LocksDecide, [Next]_vars PROVE LocksDecide'
  OBVIOUS
<1>1. ASSUME UNCHANGED <<target, slot, lock, components, orig>> PROVE LocksDecide'
  BY <1>1 DEF LocksDecide, IsLocked
<1>2. CASE NoBoard \/ Start \/ LocksDone \/ Finish \/ UNCHANGED vars
  BY <1>1, <1>2 DEF NoBoard, Start, LocksDone, Finish, vars, design
<1>3. CASE SolveAgain
  BY <1>3 DEF SolveAgain, LocksDecide
<1>4. ASSUME NEW i \in Conns, ApplyLock(i) PROVE LocksDecide'
  <2>1. CASE LockFill(i)
    <3>1. /\ target'[i] = [kind |-> "gpio", at |-> lock[slot[i]]]
          /\ \A j \in Conns \ {i} : target'[j] = target[j]
          /\ UNCHANGED <<slot, lock, components, orig>>
      BY <2>1 DEF LockFill, Assign, SafeChoices, TypeOK, design
    <3>2. \A j \in Conns : IsLocked(j)' = IsLocked(j)
      BY <3>1 DEF IsLocked
    <3>3. QED
      BY <3>1, <3>2 DEF LocksDecide
  <2>2. CASE NotLocked(i) \/ LockWrongKind(i) \/ LockAligned(i) \/ LockMismatch(i)
    BY <1>1, <2>2 DEF NotLocked, LockWrongKind, LockAligned, LockMismatch, design
  <2>3. QED
    BY <1>4, <2>1, <2>2 DEF ApplyLock
<1>5. ASSUME NEW i \in Conns, SolveStep(i) PROVE LocksDecide'
  <2>1. CASE SolveGpio(i) \/ SolveBus(i) \/ SolveExpanderPin(i) \/ SolveParent(i)
    <3>1. PICK t : Binds(i, t)
      BY <2>1, SolveBinds DEF SafeChoices
    <3>2. /\ target'[i] = t /\ \A j \in Conns \ {i} : target'[j] = target[j]
          /\ UNCHANGED <<slot, lock, components, orig>>
      BY <3>1 DEF Binds, SafeChoices, TypeOK
    <3>3. \A j \in Conns : IsLocked(j)' = IsLocked(j)
      BY <3>2 DEF IsLocked
    <3>4. ~(orig[i] = Unbound("gpio") /\ IsLocked(i))
      BY <3>1 DEF Binds, LocksFilled, SafeChoices, BoundTargetsKept, Unbound, IsUnbound
    <3>5. QED
      BY <3>2, <3>3, <3>4 DEF LocksDecide
  <2>2. CASE \/ AlreadyBound(i) \/ Unresolvable(i) \/ NoGpioCandidate(i) \/ NoBus(i)
             \/ NoExpanderPin(i) \/ NoParent(i)
    BY <1>1, <2>2 DEF AlreadyBound, Unresolvable, NoGpioCandidate, NoBus, NoExpanderPin,
                      NoParent, Unsolved, Solvable, AtSolve, design
  <2>3. QED
    BY <1>5, <2>1, <2>2 DEF SolveStep
<1>6. QED
  BY <1>2, <1>3, <1>4, <1>5 DEF Next

\* The two tables of required capabilities agree, except that a kind which
\* neither lists needs "gpio" for the solver and nothing for a lock.
LEMMA TablesAgree ==
    ASSUME NEW kind
    PROVE  \/ LockRequires(kind) = RequiredCaps(kind)
           \/ LockRequires(kind) = {} /\ RequiredCaps(kind) = {"gpio"}
  BY DEF LockRequires, RequiredCaps

\* What the solver chose is a candidate of its connection.
ChoosesCandidates ==
    \A i \in Conns : orig[i].kind = "gpio" /\ SolverChose(i) => target[i].at \in Candidates(KindOf(i))

LEMMA NextChooses == SafeChoices /\ ChoosesCandidates /\ [Next]_vars => ChoosesCandidates'
<1> SUFFICES ASSUME SafeChoices, ChoosesCandidates, [Next]_vars PROVE ChoosesCandidates'
  OBVIOUS
<1>1. ASSUME UNCHANGED <<target, slot, lock, components, orig>> PROVE ChoosesCandidates'
  BY <1>1 DEF ChoosesCandidates, SolverChose, IsLocked, KindOf
<1>2. CASE NoBoard \/ Start \/ LocksDone \/ Finish \/ UNCHANGED vars
  BY <1>1, <1>2 DEF NoBoard, Start, LocksDone, Finish, vars, design
<1>3. CASE SolveAgain
  BY <1>3 DEF SolveAgain, ChoosesCandidates, SolverChose, IsUnbound
<1>4. ASSUME NEW i \in Conns, ApplyLock(i) PROVE ChoosesCandidates'
  <2>1. CASE LockFill(i)
    <3>1. /\ target'[i] = [kind |-> "gpio", at |-> lock[slot[i]]]
          /\ \A j \in Conns \ {i} : target'[j] = target[j]
          /\ IsLocked(i)
          /\ UNCHANGED <<slot, lock, components, orig>>
      BY <2>1 DEF LockFill, AtLock, Assign, SafeChoices, TypeOK, design
    <3>2. \A j \in Conns : IsLocked(j)' = IsLocked(j) /\ KindOf(j)' = KindOf(j)
      BY <3>1 DEF IsLocked, KindOf
    <3>3. ~SolverChose(i)'
      BY <3>1, <3>2 DEF SolverChose
    <3>4. \A j \in Conns \ {i} : SolverChose(j)' = SolverChose(j)
      BY <3>1, <3>2 DEF SolverChose, IsUnbound
    <3>5. QED
      BY <3>1, <3>2, <3>3, <3>4 DEF ChoosesCandidates
  <2>2. CASE NotLocked(i) \/ LockWrongKind(i) \/ LockAligned(i) \/ LockMismatch(i)
    BY <1>1, <2>2 DEF NotLocked, LockWrongKind, LockAligned, LockMismatch, design
  <2>3. QED
    BY <1>4, <2>1, <2>2 DEF ApplyLock
<1>5. ASSUME NEW i \in Conns, SolveStep(i) PROVE ChoosesCandidates'
  <2>1. CASE SolveGpio(i) \/ SolveBus(i) \/ SolveExpanderPin(i) \/ SolveParent(i)
    <3>1. PICK t : Binds(i, t)
      BY <2>1, SolveBinds DEF SafeChoices
    <3>2. /\ target'[i] = t /\ \A j \in Conns \ {i} : target'[j] = target[j]
          /\ UNCHANGED <<slot, lock, components, orig>>
      BY <3>1 DEF Binds, SafeChoices, TypeOK
    <3>3. \A j \in Conns : IsLocked(j)' = IsLocked(j) /\ KindOf(j)' = KindOf(j)
      BY <3>2 DEF IsLocked, KindOf
    <3>4. \A j \in Conns \ {i} : SolverChose(j)' = SolverChose(j)
      BY <3>2, <3>3 DEF SolverChose, IsUnbound
    <3>5. orig[i].kind = "gpio" => target'[i].at \in Candidates(KindOf(i))
      <4>1. orig[i].kind = target[i].kind
        BY <3>1 DEF Binds, SafeChoices, UnboundIsUntouched
      <4>2. CASE SolveGpio(i)
        <5>1. PICK p \in FreeCandidates(i) :
                target' = [target EXCEPT ![i] = [kind |-> "gpio", at |-> p]]
          BY <4>2 DEF SolveGpio, Assign
        <5>2. target'[i].at = p
          BY <5>1 DEF SafeChoices, TypeOK
        <5>3. QED
          BY <5>2 DEF FreeCandidates
      <4>3. CASE SolveBus(i) \/ SolveExpanderPin(i) \/ SolveParent(i)
        <5>1. \E k \in {"bus", "expander_pin", "component"} : Solvable(i, k)
          BY <4>3 DEF SolveBus, SolveExpanderPin, SolveParent
        <5>2. QED
          BY <4>1, <5>1 DEF Solvable, AtSolve, Unbound
      <4>4. QED
        BY <2>1, <4>2, <4>3
    <3>6. QED
      BY <3>2, <3>3, <3>4, <3>5 DEF ChoosesCandidates
  <2>2. CASE \/ AlreadyBound(i) \/ Unresolvable(i) \/ NoGpioCandidate(i) \/ NoBus(i)
             \/ NoExpanderPin(i) \/ NoParent(i)
    BY <1>1, <2>2 DEF AlreadyBound, Unresolvable, NoGpioCandidate, NoBus, NoExpanderPin,
                      NoParent, Unsolved, Solvable, AtSolve, design
  <2>3. QED
    BY <1>5, <2>1, <2>2 DEF SolveStep
<1>6. QED
  BY <1>2, <1>3, <1>4, <1>5 DEF Next

\* The checker has an error for a pin just where the solver would not have picked
\* it, but for two gaps between their tables; and what the solver chooses it would
\* have picked.
THEOREM VerdictsAgreeButForTwoGaps == Spec => []SameVerdictButForTwoGaps
<1>1. Init => LocksDecide /\ LocksFilled /\ ChoosesCandidates
  BY DEF Init, LocksDecide, LocksFilled, ChoosesCandidates, SolverChose
<1>2. SafeChoices /\ LocksDecide /\ ChoosesCandidates => SameVerdictButForTwoGaps
  <2> SUFFICES ASSUME SafeChoices, LocksDecide, ChoosesCandidates, NEW i \in Conns, BoundHere(i)
               PROVE  LET kind  == KindOf(i)
                          tags  == CapsOf(target[i].at)
                          legal == target[i].at \in Candidates(kind)
                      IN  /\ SolverChose(i) => legal
                          /\ legal /\ CalledAnError(i) =>
                                 OutputForCheckerAlone(kind) /\ "input_only" \in tags
                          /\ ~legal /\ ~CalledAnError(i) =>
                                 LockRequires(kind) = {} /\ "gpio" \notin tags
    BY DEF SameVerdictButForTwoGaps
  <2> DEFINE kind == KindOf(i)
             pin  == target[i].at
  <2>1. pin \in BoardPins /\ CapsOf(pin) = Caps[pin] /\ pin # None
    BY LibraryAssumption DEF BoundHere, CapsOf
  <2>2. /\ orig[i] = Unbound("gpio") /\ target[i].kind = "gpio"
        /\ IsUnbound(orig[i]) /\ ~IsUnbound(target[i])
    BY <2>1 DEF BoundHere, SafeChoices, BoundTargetsKept, Unbound, IsUnbound
  <2>3. SolverChose(i) \/ IsLocked(i)
    BY <2>2 DEF SolverChose
  <2>4. IsLocked(i) => pin = lock[slot[i]]
    BY <2>1, <2>2 DEF LocksDecide, Unbound
  <2>5. SolverChose(i) => pin \in Candidates(kind)
    BY <2>2 DEF ChoosesCandidates, Unbound
  <2>6. slot[i] \in LockedPinInvalid
        <=> IsLocked(i) /\ ~(LockRequires(kind) \subseteq CapsOf(pin))
    BY <2>1, <2>4 DEF BoundHere, IsLocked, LockedPinInvalid, KindOf, Lookup
  <2>7. "input_only_as_output" \in ConnectionWarnings(i)
        <=> kind \in OutputKinds /\ "input_only" \in CapsOf(pin)
    BY <2>1, <2>2 DEF BoundHere, ConnectionWarnings, Complaints
  <2>8. ASSUME pin \in Candidates(kind), CalledAnError(i)
        PROVE  OutputForCheckerAlone(kind) /\ "input_only" \in CapsOf(pin)
    <3>1. LockRequires(kind) \subseteq CapsOf(pin)
      BY <2>1, <2>8, TablesAgree DEF Candidates
    <3>2. kind \in OutputKinds /\ "input_only" \in CapsOf(pin)
      BY <2>6, <2>7, <2>8, <3>1 DEF CalledAnError
    <3>3. QED
      BY <2>1, <2>8, <3>2 DEF Candidates, OutputForCheckerAlone
  <2>9. ASSUME pin \notin Candidates(kind), ~CalledAnError(i)
        PROVE  LockRequires(kind) = {} /\ "gpio" \notin CapsOf(pin)
    <3>1. LockRequires(kind) \subseteq CapsOf(pin)
      BY <2>3, <2>5, <2>6, <2>9 DEF CalledAnError
    <3>2. ~(kind \in {"digital_out", "i2s_dout"} /\ "input_only" \in CapsOf(pin))
      BY <2>7, <2>9 DEF CalledAnError, OutputKinds
    <3>3. ~(RequiredCaps(kind) \subseteq CapsOf(pin))
      BY <2>1, <2>9, <3>2 DEF Candidates
    <3>4. QED
      BY <3>1, <3>3, TablesAgree
  <2>10. QED
    BY <2>5, <2>8, <2>9
<1>3. QED
  BY <1>1, <1>2, SafeChoicesHold, NextFills, NextDecides, NextChooses, PTL DEF Spec

-----------------------------------------------------------------------------
(* The lines of the buses.                                                 *)

\* Which lines are outputs, by the table of the buses and by the kinds.
LEMMA DirectionsAgree ==
    ASSUME NEW type \in DOMAIN KindOfLine, NEW role \in DOMAIN KindOfLine[type],
           role \in DOMAIN Direction(type)
    PROVE  Direction(type)[role] = "out" <=> KindOfLine[type][role] \in OutputKinds
<1>1. type \in {"spi", "uart", "i2s", "i2c"}
  BY DEF KindOfLine
<1>2. CASE type = "spi"
  BY <1>2 DEF KindOfLine, Direction, OutputKinds
<1>3. CASE type = "uart"
  BY <1>3 DEF KindOfLine, Direction, OutputKinds
<1>4. CASE type = "i2s"
  BY <1>4 DEF KindOfLine, Direction, OutputKinds
<1>5. CASE type = "i2c"
  BY <1>5 DEF KindOfLine, Direction, OutputKinds
<1>6. QED
  BY <1>1, <1>2, <1>3, <1>4, <1>5

LEMMA LinesHaveDirections ==
    ASSUME NEW type \in DOMAIN KindOfLine, NEW role \in DOMAIN KindOfLine[type]
    PROVE  role \in DOMAIN Direction(type)
<1>1. type \in {"spi", "uart", "i2s", "i2c"}
  BY DEF KindOfLine
<1>2. QED
  BY <1>1 DEF KindOfLine, Direction

\* No kind of a line is one that the checker has a rule of its own for.
LEMMA LinesAreOrdinary ==
    ASSUME NEW type \in DOMAIN KindOfLine, NEW role \in DOMAIN KindOfLine[type]
    PROVE  KindOfLine[type][role] \notin {"analog_in", "i2s_dout"}
<1>1. type \in {"spi", "uart", "i2s", "i2c"}
  BY DEF KindOfLine
<1>2. QED
  BY <1>1 DEF KindOfLine

LEMMA LineVerdict ==
    ASSUME NEW type \in DOMAIN KindOfLine, NEW role \in DOMAIN KindOfLine[type],
           role \in DOMAIN Direction(type), NEW tags, type = "i2c" => "no_i2c" \notin tags
    PROVE  LineComplaints(type, role, tags) = Complaints(KindOfLine[type][role], tags)
<1> DEFINE kind == KindOfLine[type][role]
           out  == Direction(type)[role] = "out"
<1>1. (out <=> kind \in OutputKinds) /\ kind \notin {"analog_in", "i2s_dout"}
  BY DirectionsAgree, LinesAreOrdinary
<1> HIDE DEF kind, out
<1>2. LineComplaints(type, role, tags)
        = {code \in {"input_only_as_output", "boot_strap_output", "serial_console"} :
            CASE code = "input_only_as_output" -> out /\ "input_only" \in tags
              [] code = "boot_strap_output"    -> out /\ tags \cap {"boot_high", "boot_low"} # {}
              [] code = "serial_console"       -> tags \cap {"serial_tx", "serial_rx"} # {}}
  BY DEF LineComplaints, out
<1>3. QED
  BY <1>1, <1>2 DEF Complaints, kind

LEMMA SecondOfPairs ==
    ASSUME NEW r, NEW V
    PROVE  {x[2] : x \in {r} \X V} = V
<1>1. \A x \in {r} \X V : x[2] \in V
  OBVIOUS
<1>2. ASSUME NEW c \in V PROVE c \in {x[2] : x \in {r} \X V}
  <2>1. <<r, c>> \in {r} \X V /\ <<r, c>>[2] = c
    OBVIOUS
  <2>2. QED
    BY <2>1
<1>3. {x[2] : x \in {r} \X V} \subseteq V
  BY <1>1
<1>4. V \subseteq {x[2] : x \in {r} \X V}
  BY <1>2
<1>5. QED
  BY <1>3, <1>4

\* The checker judges a pin of a bus and the same pin wired to the line of a
\* component by two tables, and alike.
THEOREM BusesAreJudgedAlike == Spec => []LinesJudgedAlike
<1>1. LinesJudgedAlike
  <2> SUFFICES ASSUME NEW i \in Conns, NEW b \in Buses, BusType[b] \in DOMAIN KindOfLine,
                      NEW role \in DOMAIN BusPins[b] \cap DOMAIN KindOfLine[BusType[b]],
                      target[i] = [kind |-> "gpio", at |-> BusPins[b][role]],
                      Lookup(slot[i]) = "ok", KindOf(i) = KindOfLine[BusType[b]][role],
                      BusType[b] = "i2c" => "no_i2c" \notin CapsOf(BusPins[b][role])
               PROVE  {x[2] : x \in {y \in BusPinWarnings(b) : y[1] = role}}
                        = ConnectionWarnings(i)
    BY DEF LinesJudgedAlike
  <2> DEFINE type == BusType[b]
             tags(r) == CapsOf(BusPins[b][r])
             verdict(r) == LineComplaints(type, r, tags(r))
             roles == {r \in DOMAIN BusPins[b] \cap DOMAIN Direction(type) : tags(r) # {}}
  <2>1. type \in DOMAIN KindOfLine /\ role \in DOMAIN KindOfLine[type]
    OBVIOUS
  <2>2. role \in DOMAIN Direction(type)
    BY <2>1, LinesHaveDirections
  <2>3. BusPinWarnings(b) = UNION {{r} \X verdict(r) : r \in roles}
    BY DEF BusPinWarnings
  <2>4. CASE tags(role) = {}
    <3>1. role \notin roles
      BY <2>4
    <3>2. {y \in BusPinWarnings(b) : y[1] = role} = {}
      BY <2>3, <3>1
    <3>3. Complaints(KindOf(i), {}) = {}
      BY DEF Complaints
    <3>4. ConnectionWarnings(i) = {}
      <4>1. CapsOf(target[i].at) = {}
        BY <2>4
      <4>2. QED
        BY <3>3, <4>1 DEF ConnectionWarnings
    <3>5. QED
      BY <3>2, <3>4
  <2>5. CASE tags(role) # {}
    <3>1. role \in roles
      BY <2>2, <2>5
    <3>2. {x[2] : x \in {y \in BusPinWarnings(b) : y[1] = role}} = verdict(role)
      <4> HIDE DEF roles, verdict
      <4>1. {y \in BusPinWarnings(b) : y[1] = role} = {role} \X verdict(role)
        BY <2>3, <3>1
      <4>2. {x[2] : x \in {role} \X verdict(role)} = verdict(role)
        BY SecondOfPairs
      <4>3. QED
        BY <4>1, <4>2
    <3>3. BusPins[b][role] # None
      BY <2>5, LibraryAssumption DEF CapsOf
    <3>4. ConnectionWarnings(i) = Complaints(KindOf(i), tags(role))
      BY <3>3 DEF ConnectionWarnings
    <3>5. LineComplaints(type, role, tags(role)) = Complaints(KindOfLine[type][role], tags(role))
      BY <2>1, <2>2, LineVerdict
    <3>6. QED
      BY <3>2, <3>4, <3>5
  <2>6. QED
    BY <2>4, <2>5
<1>2. QED
  BY <1>1, PTL
=============================================================================
