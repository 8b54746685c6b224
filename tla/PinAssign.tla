------------------------------ MODULE PinAssign ------------------------------
(***************************************************************************)
(* What solve_pins (wirestudio/csp/pin_solver.py) promises of a design,    *)
(* without its loops and its bookkeeping: it fills empty targets, one at a *)
(* time, and does nothing else.  A pin that the user locked goes to the    *)
(* connection it is locked for; any other choice is something the board    *)
(* and the design have and that no connection holds and no lock asks for.  *)
(***************************************************************************)
EXTENDS Naturals

CONSTANTS
    Conns,     \* the connections
    None,      \* the empty field of a target, and no lock
    Choices    \* the targets that there are to choose from

VARIABLES
    target,    \* connection -> its target
    wish       \* connection -> the pin its component locks for its role

avars == <<target, wish>>

Open(i)      == target[i].kind # "rail" /\ target[i].at = None
Exclusive(t) == t.kind \in {"gpio", "expander_pin"}
Fill(i, t)   == target' = [target EXCEPT ![i] = t]

\* Somebody else has it or is to have it.
Taken(i, t) ==
    \E j \in Conns \ {i} :
        \/ target[j] = t
        \/ t.kind = "gpio" /\ target[j].kind = "gpio" /\ wish[j] = t.at

Obey(i) ==
    /\ Open(i) /\ target[i].kind = "gpio"
    /\ wish[i] # None
    /\ Fill(i, [kind |-> "gpio", at |-> wish[i]])
    /\ UNCHANGED wish

Choose(i) ==
    /\ Open(i)
    /\ target[i].kind = "gpio" => wish[i] = None
    /\ \E t \in Choices :
          /\ t.kind = target[i].kind
          /\ Exclusive(t) => ~Taken(i, t)
          /\ Fill(i, t)
    /\ UNCHANGED wish

\* Any design, any locks.
Init == DOMAIN target = Conns /\ DOMAIN wish = Conns

Next == \E i \in Conns : Obey(i) \/ Choose(i)

Spec == Init /\ [][Next]_avars
==============================================================================
