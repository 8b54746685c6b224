------------------------------- MODULE LogTail -------------------------------
(***************************************************************************)
(* What the log of the Push-to-fleet dialog (PushToFleetDialog.tsx) is,    *)
(* without streams, relays, polls, frames and answers: a screen on which   *)
(* each tail prints the lines of its run from where it stands.  A run is   *)
(* tailed once, a new tail wipes the screen, earlier ones print on, and    *)
(* the word "finished" comes with the last piece of a run that has ended.  *)
(***************************************************************************)
EXTENDS Naturals, Sequences

CONSTANT Runs

VARIABLES
    lines,   \* run -> the lines its build has printed
    over,    \* the runs whose build has ended
    begun,   \* the runs that have been tailed
    cursor,  \* run under a tail -> how many lines of it the tail has shown
    screen,  \* a sequence of <<run, line>>
    whole    \* "finished" is on screen

lvars == <<lines, over, begun, cursor, screen, whole>>

build == <<lines, over>>

Tailed == DOMAIN cursor

Init ==
    /\ lines = [p \in Runs |-> 0] /\ over = {}
    /\ begun = {} /\ cursor = [q \in {} |-> 0]
    /\ screen = <<>> /\ whole = FALSE

-----------------------------------------------------------------------------
Write(p) ==
    /\ p \notin over
    /\ lines' = [lines EXCEPT ![p] = @ + 1]
    /\ UNCHANGED <<over, begun, cursor, screen, whole>>

End(p) ==
    /\ p \notin over
    /\ over' = over \cup {p}
    /\ UNCHANGED <<lines, begun, cursor, screen, whole>>

Begin(p) ==
    /\ p \notin begun
    /\ begun' = begun \cup {p}
    /\ cursor' = [q \in Tailed \cup {p} |-> IF q = p THEN 0 ELSE cursor[q]]
    /\ screen' = <<>> /\ whole' = FALSE
    /\ UNCHANGED build

\* The lines of run p up to the n-th, from where its tail stands.
Shows(p, n) == screen' = screen \o [i \in 1 .. (n - cursor[p]) |-> <<p, cursor[p] + i>>]

Leave(p) == cursor' = [q \in Tailed \ {p} |-> cursor[q]]

Copy(p) ==
    /\ p \in Tailed
    /\ \E n \in cursor[p] .. lines[p] :
          /\ Shows(p, n)
          /\ cursor' = [cursor EXCEPT ![p] = n]
    /\ UNCHANGED <<build, begun, whole>>

Finish(p) ==
    /\ p \in Tailed /\ p \in over
    /\ Shows(p, lines[p]) /\ whole' = TRUE
    /\ Leave(p)
    /\ UNCHANGED <<build, begun>>

\* An error, or the dialog is closed.
Stop(p) ==
    /\ p \in Tailed
    /\ Leave(p)
    /\ UNCHANGED <<build, begun, screen, whole>>

Next ==
    \E p \in Runs : Write(p) \/ End(p) \/ Begin(p) \/ Copy(p) \/ Finish(p) \/ Stop(p)

Spec == Init /\ [][Next]_lvars
==============================================================================
