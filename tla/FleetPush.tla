------------------------------ MODULE FleetPush ------------------------------
(***************************************************************************)
(* Pushing a device to the fleet: the /fleet/push endpoint and the         *)
(* FleetClient.push_device it calls (wirestudio/api/app.py and             *)
(* wirestudio/fleet/client.py), against the add-on as                      *)
(* tests/test_fleet.py imitates it.  Every request to the add-on is a      *)
(* step; all pushes are for one device, whose file holds the YAML of the   *)
(* push that wrote it last.                                                *)
(***************************************************************************)
EXTENDS Naturals, Sequences, FiniteSets

CONSTANTS
    Pushes,   \* POST /fleet/push requests; a run has the name of its push
    MaxLines, \* bound: lines of a build log
    None

ASSUME PushAssumption == None \notin Pushes /\ MaxLines \in Nat

VARIABLES
    device,  \* <name>.yaml on the add-on: None, "old", or the push it is from
    job,     \* run -> its build
    call,    \* push -> the request
    written  \* history: the pushes that wrote the file, in order

fleet == <<device, job, call, written>>

NoJob    == [state |-> "none", yaml |-> None, lines |-> 0]
Unasked  == [pc |-> "idle", compile |-> FALSE, created |-> FALSE]

FleetInit ==
    /\ device \in {None, "old"}
    /\ job = [p \in Pushes |-> NoJob]
    /\ call = [p \in Pushes |-> Unasked]
    /\ written = <<>>

Calling(p, pc) == call[p].pc = pc

\* The reply to a step of push p: it goes on to `next`, or the reply is lost.
Reply(p, next) == \E pc \in {next, "failed"} : call' = [call EXCEPT ![p].pc = pc]
Refuse(p)      == call' = [call EXCEPT ![p].pc = "failed"]

\* The endpoint gets the request; an invalid design or name, a strict-mode
\* block and a missing configuration are answered at once.
PushRequest(p) ==
    /\ Calling(p, "idle")
    /\ \E c \in BOOLEAN, pc \in {"list", "failed"} :
        call' = [call EXCEPT ![p] = [Unasked EXCEPT !.pc = pc, !.compile = c]]

ListTargets(p) ==
    /\ Calling(p, "list")
    /\ call' = [call EXCEPT ![p].pc = IF device = None THEN "create" ELSE "write",
                            ![p].created = device = None]
    /\ UNCHANGED <<device, job, written>>

\* The placeholder .pending.<name>.yaml is read by nobody, and stays out.
CreateTarget(p) ==
    /\ Calling(p, "create")
    /\ IF device # None THEN Refuse(p) ELSE Reply(p, "write")
    /\ UNCHANGED <<device, job, written>>

AfterWrite(p) == IF call[p].compile THEN "compile" ELSE "ok"

\* Mutant: a new file is written under its final name.
MutWriteContent(p) ==
    /\ Calling(p, "write")
    /\ device' = p
    /\ written' = Append(written, p)
    /\ Reply(p, AfterWrite(p))
    /\ UNCHANGED job

\* The first write to a staged file renames it, unless the name is taken.
WriteContent(p) ==
    /\ Calling(p, "write")
    /\ IF call[p].created /\ device # None
       THEN Refuse(p) /\ UNCHANGED <<device, written>>
       ELSE /\ device' = p
            /\ written' = Append(written, p)
            /\ Reply(p, AfterWrite(p))
    /\ UNCHANGED job

Enqueue(p) ==
    /\ job' = [job EXCEPT ![p] = [NoJob EXCEPT !.state = "running", !.yaml = device]]
    /\ Reply(p, "ok")
    /\ UNCHANGED <<device, written>>

\* Mutant: the build is enqueued before the content is written.
MutCompile(p) == call[p].compile /\ call[p].pc = "write" /\ job[p] = NoJob /\ Enqueue(p)

Compile(p) == Calling(p, "compile") /\ Enqueue(p)

\* An error status, an httpx error or a timeout before the add-on has acted.
Unreachable(p) ==
    /\ call[p].pc \in {"list", "create", "write", "compile"}
    /\ Refuse(p)
    /\ UNCHANGED <<device, job, written>>

\* The add-on builds.
JobLine(p) ==
    /\ job[p].state = "running" /\ job[p].lines < MaxLines
    /\ job' = [job EXCEPT ![p].lines = @ + 1]
    /\ UNCHANGED <<device, call, written>>

JobFinish(p) ==
    /\ job[p].state = "running"
    /\ job' = [job EXCEPT ![p].state = "finished"]
    /\ UNCHANGED <<device, call, written>>

PushStep(p) ==
    \/ ListTargets(p) \/ CreateTarget(p) \/ WriteContent(p) \/ Compile(p)

FleetStep(p) == PushStep(p) \/ Unreachable(p) \/ JobLine(p) \/ JobFinish(p)

-----------------------------------------------------------------------------
(* Properties.                                                             *)

FleetTypeOK ==
    /\ device \in Pushes \cup {None, "old"}
    /\ job \in [Pushes -> [state : {"none", "running", "finished"},
                           yaml : Pushes \cup {None, "old"}, lines : 0 .. MaxLines]]
    /\ call \in [Pushes -> [pc : {"idle", "list", "create", "write", "compile",
                                  "ok", "failed", "answered"},
                            compile : BOOLEAN, created : BOOLEAN]]
    /\ written \in Seq(Pushes)

WroteBefore(p, q) ==
    \E i, j \in 1 .. Len(written) : i <= j /\ written[i] = p /\ written[j] = q

\* A build that push p enqueued is never of an older file than the one p
\* wrote, whatever other pushes of the device do between its requests.
BuildIncludesPush ==
    \A p \in Pushes : job[p].state # "none" => WroteBefore(p, job[p].yaml)

\* Of two pushes that both found no file, only one writes it; the other is
\* refused and has overwritten nothing, and is told so.
OnlyOneCreates ==
    \A p, q \in Pushes :
        /\ p # q /\ call[p].created /\ call[q].created
        => ~(WroteBefore(p, p) /\ WroteBefore(q, q)) /\ ~(call[p].pc = "ok" /\ call[q].pc = "ok")
=============================================================================
