--------------------------- MODULE FleetPushProofs ---------------------------
(***************************************************************************)
(* Proofs about the pushes of FleetPush, as the dialog, other tabs and the *)
(* add-on of FleetTail take their steps: for every number of pushes and    *)
(* every length of a log.                                                  *)
(***************************************************************************)
EXTENDS FleetTail, TLAPS

Written == {written[i] : i \in 1 .. Len(written)}

\* The file is the last that was written ...
FileIsLastWrite ==
    /\ written # <<>> => device = written[Len(written)]
    /\ written = <<>> => device \in {None, "old"}

\* ... a push asks for a build, and succeeds, after it has written; a build is
\* of the file as it was then or later ...
BuildAfterWrite ==
    \A p \in Pushes :
        /\ call[p].pc = "compile" => p \in Written
        /\ call[p].pc = "ok" => p \in Written
        /\ job[p].state # "none" => WroteBefore(p, job[p].yaml)

\* ... and who found no file and wrote it was the first to write.
CreatorIsFirst ==
    \A p \in Pushes : call[p].created /\ p \in Written => written[1] = p

FleetInv == FleetTypeOK /\ FileIsLastWrite /\ BuildAfterWrite /\ CreatorIsFirst

-----------------------------------------------------------------------------
(* What the steps of FleetTail do to the fleet.                            *)

\* The browser has the answer of a push.
Answered(p) ==
    /\ call[p].pc \in {"ok", "failed"}
    /\ call' = [call EXCEPT ![p].pc = "answered"]
    /\ UNCHANGED <<device, job, written>>

Asked(p) == PushRequest(p) /\ UNCHANGED <<device, job, written>>

LEMMA FleetMoves ==
    ASSUME [Next]_vars
    PROVE  \/ \E p \in Pushes : Asked(p) \/ Answered(p) \/ FleetStep(p)
           \/ UNCHANGED fleet
<1>1. ASSUME NEW p \in Pushes, HandlePush(p) \/ PushElsewhere(p) PROVE Asked(p)
  BY <1>1 DEF HandlePush, PushElsewhere, Asked
<1>2. ASSUME NEW p \in Pushes, PushAnswered(p) PROVE Answered(p)
  BY <1>2 DEF PushAnswered, Answered
<1>3. ASSUME NEW p \in Pushes, Fleet(p) PROVE FleetStep(p)
  BY <1>3 DEF Fleet
<1>4. ASSUME NEW p \in Pushes,
             \/ PushLost(p) \/ TailStep(p) \/ RelayError(p) \/ TransportError(p) \/ PollError(p)
      PROVE  UNCHANGED fleet
  BY <1>4 DEF PushLost, TailStep, StreamOpen, RelayChunk, OnMessage, OnErrorFrame, PollAnswer,
              PollAppend, PollAgain, RelayError, TransportError, PollError
<1>5. FleetStatus \/ Unmount \/ UNCHANGED vars => UNCHANGED fleet
  BY DEF FleetStatus, Unmount, vars
<1>6. QED
  BY <1>1, <1>2, <1>3, <1>4, <1>5 DEF Next

-----------------------------------------------------------------------------
(* The history of writes.                                                  *)

LEMMA AppendWritten ==
    ASSUME FleetTypeOK, NEW p \in Pushes, written' = Append(written, p)
    PROVE  /\ written' \in Seq(Pushes) /\ Len(written') = Len(written) + 1
           /\ written'[Len(written')] = p
           /\ \A i \in 1 .. Len(written) : written'[i] = written[i]
           /\ Written' = Written \cup {p}
           /\ \A q, r : WroteBefore(q, r) => WroteBefore(q, r)'
           /\ written = <<>> => written'[1] = p
<1>1. written \in Seq(Pushes)
  BY DEF FleetTypeOK
<1>2. /\ written' \in Seq(Pushes) /\ Len(written') = Len(written) + 1
      /\ written'[Len(written')] = p
      /\ \A i \in 1 .. Len(written) : written'[i] = written[i]
  BY <1>1
<1>3. Len(written) \in Nat
  BY <1>1
<1>4. 1 .. Len(written') = (1 .. Len(written)) \cup {Len(written')}
  BY <1>2, <1>3
<1>5. Written' = Written \cup {p}
  BY <1>2, <1>4 DEF Written
<1>6. ASSUME NEW q, NEW r, WroteBefore(q, r) PROVE WroteBefore(q, r)'
  <2>1. PICK i, j \in 1 .. Len(written) : i <= j /\ written[i] = q /\ written[j] = r
    BY <1>6 DEF WroteBefore
  <2>2. i \in 1 .. Len(written') /\ j \in 1 .. Len(written') /\ written'[i] = q /\ written'[j] = r
    BY <1>2, <1>4, <2>1
  <2>3. QED
    BY <2>1, <2>2 DEF WroteBefore
<1>7. written = <<>> => written'[1] = p
  BY <1>2
<1>8. QED
  BY <1>2, <1>5, <1>6, <1>7

\* Who has written, wrote before what is there now.
LEMMA DeviceIsLatest ==
    ASSUME FleetTypeOK, FileIsLastWrite, NEW p \in Written
    PROVE  WroteBefore(p, device)
<1>1. PICK i \in 1 .. Len(written) : written[i] = p
  BY DEF Written
<1>2. Len(written) \in Nat /\ written # <<>>
  BY <1>1 DEF FleetTypeOK
<1>3. Len(written) \in 1 .. Len(written) /\ i <= Len(written)
  BY <1>1, <1>2
<1>4. device = written[Len(written)]
  BY <1>2 DEF FileIsLastWrite
<1>5. QED
  BY <1>1, <1>3, <1>4 DEF WroteBefore

-----------------------------------------------------------------------------
(* The calls.                                                              *)

PushPC == {"idle", "list", "create", "write", "compile", "ok", "failed", "answered"}

CallType == [Pushes -> [pc : PushPC, compile : BOOLEAN, created : BOOLEAN]]

JobType ==
    [state : {"none", "running", "finished"}, yaml : Pushes \cup {None, "old"},
     lines : 0 .. MaxLines]

LEMMA CallTyped == ASSUME FleetTypeOK PROVE call \in CallType
  BY DEF FleetTypeOK, CallType, PushPC

\* An answer moves the call of p on, and nothing else of the calls.
LEMMA ReplyMoves ==
    ASSUME FleetTypeOK, NEW p \in Pushes, NEW next \in PushPC, Reply(p, next)
    PROVE  /\ call' \in CallType
           /\ call'[p].pc \in {next, "failed"}
           /\ \A q \in Pushes : call'[q].created = call[q].created
           /\ \A q \in Pushes \ {p} : call'[q] = call[q]
<1>1. PICK pc \in {next, "failed"} : call' = [call EXCEPT ![p].pc = pc]
  BY DEF Reply
<1>2. pc \in PushPC
  BY DEF PushPC
<1>3. QED
  BY <1>1, <1>2, CallTyped DEF CallType

-----------------------------------------------------------------------------
(* One lemma per part of the invariant.                                    *)

LEMMA FleetTypeStep ==
    ASSUME FleetTypeOK, NEW p \in Pushes, Asked(p) \/ Answered(p) \/ FleetStep(p)
    PROVE  FleetTypeOK'
<1>1. CASE Asked(p)
  <2>1. PICK c \in BOOLEAN, pc \in {"list", "failed"} :
              call' = [call EXCEPT ![p] = [Unasked EXCEPT !.pc = pc, !.compile = c]]
    BY <1>1 DEF Asked, PushRequest
  <2>2. pc \in PushPC
    BY DEF PushPC
  <2>3. [Unasked EXCEPT !.pc = pc, !.compile = c] \in [pc : PushPC, compile : BOOLEAN, created : BOOLEAN]
    BY <2>2 DEF Unasked
  <2>4. call' \in CallType
    BY <2>1, <2>3, CallTyped DEF CallType
  <2>5. UNCHANGED <<device, job, written>>
    BY <1>1 DEF Asked
  <2>6. QED
    BY <2>4, <2>5 DEF FleetTypeOK, CallType, PushPC
<1>2. CASE Answered(p)
  BY <1>2 DEF Answered, FleetTypeOK
<1>3. CASE ListTargets(p)
  <2>1. PICK pc \in PushPC, found \in BOOLEAN :
              call' = [call EXCEPT ![p].pc = pc, ![p].created = found]
    <3>1. (IF device = None THEN "create" ELSE "write") \in PushPC
      BY DEF PushPC
    <3>2. (device = None) \in BOOLEAN
      OBVIOUS
    <3>3. call' = [call EXCEPT ![p].pc = IF device = None THEN "create" ELSE "write",
                               ![p].created = device = None]
      BY <1>3 DEF ListTargets
    <3>4. QED
      BY <3>1, <3>2, <3>3, Zenon
  <2>2. call' \in CallType
    BY <2>1, CallTyped DEF CallType
  <2>3. QED
    BY <1>3, <2>2 DEF ListTargets, FleetTypeOK, CallType, PushPC
<1>4. CASE CreateTarget(p)
  BY <1>4 DEF CreateTarget, Refuse, Reply, FleetTypeOK
<1>5. CASE WriteContent(p)
  <2>1. AfterWrite(p) \in PushPC
    BY DEF AfterWrite, PushPC
  <2>2. call' \in CallType
    <3>1. CASE Refuse(p)
      BY <3>1, CallTyped DEF Refuse, CallType, PushPC
    <3>2. CASE Reply(p, AfterWrite(p))
      BY <2>1, <3>2, ReplyMoves
    <3>3. QED
      BY <1>5, <3>1, <3>2 DEF WriteContent
  <2>3. written' \in Seq(Pushes) /\ device' \in Pushes \cup {None, "old"} /\ job' = job
    BY <1>5, AppendWritten DEF WriteContent, FleetTypeOK
  <2>4. QED
    BY <2>2, <2>3 DEF FleetTypeOK, CallType, PushPC
<1>6. CASE Compile(p)
  <2>1. call' \in CallType
    BY <1>6, ReplyMoves DEF Compile, Enqueue, PushPC
  <2>2. job' \in [Pushes -> JobType]
    <3>1. NoJob \in JobType
      BY PushAssumption DEF NoJob, JobType
    <3>2. [NoJob EXCEPT !.state = "running", !.yaml = device] \in JobType
      BY <3>1 DEF JobType, FleetTypeOK
    <3>3. job' = [job EXCEPT ![p] = [NoJob EXCEPT !.state = "running", !.yaml = device]]
      BY <1>6 DEF Compile, Enqueue
    <3>4. QED
      BY <3>2, <3>3 DEF FleetTypeOK, JobType
  <2>3. UNCHANGED <<device, written>>
    BY <1>6 DEF Compile, Enqueue
  <2>4. QED
    BY <2>1, <2>2, <2>3 DEF FleetTypeOK, CallType, PushPC, JobType
<1>7. CASE Unreachable(p)
  BY <1>7 DEF Unreachable, Refuse, FleetTypeOK
<1>8. CASE JobLine(p)
  BY <1>8, PushAssumption DEF JobLine, FleetTypeOK
<1>9. CASE JobFinish(p)
  BY <1>9 DEF JobFinish, FleetTypeOK
<1>10. QED
  BY <1>1, <1>2, <1>3, <1>4, <1>5, <1>6, <1>7, <1>8, <1>9 DEF FleetStep, PushStep

\* A step that leaves the file alone and the call of p no further than it was.
LEMMA QuietStep ==
    ASSUME FleetInv, NEW p \in Pushes, UNCHANGED <<device, written>>,
           \A q \in Pushes \ {p} : call'[q] = call[q],
           call'[p].pc \in {"compile", "ok"} => p \in Written,
           call'[p].created /\ p \in Written => written[1] = p,
           \A q \in Pushes : job'[q].state # "none" => WroteBefore(q, job'[q].yaml)
    PROVE  FileIsLastWrite' /\ BuildAfterWrite' /\ CreatorIsFirst'
<1>1. Written' = Written /\ \A q, r : WroteBefore(q, r)' <=> WroteBefore(q, r)
  BY DEF Written, WroteBefore
<1>2. FileIsLastWrite'
  BY DEF FleetInv, FileIsLastWrite
<1>3. BuildAfterWrite'
  BY <1>1 DEF FleetInv, BuildAfterWrite, WroteBefore
<1>4. CreatorIsFirst'
  BY <1>1 DEF FleetInv, CreatorIsFirst
<1>5. QED
  BY <1>2, <1>3, <1>4

LEMMA WriteStep ==
    ASSUME FleetInv, NEW p \in Pushes, Calling(p, "write"),
           ~(call[p].created /\ device # None),
           device' = p, written' = Append(written, p), Reply(p, AfterWrite(p)), job' = job
    PROVE  FileIsLastWrite' /\ BuildAfterWrite' /\ CreatorIsFirst'
<1>1. /\ written' \in Seq(Pushes) /\ Len(written') = Len(written) + 1
      /\ written'[Len(written')] = p
      /\ \A i \in 1 .. Len(written) : written'[i] = written[i]
      /\ Written' = Written \cup {p}
      /\ \A q, r : WroteBefore(q, r) => WroteBefore(q, r)'
      /\ written = <<>> => written'[1] = p
  BY AppendWritten DEF FleetInv
<1>2. FileIsLastWrite'
  <2>1. Len(written) \in Nat
    BY DEF FleetInv, FleetTypeOK
  <2>2. written' # <<>> /\ device' = written'[Len(written')]
    BY <1>1, <2>1
  <2>3. QED
    BY <2>2 DEF FileIsLastWrite
<1>3. \A q \in Pushes : call'[q].created = call[q].created /\ (q # p => call'[q] = call[q])
  BY ReplyMoves DEF AfterWrite, PushPC, FleetInv
<1>4. BuildAfterWrite'
  <2>1. p \in Written'
    BY <1>1
  <2>2. \A q \in Pushes \ {p} : call'[q].pc \in {"compile", "ok"} => q \in Written'
    BY <1>1, <1>3 DEF BuildAfterWrite, FleetInv
  <2>3. ASSUME NEW q \in Pushes, job[q].state # "none"
        PROVE  WroteBefore(q, job[q].yaml)'
    <3>1. PICK i, j \in 1 .. Len(written) :
                  i <= j /\ written[i] = q /\ written[j] = job[q].yaml
      BY <2>3 DEF BuildAfterWrite, FleetInv, WroteBefore
    <3>2. /\ i \in 1 .. Len(written') /\ j \in 1 .. Len(written')
          /\ written'[i] = q /\ written'[j] = job'[q].yaml
      BY <1>1, <3>1 DEF FleetInv, FleetTypeOK
    <3>3. QED
      BY <3>1, <3>2 DEF WroteBefore
  <2>4. \A q \in Pushes : job'[q].state # "none" => WroteBefore(q, job[q].yaml)'
    BY <2>3
  <2>5. QED
    BY <2>1, <2>2, <2>4 DEF BuildAfterWrite
<1>5. CreatorIsFirst'
  <2> SUFFICES ASSUME NEW q \in Pushes, call'[q].created, q \in Written' PROVE written'[1] = q
    BY DEF CreatorIsFirst
  <2>1. call[q].created
    BY <1>3
  <2>2. CASE written = <<>>
    <3>1. Written = {}
      BY <2>2 DEF Written
    <3>2. QED
      BY <1>1, <2>2, <3>1
  <2>3. CASE written # <<>>
    <3>1. 1 \in 1 .. Len(written) /\ written'[1] = written[1]
      BY <1>1, <2>3 DEF FleetInv, FleetTypeOK
    <3>2. device \in Pushes
      BY <2>3 DEF FleetInv, FleetTypeOK, FileIsLastWrite
    <3>3. q # p
      BY <2>1, <3>2, PushAssumption
    <3>4. QED
      BY <1>1, <2>1, <3>1, <3>3 DEF FleetInv, CreatorIsFirst
  <2>4. QED
    BY <2>2, <2>3
<1>6. QED
  BY <1>2, <1>4, <1>5

LEMMA FleetInvStep ==
    ASSUME FleetInv, [Next]_vars
    PROVE  FleetInv'
<1>1. CASE UNCHANGED fleet
  BY <1>1 DEF fleet, FleetInv, FleetTypeOK, FileIsLastWrite, BuildAfterWrite, CreatorIsFirst,
              Written, WroteBefore
<1>2. ASSUME NEW p \in Pushes, Asked(p) \/ Answered(p) \/ FleetStep(p) PROVE FleetInv'
  <2>1. FleetTypeOK'
    BY <1>2, FleetTypeStep DEF FleetInv
  <2>2. call \in [Pushes -> [pc : {"idle", "list", "create", "write", "compile",
                                   "ok", "failed", "answered"},
                             compile : BOOLEAN, created : BOOLEAN]]
    BY DEF FleetInv, FleetTypeOK
  <2>3. /\ call[p].pc \in {"compile", "ok"} => p \in Written
        /\ call[p].created /\ p \in Written => written[1] = p
        /\ \A q \in Pushes : job[q].state # "none" => WroteBefore(q, job[q].yaml)
    BY DEF FleetInv, BuildAfterWrite, CreatorIsFirst
  <2>4. CASE Asked(p)
    BY <2>1, <2>2, <2>3, <2>4, QuietStep DEF Asked, PushRequest, Unasked, FleetInv
  <2>5. CASE Answered(p)
    BY <2>1, <2>2, <2>3, <2>5, QuietStep DEF Answered, FleetInv
  <2>6. CASE ListTargets(p)
    <3>1. device = None => Written = {}
      BY PushAssumption DEF FleetInv, FileIsLastWrite, FleetTypeOK, Written
    <3>2. QED
      BY <2>1, <2>2, <2>3, <2>6, <3>1, QuietStep DEF ListTargets, FleetInv
  <2>7. CASE CreateTarget(p)
    BY <2>1, <2>2, <2>3, <2>7, QuietStep DEF CreateTarget, Refuse, Reply, FleetInv
  <2>8. CASE WriteContent(p)
    <3>1. CASE call[p].created /\ device # None
      BY <2>1, <2>2, <2>3, <2>8, <3>1, QuietStep DEF WriteContent, Refuse, FleetInv
    <3>2. CASE ~(call[p].created /\ device # None)
      BY <2>1, <2>8, <3>2, WriteStep DEF WriteContent, FleetInv
    <3>3. QED
      BY <3>1, <3>2
  <2>9. CASE Compile(p)
    <3>1. WroteBefore(p, device)
      BY <2>3, <2>9, DeviceIsLatest DEF Compile, Calling, FleetInv
    <3>2. \A q \in Pushes : job'[q].state # "none" => WroteBefore(q, job'[q].yaml)
      BY <2>3, <2>9, <3>1 DEF Compile, Enqueue, NoJob, FleetInv, FleetTypeOK
    <3>3. QED
      BY <2>1, <2>2, <2>3, <2>9, <3>2, QuietStep DEF Compile, Calling, Enqueue, Reply, FleetInv
  <2>10. CASE Unreachable(p)
    BY <2>1, <2>2, <2>3, <2>10, QuietStep DEF Unreachable, Refuse, FleetInv
  <2>11. CASE JobLine(p) \/ JobFinish(p)
    <3>1. \A q \in Pushes : job'[q].state # "none" => WroteBefore(q, job'[q].yaml)
      BY <2>3, <2>11 DEF JobLine, JobFinish, FleetInv, FleetTypeOK
    <3>2. UNCHANGED <<device, call, written>>
      BY <2>11 DEF JobLine, JobFinish
    <3>3. QED
      BY <2>1, <2>3, <3>1, <3>2, QuietStep DEF FleetInv
  <2>12. QED
    BY <1>2, <2>4, <2>5, <2>6, <2>7, <2>8, <2>9, <2>10, <2>11 DEF FleetStep, PushStep
<1>3. QED
  BY <1>1, <1>2, FleetMoves

LEMMA InitFleetInv == Init => FleetInv
<1> SUFFICES ASSUME Init PROVE FleetInv
  OBVIOUS
<1>1. FleetTypeOK
  BY PushAssumption DEF Init, FleetInit, FleetTypeOK, NoJob, Unasked
<1>2. Written = {} /\ written = <<>>
  BY DEF Init, FleetInit, Written
<1>3. QED
  BY <1>1, <1>2 DEF Init, FleetInit, FleetInv, FileIsLastWrite, BuildAfterWrite, CreatorIsFirst,
                    NoJob, Unasked

-----------------------------------------------------------------------------
(* The invariant, and what it is for.                                      *)

\* The types of the fleet's variables, and how file, writes, builds and calls
\* belong together, in every state of the dialog.
THEOREM FleetInvHolds == Spec => []FleetInv
  BY InitFleetInv, FleetInvStep, PTL DEF Spec

\* A build that a push asked for is never of a file older than its own.
THEOREM BuildsIncludeTheirPush == Spec => []BuildIncludesPush
<1>1. FleetInv => BuildIncludesPush
  BY DEF FleetInv, BuildAfterWrite, BuildIncludesPush
<1>2. QED
  BY <1>1, FleetInvHolds, PTL

\* Of two pushes that found no file one at most has written it, and one at most
\* is told that it has.
THEOREM NobodyCreatesTwice == Spec => []OnlyOneCreates
<1>1. FleetInv => OnlyOneCreates
  <2> SUFFICES ASSUME FleetInv, NEW p \in Pushes, NEW q \in Pushes, p # q,
                      call[p].created, call[q].created
               PROVE  /\ ~(WroteBefore(p, p) /\ WroteBefore(q, q))
                      /\ ~(call[p].pc = "ok" /\ call[q].pc = "ok")
    BY DEF OnlyOneCreates
  <2>1. \A r : WroteBefore(r, r) => r \in Written
    BY DEF WroteBefore, Written
  <2>2. ~(p \in Written /\ q \in Written)
    BY DEF FleetInv, CreatorIsFirst
  <2>3. QED
    BY <2>1, <2>2 DEF FleetInv, BuildAfterWrite
<1>2. QED
  BY <1>1, FleetInvHolds, PTL
=============================================================================
