--------------------------- MODULE FleetTailProofs ---------------------------
(***************************************************************************)
(* Proofs about the Push-to-fleet dialog of FleetTail: for every number of *)
(* pushes and of tails alive at once, by stream or by polling, every       *)
(* length of a log and of the streams' buffers, the dialog shows each log  *)
(* in order and without gaps, calls a run finished when its log is whole,  *)
(* stops its only tail when it is closed, and implements LogTail.          *)
(***************************************************************************)
EXTENDS FleetPushProofs, SequenceTheorems, FiniteSetTheorems

-----------------------------------------------------------------------------
(* Type correctness, given that of the fleet.                              *)

LEMMA FrameValues ==
    ASSUME FleetTypeOK
    PROVE  /\ DoneFrame \in Frames /\ ErrorFrame \in Frames
           /\ \A p \in Pushes : \A from \in 0 .. MaxLines : Chunk(from, p) \in Frames
  BY PushAssumption DEF DoneFrame, ErrorFrame, Chunk, Frames, FleetTypeOK

\* The rest of a queue.
LEMMA RestOf ==
    ASSUME NEW T, NEW w \in Seq(T), w # <<>>
    PROVE  /\ SubSeq(w, 2, Len(w)) \in Seq(T) /\ Len(SubSeq(w, 2, Len(w))) = Len(w) - 1
           /\ \A i \in 1 .. Len(w) - 1 : SubSeq(w, 2, Len(w))[i] = w[i + 1]
           /\ Head(w) = w[1] /\ w[1] \in T /\ Len(w) \in Nat \ {0}
<1>1. Len(w) \in Nat \ {0}
  BY EmptySeq
<1>2. \A i \in 2 .. Len(w) : w[i] \in T
  BY <1>1, ElementOfSeq
<1>3. /\ SubSeq(w, 2, Len(w)) \in Seq(T)
      /\ Len(SubSeq(w, 2, Len(w))) = IF 2 <= Len(w) THEN Len(w) - 2 + 1 ELSE 0
      /\ \A i \in 1 .. Len(w) - 2 + 1 : SubSeq(w, 2, Len(w))[i] = w[2 + i - 1]
  BY <1>1, <1>2, SubSeqProperties, SMTT(30)
<1>4. ASSUME NEW i \in 1 .. Len(w) - 1 PROVE SubSeq(w, 2, Len(w))[i] = w[i + 1]
  <2>1. 2 + i - 1 = i + 1 /\ i \in 1 .. Len(w) - 2 + 1
    BY <1>1
  <2>2. SubSeq(w, 2, Len(w))[i] = w[2 + i - 1]
    BY <1>3, <2>1, Zenon
  <2>3. QED
    BY <2>1, <2>2, Zenon
<1>5. Head(w) = w[1] /\ w[1] \in T
  BY <1>1, ElementOfSeq
<1>6. Len(SubSeq(w, 2, Len(w))) = Len(w) - 1
  <2>1. Len(SubSeq(w, 2, Len(w))) = IF 2 <= Len(w) THEN Len(w) - 2 + 1 ELSE 0
    BY <1>3, Zenon
  <2>2. \A n \in Nat \ {0} : (2 <= n => n - 2 + 1 = n - 1) /\ (~(2 <= n) => 0 = n - 1)
    OBVIOUS
  <2>3. QED
    BY <1>1, <2>1, <2>2, Zenon
<1>7. QED
  BY <1>1, <1>3, <1>4, <1>5, <1>6, Zenon

\* A queue with one frame or two more.
LEMMA MoreOf ==
    ASSUME NEW T, NEW w \in Seq(T), NEW t \in Seq(T)
    PROVE  /\ w \o t \in Seq(T) /\ Len(w \o t) = Len(w) + Len(t)
           /\ \A i \in 1 .. Len(w) : (w \o t)[i] = w[i]
           /\ \A i \in 1 .. Len(t) : (w \o t)[Len(w) + i] = t[i]
  OBVIOUS

\* The lines of a piece of a log.
LEMMA LinesType ==
    ASSUME NEW p \in Pushes, NEW c \in Frames
    PROVE  /\ Lines(p, c) \in Seq(Pushes \X (1 .. MaxLines))
           /\ c.from <= c.to => Len(Lines(p, c)) = c.to - c.from
           /\ \A i \in 1 .. c.to - c.from : Lines(p, c)[i] = <<p, c.from + i>>
  BY PushAssumption DEF Lines, Frames

\* A stream that is closed.
LEMMA CloseType ==
    ASSUME TypeOK, NEW p \in Pushes, CloseStream(p)
    PROVE  /\ es' \in [Pushes -> {"none", "connecting", "open", "closed"}]
           /\ wire' \in [Pushes -> Seq(Frames)] /\ \A q \in Pushes : Len(wire'[q]) <= MaxFrames + 1
           /\ relay' \in [Pushes -> Relays]
<1>1. Len(<<>>) = 0 /\ <<>> \in Seq(Frames) /\ 0 <= MaxFrames + 1
  BY EmptySeq, FrameAssumption
<1>2. \A q \in Pushes : wire'[q] = IF q = p THEN <<>> ELSE wire[q]
  BY DEF CloseStream, TypeOK
<1>3. /\ wire' \in [Pushes -> Seq(Frames)]
      /\ \A q \in Pushes : Len(wire'[q]) <= MaxFrames + 1
  BY <1>1, <1>2 DEF CloseStream, TypeOK
<1>4. [pc |-> "ended", at |-> 0] \in Relays
  BY PushAssumption DEF Relays
<1>5. QED
  BY <1>3, <1>4 DEF CloseStream, TypeOK

\* A frame or two more on the wire.
LEMMA SendType ==
    ASSUME TypeOK, NEW p \in Pushes, NEW t \in Seq(Frames), Len(t) <= 2, Len(wire[p]) < MaxFrames,
           wire' = [wire EXCEPT ![p] = @ \o t]
    PROVE  wire' \in [Pushes -> Seq(Frames)] /\ \A q \in Pushes : Len(wire'[q]) <= MaxFrames + 1
<1>1. wire[p] \in Seq(Frames) /\ \A q \in Pushes : Len(wire[q]) <= MaxFrames + 1
  BY DEF TypeOK
<1>2. \A q \in Pushes : wire'[q] = IF q = p THEN wire[p] \o t ELSE wire[q]
  BY DEF TypeOK
<1>3. /\ wire[p] \o t \in Seq(Frames)
      /\ Len(wire[p] \o t) <= MaxFrames + 1
  BY <1>1, MoreOf, FrameAssumption
<1>4. wire' \in [Pushes -> Seq(Frames)]
  BY <1>3 DEF TypeOK
<1>5. QED
  BY <1>1, <1>2, <1>3, <1>4

\* One frame less.
LEMMA TakeType ==
    ASSUME TypeOK, NEW p \in Pushes, wire[p] # <<>>,
           wire' = [wire EXCEPT ![p] = SubSeq(@, 2, Len(@))]
    PROVE  wire' \in [Pushes -> Seq(Frames)] /\ \A q \in Pushes : Len(wire'[q]) <= MaxFrames + 1
<1>1. wire[p] \in Seq(Frames) /\ \A q \in Pushes : Len(wire[q]) <= MaxFrames + 1
  BY DEF TypeOK
<1>2. \A q \in Pushes : wire'[q] = IF q = p THEN SubSeq(wire[p], 2, Len(wire[p])) ELSE wire[q]
  BY DEF TypeOK
<1>3. /\ SubSeq(wire[p], 2, Len(wire[p])) \in Seq(Frames)
      /\ Len(SubSeq(wire[p], 2, Len(wire[p]))) <= MaxFrames + 1
  BY <1>1, RestOf, FrameAssumption
<1>4. wire' \in [Pushes -> Seq(Frames)]
  BY <1>3 DEF TypeOK
<1>5. QED
  BY <1>1, <1>2, <1>3, <1>4

\* What is appended to the log are lines of runs.
LEMMA LogType ==
    ASSUME TypeOK, NEW p \in Pushes, NEW c \in Frames, log' = log \o Lines(p, c)
    PROVE  log' \in Seq(Pushes \X (1 .. MaxLines))
  BY LinesType, MoreOf DEF TypeOK

LEMMA StreamType ==
    ASSUME TypeOK, NEW p \in Pushes, FleetTypeOK',
           \/ StreamOpen(p) \/ RelayChunk(p) \/ OnMessage(p) \/ OnErrorFrame(p)
           \/ RelayError(p) \/ TransportError(p)
    PROVE  TypeOK'
<1>1. CASE StreamOpen(p)
  BY <1>1 DEF StreamOpen, TypeOK, seen, Relays
<1>2. CASE RelayChunk(p)
  <2> DEFINE c == Chunk(relay[p].at, p)
             t == IF c.finished THEN <<c, DoneFrame>> ELSE <<c>>
  <2>1. relay[p].at \in 0 .. MaxLines /\ c \in Frames /\ DoneFrame \in Frames
    BY FrameValues DEF TypeOK, Relays
  <2>2. t \in Seq(Frames) /\ Len(t) <= 2
    BY <2>1
  <2>3. wire' = [wire EXCEPT ![p] = @ \o t] /\ Len(wire[p]) < MaxFrames
    BY <1>2 DEF RelayChunk
  <2>4. wire' \in [Pushes -> Seq(Frames)] /\ \A q \in Pushes : Len(wire'[q]) <= MaxFrames + 1
    BY <2>2, <2>3, SendType
  <2>5. relay' \in [Pushes -> Relays]
    <3>1. c.to \in 0 .. MaxLines
      BY <2>1 DEF Frames
    <3>2. [pc |-> IF c.finished THEN "ended" ELSE "poll", at |-> RelayOffset(p, c)] \in Relays
      BY <3>1 DEF RelayOffset, Relays
    <3>3. QED
      BY <1>2, <3>2 DEF RelayChunk, TypeOK
  <2>6. QED
    BY <1>2, <2>4, <2>5 DEF RelayChunk, TypeOK, seen
<1>3. CASE OnMessage(p)
  <2>1. wire[p] # <<>> /\ Head(wire[p]) \in Frames
    BY <1>3, RestOf DEF OnMessage, TypeOK
  <2>2. log' \in Seq(Pushes \X (1 .. MaxLines))
    BY <1>3, <2>1, LogType DEF OnMessage
  <2>3. CASE CloseStream(p) /\ ref' = None /\ dialog' = [dialog EXCEPT !.finished = TRUE]
    BY <1>3, <2>2, <2>3, CloseType DEF OnMessage, TypeOK, seen, Dialogs
  <2>4. CASE /\ wire' = [wire EXCEPT ![p] = SubSeq(@, 2, Len(@))]
             /\ UNCHANGED <<es, relay, ref, dialog>>
    BY <1>3, <2>1, <2>2, <2>4, TakeType DEF OnMessage, TypeOK, seen
  <2>5. QED
    BY <1>3, <2>3, <2>4 DEF OnMessage
<1>4. CASE OnErrorFrame(p)
  BY <1>4, CloseType DEF OnErrorFrame, TypeOK, seen, Dialogs
<1>5. CASE RelayError(p)
  <2>1. <<ErrorFrame>> \in Seq(Frames) /\ Len(<<ErrorFrame>>) <= 2
    BY FrameValues DEF TypeOK
  <2>2. wire[p] \in Seq(Frames) /\ ErrorFrame \in Frames
    BY FrameValues DEF TypeOK
  <2>3. Append(wire[p], ErrorFrame) = wire[p] \o <<ErrorFrame>>
    BY <2>2, AppendIsConcat
  <2>4. wire' = [wire EXCEPT ![p] = @ \o <<ErrorFrame>>] /\ Len(wire[p]) < MaxFrames
    BY <1>5, <2>3 DEF RelayError
  <2>5. wire' \in [Pushes -> Seq(Frames)] /\ \A q \in Pushes : Len(wire'[q]) <= MaxFrames + 1
    BY <2>1, <2>4, SendType
  <2>6. relay' \in [Pushes -> Relays]
    BY <1>5 DEF RelayError, TypeOK, Relays
  <2>7. QED
    BY <1>5, <2>5, <2>6 DEF RelayError, TypeOK, seen
<1>6. CASE TransportError(p)
  BY <1>6, CloseType DEF TransportError, TypeOK
<1>7. QED
  BY <1>1, <1>2, <1>3, <1>4, <1>5, <1>6

LEMMA PollType ==
    ASSUME TypeOK, NEW p \in Pushes, FleetTypeOK',
           PollAnswer(p) \/ PollAppend(p) \/ PollAgain(p) \/ PollError(p)
    PROVE  TypeOK'
<1>1. ASSUME NEW pc \in {"off", "ask", "answer", "sleep", "ended"}, PollGoto(p, pc)
      PROVE  poll' \in [Pushes -> Polls]
  BY <1>1, FrameValues DEF PollGoto, TypeOK, Polls
<1>2. CASE PollAnswer(p)
  <2>1. Chunk(poll[p].at, p) \in Frames
    BY FrameValues DEF TypeOK, Polls
  <2>2. poll' \in [Pushes -> Polls]
    BY <1>2, <2>1 DEF PollAnswer, TypeOK, Polls
  <2>3. QED
    BY <1>2, <2>2 DEF PollAnswer, TypeOK, seen
<1>3. CASE PollAppend(p)
  <2>1. poll[p].chunk \in Frames
    BY DEF TypeOK, Polls
  <2>2. CASE abort
    BY <1>1, <1>3, <2>2 DEF PollAppend, TypeOK, seen
  <2>3. CASE ~abort
    <3>1. log' \in Seq(Pushes \X (1 .. MaxLines))
      BY <1>3, <2>1, <2>3, LogType DEF PollAppend
    <3>2. poll[p].chunk.to \in 0 .. MaxLines /\ poll[p].chunk.finished \in BOOLEAN /\ ErrorFrame \in Frames
      BY <2>1, FrameValues DEF Frames, TypeOK
    <3>3. [pc |-> IF poll[p].chunk.finished THEN "ended" ELSE "sleep",
           at |-> poll[p].chunk.to, chunk |-> ErrorFrame] \in Polls
      BY <3>2 DEF Polls
    <3>4. poll' \in [Pushes -> Polls]
      BY <1>3, <2>3, <3>3 DEF PollAppend, TypeOK
    <3>5. dialog' \in Dialogs
      BY <1>3, <2>3, <3>2 DEF PollAppend, TypeOK, Dialogs
    <3>6. QED
      BY <1>3, <3>1, <3>4, <3>5 DEF PollAppend, TypeOK, seen
  <2>4. QED
    BY <2>2, <2>3
<1>4. CASE PollAgain(p)
  <2>1. poll' \in [Pushes -> Polls]
    BY <1>1, <1>4 DEF PollAgain
  <2>2. QED
    BY <1>4, <2>1 DEF PollAgain, TypeOK, seen
<1>5. CASE PollError(p)
  BY <1>1, <1>5 DEF PollError, TypeOK, Dialogs, seen
<1>6. QED
  BY <1>2, <1>3, <1>4, <1>5

LEMMA TailJobLogType ==
    ASSUME TypeOK, NEW p \in Pushes, FleetTypeOK', hasES' = hasES, TailJobLog(p)
    PROVE  TypeOK'
<1>0. log' \in Seq(Pushes \X (1 .. MaxLines))
  BY EmptySeq DEF TailJobLog
<1>1. dialog' \in Dialogs /\ tails' \subseteq Pushes /\ late' \subseteq Pushes
  BY DEF TailJobLog, TypeOK, Dialogs
<1>2. es' \in [Pushes -> {"none", "connecting", "open", "closed"}]
  BY DEF TailJobLog, TypeOK
<1>3. poll' \in [Pushes -> Polls]
  <2>1. poll \in [Pushes -> Polls] /\ [poll EXCEPT ![p].pc = "ask"] \in [Pushes -> Polls]
    BY DEF TypeOK, Polls
  <2>2. QED
    BY <2>1 DEF TailJobLog
<1>4. ref' \in Pushes \cup {None} /\ abort' \in BOOLEAN
  BY DEF TailJobLog, TypeOK
<1>5. QED
  BY <1>0, <1>1, <1>2, <1>3, <1>4 DEF TailJobLog, TypeOK

LEMMA DialogType ==
    ASSUME TypeOK, NEW p \in Pushes, FleetTypeOK',
           \/ FleetStatus \/ Unmount \/ HandlePush(p) \/ PushAnswered(p) \/ PushLost(p)
           \/ PushElsewhere(p) \/ Fleet(p)
    PROVE  TypeOK'
<1>1. ASSUME dialog' \in Dialogs, UNCHANGED <<hasES, log, transport, seen>> PROVE TypeOK'
  BY <1>1 DEF TypeOK, transport, seen
<1>2. CASE FleetStatus
  BY <1>1, <1>2 DEF FleetStatus, TypeOK, Dialogs
<1>3. CASE Unmount
  <2>1. dialog' \in Dialogs
    BY <1>3 DEF Unmount, TypeOK, Dialogs
  <2>2. CASE ref = None
    BY <1>3, <2>1, <2>2 DEF Unmount, TypeOK, seen
  <2>3. CASE ref # None
    <3>1. ref \in Pushes /\ CloseStream(ref)
      BY <1>3, <2>3 DEF Unmount, TypeOK
    <3>2. QED
      BY <1>3, <2>1, <3>1, CloseType DEF Unmount, TypeOK, seen
  <2>4. QED
    BY <2>2, <2>3
<1>4. CASE HandlePush(p)
  BY <1>1, <1>4 DEF HandlePush, TypeOK, Dialogs
<1>5. CASE PushAnswered(p)
  <2>1. CASE TailJobLog(p)
    BY <1>5, <2>1, TailJobLogType DEF PushAnswered
  <2>2. CASE dialog' = [dialog EXCEPT !.pushing = None] /\ UNCHANGED <<log, transport, seen>>
    BY <1>1, <1>5, <2>2 DEF PushAnswered, TypeOK, Dialogs
  <2>3. QED
    BY <1>5, <2>1, <2>2 DEF PushAnswered
<1>6. CASE PushLost(p)
  BY <1>1, <1>6 DEF PushLost, TypeOK, Dialogs
<1>7. CASE PushElsewhere(p)
  BY <1>1, <1>7 DEF PushElsewhere, TypeOK
<1>8. CASE Fleet(p)
  BY <1>1, <1>8 DEF Fleet, TypeOK
<1>9. QED
  BY <1>2, <1>3, <1>4, <1>5, <1>6, <1>7, <1>8

LEMMA TailTypeStep == ASSUME TypeOK, FleetTypeOK', [Next]_vars PROVE TypeOK'
<1>1. CASE \E p \in Pushes : TailStep(p) \/ RelayError(p) \/ TransportError(p) \/ PollError(p)
  BY <1>1, StreamType, PollType DEF TailStep
<1>2. CASE FleetStatus \/ Unmount
  <2>1. CASE Pushes = {}
    <3>1. ref = None
      BY <2>1 DEF TypeOK
    <3>2. dialog' \in Dialogs
      BY <1>2 DEF FleetStatus, Unmount, TypeOK, Dialogs
    <3>3. QED
      BY <1>2, <3>1, <3>2 DEF FleetStatus, Unmount, TypeOK, seen, transport
  <2>2. CASE Pushes # {}
    BY <1>2, <2>2, DialogType
  <2>3. QED
    BY <2>1, <2>2
<1>3. CASE \E p \in Pushes : \/ HandlePush(p) \/ PushAnswered(p) \/ PushLost(p)
                             \/ PushElsewhere(p) \/ Fleet(p)
  BY <1>3, DialogType
<1>4. CASE UNCHANGED vars
  BY <1>4 DEF vars, transport, seen, TypeOK
<1>5. QED
  BY <1>1, <1>2, <1>3, <1>4 DEF Next

-----------------------------------------------------------------------------
(* The tails.                                                              *)

\* Once a push has been answered its build only goes on.
Grows(q) ==
    /\ call'[q].pc = "answered" /\ job'[q].lines >= job[q].lines
    /\ job[q].state = "finished" => job'[q] = job[q]

LEMMA FleetGrows ==
    ASSUME FleetTypeOK, [Next]_vars, NEW q \in Pushes, call[q].pc = "answered"
    PROVE  Grows(q)
<1>1. job[q].lines \in Nat
  BY DEF FleetTypeOK
<1>2. ASSUME NEW p \in Pushes, Asked(p) PROVE Grows(q)
  BY <1>1, <1>2 DEF Asked, PushRequest, Calling, FleetTypeOK, Grows
<1>3. ASSUME NEW p \in Pushes, Answered(p) PROVE Grows(q)
  BY <1>1, <1>3 DEF Answered, FleetTypeOK, Grows
<1>4. ASSUME NEW p \in Pushes, PushStep(p) \/ Unreachable(p) PROVE Grows(q)
  <2>1. call[p].pc \in {"list", "create", "write", "compile"}
    BY <1>4 DEF PushStep, ListTargets, CreateTarget, WriteContent, Compile, Unreachable, Calling
  <2>2. p # q
    BY <2>1
  <2>3. call'[q] = call[q] /\ job'[q] = job[q]
    BY <1>4, <2>2 DEF PushStep, ListTargets, CreateTarget, WriteContent, Compile, Enqueue,
                      Unreachable, Refuse, Reply, FleetTypeOK
  <2>4. QED
    BY <1>1, <2>3 DEF Grows
<1>5. ASSUME NEW p \in Pushes, JobLine(p) \/ JobFinish(p) PROVE Grows(q)
  BY <1>1, <1>5 DEF JobLine, JobFinish, FleetTypeOK, Grows
<1>6. CASE UNCHANGED fleet
  BY <1>1, <1>6 DEF fleet, Grows
<1>7. QED
  BY <1>2, <1>3, <1>4, <1>5, <1>6, FleetMoves DEF FleetStep

\* The transport of run q is left as it is.
Aside(q) ==
    es'[q] = es[q] /\ wire'[q] = wire[q] /\ relay'[q] = relay[q] /\ poll'[q] = poll[q]

LEMMA KnownKept ==
    ASSUME NEW q \in Pushes, Known(q), Aside(q), hasES' = hasES, tails' = tails, late' = late,
           ref' = q => ref = q,
           es[q] \in {"connecting", "open"} /\ tails = {q} /\ late = {} =>
               (dialog.open /\ ref = q => dialog'.open /\ ref' = q)
    PROVE  Known(q)'
  BY DEF Known, Aside

\* The stream of p is over.
LEMMA ClosedKnown ==
    ASSUME TypeOK, TailsAreKnown, NEW p \in Pushes, es[p] \in {"connecting", "open"}, CloseStream(p),
           UNCHANGED <<hasES, poll, tails, late>>, ref' = None
    PROVE  \A q \in Pushes : Known(q)'
<1> SUFFICES ASSUME NEW q \in Pushes PROVE Known(q)'
  OBVIOUS
<1>1. Known(p) /\ Known(q) /\ ref' # q
  BY PushAssumption DEF TailsAreKnown
<1>2. CASE q = p
  <2>1. es'[p] = "closed" /\ wire'[p] = <<>> /\ relay'[p] = [pc |-> "ended", at |-> 0]
    BY DEF CloseStream, TypeOK
  <2>2. QED
    BY <1>1, <1>2, <2>1 DEF Known
<1>3. CASE q # p
  <2>1. Aside(q)
    BY <1>3 DEF CloseStream, TypeOK, Aside
  <2>2. tails # {q}
    BY <1>1, <1>3 DEF Known
  <2>3. QED
    BY <1>1, <2>1, <2>2, KnownKept
<1>4. QED
  BY <1>2, <1>3

\* A step that concerns the transport of p only.
LEMMA OneKnown ==
    ASSUME TailsAreKnown, NEW p \in Pushes, \A q \in Pushes \ {p} : Aside(q),
           UNCHANGED <<hasES, tails, late, ref>>, dialog'.open = dialog.open, Known(p)'
    PROVE  \A q \in Pushes : Known(q)'
<1> SUFFICES ASSUME NEW q \in Pushes \ {p} PROVE Known(q)'
  OBVIOUS
<1>1. Known(q) /\ Aside(q)
  BY DEF TailsAreKnown
<1>2. QED
  BY <1>1, KnownKept

LEMMA TailJobLogKnown ==
    ASSUME TypeOK, TailsAreKnown, NEW p \in Pushes, p \notin tails, hasES' = hasES, TailJobLog(p)
    PROVE  \A q \in Pushes : Known(q)'
<1> SUFFICES ASSUME NEW q \in Pushes PROVE Known(q)'
  OBVIOUS
<1>1. Known(p) /\ Known(q)
  BY DEF TailsAreKnown
<1>2. tails' = tails \cup {p} /\ (late' = {} => dialog.open)
  BY DEF TailJobLog
<1>3. dialog'.open = dialog.open
  BY DEF TailJobLog, TypeOK, Dialogs
<1>4. es[p] = "none" /\ poll[p].pc = "off" /\ wire[p] = <<>> /\ relay[p].at = 0 /\ relay[p].pc # "poll"
      /\ poll[p].at = 0
  BY <1>1 DEF Known
<1>5. wire' = wire /\ relay' = relay
  BY DEF TailJobLog
<1>6. CASE q = p
  <2>1. CASE hasES
    <3>1. es'[p] = "connecting" /\ poll' = poll /\ ref' = p
      BY <2>1 DEF TailJobLog, TypeOK
    <3>2. QED
      BY <1>2, <1>3, <1>4, <1>5, <1>6, <2>1, <3>1 DEF Known
  <2>2. CASE ~hasES
    <3>1. es' = es /\ poll'[p].pc = "ask" /\ ref' = ref /\ ref # p
      BY <1>1, <1>4, <2>2 DEF TailJobLog, TypeOK, Polls, Known
    <3>2. QED
      BY <1>2, <1>3, <1>4, <1>5, <1>6, <2>2, <3>1 DEF Known
  <2>3. QED
    BY <2>1, <2>2
<1>7. CASE q # p
  <2>1. Aside(q) /\ (ref' = q => ref = q)
    BY <1>5, <1>7 DEF TailJobLog, TypeOK, Aside
  <2>2. tails' # {q} /\ (q \notin tails' => q \notin tails)
    BY <1>2, <1>7
  <2>3. QED
    BY <1>1, <2>1, <2>2 DEF Known, Aside
<1>8. QED
  BY <1>6, <1>7

LEMMA UnmountKnown ==
    ASSUME TypeOK, TailsAreKnown, Unmount
    PROVE  \A q \in Pushes : Known(q)'
<1> SUFFICES ASSUME NEW q \in Pushes PROVE Known(q)'
  OBVIOUS
<1>1. Known(q)
  BY DEF TailsAreKnown
<1>2. UNCHANGED <<hasES, poll, tails, late>> /\ ref' # q
  BY PushAssumption DEF Unmount, seen
<1>3. CASE ref = q
  <2>1. CloseStream(q)
    BY <1>3, PushAssumption DEF Unmount
  <2>2. es'[q] = "closed" /\ wire'[q] = <<>> /\ relay'[q] = [pc |-> "ended", at |-> 0]
    BY <2>1 DEF CloseStream, TypeOK
  <2>3. hasES /\ q \in tails /\ poll[q].pc = "off" /\ poll[q].at = 0
    BY <1>1, <1>3 DEF Known
  <2>4. QED
    BY <1>2, <2>2, <2>3 DEF Known
<1>4. CASE ref # q
  <2>1. Aside(q)
    BY <1>2, <1>4 DEF Unmount, CloseStream, TypeOK, Aside
  <2>2. QED
    BY <1>1, <1>2, <1>4, <2>1, KnownKept DEF Known
<1>5. QED
  BY <1>3, <1>4

LEMMA StreamKnown ==
    ASSUME TypeOK, TailsAreKnown, NEW p \in Pushes,
           \/ StreamOpen(p) \/ RelayChunk(p) \/ OnMessage(p) \/ OnErrorFrame(p)
           \/ RelayError(p) \/ TransportError(p)
    PROVE  \A q \in Pushes : Known(q)'
<1>1. Known(p)
  BY DEF TailsAreKnown
<1>2. CASE StreamOpen(p)
  <2>1. \A q \in Pushes \ {p} : Aside(q)
    BY <1>2 DEF StreamOpen, TypeOK, Aside
  <2>2. /\ es[p] = "connecting" /\ es'[p] = "open" /\ poll' = poll /\ ref' = ref
        /\ UNCHANGED <<hasES, tails, late, dialog>>
    BY <1>2 DEF StreamOpen, TypeOK, seen
  <2>3. Known(p)'
    BY <1>1, <2>2 DEF Known
  <2>4. QED
    BY <2>1, <2>2, <2>3, OneKnown
<1>3. CASE RelayChunk(p) \/ RelayError(p)
  <2>1. \A q \in Pushes \ {p} : Aside(q)
    BY <1>3 DEF RelayChunk, RelayError, TypeOK, Aside
  <2>2. /\ es[p] = "open" /\ es' = es /\ poll' = poll /\ ref' = ref
        /\ UNCHANGED <<hasES, tails, late, dialog>>
    BY <1>1, <1>3 DEF RelayChunk, RelayError, Known, seen
  <2>3. Known(p)'
    BY <1>1, <2>2 DEF Known
  <2>4. QED
    BY <2>1, <2>2, <2>3, OneKnown
<1>4. CASE OnMessage(p)
  <2>1. es[p] = "open" /\ UNCHANGED <<hasES, poll, tails, late>>
    BY <1>4 DEF OnMessage, seen
  <2>2. CASE CloseStream(p) /\ ref' = None
    BY <2>1, <2>2, ClosedKnown
  <2>3. CASE /\ wire' = [wire EXCEPT ![p] = SubSeq(@, 2, Len(@))]
             /\ UNCHANGED <<es, relay, ref, dialog>>
    <3>1. \A q \in Pushes \ {p} : Aside(q)
      BY <2>1, <2>3 DEF TypeOK, Aside
    <3>2. Known(p)'
      BY <1>1, <2>1, <2>3 DEF Known
    <3>3. QED
      BY <2>1, <2>3, <3>1, <3>2, OneKnown
  <2>4. QED
    BY <1>4, <2>2, <2>3 DEF OnMessage
<1>5. CASE OnErrorFrame(p) \/ TransportError(p)
  <2>1. /\ es[p] \in {"connecting", "open"} /\ UNCHANGED <<hasES, poll, tails, late>>
        /\ CloseStream(p) /\ ref' = None
    BY <1>5 DEF OnErrorFrame, TransportError, seen
  <2>2. QED
    BY <2>1, ClosedKnown
<1>6. QED
  BY <1>2, <1>3, <1>4, <1>5

LEMMA PollKnown ==
    ASSUME TypeOK, TailsAreKnown, NEW p \in Pushes,
           PollAnswer(p) \/ PollAppend(p) \/ PollAgain(p) \/ PollError(p)
    PROVE  \A q \in Pushes : Known(q)'
<1>1. Known(p)
  BY DEF TailsAreKnown
<1>2. UNCHANGED <<hasES, es, wire, relay, ref, tails, late>>
  BY DEF PollAnswer, PollAppend, PollAgain, PollError, seen
<1>3. dialog'.open = dialog.open
  BY DEF PollAnswer, PollAppend, PollAgain, PollError, TypeOK, Dialogs
<1>4. poll[p].pc # "off" /\ poll'[p].pc # "off" /\ \A q \in Pushes \ {p} : poll'[q] = poll[q]
  <2>1. CASE PollAnswer(p)
    BY <2>1 DEF PollAnswer, TypeOK, Polls
  <2>2. CASE PollAppend(p)
    BY <2>2 DEF PollAppend, PollGoto, TypeOK, Polls
  <2>3. CASE PollAgain(p)
    BY <2>3 DEF PollAgain, PollGoto, TypeOK, Polls
  <2>4. CASE PollError(p)
    BY <2>4 DEF PollError, PollGoto, TypeOK, Polls
  <2>5. QED
    BY <2>1, <2>2, <2>3, <2>4
<1>5. \A q \in Pushes \ {p} : Aside(q)
  BY <1>2, <1>4 DEF Aside
<1>6. Known(p)'
  BY <1>1, <1>2, <1>3, <1>4 DEF Known
<1>7. QED
  BY <1>2, <1>3, <1>5, <1>6, OneKnown

\* A step that leaves the tails alone and does not close the dialog.
LEMMA KnownAside ==
    ASSUME TailsAreKnown, UNCHANGED <<hasES, transport, seen>>, dialog'.open = dialog.open
    PROVE  \A q \in Pushes : Known(q)'
<1> SUFFICES ASSUME NEW q \in Pushes PROVE Known(q)'
  OBVIOUS
<1>1. Known(q) /\ Aside(q)
  BY DEF TailsAreKnown, transport, Aside
<1>2. QED
  BY <1>1, KnownKept DEF transport, seen

\* The answer of a push begins a tail, or does not.
LEMMA AnswerTail ==
    ASSUME TypeOK, TailsAreKnown, NEW p \in Pushes, PushAnswered(p)
    PROVE  /\ p \notin tails /\ call'[p].pc = "answered" /\ hasES' = hasES
           /\ \/ TailJobLog(p)
              \/ UNCHANGED <<log, transport, seen>> /\ dialog' = [dialog EXCEPT !.pushing = None]
<1>1. p \notin tails
  BY DEF PushAnswered, TailsAreKnown
<1>2. call'[p].pc = "answered"
  BY DEF PushAnswered, TypeOK, FleetTypeOK
<1>3. QED
  BY <1>1, <1>2 DEF PushAnswered

LEMMA TailsStep == ASSUME TypeOK, TailsAreKnown, [Next]_vars PROVE TailsAreKnown'
<1>1. CASE \E p \in Pushes : PushAnswered(p) /\ TailJobLog(p)
  <2> PICK p \in Pushes : PushAnswered(p) /\ TailJobLog(p)
    BY <1>1
  <2>1. p \notin tails /\ call'[p].pc = "answered" /\ hasES' = hasES
    BY AnswerTail
  <2>2. tails' = tails \cup {p}
    BY DEF TailJobLog
  <2>3. IsFiniteSet(tails')
    BY <2>2, FS_AddElement DEF TailsAreKnown
  <2>4. \A q \in tails' : call'[q].pc = "answered"
    <3> SUFFICES ASSUME NEW q \in tails, q # p PROVE call'[q].pc = "answered"
      BY <2>1, <2>2
    <3>1. call[q].pc = "answered" /\ q \in Pushes
      BY DEF TailsAreKnown, TypeOK
    <3>2. QED
      BY <3>1 DEF PushAnswered, TypeOK, FleetTypeOK
  <2>5. ~dialog'.open /\ late' = {} => abort'
    BY DEF TailJobLog, TypeOK, Dialogs
  <2>6. QED
    BY <2>1, <2>3, <2>4, <2>5, TailJobLogKnown DEF TailsAreKnown
<1>2. ASSUME tails' = tails, ~dialog'.open /\ late' = {} => abort', \A q \in Pushes : Known(q)'
      PROVE  TailsAreKnown'
  <2>1. ASSUME NEW q \in tails PROVE call'[q].pc = "answered"
    <3>1. q \in Pushes /\ FleetTypeOK /\ call[q].pc = "answered"
      BY DEF TypeOK, TailsAreKnown
    <3>2. QED
      BY <3>1, FleetGrows DEF Grows
  <2>2. QED
    BY <1>2, <2>1 DEF TailsAreKnown
<1>3. ASSUME UNCHANGED <<hasES, transport, seen>>, dialog'.open = dialog.open PROVE TailsAreKnown'
  <2>1. ~dialog'.open /\ late' = {} => abort'
    BY <1>3 DEF TailsAreKnown, transport, seen
  <2>2. QED
    BY <1>2, <1>3, <2>1, KnownAside DEF seen
<1>4. ASSUME NEW p \in Pushes,
             \/ StreamOpen(p) \/ RelayChunk(p) \/ OnMessage(p) \/ OnErrorFrame(p)
             \/ RelayError(p) \/ TransportError(p)
      PROVE  TailsAreKnown'
  <2>1. UNCHANGED <<tails, late, abort>>
    BY <1>4 DEF StreamOpen, RelayChunk, OnMessage, OnErrorFrame, RelayError, TransportError, seen
  <2>2. dialog'.open = dialog.open
    BY <1>4 DEF StreamOpen, RelayChunk, OnMessage, OnErrorFrame, RelayError, TransportError,
                TypeOK, Dialogs
  <2>3. QED
    BY <1>2, <1>4, <2>1, <2>2, StreamKnown DEF TailsAreKnown
<1>5. ASSUME NEW p \in Pushes, PollAnswer(p) \/ PollAppend(p) \/ PollAgain(p) \/ PollError(p)
      PROVE  TailsAreKnown'
  <2>1. UNCHANGED <<tails, late, abort>>
    BY <1>5 DEF PollAnswer, PollAppend, PollAgain, PollError, seen
  <2>2. dialog'.open = dialog.open
    BY <1>5 DEF PollAnswer, PollAppend, PollAgain, PollError, TypeOK, Dialogs
  <2>3. QED
    BY <1>2, <1>5, <2>1, <2>2, PollKnown DEF TailsAreKnown
<1>6. CASE Unmount
  <2>1. abort' /\ tails' = tails
    BY <1>6 DEF Unmount, seen
  <2>2. QED
    BY <1>2, <1>6, <2>1, UnmountKnown
<1>7. CASE FleetStatus
  BY <1>3, <1>7 DEF FleetStatus, TypeOK, Dialogs
<1>8. ASSUME NEW p \in Pushes, HandlePush(p) \/ PushLost(p) \/ PushElsewhere(p) \/ Fleet(p)
      PROVE  TailsAreKnown'
  BY <1>3, <1>8 DEF HandlePush, PushLost, PushElsewhere, Fleet, TypeOK, Dialogs
<1>9. ASSUME NEW p \in Pushes, PushAnswered(p) PROVE TailsAreKnown'
  <2>1. CASE TailJobLog(p)
    BY <1>1, <1>9, <2>1
  <2>2. CASE UNCHANGED <<log, transport, seen>> /\ dialog' = [dialog EXCEPT !.pushing = None]
    BY <1>3, <1>9, <2>2, AnswerTail DEF TypeOK, Dialogs
  <2>3. QED
    BY <1>9, <2>1, <2>2, AnswerTail
<1>10. CASE UNCHANGED vars
  BY <1>3, <1>10 DEF vars
<1>11. QED
  BY <1>4, <1>5, <1>6, <1>7, <1>8, <1>9, <1>10 DEF Next, TailStep

-----------------------------------------------------------------------------
(* The frames.                                                             *)

\* A run whose transport is left as it is: its build goes on at most.
LEMMA FollowsKept ==
    ASSUME TypeOK, FleetTypeOK', TailsAreKnown, FramesFollow, [Next]_vars,
           NEW q \in Pushes, Aside(q)
    PROVE  Follows(q)'
<1>1. Follows(q) /\ Known(q)
  BY DEF FramesFollow, TailsAreKnown
<1>2. /\ relay[q].at \in 0 .. MaxLines /\ poll[q].at \in 0 .. MaxLines /\ poll[q].chunk \in Frames
      /\ wire[q] \in Seq(Frames) /\ Len(wire[q]) \in Nat
  BY DEF TypeOK, Relays, Polls
<1>3. job'[q].lines \in Nat /\ job[q].lines \in Nat
  BY DEF TypeOK, FleetTypeOK
<1>4. CASE q \notin tails
  <2>1. /\ wire[q] = <<>> /\ relay[q].at = 0 /\ poll[q].at = 0 /\ poll[q].pc = "off"
    BY <1>1, <1>4 DEF Known
  <2>2. Len(wire'[q]) = 0
    BY <2>1 DEF Aside
  <2>3. QED
    BY <1>3, <2>1, <2>2 DEF Follows, Aside
<1>5. CASE q \in tails
  <2>1. Grows(q)
    BY <1>5, FleetGrows DEF TypeOK, TailsAreKnown
  <2>2. ASSUME NEW c \in Frames, PieceOf(q, c)
        PROVE  c.kind = "data" =>
                 /\ c.from <= c.to /\ c.to <= job'[q].lines
                 /\ c.finished => job'[q].state = "finished" /\ c.to = job'[q].lines
    BY <1>3, <2>1, <2>2 DEF Grows, PieceOf, Frames
  <2>3. \A i \in 1 .. Len(wire[q]) : wire[q][i] \in Frames
    BY <1>2, ElementOfSeq
  <2>4. relay'[q].at <= job'[q].lines /\ poll'[q].at <= job'[q].lines
    BY <1>1, <1>2, <1>3, <2>1 DEF Follows, Grows, Aside
  <2>5. poll'[q].pc = "answer" =>
            PieceOf(q, poll[q].chunk)' /\ poll'[q].chunk.kind = "data" /\ poll'[q].chunk.from = poll'[q].at
    BY <1>1, <1>2, <2>2 DEF Follows, Aside, PieceOf
  <2>6. ASSUME NEW i \in 1 .. Len(wire'[q])
        PROVE  PieceOf(q, wire[q][i])'
    BY <1>1, <2>2, <2>3 DEF Follows, Aside, PieceOf
  <2>7. ASSUME NEW i \in 1 .. Len(wire'[q])
        PROVE  IF wire'[q][i].kind = "data" THEN wire'[q][i].to = NextFrom(q, i)'
               ELSE i = Len(wire'[q]) /\ relay'[q].pc = "ended"
    BY <1>1 DEF Follows, Aside, NextFrom
  <2>8. QED
    BY <2>4, <2>5, <2>6, <2>7 DEF Follows
<1>6. QED
  BY <1>4, <1>5

\* A stream that is closed has no frames.
LEMMA FollowsClosed ==
    ASSUME TypeOK, NEW p \in Pushes, Follows(p), UNCHANGED <<fleet, poll>>, CloseStream(p)
    PROVE  Follows(p)'
<1>1. wire'[p] = <<>> /\ relay'[p].at = 0 /\ poll'[p] = poll[p] /\ job'[p] = job[p]
  BY DEF CloseStream, TypeOK, fleet
<1>2. Len(wire'[p]) = 0 /\ job[p].lines \in Nat
  BY <1>1 DEF TypeOK, FleetTypeOK
<1>3. QED
  BY <1>1, <1>2 DEF Follows, PieceOf

\* Frames that follow one another up to where a generator stands.
Chained(p, w, at, pc) ==
    \A i \in 1 .. Len(w) :
        /\ PieceOf(p, w[i])
        /\ IF w[i].kind = "data"
           THEN w[i].to = IF i < Len(w) /\ w[i + 1].kind = "data" THEN w[i + 1].from ELSE at
           ELSE i = Len(w) /\ pc = "ended"

LEMMA ChainedMore ==
    ASSUME NEW p, NEW w \in Seq(Frames), NEW at0, Chained(p, w, at0, "poll"),
           NEW t \in Seq(Frames), NEW at, NEW pc, Chained(p, t, at, pc), t # <<>>,
           t[1].kind = "data" => t[1].from = at0, t[1].kind # "data" => at = at0
    PROVE  Chained(p, w \o t, at, pc)
<1> DEFINE v == w \o t
<1>1. /\ v \in Seq(Frames) /\ Len(v) = Len(w) + Len(t) /\ Len(w) \in Nat /\ Len(t) \in Nat \ {0}
      /\ \A i \in 1 .. Len(w) : v[i] = w[i]
      /\ \A i \in 1 .. Len(t) : v[Len(w) + i] = t[i]
  BY EmptySeq
<1> HIDE DEF v
<1>2. ASSUME NEW i \in 1 .. Len(w)
      PROVE  /\ PieceOf(p, v[i])
             /\ IF v[i].kind = "data"
                THEN v[i].to = IF i < Len(v) /\ v[i + 1].kind = "data" THEN v[i + 1].from ELSE at
                ELSE i = Len(v) /\ pc = "ended"
  <2>1. v[i] = w[i] /\ PieceOf(p, w[i]) /\ w[i].kind = "data"
    BY <1>1 DEF Chained
  <2>2. w[i].to = IF i < Len(w) /\ w[i + 1].kind = "data" THEN w[i + 1].from ELSE at0
    BY <2>1 DEF Chained
  <2>3. CASE i < Len(w)
    <3>1. i + 1 \in 1 .. Len(w) /\ i < Len(v)
      BY <1>1, <2>3
    <3>2. v[i + 1] = w[i + 1] /\ w[i + 1].kind = "data"
      BY <1>1, <3>1 DEF Chained
    <3>3. QED
      BY <2>1, <2>2, <2>3, <3>1, <3>2
  <2>4. CASE i = Len(w)
    <3>1. 1 \in 1 .. Len(t) /\ i < Len(v) /\ ~(i < Len(w))
      BY <1>1, <2>4
    <3>2. v[i + 1] = t[1]
      BY <1>1, <2>4, <3>1
    <3>3. QED
      BY <2>1, <2>2, <3>1, <3>2
  <2>5. QED
    BY <1>1, <2>3, <2>4
<1>3. ASSUME NEW j \in 1 .. Len(t)
      PROVE  /\ PieceOf(p, v[Len(w) + j])
             /\ IF v[Len(w) + j].kind = "data"
                THEN v[Len(w) + j].to = IF Len(w) + j < Len(v) /\ v[Len(w) + j + 1].kind = "data"
                                        THEN v[Len(w) + j + 1].from ELSE at
                ELSE Len(w) + j = Len(v) /\ pc = "ended"
  <2>1. v[Len(w) + j] = t[j]
    BY <1>1
  <2>2. j < Len(t) => v[Len(w) + j + 1] = t[j + 1]
    <3> SUFFICES ASSUME j < Len(t) PROVE v[Len(w) + j + 1] = t[j + 1]
      OBVIOUS
    <3>1. j + 1 \in 1 .. Len(t) /\ Len(w) + (j + 1) = Len(w) + j + 1
      BY <1>1
    <3>2. v[Len(w) + (j + 1)] = t[j + 1]
      BY <1>1, <3>1
    <3>3. QED
      BY <3>1, <3>2
  <2>3. (Len(w) + j < Len(v) <=> j < Len(t)) /\ (j = Len(t) => Len(w) + j = Len(v))
    <3>1. \A a \in Nat : \A b \in Nat : \A k \in 1 .. b :
            (a + k < a + b <=> k < b) /\ (k = b => a + k = a + b)
      OBVIOUS
    <3>2. Len(w) \in Nat /\ Len(t) \in Nat /\ Len(v) = Len(w) + Len(t)
      BY <1>1, Zenon
    <3>3. /\ Len(w) + j < Len(w) + Len(t) <=> j < Len(t)
          /\ j = Len(t) => Len(w) + j = Len(w) + Len(t)
      BY <3>1, <3>2, Zenon
    <3>4. QED
      BY <3>2, <3>3, Zenon
  <2>4. /\ PieceOf(p, t[j])
        /\ IF t[j].kind = "data"
           THEN t[j].to = IF j < Len(t) /\ t[j + 1].kind = "data" THEN t[j + 1].from ELSE at
           ELSE j = Len(t) /\ pc = "ended"
    BY DEF Chained
  <2>5. QED
    BY <2>1, <2>2, <2>3, <2>4
<1>4. ASSUME NEW i \in 1 .. Len(v)
      PROVE  /\ PieceOf(p, v[i])
             /\ IF v[i].kind = "data"
                THEN v[i].to = IF i < Len(v) /\ v[i + 1].kind = "data" THEN v[i + 1].from ELSE at
                ELSE i = Len(v) /\ pc = "ended"
  <2>1. CASE i \in 1 .. Len(w)
    BY <1>2, <2>1
  <2>2. CASE i \notin 1 .. Len(w)
    <3> DEFINE j == i - Len(w)
    <3>1. j \in 1 .. Len(t) /\ Len(w) + j = i
      BY <1>1, <2>2
    <3> HIDE DEF j
    <3>2. QED
      BY <1>3, <3>1
  <2>3. QED
    BY <2>1, <2>2
<1>5. Chained(p, v, at, pc)
  BY <1>4 DEF Chained
<1>6. QED
  BY <1>5 DEF v

\* Frames are put behind those of a stream that still polls.
LEMMA FollowsMore ==
    ASSUME TypeOK, NEW p \in Pushes, Follows(p), relay[p].pc = "poll", UNCHANGED <<job, poll>>,
           NEW t \in Seq(Frames), t # <<>>, wire'[p] = wire[p] \o t,
           Chained(p, t, relay'[p].at, relay'[p].pc), relay'[p].at <= job[p].lines,
           t[1].kind = "data" => t[1].from = relay[p].at,
           t[1].kind # "data" => relay'[p].at = relay[p].at
    PROVE  Follows(p)'
<1>1. wire[p] \in Seq(Frames) /\ Len(wire[p]) \in Nat
  BY DEF TypeOK
<1>2. Chained(p, wire[p], relay[p].at, "poll")
  BY DEF Follows, NextFrom, Chained
<1>3. Chained(p, wire'[p], relay'[p].at, relay'[p].pc)
  BY <1>1, <1>2, ChainedMore
<1>4. Chained(p, wire[p], relay[p].at, relay[p].pc)'
  BY <1>3 DEF Chained, PieceOf
<1>5. /\ relay'[p].at <= job'[p].lines /\ poll'[p].at <= job'[p].lines
      /\ poll'[p].pc = "answer" => PieceOf(p, poll[p].chunk)'
            /\ poll'[p].chunk.kind = "data" /\ poll'[p].chunk.from = poll'[p].at
  BY DEF Follows, PieceOf
<1>6. QED
  BY <1>4, <1>5 DEF Follows, NextFrom, Chained

LEMMA FollowsSent ==
    ASSUME TypeOK, NEW p \in Pushes, Follows(p), RelayChunk(p) \/ RelayError(p)
    PROVE  Follows(p)'
<1>1. /\ relay[p].at \in 0 .. MaxLines /\ job[p].lines \in Nat /\ wire[p] \in Seq(Frames)
      /\ DoneFrame \in Frames /\ ErrorFrame \in Frames /\ relay[p].at <= job[p].lines
  BY FrameValues DEF TypeOK, Relays, FleetTypeOK, Follows
<1>2. DoneFrame.kind = "done" /\ ErrorFrame.kind = "error"
  BY DEF DoneFrame, ErrorFrame
<1>3. relay[p].pc = "poll" /\ UNCHANGED <<job, poll>>
  BY DEF RelayChunk, RelayError, fleet
<1>4. CASE RelayError(p)
  <2>1. relay'[p].at = relay[p].at /\ relay'[p].pc = "ended" /\ wire'[p] = Append(wire[p], ErrorFrame)
    BY <1>4 DEF RelayError, TypeOK, Relays
  <2>2. Append(wire[p], ErrorFrame) = wire[p] \o <<ErrorFrame>>
    BY <1>1, AppendIsConcat
  <2>3. <<ErrorFrame>> \in Seq(Frames) /\ Len(<<ErrorFrame>>) = 1 /\ <<ErrorFrame>>[1] = ErrorFrame
    BY <1>1
  <2>4. PieceOf(p, ErrorFrame)
    BY <1>2 DEF PieceOf
  <2> DEFINE t == <<ErrorFrame>>
  <2> HIDE DEF t
  <2>5. /\ t \in Seq(Frames) /\ Len(t) = 1 /\ t[1] = ErrorFrame /\ wire'[p] = wire[p] \o t
        /\ t # <<>>
    BY <2>1, <2>2, <2>3, EmptySeq DEF t
  <2>6. Chained(p, t, relay'[p].at, relay'[p].pc)
    BY <1>2, <2>1, <2>4, <2>5 DEF Chained
  <2>7. QED
    BY <1>1, <1>2, <1>3, <2>1, <2>5, <2>6, FollowsMore
<1>5. CASE RelayChunk(p)
  <2> DEFINE c == Chunk(relay[p].at, p)
  <2>1. /\ c.kind = "data" /\ c.from = relay[p].at /\ c.to = job[p].lines
        /\ c.finished <=> job[p].state = "finished"
    BY DEF Chunk
  <2>2. c \in Frames
    BY <1>1, FrameValues DEF TypeOK
  <2>3. PieceOf(p, c) /\ PieceOf(p, DoneFrame)
    BY <1>1, <1>2, <2>1 DEF PieceOf
  <2>4. /\ relay'[p].at = c.to /\ (c.finished => relay'[p].pc = "ended")
        /\ wire'[p] = wire[p] \o (IF c.finished THEN <<c, DoneFrame>> ELSE <<c>>)
    BY <1>5 DEF RelayChunk, RelayOffset, TypeOK
  <2> HIDE DEF c
  <2>5. CASE c.finished
    <3> DEFINE t == <<c, DoneFrame>>
    <3>1. t \in Seq(Frames) /\ Len(t) = 2 /\ t[1] = c /\ t[2] = DoneFrame
      BY <1>1, <2>2
    <3> HIDE DEF t
    <3>2. wire'[p] = wire[p] \o t
      BY <2>4, <2>5 DEF t
    <3>3. Chained(p, t, relay'[p].at, relay'[p].pc)
      BY <1>2, <2>1, <2>3, <2>4, <2>5, <3>1 DEF Chained
    <3>4. t # <<>>
      BY <3>1, EmptySeq
    <3>5. relay'[p].at <= job[p].lines /\ t[1].kind = "data" /\ t[1].from = relay[p].at
      BY <1>1, <2>1, <2>4, <3>1
    <3>6. QED
      BY <1>3, <3>1, <3>2, <3>3, <3>4, <3>5, FollowsMore
  <2>6. CASE ~c.finished
    <3> DEFINE t == <<c>>
    <3>1. t \in Seq(Frames) /\ Len(t) = 1 /\ t[1] = c
      BY <2>2
    <3> HIDE DEF t
    <3>2. wire'[p] = wire[p] \o t
      BY <2>4, <2>6 DEF t
    <3>3. Chained(p, t, relay'[p].at, relay'[p].pc)
      BY <1>2, <2>1, <2>3, <2>4, <2>6, <3>1 DEF Chained
    <3>4. t # <<>>
      BY <3>1, EmptySeq
    <3>5. relay'[p].at <= job[p].lines /\ t[1].kind = "data" /\ t[1].from = relay[p].at
      BY <1>1, <2>1, <2>4, <3>1
    <3>6. QED
      BY <1>3, <3>1, <3>2, <3>3, <3>4, <3>5, FollowsMore
  <2>7. QED
    BY <2>5, <2>6
<1>6. QED
  BY <1>4, <1>5

\* A frame is taken from the front.
LEMMA FollowsTaken ==
    ASSUME TypeOK, NEW p \in Pushes, Follows(p), wire[p] # <<>>,
           wire' = [wire EXCEPT ![p] = SubSeq(@, 2, Len(@))], UNCHANGED <<job, poll, relay>>
    PROVE  Follows(p)'
<1> DEFINE w == wire[p]
           n == Len(w)
<1>1. wire'[p] = SubSeq(w, 2, n) /\ w \in Seq(Frames)
  BY DEF TypeOK
<1>2. /\ n \in Nat \ {0} /\ Len(wire'[p]) = n - 1
      /\ \A i \in 1 .. n - 1 : wire'[p][i] = w[i + 1]
  BY <1>1, RestOf
<1>3. ASSUME NEW i \in 1 .. n - 1
      PROVE  /\ PieceOf(p, wire[p][i])'
             /\ IF wire'[p][i].kind = "data" THEN wire'[p][i].to = NextFrom(p, i)'
                ELSE i = n - 1 /\ relay'[p].pc = "ended"
  <2>1. i + 1 \in 1 .. n /\ i \in 1 .. n - 1 /\ (i < n - 1 <=> i + 1 < n)
    BY <1>2
  <2>2. /\ PieceOf(p, w[i + 1])
        /\ IF w[i + 1].kind = "data" THEN w[i + 1].to = NextFrom(p, i + 1)
           ELSE i + 1 = n /\ relay[p].pc = "ended"
    BY <2>1 DEF Follows
  <2>3. wire'[p][i] = w[i + 1] /\ (i < n - 1 => wire'[p][i + 1] = w[(i + 1) + 1])
    BY <1>2, <2>1
  <2>4. NextFrom(p, i)' = NextFrom(p, i + 1)
    BY <1>2, <2>1, <2>3 DEF NextFrom
  <2>5. PieceOf(p, wire[p][i])'
    BY <2>2, <2>3 DEF PieceOf
  <2>6. QED
    BY <1>2, <2>2, <2>3, <2>4, <2>5
<1>4. QED
  BY <1>2, <1>3 DEF Follows, PieceOf

LEMMA PollFollows ==
    ASSUME TypeOK, NEW p \in Pushes, Follows(p),
           PollAnswer(p) \/ PollAppend(p) \/ PollAgain(p) \/ PollError(p)
    PROVE  Follows(p)'
<1>1. UNCHANGED <<job, wire, relay>>
  BY DEF PollAnswer, PollAppend, PollAgain, PollError, fleet
<1>2. job[p].lines \in Nat /\ poll[p].at \in 0 .. MaxLines /\ poll[p].chunk \in Frames
  <2>1. job[p].lines \in 0 .. MaxLines
    BY DEF TypeOK, FleetTypeOK
  <2>2. poll[p] \in Polls
    BY DEF TypeOK
  <2>3. poll[p].at \in 0 .. MaxLines /\ poll[p].chunk \in Frames
    BY <2>2 DEF Polls
  <2>4. QED
    BY <2>1, <2>3
<1>3. ASSUME poll'[p].at <= job[p].lines,
             poll'[p].pc = "answer" => PieceOf(p, poll[p].chunk)'
               /\ poll'[p].chunk.kind = "data" /\ poll'[p].chunk.from = poll'[p].at
      PROVE  Follows(p)'
  BY <1>1, <1>3 DEF Follows, PieceOf, NextFrom
<1>4. CASE PollAnswer(p)
  <2>1. poll'[p].at = poll[p].at /\ poll'[p].chunk = Chunk(poll[p].at, p)
    BY <1>4 DEF PollAnswer, TypeOK, Polls
  <2>2. /\ poll'[p].chunk.kind = "data" /\ poll'[p].chunk.from = poll[p].at
        /\ poll'[p].chunk.to = job[p].lines
        /\ poll'[p].chunk.finished => job[p].state = "finished"
    <3> DEFINE c == Chunk(poll[p].at, p)
    <3>1. /\ c.kind = "data" /\ c.from = poll[p].at /\ c.to = job[p].lines
          /\ c.finished => job[p].state = "finished"
      BY DEF Chunk
    <3>2. poll'[p].chunk = c
      BY <2>1
    <3> HIDE DEF c
    <3>3. QED
      BY <3>1, <3>2
  <2>3. poll[p].at <= job[p].lines
    BY DEF Follows
  <2>4. PieceOf(p, poll[p].chunk)'
    BY <1>1, <1>2, <2>2, <2>3 DEF PieceOf
  <2>5. QED
    BY <1>3, <2>1, <2>2, <2>3, <2>4
<1>5. ASSUME NEW pc \in {"ask", "ended"}, PollGoto(p, pc) PROVE Follows(p)'
  <2>1. poll'[p].at = poll[p].at /\ poll'[p].pc # "answer"
    BY <1>5 DEF PollGoto, TypeOK, Polls
  <2>2. QED
    BY <1>3, <2>1 DEF Follows
<1>6. CASE PollAppend(p)
  <2>1. CASE abort
    BY <1>5, <1>6, <2>1 DEF PollAppend
  <2>2. CASE ~abort
    <3>1. poll'[p].at = poll[p].chunk.to /\ poll'[p].pc # "answer"
      BY <1>6, <2>2 DEF PollAppend, TypeOK, Polls
    <3>2. QED
      BY <1>3, <1>6, <3>1 DEF PollAppend, Follows, PieceOf
  <2>3. QED
    BY <2>1, <2>2
<1>7. CASE PollAgain(p) \/ PollError(p)
  BY <1>5, <1>7 DEF PollAgain, PollError
<1>8. QED
  BY <1>4, <1>6, <1>7

LEMMA FramesStep ==
    ASSUME TypeOK, FleetTypeOK', TailsAreKnown, FramesFollow, [Next]_vars
    PROVE  FramesFollow'
<1> SUFFICES ASSUME NEW q \in Pushes PROVE Follows(q)'
  BY DEF FramesFollow
<1>1. Follows(q) /\ Known(q)
  BY DEF FramesFollow, TailsAreKnown
<1>2. CASE Aside(q)
  BY <1>2, FollowsKept
<1>3. ASSUME NEW p \in Pushes, p # q, TailStep(p) \/ RelayError(p) \/ TransportError(p) \/ PollError(p)
      PROVE  Aside(q)
  BY <1>3 DEF TailStep, StreamOpen, RelayChunk, OnMessage, OnErrorFrame, PollAnswer, PollAppend,
              PollAgain, RelayError, TransportError, PollError, CloseStream, PollGoto, TypeOK, Aside
<1>4. CASE StreamOpen(q)
  <2>1. /\ wire'[q] = <<>> /\ relay'[q].at = 0 /\ poll' = poll /\ job' = job
    BY <1>1, <1>4 DEF StreamOpen, Known, TypeOK, Relays, fleet
  <2>2. Len(wire'[q]) = 0 /\ job[q].lines \in Nat
    BY <2>1 DEF TypeOK, FleetTypeOK
  <2>3. QED
    BY <1>1, <2>1, <2>2 DEF Follows, PieceOf
<1>5. CASE RelayChunk(q) \/ RelayError(q)
  BY <1>1, <1>5, FollowsSent
<1>6. ASSUME UNCHANGED <<fleet, poll>>, CloseStream(q) PROVE Follows(q)'
  BY <1>1, <1>6, FollowsClosed
<1>7. CASE OnMessage(q)
  <2>1. UNCHANGED <<fleet, poll>>
    BY <1>7 DEF OnMessage
  <2>2. CASE CloseStream(q)
    BY <1>6, <2>1, <2>2
  <2>3. CASE ~CloseStream(q)
    BY <1>1, <1>7, <2>1, <2>3, FollowsTaken DEF OnMessage, fleet
  <2>4. QED
    BY <2>2, <2>3
<1>8. CASE OnErrorFrame(q) \/ TransportError(q)
  BY <1>6, <1>8 DEF OnErrorFrame, TransportError
<1>9. CASE PollAnswer(q) \/ PollAppend(q) \/ PollAgain(q) \/ PollError(q)
  BY <1>1, <1>9, PollFollows
<1>10. CASE Unmount
  <2>1. CASE ref = q
    BY <1>6, <1>10, <2>1, PushAssumption DEF Unmount
  <2>2. CASE ref # q
    BY <1>2, <1>10, <2>2 DEF Unmount, CloseStream, TypeOK, Aside
  <2>3. QED
    BY <2>1, <2>2
<1>11. ASSUME NEW p \in Pushes, PushAnswered(p) PROVE Follows(q)'
  <2>1. UNCHANGED <<job, wire, relay>>
    BY <1>11 DEF PushAnswered, TailJobLog, transport
  <2>2. poll'[q].at = poll[q].at /\ poll'[q].chunk = poll[q].chunk
        /\ (poll'[q].pc = "answer" => poll[q].pc = "answer")
    <3>1. poll' = poll \/ poll' = [poll EXCEPT ![p].pc = "ask"]
      BY <1>11 DEF PushAnswered, TailJobLog, transport
    <3>2. poll \in [Pushes -> Polls]
      BY DEF TypeOK
    <3>3. poll'[q] = poll[q] \/ poll'[q] = [poll[q] EXCEPT !.pc = "ask"]
      BY <3>1, <3>2
    <3>4. poll[q] \in Polls
      BY <3>2
    <3>5. QED
      BY <3>3, <3>4 DEF Polls
  <2>3. QED
    BY <1>1, <2>1, <2>2 DEF Follows, PieceOf, NextFrom
<1>12. FleetStatus \/ UNCHANGED vars => Aside(q)
  BY DEF FleetStatus, vars, transport, Aside
<1>13. ASSUME NEW p \in Pushes, HandlePush(p) \/ PushLost(p) \/ PushElsewhere(p) \/ Fleet(p)
       PROVE  Aside(q)
  BY <1>13 DEF HandlePush, PushLost, PushElsewhere, Fleet, transport, Aside
<1>14. ASSUME NEW p \in Pushes, TailStep(p) \/ RelayError(p) \/ TransportError(p) \/ PollError(p)
       PROVE  Follows(q)'
  <2>1. CASE p # q
    BY <1>2, <1>3, <1>14, <2>1
  <2>2. CASE p = q
    BY <1>4, <1>5, <1>7, <1>8, <1>9, <1>14, <2>2 DEF TailStep
  <2>3. QED
    BY <2>1, <2>2
<1>15. QED
  BY <1>2, <1>10, <1>11, <1>12, <1>13, <1>14 DEF Next

-----------------------------------------------------------------------------
(* The log.                                                                *)

LEMMA InLinesOf ==
    ASSUME NEW q, NEW n
    PROVE  n \in LinesOf(q) <=> \E i \in 1 .. Len(log) : log[i][1] = q /\ log[i][2] = n
  BY Zenon DEF LinesOf

\* The log when a piece of a run's log has been appended.
LEMMA LogMore ==
    ASSUME TypeOK, NEW p \in Pushes, NEW c \in Frames, c.from <= c.to, log' = log \o Lines(p, c)
    PROVE  /\ Len(log) \in Nat /\ Len(log') = Len(log) + (c.to - c.from)
           /\ \A i \in 1 .. Len(log) : log'[i] = log[i]
           /\ \A i \in 1 .. c.to - c.from :
                 log'[Len(log) + i][1] = p /\ log'[Len(log) + i][2] = c.from + i
<1> DEFINE t == Lines(p, c)
<1>1. t \in Seq(Pushes \X (1 .. MaxLines)) /\ log \in Seq(Pushes \X (1 .. MaxLines))
  BY LinesType DEF TypeOK
<1>2. Len(t) = c.to - c.from /\ \A i \in 1 .. c.to - c.from : t[i] = <<p, c.from + i>>
  BY LinesType
<1> HIDE DEF t
<1>3. /\ Len(log \o t) = Len(log) + Len(t) /\ Len(log) \in Nat
      /\ \A i \in 1 .. Len(log) : (log \o t)[i] = log[i]
      /\ \A i \in 1 .. Len(t) : (log \o t)[Len(log) + i] = t[i]
  BY <1>1, MoreOf
<1>4. log' = log \o t
  BY DEF t
<1>5. \A i \in 1 .. c.to - c.from : log'[Len(log) + i] = <<p, c.from + i>>
  BY <1>2, <1>3, <1>4
<1>6. QED
  BY <1>2, <1>3, <1>4, <1>5

LEMMA LinesMore ==
    ASSUME TypeOK, NEW p \in Pushes, NEW c \in Frames, c.from <= c.to, log' = log \o Lines(p, c)
    PROVE  /\ LinesOf(p)' = LinesOf(p) \cup (c.from + 1 .. c.to)
           /\ \A q \in Pushes \ {p} : LinesOf(q)' = LinesOf(q)
<1> DEFINE m == Len(log)
           k == c.to - c.from
<1>1. /\ m \in Nat /\ k \in Nat /\ Len(log') = m + k /\ c.from \in Nat /\ c.to \in Nat
      /\ \A i \in 1 .. m : log'[i] = log[i]
      /\ \A i \in 1 .. k : log'[m + i][1] = p /\ log'[m + i][2] = c.from + i
  <2>1. c.from \in Nat /\ c.to \in Nat /\ k \in Nat
    BY PushAssumption DEF Frames
  <2>2. QED
    BY <2>1, LogMore
<1>2. ASSUME NEW q, NEW n, n \in LinesOf(q)
      PROVE  n \in LinesOf(q)'
  <2>1. PICK i \in 1 .. m : log[i][1] = q /\ log[i][2] = n
    BY <1>2, InLinesOf
  <2>2. i \in 1 .. Len(log') /\ log'[i] = log[i]
    BY <1>1
  <2>3. QED
    BY <2>1, <2>2 DEF LinesOf
<1>3. ASSUME NEW n \in c.from + 1 .. c.to
      PROVE  n \in LinesOf(p)'
  <2> DEFINE i == n - c.from
  <2>1. m \in Nat /\ k \in Nat /\ c.from \in Nat /\ c.to \in Nat /\ n \in Nat /\ Len(log') = m + k
    BY <1>1
  <2>2. i \in 1 .. k /\ c.from + i = n
    BY <2>1
  <2> HIDE DEF m, k, i
  <2>3. m + i \in 1 .. Len(log')
    BY <2>1, <2>2
  <2>4. log'[m + i][1] = p /\ log'[m + i][2] = n
    BY <1>1, <2>2
  <2>5. QED
    BY <2>3, <2>4 DEF LinesOf
<1>4. ASSUME NEW q, NEW n, n \in LinesOf(q)'
      PROVE  n \in LinesOf(q) \/ (q = p /\ n \in c.from + 1 .. c.to)
  <2>1. PICK i \in 1 .. Len(log') : log'[i][1] = q /\ log'[i][2] = n
    BY <1>4 DEF LinesOf
  <2>2. CASE i \in 1 .. m
    <3>1. log[i][1] = q /\ log[i][2] = n
      BY <1>1, <2>1, <2>2
    <3>2. QED
      BY <2>2, <3>1, InLinesOf
  <2>3. CASE i \notin 1 .. m
    <3> DEFINE j == i - m
    <3>1. j \in 1 .. k /\ i = m + j
      BY <1>1, <2>3
    <3>2. q = p /\ n = c.from + j
      BY <1>1, <2>1, <3>1
    <3>3. QED
      BY <1>1, <3>1, <3>2
  <2>4. QED
    BY <2>2, <2>3
<1>5. QED
  BY <1>2, <1>3, <1>4

\* The order is kept if the piece begins where the log of the run ends.
LEMMA AscendingMore ==
    ASSUME TypeOK, NEW p \in Pushes, NEW c \in Frames, c.from <= c.to, log' = log \o Lines(p, c),
           Ascending, \A n \in LinesOf(p) : n <= c.from
    PROVE  Ascending'
<1> DEFINE m == Len(log)
           k == c.to - c.from
<1>1. /\ m \in Nat /\ k \in Nat /\ Len(log') = m + k /\ c.from \in Nat
      /\ \A i \in 1 .. m : log'[i] = log[i]
      /\ \A i \in 1 .. k : log'[m + i][1] = p /\ log'[m + i][2] = c.from + i
  <2>1. c.from \in Nat /\ k \in Nat
    BY PushAssumption DEF Frames
  <2>2. QED
    BY <2>1, LogMore
<1>2. \A i \in 1 .. m : log[i][2] \in Nat
  <2>1. \A i \in 1 .. m : log[i] \in Pushes \X (1 .. MaxLines)
    BY ElementOfSeq DEF TypeOK
  <2>2. QED
    BY <2>1, PushAssumption
<1> SUFFICES ASSUME NEW i \in 1 .. Len(log'), NEW j \in 1 .. Len(log'),
                    i < j, log'[i][1] = log'[j][1]
             PROVE  log'[i][2] < log'[j][2]
  BY DEF Ascending
<1>3. CASE j \in 1 .. m
  <2>1. i \in 1 .. m
    BY <1>1, <1>3
  <2>2. log'[i] = log[i] /\ log'[j] = log[j]
    BY <1>1, <1>3, <2>1
  <2>3. QED
    BY <1>3, <2>1, <2>2 DEF Ascending
<1>4. CASE j \notin 1 .. m /\ i \in 1 .. m
  <2>1. j - m \in 1 .. k /\ m + (j - m) = j
    BY <1>1, <1>4
  <2>2. log'[j][1] = p /\ log'[j][2] = c.from + (j - m)
    BY <1>1, <2>1
  <2>3. log'[i] = log[i] /\ log[i][1] = p
    BY <1>1, <1>4, <2>2
  <2>4. log[i][2] \in LinesOf(p)
    BY <1>4, <2>3, InLinesOf
  <2>5. QED
    BY <1>1, <1>2, <1>4, <2>1, <2>2, <2>3, <2>4
<1>5. CASE i \notin 1 .. m
  <2>1. /\ j - m \in 1 .. k /\ m + (j - m) = j
        /\ i - m \in 1 .. k /\ m + (i - m) = i
    <3>1. \A a, b \in Nat : \A x, y \in 1 .. a + b : x \notin 1 .. a /\ x < y =>
             /\ y - a \in 1 .. b /\ a + (y - a) = y
             /\ x - a \in 1 .. b /\ a + (x - a) = x
      OBVIOUS
    <3>2. m \in Nat /\ k \in Nat /\ Len(log') = m + k
      BY <1>1, Zenon
    <3> HIDE DEF m, k
    <3>3. i \in 1 .. m + k /\ j \in 1 .. m + k /\ i < j /\ i \notin 1 .. m
      BY <1>5, <3>2
    <3>4. QED
      BY <3>1, <3>2, <3>3
  <2>2. log'[j][2] = c.from + (j - m) /\ log'[i][2] = c.from + (i - m)
    BY <1>1, <2>1
  <2>3. QED
    BY <1>1, <2>1, <2>2
<1>6. QED
  BY <1>3, <1>4, <1>5

LEMMA LiveIsTailed ==
    ASSUME TailsAreKnown, NEW p \in Pushes, Live(p)
    PROVE  p \in tails
  BY DEF TailsAreKnown, Known, Live

\* What the dialog shows of a run stays right while the log is left as it is.
LEMMA ShownKept ==
    ASSUME NEW q \in Pushes, Shown(q), log' = log, Live(q)' => Live(q) /\ Got(q)' = Got(q),
           dialog'.run = q \/ tails' = {q} => dialog.run = q \/ tails = {q}
    PROVE  Shown(q)'
<1>1. PICK lo, hi \in 0 .. MaxLines : ShownUpTo(q, lo, hi)
  BY DEF Shown
<1>2. LinesOf(q)' = LinesOf(q)
  BY DEF LinesOf
<1>3. ShownUpTo(q, lo, hi)'
  BY <1>1, <1>2 DEF ShownUpTo
<1>4. QED
  BY <1>3 DEF Shown

LEMMA WholeKept ==
    ASSUME TypeOK, TailsAreKnown, [Next]_vars, NEW q \in Pushes, Whole(q), log' = log, tails' = tails,
           Live(q)' => Live(q), dialog'.finished => dialog.finished
    PROVE  Whole(q)'
<1> SUFFICES ASSUME dialog'.finished, tails = {q}
             PROVE  ~Live(q)' /\ job'[q].state = "finished" /\ LinesOf(q)' = 1 .. job'[q].lines
  BY DEF Whole
<1>1. ~Live(q) /\ job[q].state = "finished" /\ LinesOf(q) = 1 .. job[q].lines
  BY DEF Whole
<1>2. call[q].pc = "answered" /\ FleetTypeOK
  BY DEF TailsAreKnown, TypeOK
<1>3. job'[q] = job[q]
  BY <1>1, <1>2, FleetGrows DEF Grows
<1>4. LinesOf(q)' = LinesOf(q)
  BY DEF LinesOf
<1>5. QED
  BY <1>1, <1>3, <1>4

\* A piece of the log of p has been appended, where the log of p ended.
LEMMA Appended ==
    ASSUME TypeOK, TailsAreKnown, LogInOrder, [Next]_vars, NEW p \in Pushes, NEW c \in Frames,
           Live(p), c.from = Got(p), c.kind = "data", PieceOf(p, c), log' = log \o Lines(p, c),
           UNCHANGED <<hasES, tails, job>>, dialog'.run = dialog.run,
           \A q \in Pushes \ {p} : Aside(q), Live(p)' => Got(p)' = c.to,
           dialog'.finished => dialog.finished \/ (c.finished /\ ~Live(p)')
    PROVE  LogInOrder'
<1>1. /\ c.from <= c.to /\ c.to <= job[p].lines
      /\ c.finished => job[p].state = "finished" /\ c.to = job[p].lines
  BY DEF PieceOf
<1>2. /\ c.from \in 0 .. MaxLines /\ c.to \in 0 .. MaxLines /\ MaxLines \in Nat
      /\ job[p].lines \in Nat
  BY PushAssumption DEF Frames, TypeOK, FleetTypeOK
<1>3. PICK lo, hi \in 0 .. MaxLines : ShownUpTo(p, lo, hi)
  BY DEF LogInOrder, Shown
<1>4. LinesOf(p) = lo + 1 .. hi /\ hi = c.from /\ (dialog.run = p \/ tails = {p} => lo = 0)
  BY <1>3 DEF ShownUpTo
<1>5. LinesOf(p)' = LinesOf(p) \cup (c.from + 1 .. c.to) /\ \A q \in Pushes \ {p} : LinesOf(q)' = LinesOf(q)
  BY <1>1, LinesMore
<1>6. Ascending'
  <2>1. \A n \in LinesOf(p) : n <= c.from
    BY <1>2, <1>4
  <2>2. QED
    BY <1>1, <2>1, AscendingMore DEF LogInOrder
<1>7. Shown(p)'
  <2>1. CASE lo <= hi
    <3>1. LinesOf(p)' = lo + 1 .. c.to
      BY <1>1, <1>2, <1>4, <1>5, <2>1
    <3>2. ShownUpTo(p, lo, c.to)'
      BY <1>4, <3>1 DEF ShownUpTo
    <3>3. QED
      BY <1>2, <3>2 DEF Shown
  <2>2. CASE ~(lo <= hi)
    <3>1. LinesOf(p)' = hi + 1 .. c.to /\ lo # 0
      BY <1>1, <1>2, <1>4, <1>5, <2>2
    <3>2. ShownUpTo(p, hi, c.to)'
      BY <1>4, <3>1 DEF ShownUpTo
    <3>3. QED
      BY <1>2, <3>2 DEF Shown
  <2>3. QED
    BY <2>1, <2>2
<1>8. Whole(p)'
  <2> SUFFICES ASSUME dialog'.finished, tails = {p}
               PROVE  /\ ~Live(p)' /\ job[p].state = "finished" /\ LinesOf(p)' = 1 .. job[p].lines
    BY DEF Whole
  <2>1. c.finished /\ ~Live(p)'
    BY DEF LogInOrder, Whole
  <2>2. lo = 0 /\ hi = c.from /\ LinesOf(p)' = (lo + 1 .. hi) \cup (c.from + 1 .. c.to)
    BY <1>4, <1>5
  <2>3. LinesOf(p)' = 1 .. c.to
    BY <1>1, <1>2, <2>2
  <2>4. QED
    BY <1>1, <2>1, <2>3
<1>9. ASSUME NEW q \in Pushes, q # p PROVE Shown(q)' /\ Whole(q)'
  <2>1. Live(q)' = Live(q) /\ Got(q)' = Got(q) /\ LinesOf(q)' = LinesOf(q)
    BY <1>5, <1>9 DEF Live, Got, NextFrom, Aside
  <2>2. Shown(q)'
    <3>1. PICK l, h \in 0 .. MaxLines : ShownUpTo(q, l, h)
      BY <1>9 DEF LogInOrder, Shown
    <3>2. ShownUpTo(q, l, h)'
      BY <2>1, <3>1 DEF ShownUpTo
    <3>3. QED
      BY <3>2 DEF Shown
  <2>3. tails # {q}
    BY <1>9, LiveIsTailed
  <2>4. Whole(q)'
    BY <2>3 DEF Whole
  <2>5. QED
    BY <2>2, <2>4
<1>10. QED
  BY <1>6, <1>7, <1>8, <1>9 DEF LogInOrder

\* The log is left as it is.
LEMMA LogKept ==
    ASSUME TypeOK, TailsAreKnown, LogInOrder, [Next]_vars, UNCHANGED <<log, tails>>,
           \A q \in Pushes : Live(q)' => Live(q) /\ Got(q)' = Got(q),
           \A q \in Pushes : dialog'.run = q => dialog.run = q,
           dialog'.finished => dialog.finished
    PROVE  LogInOrder'
<1>1. Ascending'
  BY DEF LogInOrder, Ascending
<1>2. ASSUME NEW q \in Pushes PROVE Shown(q)' /\ Whole(q)'
  BY ShownKept, WholeKept DEF LogInOrder
<1>3. QED
  BY <1>1, <1>2 DEF LogInOrder

\* A new tail begins with an empty screen.
LEMMA TailJobLogShown ==
    ASSUME TypeOK, TailsAreKnown, FramesFollow, LogInOrder, NEW p \in Pushes, p \notin tails,
           hasES' = hasES, TailJobLog(p)
    PROVE  LogInOrder'
<1>1. log' = <<>> /\ Len(<<>>) = 0
  BY EmptySeq DEF TailJobLog
<1>2. Ascending' /\ \A q : LinesOf(q)' = {}
  BY <1>1 DEF Ascending, LinesOf
<1>3. dialog'.run = p /\ ~dialog'.finished /\ tails' = tails \cup {p}
  BY DEF TailJobLog, TypeOK, Dialogs
<1>4. \A q \in Pushes : Whole(q)'
  BY <1>3 DEF Whole
<1>5. \A n \in 0 .. MaxLines : n + 1 .. n = {}
  BY PushAssumption
<1>6. ASSUME NEW q \in Pushes PROVE Shown(q)'
  <2>1. Known(q)
    BY DEF TailsAreKnown
  <2>2. CASE q = p
    <3>1. wire'[p] = <<>> /\ relay'[p].at = 0 /\ poll'[p].at = 0
      BY <2>1, <2>2 DEF Known, TailJobLog, TypeOK, Polls
    <3>2. Got(p)' = 0
      BY <1>1, <3>1 DEF Got, NextFrom
    <3>3. 0 \in 0 .. MaxLines
      BY PushAssumption
    <3>4. ShownUpTo(p, 0, 0)'
      BY <1>2, <1>5, <3>2, <3>3 DEF ShownUpTo
    <3>5. QED
      BY <2>2, <3>3, <3>4 DEF Shown
  <2>3. CASE q # p
    <3>1. Aside(q)
      BY <2>3 DEF TailJobLog, TypeOK, Aside
    <3>2. Live(q)' = Live(q) /\ Got(q)' = Got(q)
      BY <3>1 DEF Live, Got, NextFrom, Aside
    <3>3. PICK lo, hi \in 0 .. MaxLines : ShownUpTo(q, lo, hi)
      BY DEF LogInOrder, Shown
    <3>4. dialog'.run # q /\ tails' # {q}
      BY <1>3, <2>3
    <3>5. ShownUpTo(q, hi, hi)'
      BY <1>2, <1>5, <3>2, <3>3, <3>4 DEF ShownUpTo
    <3>6. QED
      BY <3>5 DEF Shown
  <2>4. QED
    BY <2>2, <2>3
<1>7. QED
  BY <1>2, <1>4, <1>6 DEF LogInOrder

\* The transport of all runs but p is left as it is.
LEMMA OthersLive ==
    ASSUME NEW p \in Pushes, \A q \in Pushes \ {p} : Aside(q), hasES' = hasES,
           Live(p)' => Live(p) /\ Got(p)' = Got(p)
    PROVE  \A q \in Pushes : Live(q)' => Live(q) /\ Got(q)' = Got(q)
  BY DEF Live, Got, NextFrom, Aside

\* What onmessage takes begins where the tail of p stands; the tail moves on to
\* its end, or is over with the run.
LEMMA MessageFits ==
    ASSUME TypeOK, TailsAreKnown, FramesFollow, NEW p \in Pushes, OnMessage(p)
    PROVE  LET c == wire[p][1] IN
           /\ c \in Frames /\ c.kind = "data" /\ PieceOf(p, c) /\ c.from = Got(p)
           /\ log' = log \o Lines(p, c) /\ UNCHANGED <<fleet, hasES, tails>>
           /\ Live(p) /\ \A q \in Pushes \ {p} : Aside(q)
           /\ c.finished => ~Live(p)' /\ dialog' = [dialog EXCEPT !.finished = TRUE]
           /\ ~c.finished => Live(p)' /\ dialog' = dialog /\ Got(p)' = c.to
<1> DEFINE w == wire[p]
           n == Len(w)
           c == w[1]
<1>1. Known(p) /\ Follows(p)
  BY DEF TailsAreKnown, FramesFollow
<1>2. w \in Seq(Frames) /\ w # <<>>
  BY DEF OnMessage, TypeOK
<1>3. /\ n \in Nat \ {0} /\ Head(w) = c /\ c \in Frames /\ Len(SubSeq(w, 2, n)) = n - 1
      /\ \A i \in 1 .. n - 1 : SubSeq(w, 2, n)[i] = w[i + 1]
  BY <1>2, RestOf
<1>4. /\ es[p] = "open" /\ c.kind = "data" /\ log' = log \o Lines(p, c)
      /\ UNCHANGED <<fleet, hasES, poll, tails>>
  BY <1>3 DEF OnMessage, seen
<1>5. Live(p) /\ hasES /\ poll[p].pc = "off"
  BY <1>1, <1>4 DEF Live, Known
<1>6. 1 \in 1 .. n /\ 0 < n
  BY <1>3
<1>7. PieceOf(p, c) /\ c.to = NextFrom(p, 1)
  BY <1>1, <1>4, <1>6 DEF Follows
<1>8. c.from = Got(p)
  BY <1>4, <1>5, <1>6 DEF Got, NextFrom
<1>9. CASE c.finished
  <2>1. CloseStream(p) /\ dialog' = [dialog EXCEPT !.finished = TRUE]
    BY <1>3, <1>9 DEF OnMessage
  <2>2. es'[p] = "closed" /\ \A q \in Pushes \ {p} : Aside(q)
    BY <1>4, <2>1 DEF CloseStream, TypeOK, Aside
  <2>3. ~Live(p)'
    BY <1>4, <1>5, <2>2 DEF Live
  <2> HIDE DEF w, n, c
  <2>4. QED
    BY <1>3, <1>4, <1>5, <1>7, <1>8, <1>9, <2>1, <2>2, <2>3 DEF c, w
<1>10. CASE ~c.finished
  <2>1. wire' = [wire EXCEPT ![p] = SubSeq(@, 2, Len(@))] /\ UNCHANGED <<es, relay, dialog>>
    BY <1>3, <1>10 DEF OnMessage
  <2>2. wire'[p] = SubSeq(w, 2, n) /\ \A q \in Pushes \ {p} : Aside(q)
    BY <1>4, <2>1 DEF TypeOK, Aside
  <2>3. Got(p)' = c.to
    <3>1. 0 < n - 1 => 1 \in 1 .. n - 1 /\ wire'[p][1] = w[2]
      BY <1>3, <2>2
    <3>2. Got(p)' = IF 0 < n - 1 /\ w[2].kind = "data" THEN w[2].from ELSE relay[p].at
      BY <1>3, <1>4, <1>5, <2>1, <2>2, <3>1 DEF Got, NextFrom
    <3>3. NextFrom(p, 1) = IF 0 < n - 1 /\ w[2].kind = "data" THEN w[2].from ELSE relay[p].at
      BY <1>3 DEF NextFrom
    <3>4. QED
      BY <1>7, <3>2, <3>3
  <2>4. Live(p)'
    BY <1>4, <2>1 DEF Live
  <2> HIDE DEF w, n, c
  <2>5. QED
    BY <1>3, <1>4, <1>5, <1>7, <1>8, <1>10, <2>1, <2>2, <2>3, <2>4 DEF c, w
<1>11. QED
  BY <1>9, <1>10

LEMMA OnMessageShown ==
    ASSUME TypeOK, TailsAreKnown, FramesFollow, LogInOrder, [Next]_vars, NEW p \in Pushes, OnMessage(p)
    PROVE  LogInOrder'
<1> DEFINE c == wire[p][1]
<1>1. /\ c \in Frames /\ c.kind = "data" /\ PieceOf(p, c) /\ c.from = Got(p)
      /\ log' = log \o Lines(p, c) /\ UNCHANGED <<fleet, hasES, tails>>
      /\ Live(p) /\ \A q \in Pushes \ {p} : Aside(q)
      /\ c.finished => ~Live(p)' /\ dialog' = [dialog EXCEPT !.finished = TRUE]
      /\ ~c.finished => Live(p)' /\ dialog' = dialog /\ Got(p)' = c.to
  BY MessageFits
<1> HIDE DEF c
<1>2. /\ dialog'.run = dialog.run /\ (Live(p)' => Got(p)' = c.to)
      /\ dialog'.finished => dialog.finished \/ (c.finished /\ ~Live(p)')
  BY <1>1 DEF TypeOK, Dialogs
<1>3. QED
  BY <1>1, <1>2, Appended DEF fleet

\* A stream that goes on, and what it sends: the tail stands where it stood.
LEMMA StreamStays ==
    ASSUME TypeOK, TailsAreKnown, FramesFollow, NEW p \in Pushes,
           StreamOpen(p) \/ RelayChunk(p) \/ RelayError(p)
    PROVE  Live(p) /\ Live(p)' /\ Got(p)' = Got(p)
<1>1. Known(p) /\ Follows(p)
  BY DEF TailsAreKnown, FramesFollow
<1>2. UNCHANGED <<hasES, poll>>
  BY DEF StreamOpen, RelayChunk, RelayError
<1>3. Live(p)
  BY <1>1 DEF StreamOpen, RelayChunk, RelayError, Known, Live
<1>4. hasES /\ poll[p].pc = "off"
  BY <1>1 DEF StreamOpen, RelayChunk, RelayError, Known
<1>5. wire[p] \in Seq(Frames) /\ Len(wire[p]) \in Nat
  BY DEF TypeOK
<1>6. CASE StreamOpen(p)
  BY <1>3, <1>4, <1>6 DEF StreamOpen, TypeOK, Live, Got, NextFrom, Relays
<1>7. CASE RelayChunk(p) \/ RelayError(p)
  <2>1. es[p] = "open" /\ relay[p].pc = "poll"
    BY <1>1, <1>7 DEF RelayChunk, RelayError, Known
  <2>2. es' = es
    BY <1>7 DEF RelayChunk, RelayError
  <2>3. wire[p] # <<>> => 1 \in 1 .. Len(wire[p])
    BY <1>5, EmptySeq
  <2>4. wire[p] # <<>> => wire[p][1].kind = "data"
    BY <1>1, <2>1, <2>3 DEF Follows
  <2>5. PICK t \in Seq(Frames) :
           /\ wire'[p] = wire[p] \o t /\ Len(t) \in Nat \ {0}
           /\ IF t[1].kind = "data" THEN t[1].from = relay[p].at ELSE relay'[p].at = relay[p].at
    <3>1. DoneFrame \in Frames /\ ErrorFrame \in Frames /\ Chunk(relay[p].at, p) \in Frames
      BY FrameValues DEF TypeOK, Relays
    <3>2. CASE RelayError(p)
      <4>1. wire'[p] = wire[p] \o <<ErrorFrame>>
        BY <1>5, <3>1, <3>2, AppendIsConcat DEF RelayError, TypeOK
      <4>2. relay'[p].at = relay[p].at /\ ErrorFrame.kind = "error"
        BY <3>2 DEF RelayError, TypeOK, Relays, ErrorFrame
      <4> DEFINE t == <<ErrorFrame>>
      <4>3. t \in Seq(Frames) /\ Len(t) = 1 /\ t[1] = ErrorFrame
        BY <3>1
      <4> HIDE DEF t
      <4>4. wire'[p] = wire[p] \o t
        BY <4>1 DEF t
      <4>5. t[1].kind # "data" /\ Len(t) \in Nat \ {0}
        BY <4>2, <4>3
      <4>6. QED
        BY <4>2, <4>3, <4>4, <4>5
    <3>3. CASE RelayChunk(p)
      <4> DEFINE c == Chunk(relay[p].at, p)
      <4>1. wire'[p] = wire[p] \o (IF c.finished THEN <<c, DoneFrame>> ELSE <<c>>)
        BY <3>3 DEF RelayChunk, TypeOK
      <4>2. c.kind = "data" /\ c.from = relay[p].at
        BY DEF Chunk
      <4> HIDE DEF c
      <4>3. c \in Frames
        BY <3>1 DEF c
      <4>4. CASE c.finished
        <5> DEFINE t == <<c, DoneFrame>>
        <5>1. t \in Seq(Frames) /\ Len(t) = 2 /\ t[1] = c
          BY <3>1, <4>3
        <5> HIDE DEF t
        <5>2. wire'[p] = wire[p] \o t
          BY <4>1, <4>4 DEF t
        <5>3. Len(t) \in Nat \ {0} /\ t[1].kind = "data" /\ t[1].from = relay[p].at
          BY <4>2, <5>1
        <5>4. QED
          BY <5>1, <5>2, <5>3
      <4>5. CASE ~c.finished
        <5> DEFINE t == <<c>>
        <5>1. t \in Seq(Frames) /\ Len(t) = 1 /\ t[1] = c
          BY <3>1, <4>3
        <5> HIDE DEF t
        <5>2. wire'[p] = wire[p] \o t
          BY <4>1, <4>5 DEF t
        <5>3. Len(t) \in Nat \ {0} /\ t[1].kind = "data" /\ t[1].from = relay[p].at
          BY <4>2, <5>1
        <5>4. QED
          BY <5>1, <5>2, <5>3
      <4>6. QED
        BY <4>4, <4>5
    <3>4. QED
      BY <1>7, <3>2, <3>3
  <2>6. /\ Len(wire'[p]) = Len(wire[p]) + Len(t)
        /\ \A i \in 1 .. Len(wire[p]) : wire'[p][i] = wire[p][i]
        /\ \A i \in 1 .. Len(t) : wire'[p][Len(wire[p]) + i] = t[i]
    BY <1>5, <2>5, MoreOf
  <2>7. NextFrom(p, 0)' = NextFrom(p, 0)
    <3>1. CASE wire[p] = <<>>
      <4>1. Len(wire[p]) = 0 /\ wire'[p][1] = t[1] /\ 0 < Len(wire'[p])
        BY <2>5, <2>6, <3>1, EmptySeq
      <4>2. QED
        BY <2>5, <4>1 DEF NextFrom
    <3>2. CASE wire[p] # <<>>
      <4>1. wire'[p][1] = wire[p][1] /\ 0 < Len(wire[p]) /\ 0 < Len(wire'[p])
        BY <1>5, <2>3, <2>5, <2>6, <3>2
      <4>2. QED
        BY <2>4, <3>2, <4>1 DEF NextFrom
    <3>3. QED
      BY <3>1, <3>2
  <2>8. QED
    BY <1>2, <1>3, <1>4, <2>1, <2>2, <2>7 DEF Live, Got
<1>8. QED
  BY <1>6, <1>7

LEMMA StreamShown ==
    ASSUME TypeOK, TailsAreKnown, FramesFollow, LogInOrder, [Next]_vars, NEW p \in Pushes,
           \/ StreamOpen(p) \/ RelayChunk(p) \/ OnErrorFrame(p) \/ RelayError(p) \/ TransportError(p)
    PROVE  LogInOrder'
<1>1. Known(p) /\ Follows(p)
  BY DEF TailsAreKnown, FramesFollow
<1>2. /\ UNCHANGED <<log, tails, hasES, poll>> /\ dialog'.run = dialog.run
      /\ dialog'.finished = dialog.finished
  BY DEF StreamOpen, RelayChunk, OnErrorFrame, RelayError, TransportError, seen, TypeOK, Dialogs
<1>3. \A q \in Pushes \ {p} : Aside(q)
  BY DEF StreamOpen, RelayChunk, OnErrorFrame, RelayError, TransportError, CloseStream, TypeOK, Aside
<1>4. hasES /\ poll[p].pc = "off"
  BY <1>1 DEF StreamOpen, RelayChunk, OnErrorFrame, RelayError, TransportError, Known
<1>5. Live(p)' => Live(p) /\ Got(p)' = Got(p)
  <2>1. CASE StreamOpen(p) \/ RelayChunk(p) \/ RelayError(p)
    BY <2>1, StreamStays
  <2>2. CASE OnErrorFrame(p) \/ TransportError(p)
    <3>1. es'[p] = "closed"
      BY <2>2 DEF OnErrorFrame, TransportError, CloseStream, TypeOK
    <3>2. QED
      BY <1>2, <1>4, <3>1 DEF Live
  <2>3. QED
    BY <2>1, <2>2
<1>6. \A q \in Pushes : Live(q)' => Live(q) /\ Got(q)' = Got(q)
  BY <1>2, <1>3, <1>5, OthersLive
<1>7. QED
  BY <1>2, <1>6, LogKept

\* The same for a piece that a poll has brought.
LEMMA PieceFits ==
    ASSUME TypeOK, TailsAreKnown, FramesFollow, NEW p \in Pushes, PollAppend(p), ~abort
    PROVE  LET c == poll[p].chunk IN
           /\ c \in Frames /\ c.kind = "data" /\ PieceOf(p, c) /\ c.from = Got(p)
           /\ log' = log \o Lines(p, c) /\ UNCHANGED <<fleet, hasES, tails>>
           /\ Live(p) /\ \A q \in Pushes \ {p} : Aside(q)
           /\ dialog' = [dialog EXCEPT !.finished = @ \/ c.finished] /\ Got(p)' = c.to
           /\ Live(p)' <=> ~c.finished
<1> DEFINE c == poll[p].chunk
<1>1. Known(p) /\ Follows(p) /\ c \in Frames
  BY DEF TailsAreKnown, FramesFollow, TypeOK, Polls
<1>2. UNCHANGED <<fleet, tails, hasES, es, wire, relay>> /\ \A q \in Pushes \ {p} : Aside(q)
  BY DEF PollAppend, PollGoto, TypeOK, Aside, seen
<1>3. poll[p].pc = "answer" /\ Live(p) /\ ~hasES
  BY <1>1 DEF PollAppend, Live, Known
<1>4. log' = log \o Lines(p, c) /\ dialog' = [dialog EXCEPT !.finished = @ \/ c.finished]
  BY DEF PollAppend
<1>5. poll'[p].at = c.to /\ poll'[p].pc = (IF c.finished THEN "ended" ELSE "sleep")
  BY DEF PollAppend, TypeOK, Polls
<1>6. c.kind = "data" /\ PieceOf(p, c) /\ c.from = Got(p) /\ Got(p)' = c.to
  BY <1>1, <1>2, <1>3, <1>5 DEF Follows, Got
<1>7. Live(p)' <=> ~c.finished
  BY <1>1, <1>2, <1>3, <1>5 DEF Known, Live
<1> HIDE DEF c
<1>8. QED
  BY <1>1, <1>2, <1>3, <1>4, <1>6, <1>7 DEF c

LEMMA PollShown ==
    ASSUME TypeOK, TailsAreKnown, FramesFollow, LogInOrder, [Next]_vars, NEW p \in Pushes,
           PollAnswer(p) \/ PollAppend(p) \/ PollAgain(p) \/ PollError(p)
    PROVE  LogInOrder'
<1>1. Known(p) /\ Follows(p) /\ poll[p].chunk \in Frames
  BY DEF TailsAreKnown, FramesFollow, TypeOK, Polls
<1>2. UNCHANGED <<fleet, tails, hasES, es, wire, relay>> /\ dialog'.run = dialog.run
  BY DEF PollAnswer, PollAppend, PollAgain, PollError, seen, TypeOK, Dialogs
<1>3. \A q \in Pushes \ {p} : Aside(q)
  <2>1. \A q \in Pushes \ {p} : poll'[q] = poll[q]
    BY DEF PollAnswer, PollAppend, PollAgain, PollError, PollGoto, TypeOK
  <2>2. QED
    BY <1>2, <2>1 DEF Aside
<1>4. poll[p].pc \in {"ask", "answer", "sleep"} /\ Live(p) /\ ~hasES
  BY <1>1 DEF PollAnswer, PollAppend, PollAgain, PollError, Live, Known
<1>5. ASSUME UNCHANGED log, poll'[p].at = poll[p].at, dialog'.finished = dialog.finished
      PROVE  LogInOrder'
  <2>1. Live(p)' => Live(p) /\ Got(p)' = Got(p)
    BY <1>2, <1>4, <1>5 DEF Got
  <2>2. \A q \in Pushes : Live(q)' => Live(q) /\ Got(q)' = Got(q)
    BY <1>2, <1>3, <2>1, OthersLive
  <2>3. QED
    BY <1>2, <1>5, <2>2, LogKept
<1>6. ASSUME NEW pc, PollGoto(p, pc) PROVE poll'[p].at = poll[p].at /\ poll'[p].pc = pc
  BY <1>6 DEF PollGoto, TypeOK, Polls
<1>7. CASE PollAnswer(p)
  <2>1. poll'[p].at = poll[p].at /\ UNCHANGED <<log, dialog>>
    BY <1>7 DEF PollAnswer, TypeOK, Polls
  <2>2. QED
    BY <1>5, <2>1
<1>8. CASE PollAppend(p)
  <2>1. CASE abort
    BY <1>5, <1>6, <1>8, <2>1 DEF PollAppend
  <2>2. CASE ~abort
    <3> DEFINE c == poll[p].chunk
    <3>1. /\ c \in Frames /\ c.kind = "data" /\ PieceOf(p, c) /\ c.from = Got(p)
          /\ log' = log \o Lines(p, c) /\ Got(p)' = c.to /\ (Live(p)' <=> ~c.finished)
          /\ dialog' = [dialog EXCEPT !.finished = @ \/ c.finished]
      BY <1>8, <2>2, PieceFits
    <3> HIDE DEF c
    <3>2. dialog'.finished => dialog.finished \/ (c.finished /\ ~Live(p)')
      BY <3>1 DEF TypeOK, Dialogs
    <3>3. QED
      BY <1>2, <1>3, <1>4, <3>1, <3>2, Appended DEF fleet
  <2>3. QED
    BY <2>1, <2>2
<1>9. CASE PollAgain(p)
  BY <1>5, <1>6, <1>9 DEF PollAgain
<1>10. CASE PollError(p)
  <2>1. dialog'.finished = dialog.finished /\ UNCHANGED log
    BY <1>10 DEF PollError, TypeOK, Dialogs
  <2>2. QED
    BY <1>5, <1>6, <1>10, <2>1 DEF PollError
<1>11. QED
  BY <1>7, <1>8, <1>9, <1>10

LEMMA LogStep ==
    ASSUME TypeOK, TailsAreKnown, FramesFollow, LogInOrder, [Next]_vars
    PROVE  LogInOrder'
<1>1. ASSUME UNCHANGED <<hasES, log, transport, seen>>, dialog'.run \in {dialog.run, None},
             dialog'.finished = dialog.finished
      PROVE  LogInOrder'
  <2>1. \A q \in Pushes : Live(q)' => Live(q) /\ Got(q)' = Got(q)
    BY <1>1 DEF transport, Live, Got, NextFrom
  <2>2. \A q \in Pushes : dialog'.run = q => dialog.run = q
    BY <1>1, PushAssumption
  <2>3. QED
    BY <1>1, <2>1, <2>2, LogKept DEF seen
<1>2. CASE FleetStatus
  BY <1>1, <1>2 DEF FleetStatus, TypeOK, Dialogs
<1>3. CASE Unmount
  <2>1. UNCHANGED <<log, tails, hasES, poll>> /\ dialog'.run = dialog.run
        /\ dialog'.finished = dialog.finished
    BY <1>3 DEF Unmount, seen, TypeOK, Dialogs
  <2>2. ASSUME NEW q \in Pushes PROVE Live(q)' => Live(q) /\ Got(q)' = Got(q)
    <3>1. CASE q = ref
      <4>1. es'[q] = "closed" /\ Known(q)
        BY <1>3, <3>1, PushAssumption DEF Unmount, CloseStream, TypeOK, TailsAreKnown
      <4>2. poll'[q].pc = "off"
        BY <2>1, <3>1, <4>1 DEF Known
      <4>3. QED
        BY <4>1, <4>2 DEF Live
    <3>2. CASE q # ref
      <4>1. Aside(q)
        BY <1>3, <2>1, <3>2 DEF Unmount, CloseStream, TypeOK, Aside
      <4>2. QED
        BY <2>1, <4>1 DEF Live, Got, NextFrom, Aside
    <3>3. QED
      BY <3>1, <3>2
  <2>3. QED
    BY <2>1, <2>2, LogKept
<1>4. ASSUME NEW p \in Pushes, HandlePush(p) \/ PushLost(p) \/ PushElsewhere(p) \/ Fleet(p)
      PROVE  LogInOrder'
  BY <1>1, <1>4 DEF HandlePush, PushLost, PushElsewhere, Fleet, TypeOK, Dialogs
<1>5. ASSUME NEW p \in Pushes, PushAnswered(p) PROVE LogInOrder'
  <2>1. CASE TailJobLog(p)
    BY <1>5, <2>1, AnswerTail, TailJobLogShown
  <2>2. CASE UNCHANGED <<log, transport, seen>> /\ dialog' = [dialog EXCEPT !.pushing = None]
    BY <1>1, <1>5, <2>2, AnswerTail DEF TypeOK, Dialogs
  <2>3. QED
    BY <1>5, <2>1, <2>2, AnswerTail
<1>6. ASSUME NEW p \in Pushes, TailStep(p) \/ RelayError(p) \/ TransportError(p) \/ PollError(p)
      PROVE  LogInOrder'
  BY <1>6, OnMessageShown, StreamShown, PollShown DEF TailStep
<1>7. CASE UNCHANGED vars
  BY <1>1, <1>7 DEF vars
<1>8. QED
  BY <1>2, <1>3, <1>4, <1>5, <1>6, <1>7 DEF Next

-----------------------------------------------------------------------------
LEMMA InitTail == ASSUME Init PROVE TailInv
<1>1. FleetTypeOK
  BY InitFleetInv DEF FleetInv
<1>2. ErrorFrame \in Frames /\ Len(<<>>) = 0 /\ 0 \in 0 .. MaxLines /\ 0 <= MaxFrames + 1
  BY <1>1, FrameValues, EmptySeq, PushAssumption, FrameAssumption
<1>3. TypeOK
  <2>1. dialog \in Dialogs /\ log \in Seq(Pushes \X (1 .. MaxLines))
    BY EmptySeq DEF Init, Dialogs
  <2>2. wire \in [Pushes -> Seq(Frames)] /\ \A p \in Pushes : Len(wire[p]) <= MaxFrames + 1
    BY <1>2, EmptySeq DEF Init
  <2>3. relay \in [Pushes -> Relays] /\ poll \in [Pushes -> Polls]
    BY <1>2 DEF Init, Relays, Polls
  <2>4. QED
    BY <1>1, <2>1, <2>2, <2>3 DEF Init, TypeOK
<1>4. TailsAreKnown
  <2>1. IsFiniteSet(tails)
    BY FS_EmptySet DEF Init
  <2>2. QED
    BY <2>1, PushAssumption DEF Init, TailsAreKnown, Known
<1>5. FramesFollow
  <2> SUFFICES ASSUME NEW p \in Pushes PROVE Follows(p)
    BY DEF FramesFollow
  <2>1. Len(wire[p]) = 0 /\ relay[p].at = 0 /\ poll[p].at = 0 /\ poll[p].pc = "off"
    BY <1>2 DEF Init
  <2>2. job[p].lines \in Nat
    BY <1>1 DEF FleetTypeOK
  <2>3. QED
    BY <2>1, <2>2 DEF Follows
<1>6. LogInOrder
  <2>1. Len(log) = 0 /\ ~dialog.finished /\ \A p \in Pushes : ~Live(p)
    BY <1>2 DEF Init, Live
  <2>2. Ascending /\ \A p : LinesOf(p) = 0 + 1 .. 0
    BY <2>1 DEF Ascending, LinesOf
  <2>3. ASSUME NEW p \in Pushes PROVE Shown(p) /\ Whole(p)
    <3>1. ShownUpTo(p, 0, 0)
      BY <2>1, <2>2 DEF ShownUpTo
    <3>2. QED
      BY <1>2, <2>1, <3>1 DEF Shown, Whole
  <2>4. QED
    BY <2>2, <2>3 DEF LogInOrder
<1>7. QED
  BY <1>3, <1>4, <1>5, <1>6 DEF TailInv

\* What ties the tails, the frames under way and the log together holds in
\* every state of the dialog.
THEOREM TailInvHolds == Spec => []TailInv
<1>1. Init => TailInv
  BY InitTail
<1>2. TailInv /\ FleetTypeOK' /\ [Next]_vars => TailInv'
  BY TailTypeStep, TailsStep, FramesStep, LogStep DEF TailInv
<1>3. Spec => []FleetTypeOK
  <2>1. FleetInv => FleetTypeOK
    BY DEF FleetInv
  <2>2. QED
    BY <2>1, FleetInvHolds, PTL
<1>4. QED
  BY <1>1, <1>2, <1>3, PTL DEF Spec

\* The variables of the dialog keep the types the code gives them.
THEOREM TailTypeCorrect == Spec => []TypeOK
<1>1. TailInv => TypeOK
  BY DEF TailInv
<1>2. QED
  BY <1>1, TailInvHolds, PTL

\* Every log is shown in order, without a gap and without a repeat, and that of
\* the last run from its first line, however many tails append to the screen.
THEOREM LogsAreGapless == Spec => []NoGapsNoRepeats
<1>1. TailInv => NoGapsNoRepeats
  <2> SUFFICES ASSUME TailInv PROVE NoGapsNoRepeats
    OBVIOUS
  <2>1. /\ dialog.run \in Pushes \cup {None} /\ MaxLines \in Nat
        /\ \A i \in 1 .. Len(log) : log[i] \in Pushes \X (1 .. MaxLines)
    BY PushAssumption, ElementOfSeq DEF TailInv, TypeOK, Dialogs
  <2>2. ASSUME NEW i \in 1 .. Len(log), NEW j \in 1 .. Len(log), i < j, log[i][1] = log[j][1]
        PROVE  /\ log[i][2] < log[j][2]
               /\ \A n \in log[i][2] .. log[j][2] : n \in LinesOf(log[i][1])
    <3> DEFINE p == log[i][1]
    <3>1. p \in Pushes /\ log[i][2] \in Nat /\ log[j][2] \in Nat
      BY <2>1
    <3>2. PICK lo, hi \in 0 .. MaxLines : ShownUpTo(p, lo, hi)
      BY <3>1 DEF TailInv, LogInOrder, Shown
    <3>3. LinesOf(p) = lo + 1 .. hi /\ lo \in Nat /\ hi \in Nat
      BY <2>1, <3>2 DEF ShownUpTo
    <3>4. log[i][2] \in LinesOf(p) /\ log[j][2] \in LinesOf(p)
      BY <2>2, InLinesOf
    <3>5. log[i][2] < log[j][2]
      BY <2>2 DEF TailInv, LogInOrder, Ascending
    <3>6. \A n \in log[i][2] .. log[j][2] : n \in LinesOf(p)
      BY <3>1, <3>3, <3>4
    <3>7. QED
      BY <3>5, <3>6
  <2>3. ASSUME dialog.run # None, LinesOf(dialog.run) # {} PROVE 1 \in LinesOf(dialog.run)
    <3>1. dialog.run \in Pushes
      BY <2>1, <2>3
    <3>2. PICK lo, hi \in 0 .. MaxLines : ShownUpTo(dialog.run, lo, hi)
      BY <3>1 DEF TailInv, LogInOrder, Shown
    <3>3. LinesOf(dialog.run) = 0 + 1 .. hi
      BY <3>2 DEF ShownUpTo
    <3>4. QED
      BY <2>1, <2>3, <3>3
  <2>4. QED
    BY <2>2, <2>3 DEF NoGapsNoRepeats
<1>2. QED
  BY <1>1, TailInvHolds, PTL

\* "finished" is shown for a run that has ended and whose whole log is there, if
\* it is the only one that was tailed.
THEOREM FinishedIsWhole == Spec => []FinishedMeansWhole
<1>1. TailInv => FinishedMeansWhole
  BY DEF TailInv, LogInOrder, Whole, FinishedMeansWhole
<1>2. QED
  BY <1>1, TailInvHolds, PTL

\* Closing the dialog reaches the only tail there is.
THEOREM ClosedDialogIsSilent == Spec => []SilentAfterClose
<1>1. TailInv => SilentAfterClose
  <2> SUFFICES ASSUME TailInv, ~dialog.open, late = {}, Cardinality(tails) = 1, NEW p \in tails
               PROVE  es[p] \notin {"connecting", "open"} /\ (poll[p].pc # "off" => abort)
    BY DEF SilentAfterClose
  <2>1. p \in Pushes /\ Known(p) /\ abort /\ IsFiniteSet(tails)
    BY DEF TailInv, TypeOK, TailsAreKnown
  <2>2. PICK x : tails = {x}
    BY <2>1, FS_Singleton
  <2>3. tails = {p}
    BY <2>2
  <2>4. QED
    BY <2>1, <2>3 DEF Known
<1>2. QED
  BY <1>1, TailInvHolds, PTL

-----------------------------------------------------------------------------
(* The dialog is a tail.                                                   *)

\* A push whose build nobody has asked for yet.
NoBuildYet ==
    \A p \in Pushes :
        call[p].pc \in {"idle", "list", "create", "write", "compile"} => job[p] = NoJob

LEMMA NoBuildStep == ASSUME FleetTypeOK, NoBuildYet, [Next]_vars PROVE NoBuildYet'
<1>1. ASSUME NEW p \in Pushes, Asked(p) \/ Answered(p) PROVE NoBuildYet'
  <2>1. job' = job /\ \A q \in Pushes \ {p} : call'[q] = call[q]
    BY <1>1 DEF Asked, PushRequest, Answered, FleetTypeOK
  <2>2. CASE Asked(p)
    BY <2>1, <2>2 DEF Asked, PushRequest, Calling, NoBuildYet
  <2>3. CASE Answered(p)
    <3>1. call'[p].pc = "answered"
      BY <2>3 DEF Answered, FleetTypeOK
    <3>2. QED
      BY <2>1, <3>1 DEF NoBuildYet
  <2>4. QED
    BY <1>1, <2>2, <2>3
<1>2. ASSUME NEW p \in Pushes, ListTargets(p) \/ CreateTarget(p) \/ WriteContent(p) \/ Unreachable(p)
      PROVE  NoBuildYet'
  <2>1. job' = job /\ call[p].pc \in {"list", "create", "write", "compile"}
    BY <1>2 DEF ListTargets, CreateTarget, WriteContent, Unreachable, Calling
  <2>2. \A q \in Pushes \ {p} : call'[q] = call[q]
    BY <1>2 DEF ListTargets, CreateTarget, WriteContent, Unreachable, Reply, Refuse, FleetTypeOK
  <2>3. QED
    BY <2>1, <2>2 DEF NoBuildYet
<1>3. ASSUME NEW p \in Pushes, Compile(p) PROVE NoBuildYet'
  BY <1>3 DEF Compile, Enqueue, Reply, FleetTypeOK, NoBuildYet
<1>4. ASSUME NEW p \in Pushes, JobLine(p) \/ JobFinish(p) PROVE NoBuildYet'
  <2>1. job[p] # NoJob /\ call' = call /\ \A q \in Pushes \ {p} : job'[q] = job[q]
    BY <1>4 DEF JobLine, JobFinish, NoJob, FleetTypeOK
  <2>2. QED
    BY <2>1 DEF NoBuildYet
<1>5. CASE UNCHANGED fleet
  BY <1>5 DEF fleet, NoBuildYet
<1>6. QED
  BY <1>1, <1>2, <1>3, <1>4, <1>5, FleetMoves DEF FleetStep, PushStep

\* What the add-on's work looks like to a reader of the logs.
LEMMA BuildsSeen ==
    ASSUME FleetTypeOK, NoBuildYet, NEW p \in Pushes, FleetStep(p)
    PROVE  \/ UNCHANGED <<BuiltLines, Over>>
           \/ p \notin Over /\ Over' = Over /\ BuiltLines' = [BuiltLines EXCEPT ![p] = @ + 1]
           \/ p \notin Over /\ Over' = Over \cup {p} /\ BuiltLines' = BuiltLines
<1>1. CASE ListTargets(p) \/ CreateTarget(p) \/ WriteContent(p) \/ Unreachable(p)
  BY <1>1 DEF ListTargets, CreateTarget, WriteContent, Unreachable, BuiltLines, Over
<1>2. CASE Compile(p)
  <2>1. job[p] = NoJob /\ \A q \in Pushes \ {p} : job'[q] = job[q]
    BY <1>2 DEF Compile, Enqueue, Calling, NoBuildYet, FleetTypeOK
  <2>2. job'[p].lines = 0 /\ job'[p].state = "running"
    BY <1>2 DEF Compile, Enqueue, NoJob, FleetTypeOK
  <2>3. job[p].lines = 0 /\ job[p].state = "none"
    BY <2>1 DEF NoJob
  <2>4. \A q \in Pushes : job'[q].lines = job[q].lines
                          /\ (job'[q].state = "finished" <=> job[q].state = "finished")
    BY <2>1, <2>2, <2>3
  <2>5. QED
    BY <2>4 DEF BuiltLines, Over
<1>3. CASE JobLine(p)
  <2>1. /\ job'[p].lines = job[p].lines + 1 /\ job[p].state = "running" /\ job'[p].state = "running"
        /\ \A q \in Pushes \ {p} : job'[q] = job[q]
    BY <1>3 DEF JobLine, FleetTypeOK
  <2>2. p \notin Over /\ Over' = Over
    BY <2>1 DEF Over
  <2>3. BuiltLines' = [BuiltLines EXCEPT ![p] = @ + 1]
    BY <2>1 DEF BuiltLines
  <2>4. QED
    BY <2>2, <2>3
<1>4. CASE JobFinish(p)
  <2>1. /\ job'[p].lines = job[p].lines /\ job[p].state = "running" /\ job'[p].state = "finished"
        /\ \A q \in Pushes \ {p} : job'[q] = job[q]
    BY <1>4 DEF JobFinish, FleetTypeOK
  <2>2. p \notin Over /\ Over' = Over \cup {p}
    BY <2>1 DEF Over
  <2>3. BuiltLines' = BuiltLines
    BY <2>1 DEF BuiltLines
  <2>4. QED
    BY <2>2, <2>3
<1>5. QED
  BY <1>1, <1>2, <1>3, <1>4 DEF FleetStep, PushStep

\* The cursors.
LEMMA CursorFacts ==
    /\ DOMAIN Cursor = {q \in Pushes : Live(q)}
    /\ \A q \in Pushes : Live(q) => Cursor[q] = Got(q)
  BY DEF Cursor

LEMMA CursorSame ==
    ASSUME \A q \in Pushes : (Live(q)' <=> Live(q)) /\ (Live(q) => Got(q)' = Got(q))
    PROVE  Cursor' = Cursor
  BY DEF Cursor

LEMMA AsideSame ==
    ASSUME NEW q, Aside(q), hasES' = hasES
    PROVE  (Live(q)' <=> Live(q)) /\ Got(q)' = Got(q)
  BY DEF Live, Got, NextFrom, Aside

LEMMA CursorMoves ==
    ASSUME NEW p \in Pushes, \A q \in Pushes \ {p} : Aside(q), hasES' = hasES, Live(p), Live(p)'
    PROVE  Cursor' = [Cursor EXCEPT ![p] = Got(p)']
<1>1. \A q \in Pushes \ {p} : (Live(q)' <=> Live(q)) /\ Got(q)' = Got(q)
  BY AsideSame
<1>2. {q \in Pushes : Live(q)}' = {q \in Pushes : Live(q)}
  BY <1>1
<1>3. QED
  BY <1>1, <1>2 DEF Cursor

LEMMA CursorLeaves ==
    ASSUME NEW p \in Pushes, \A q \in Pushes \ {p} : Aside(q), hasES' = hasES, ~Live(p)'
    PROVE  Cursor' = [q \in DOMAIN Cursor \ {p} |-> Cursor[q]]
<1>1. \A q \in Pushes \ {p} : (Live(q)' <=> Live(q)) /\ Got(q)' = Got(q)
  BY AsideSame
<1>2. {q \in Pushes : Live(q)}' = DOMAIN Cursor \ {p}
  BY <1>1, CursorFacts
<1>3. \A q \in DOMAIN Cursor \ {p} : Cursor[q] = Got(q)'
  BY <1>1, CursorFacts
<1>4. QED
  BY <1>2, <1>3 DEF Cursor

\* A piece of a log is printed.
LEMMA PrintsPiece ==
    ASSUME NEW p \in Pushes, NEW c \in Frames, Live(p), c.from = Got(p), log' = log \o Lines(p, c)
    PROVE  Reader!Shows(p, c.to)
  BY CursorFacts DEF Lines, Reader!Shows

\* A tail ends without a word of the run's end.
LEMMA StopsTail ==
    ASSUME NEW p \in Pushes, \A q \in Pushes \ {p} : Aside(q), hasES' = hasES, Live(p), ~Live(p)',
           UNCHANGED <<job, tails, log>>, dialog'.finished = dialog.finished
    PROVE  Reader!Stop(p)
<1>1. Cursor' = [q \in DOMAIN Cursor \ {p} |-> Cursor[q]] /\ p \in DOMAIN Cursor
  BY CursorLeaves, CursorFacts
<1>2. UNCHANGED <<BuiltLines, Over>>
  BY DEF BuiltLines, Over
<1>3. QED
  BY <1>1, <1>2 DEF Reader!Stop, Reader!Leave, Reader!Tailed, Reader!build

\* A tail takes a piece, and more may come or it was the last.
LEMMA TakesPiece ==
    ASSUME TypeOK, NEW p \in Pushes, NEW c \in Frames, \A q \in Pushes \ {p} : Aside(q), hasES' = hasES,
           Live(p), c.kind = "data", PieceOf(p, c), c.from = Got(p), log' = log \o Lines(p, c),
           UNCHANGED <<job, tails>>,
           c.finished => ~Live(p)' /\ dialog'.finished = TRUE,
           ~c.finished => Live(p)' /\ Got(p)' = c.to /\ dialog'.finished = dialog.finished
    PROVE  Reader!Copy(p) \/ Reader!Finish(p)
<1>1. Reader!Shows(p, c.to)
  BY PrintsPiece
<1>2. UNCHANGED <<BuiltLines, Over>>
  BY DEF BuiltLines, Over
<1>3. p \in DOMAIN Cursor /\ Cursor[p] = c.from /\ BuiltLines[p] = job[p].lines
  BY CursorFacts DEF BuiltLines
<1>4. /\ c.from \in Nat /\ c.to \in Nat /\ job[p].lines \in Nat
      /\ c.from <= c.to /\ c.to <= job[p].lines
      /\ c.finished => job[p].state = "finished" /\ c.to = job[p].lines
  BY PushAssumption DEF Frames, PieceOf, TypeOK, FleetTypeOK
<1>5. CASE c.finished
  <2>1. Cursor' = [q \in DOMAIN Cursor \ {p} |-> Cursor[q]]
    BY <1>5, CursorLeaves
  <2>2. p \in Over /\ BuiltLines[p] = c.to
    BY <1>3, <1>4, <1>5 DEF Over
  <2>3. Reader!Shows(p, BuiltLines[p])
    BY <1>1, <2>2
  <2>4. QED
    BY <1>2, <1>3, <1>5, <2>1, <2>2, <2>3 DEF Reader!Finish, Reader!Leave, Reader!Tailed, Reader!build
<1>6. CASE ~c.finished
  <2>1. Cursor' = [Cursor EXCEPT ![p] = c.to]
    BY <1>6, CursorMoves
  <2>2. c.to \in Cursor[p] .. BuiltLines[p]
    BY <1>3, <1>4
  <2>3. QED
    BY <1>1, <1>2, <1>3, <1>6, <2>1, <2>2 DEF Reader!Copy, Reader!Tailed, Reader!build
<1>7. QED
  BY <1>5, <1>6

LEMMA BeginsTail ==
    ASSUME TypeOK, TailsAreKnown, NEW p \in Pushes, p \notin tails, job' = job, hasES' = hasES,
           TailJobLog(p)
    PROVE  Reader!Begin(p)
<1>1. Known(p) /\ ~Live(p) /\ wire[p] = <<>> /\ relay[p].at = 0 /\ poll[p].at = 0
  BY DEF TailsAreKnown, Known, Live
<1>2. \A q \in Pushes \ {p} : Aside(q)
  BY DEF TailJobLog, TypeOK, Aside
<1>3. Live(p)' /\ Got(p)' = 0
  <2>1. wire'[p] = <<>> /\ relay'[p].at = 0 /\ poll'[p].at = 0
    BY <1>1 DEF TailJobLog, TypeOK, Polls
  <2>2. Len(<<>>) = 0
    BY EmptySeq
  <2>3. Live(p)'
    BY DEF TailJobLog, TypeOK, Polls, Live
  <2>4. QED
    BY <2>1, <2>2, <2>3 DEF Got, NextFrom
<1>4. \A q \in Pushes \ {p} : (Live(q)' <=> Live(q)) /\ Got(q)' = Got(q)
  BY <1>2, AsideSame
<1>5. {q \in Pushes : Live(q)}' = DOMAIN Cursor \cup {p}
  BY <1>3, <1>4, CursorFacts
<1>6. \A q \in DOMAIN Cursor : q # p /\ Cursor[q] = Got(q)'
  BY <1>1, <1>4, CursorFacts
<1>7. Cursor' = [q \in DOMAIN Cursor \cup {p} |-> IF q = p THEN 0 ELSE Cursor[q]]
  <2>1. Cursor' = [q \in DOMAIN Cursor \cup {p} |-> Got(q)']
    BY <1>5 DEF Cursor
  <2>2. QED
    BY <1>3, <1>6, <2>1
<1>8. tails' = tails \cup {p} /\ log' = <<>> /\ dialog'.finished = FALSE
  BY DEF TailJobLog, TypeOK, Dialogs
<1>9. UNCHANGED <<BuiltLines, Over>>
  BY DEF BuiltLines, Over
<1>10. QED
  BY <1>7, <1>8, <1>9 DEF Reader!Begin, Reader!Tailed, Reader!build

LEMMA ReaderSame ==
    ASSUME Cursor' = Cursor, UNCHANGED <<job, tails, log>>, dialog'.finished = dialog.finished
    PROVE  UNCHANGED Reader!lvars
  BY DEF BuiltLines, Over, Reader!lvars

\* Every step of the dialog is one of an abstract tail, or none.
LEMMA StepReads ==
    ASSUME TailInv, NoBuildYet, [Next]_vars
    PROVE  [Reader!Next]_(Reader!lvars)
<1>0. TypeOK /\ FleetTypeOK /\ TailsAreKnown /\ FramesFollow
  BY DEF TailInv, TypeOK
<1>1. ASSUME UNCHANGED <<job, hasES, log, transport, seen>>, dialog'.finished = dialog.finished
      PROVE  UNCHANGED Reader!lvars
  <2>1. Cursor' = Cursor
    BY <1>1 DEF transport, Cursor, Live, Got, NextFrom
  <2>2. QED
    BY <1>1, <2>1, ReaderSame DEF seen
<1>2. CASE FleetStatus
  BY <1>0, <1>1, <1>2 DEF FleetStatus, TypeOK, Dialogs, fleet
<1>3. ASSUME NEW p \in Pushes, HandlePush(p) \/ PushLost(p) \/ PushElsewhere(p)
      PROVE  UNCHANGED Reader!lvars
  BY <1>0, <1>1, <1>3 DEF HandlePush, PushLost, PushElsewhere, TypeOK, Dialogs, fleet
<1>4. CASE UNCHANGED vars
  BY <1>1, <1>4 DEF vars, fleet
<1>5. ASSUME NEW p \in Pushes, Fleet(p) PROVE [Reader!Next]_(Reader!lvars)
  <2>1. UNCHANGED <<hasES, dialog, log, transport, seen>> /\ FleetStep(p)
    BY <1>5 DEF Fleet
  <2>2. Cursor' = Cursor /\ tails' = tails
    BY <2>1 DEF transport, seen, Cursor, Live, Got, NextFrom
  <2>3. CASE UNCHANGED <<BuiltLines, Over>>
    BY <2>1, <2>2, <2>3 DEF Reader!lvars
  <2>4. CASE p \notin Over /\ Over' = Over /\ BuiltLines' = [BuiltLines EXCEPT ![p] = @ + 1]
    BY <2>1, <2>2, <2>4 DEF Reader!Write, Reader!Next
  <2>5. CASE p \notin Over /\ Over' = Over \cup {p} /\ BuiltLines' = BuiltLines
    BY <2>1, <2>2, <2>5 DEF Reader!End, Reader!Next
  <2>6. QED
    BY <1>0, <2>1, <2>3, <2>4, <2>5, BuildsSeen
<1>6. ASSUME NEW p \in Pushes, PushAnswered(p) PROVE [Reader!Next]_(Reader!lvars)
  <2>1. p \notin tails /\ hasES' = hasES /\ job' = job
    BY <1>0, <1>6, AnswerTail DEF PushAnswered
  <2>2. CASE TailJobLog(p)
    BY <1>0, <2>1, <2>2, BeginsTail DEF Reader!Next
  <2>3. CASE UNCHANGED <<log, transport, seen>> /\ dialog' = [dialog EXCEPT !.pushing = None]
    BY <1>0, <1>1, <2>1, <2>3 DEF TypeOK, Dialogs
  <2>4. QED
    BY <1>0, <1>6, <2>2, <2>3, AnswerTail
<1>7. ASSUME NEW p \in Pushes, hasES' = hasES, Live(p), ~Live(p)', \A q \in Pushes \ {p} : Aside(q),
             UNCHANGED <<job, tails, log>>, dialog'.finished = dialog.finished
      PROVE  [Reader!Next]_(Reader!lvars)
  BY <1>7, StopsTail DEF Reader!Next
<1>8. CASE Unmount
  <2>1. /\ UNCHANGED <<job, log, tails, hasES, poll>> /\ dialog'.finished = dialog.finished
    BY <1>0, <1>8 DEF Unmount, seen, fleet, TypeOK, Dialogs
  <2>2. CASE ref = None
    <3>1. UNCHANGED <<es, wire, relay>>
      BY <1>8, <2>2 DEF Unmount
    <3>2. Cursor' = Cursor
      BY <2>1, <3>1 DEF Cursor, Live, Got, NextFrom
    <3>3. QED
      BY <2>1, <3>2, ReaderSame
  <2>3. CASE ref # None
    <3>1. PICK p \in Pushes : p = ref
      BY <1>0, <2>3 DEF TypeOK
    <3>2. CloseStream(p)
      BY <1>8, <2>3, <3>1 DEF Unmount
    <3>3. Live(p) /\ hasES /\ poll[p].pc = "off"
      BY <1>0, <3>1 DEF TailsAreKnown, Known, Live
    <3>4. es'[p] = "closed" /\ \A q \in Pushes \ {p} : Aside(q)
      BY <1>0, <2>1, <3>2 DEF CloseStream, TypeOK, Aside
    <3>5. ~Live(p)'
      BY <2>1, <3>3, <3>4 DEF Live
    <3>6. QED
      BY <1>7, <2>1, <3>3, <3>4, <3>5
  <2>4. QED
    BY <2>2, <2>3
<1>9. ASSUME NEW p \in Pushes, StreamOpen(p) \/ RelayChunk(p) \/ RelayError(p)
      PROVE  UNCHANGED Reader!lvars
  <2>1. UNCHANGED <<job, log, tails, hasES, dialog>>
    BY <1>9 DEF StreamOpen, RelayChunk, RelayError, seen, fleet
  <2>2. \A q \in Pushes \ {p} : Aside(q)
    BY <1>0, <1>9 DEF StreamOpen, RelayChunk, RelayError, TypeOK, Aside
  <2>3. \A q \in Pushes \ {p} : (Live(q)' <=> Live(q)) /\ Got(q)' = Got(q)
    BY <2>1, <2>2, AsideSame
  <2>4. Live(p) /\ Live(p)' /\ Got(p)' = Got(p)
    BY <1>0, <1>9, StreamStays
  <2>5. Cursor' = Cursor
    BY <2>3, <2>4, CursorSame
  <2>6. QED
    BY <2>1, <2>5, ReaderSame
<1>10. ASSUME NEW p \in Pushes, OnErrorFrame(p) \/ TransportError(p) PROVE [Reader!Next]_(Reader!lvars)
  <2>1. /\ es[p] \in {"connecting", "open"} /\ CloseStream(p)
        /\ UNCHANGED <<job, log, tails, hasES, poll>> /\ dialog'.finished = dialog.finished
    BY <1>0, <1>10 DEF OnErrorFrame, TransportError, seen, fleet, TypeOK, Dialogs
  <2>2. Known(p)
    BY <1>0 DEF TailsAreKnown
  <2>3. es'[p] = "closed" /\ \A q \in Pushes \ {p} : Aside(q)
    BY <1>0, <2>1 DEF CloseStream, TypeOK, Aside
  <2>4. Live(p) /\ ~Live(p)'
    BY <2>1, <2>2, <2>3 DEF Known, Live
  <2>5. QED
    BY <1>7, <2>1, <2>3, <2>4
<1>11. ASSUME NEW p \in Pushes, OnMessage(p) PROVE [Reader!Next]_(Reader!lvars)
  <2> DEFINE c == wire[p][1]
  <2>1. /\ c \in Frames /\ c.kind = "data" /\ PieceOf(p, c) /\ c.from = Got(p)
        /\ log' = log \o Lines(p, c) /\ UNCHANGED <<fleet, hasES, tails>>
        /\ Live(p) /\ \A q \in Pushes \ {p} : Aside(q)
        /\ c.finished => ~Live(p)' /\ dialog' = [dialog EXCEPT !.finished = TRUE]
        /\ ~c.finished => Live(p)' /\ dialog' = dialog /\ Got(p)' = c.to
    BY <1>0, <1>11, MessageFits
  <2> HIDE DEF c
  <2>2. /\ c.finished => dialog'.finished = TRUE
        /\ ~c.finished => dialog'.finished = dialog.finished
    BY <1>0, <2>1 DEF TypeOK, Dialogs
  <2>3. Reader!Copy(p) \/ Reader!Finish(p)
    BY <1>0, <2>1, <2>2, TakesPiece DEF fleet
  <2>4. QED
    BY <2>3 DEF Reader!Next
<1>12. ASSUME NEW p \in Pushes, PollAnswer(p) \/ PollAgain(p) \/ PollError(p) \/ PollAppend(p)
       PROVE  [Reader!Next]_(Reader!lvars)
  <2>1. Known(p) /\ poll[p].pc \in {"ask", "answer", "sleep"}
    BY <1>0, <1>12 DEF PollAnswer, PollAgain, PollError, PollAppend, TailsAreKnown
  <2>2. Live(p) /\ ~hasES /\ es[p] = "none"
    BY <2>1 DEF Known, Live
  <2>3. UNCHANGED <<job, hasES, es, wire, relay, tails>>
    BY <1>12 DEF PollAnswer, PollAgain, PollError, PollAppend, seen, fleet
  <2>4. \A q \in Pushes \ {p} : Aside(q)
    <3>1. \A q \in Pushes \ {p} : poll'[q] = poll[q]
      BY <1>0, <1>12 DEF PollAnswer, PollAppend, PollAgain, PollError, PollGoto, TypeOK
    <3>2. QED
      BY <2>3, <3>1 DEF Aside
  <2>5. ASSUME UNCHANGED <<log, dialog>>, poll'[p].at = poll[p].at, poll'[p].pc \in {"ask", "answer"}
        PROVE  UNCHANGED Reader!lvars
    <3>1. Live(p)' /\ Got(p)' = Got(p)
      BY <2>2, <2>3, <2>5 DEF Live, Got
    <3>2. \A q \in Pushes \ {p} : (Live(q)' <=> Live(q)) /\ Got(q)' = Got(q)
      BY <2>3, <2>4, AsideSame
    <3>3. Cursor' = Cursor
      BY <2>2, <3>1, <3>2, CursorSame
    <3>4. QED
      BY <2>3, <2>5, <3>3, ReaderSame
  <2>6. ASSUME log' = log, dialog'.finished = dialog.finished, poll'[p].pc = "ended"
        PROVE  [Reader!Next]_(Reader!lvars)
    <3>1. ~Live(p)'
      BY <2>2, <2>3, <2>6 DEF Live
    <3>2. QED
      BY <1>7, <2>2, <2>3, <2>4, <2>6, <3>1
  <2>7. ASSUME NEW pc, PollGoto(p, pc) PROVE poll'[p].at = poll[p].at /\ poll'[p].pc = pc
    BY <1>0, <2>7 DEF PollGoto, TypeOK, Polls
  <2>8. CASE PollAnswer(p)
    <3>1. UNCHANGED <<log, dialog>> /\ poll'[p].at = poll[p].at /\ poll'[p].pc = "answer"
      BY <1>0, <2>8 DEF PollAnswer, TypeOK, Polls
    <3>2. QED
      BY <2>5, <3>1
  <2>9. CASE PollAgain(p)
    <3>1. UNCHANGED <<log, dialog>> /\ PollGoto(p, IF abort THEN "ended" ELSE "ask")
      BY <2>9 DEF PollAgain
    <3>2. CASE abort
      BY <2>6, <2>7, <3>1, <3>2
    <3>3. CASE ~abort
      BY <2>5, <2>7, <3>1, <3>3
    <3>4. QED
      BY <3>2, <3>3
  <2>10. CASE PollError(p)
    <3>1. log' = log /\ dialog'.finished = dialog.finished /\ PollGoto(p, "ended")
      BY <1>0, <2>10 DEF PollError, TypeOK, Dialogs
    <3>2. QED
      BY <2>6, <2>7, <3>1
  <2>11. CASE PollAppend(p) /\ abort
    <3>1. UNCHANGED <<log, dialog>> /\ PollGoto(p, "ended")
      BY <2>11 DEF PollAppend
    <3>2. QED
      BY <2>6, <2>7, <3>1
  <2>12. CASE PollAppend(p) /\ ~abort
    <3> DEFINE c == poll[p].chunk
    <3>1. /\ c \in Frames /\ c.kind = "data" /\ PieceOf(p, c) /\ c.from = Got(p)
          /\ log' = log \o Lines(p, c) /\ Got(p)' = c.to /\ (Live(p)' <=> ~c.finished)
          /\ dialog' = [dialog EXCEPT !.finished = @ \/ c.finished]
      BY <1>0, <2>12, PieceFits
    <3> HIDE DEF c
    <3>2. /\ c.finished => dialog'.finished = TRUE
          /\ ~c.finished => dialog'.finished = dialog.finished
      BY <1>0, <3>1 DEF TypeOK, Dialogs, Frames
    <3>3. Reader!Copy(p) \/ Reader!Finish(p)
      BY <1>0, <2>2, <2>3, <2>4, <3>1, <3>2, TakesPiece
    <3>4. QED
      BY <3>3 DEF Reader!Next
  <2>13. QED
    BY <1>12, <2>8, <2>9, <2>10, <2>11, <2>12
<1>13. QED
  BY <1>2, <1>3, <1>4, <1>5, <1>6, <1>8, <1>9, <1>10, <1>11, <1>12 DEF Next, TailStep

\* By stream or by polling, with lost and failing requests, however many tails
\* at once and whatever the dialog is doing: it is a tail of the builds.
THEOREM DialogImplementsTail == Spec => DialogIsATail
<1>1. Init => NoBuildYet
  BY DEF Init, FleetInit, NoBuildYet
<1>2. FleetTypeOK /\ NoBuildYet /\ [Next]_vars => NoBuildYet'
  BY NoBuildStep
<1>3. Init => Reader!Init
  <2> SUFFICES ASSUME Init PROVE Reader!Init
    OBVIOUS
  <2>1. BuiltLines = [p \in Pushes |-> 0] /\ Over = {}
    BY DEF Init, FleetInit, NoJob, BuiltLines, Over
  <2>2. Cursor = [q \in {} |-> 0]
    BY DEF Init, Live, Cursor
  <2>3. tails = {} /\ log = <<>> /\ dialog.finished = FALSE
    BY DEF Init
  <2>4. QED
    BY <2>1, <2>2, <2>3 DEF Reader!Init
<1>4. TailInv => FleetTypeOK
  BY DEF TailInv, TypeOK
<1>5. QED
  BY <1>1, <1>2, <1>3, <1>4, TailInvHolds, StepReads, PTL DEF Spec, DialogIsATail, Reader!Spec
=============================================================================
