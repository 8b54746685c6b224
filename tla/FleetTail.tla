------------------------------ MODULE FleetTail ------------------------------
(***************************************************************************)
(* The Push-to-fleet dialog (web/src/components/PushToFleetDialog.tsx) on  *)
(* top of FleetPush: it pushes, and tails the build log of the run through *)
(* an EventSource on /fleet/jobs/{run}/log/stream, which the studio API    *)
(* feeds by polling the add-on, or, in a browser without EventSource, by   *)
(* polling /fleet/jobs/{run}/log itself.                                   *)
(*                                                                         *)
(* A handler of the browser is a step; several tails may be alive at once, *)
(* since the button is enabled again once a push has been answered.        *)
(***************************************************************************)
EXTENDS FleetPush

CONSTANT MaxFrames  \* bound: frames of one stream under way

ASSUME FrameAssumption == MaxFrames \in Nat \ {0}

VARIABLES
    hasES,  \* the browser knows EventSource
    dialog, \* what the dialog shows, but for
    log,    \* logText, a sequence of <<run, line>>
    es,     \* run -> readyState of its EventSource
    wire,   \* run -> frames on their way to the browser
    relay,  \* run -> the generator of the stream endpoint
    poll,   \* run -> pollJobLog
    ref,    \* eventSourceRef.current
    abort,  \* pollAbortRef.current.stop
    tails,  \* history: the runs tailed so far
    late,   \* history: those whose tail began after the dialog was closed
    broken  \* history: runs that lost their stream

transport == <<es, wire, relay, poll, ref, abort>>
seen      == <<tails, late, broken>>
vars      == <<fleet, hasES, dialog, log, transport, seen>>

\* What the add-on's log endpoint says of a run, from an offset on.
Chunk(from, p) == [kind |-> "data", from |-> from, to |-> job[p].lines,
                   finished |-> job[p].state = "finished"]
DoneFrame  == [kind |-> "done", from |-> 0, to |-> 0, finished |-> TRUE]
ErrorFrame == [kind |-> "error", from |-> 0, to |-> 0, finished |-> FALSE]

\* The lines of a chunk.
Lines(p, c) == [i \in 1 .. (c.to - c.from) |-> <<p, c.from + i>>]

Init ==
    /\ FleetInit
    /\ hasES \in BOOLEAN
    /\ dialog = [open |-> TRUE, status |-> "checking", pushing |-> None, run |-> None,
                 finished |-> FALSE, error |-> FALSE]
    /\ log = <<>>
    /\ es = [p \in Pushes |-> "none"]
    /\ wire = [p \in Pushes |-> <<>>]
    /\ relay = [p \in Pushes |-> [pc |-> "off", at |-> 0]]
    /\ poll = [p \in Pushes |-> [pc |-> "off", at |-> 0, chunk |-> ErrorFrame]]
    /\ ref = None /\ abort = FALSE
    /\ tails = {} /\ late = {} /\ broken = {}

-----------------------------------------------------------------------------
(* The dialog.                                                             *)

\* GET /fleet/status on open; `cancelled` drops an answer after the close.
FleetStatus ==
    /\ dialog.open /\ dialog.status = "checking"
    /\ \E s \in {"available", "down"} : dialog' = [dialog EXCEPT !.status = s]
    /\ UNCHANGED <<fleet, hasES, log, transport, seen>>

HandlePush(p) ==
    /\ dialog.open /\ dialog.status = "available" /\ dialog.pushing = None
    /\ PushRequest(p)
    /\ dialog' = [dialog EXCEPT !.pushing = p, !.run = None]
    /\ UNCHANGED <<device, job, written, hasES, log, transport, seen>>

\* A stream if there are streams, else a poll loop, which also
\* takes back the stop of an earlier one.
TailJobLog(p) ==
    /\ log' = <<>>
    /\ dialog' = [dialog EXCEPT !.pushing = None, !.run = p,
                                !.finished = FALSE, !.error = FALSE]
    /\ IF hasES
       THEN /\ es' = [es EXCEPT ![p] = "connecting"]
            /\ ref' = p
            /\ UNCHANGED <<poll, abort>>
       ELSE /\ poll' = [poll EXCEPT ![p].pc = "ask"]
            /\ abort' = FALSE
            /\ UNCHANGED <<es, ref>>
    /\ tails' = tails \cup {p}
    /\ late' = IF dialog.open THEN late ELSE late \cup {p}
    /\ UNCHANGED <<wire, relay, broken>>

\* The await of api.fleetPush returns, also when the dialog is closed by now.
PushAnswered(p) ==
    /\ dialog.pushing = p /\ call[p].pc \in {"ok", "failed"}
    /\ call' = [call EXCEPT ![p].pc = "answered"]
    /\ IF call[p].pc = "ok" /\ call[p].compile
       THEN TailJobLog(p)
       ELSE /\ dialog' = [dialog EXCEPT !.pushing = None]
            /\ UNCHANGED <<log, transport, seen>>
    /\ UNCHANGED <<device, job, written, hasES>>

\* The browser loses the request; the server goes on with it.
PushLost(p) ==
    /\ dialog.pushing = p
    /\ dialog' = [dialog EXCEPT !.pushing = None]
    /\ UNCHANGED <<fleet, hasES, log, transport, seen>>

\* A push of the same device from another tab.
PushElsewhere(p) ==
    /\ PushRequest(p)
    /\ UNCHANGED <<device, job, written, hasES, dialog, log, transport, seen>>

\* es.close() and eventSourceRef.current = null: the server sees the client go.
CloseStream(p) ==
    /\ es' = [es EXCEPT ![p] = "closed"]
    /\ wire' = [wire EXCEPT ![p] = <<>>]
    /\ relay' = [relay EXCEPT ![p] = [pc |-> "ended", at |-> 0]]

\* Mutant: the effect closes nothing.
MutUnmount ==
    /\ dialog.open
    /\ dialog' = [dialog EXCEPT !.open = FALSE]
    /\ UNCHANGED <<fleet, hasES, log, transport, seen>>

\* The cleanup of the effect.
Unmount ==
    /\ dialog.open
    /\ dialog' = [dialog EXCEPT !.open = FALSE]
    /\ abort' = TRUE
    /\ IF ref = None THEN UNCHANGED <<es, wire, relay>> ELSE CloseStream(ref)
    /\ ref' = None
    /\ UNCHANGED <<fleet, hasES, log, poll, seen>>

-----------------------------------------------------------------------------
(* Tailing by stream.                                                      *)

StreamOpen(p) ==
    /\ es[p] = "connecting"
    /\ es' = [es EXCEPT ![p] = "open"]
    /\ relay' = [relay EXCEPT ![p].pc = "poll"]
    /\ UNCHANGED <<fleet, hasES, dialog, log, wire, poll, ref, abort, seen>>

\* Mutant: `current` is not moved on.
MutRelayOffset(p, c) == relay[p].at

RelayOffset(p, c) == c.to

\* get_job_log answers: a chunk, and a final `done` once the job has ended.
RelayChunk(p) ==
    LET c == Chunk(relay[p].at, p) IN
    /\ relay[p].pc = "poll" /\ Len(wire[p]) < MaxFrames
    /\ wire' = [wire EXCEPT ![p] = @ \o (IF c.finished THEN <<c, DoneFrame>> ELSE <<c>>)]
    /\ relay' = [relay EXCEPT ![p] = [pc |-> IF c.finished THEN "ended" ELSE "poll",
                                      at |-> RelayOffset(p, c)]]
    /\ UNCHANGED <<fleet, hasES, dialog, log, es, poll, ref, abort, seen>>

\* FleetUnavailable becomes an `error` frame and the end of the stream.
RelayError(p) ==
    /\ relay[p].pc = "poll" /\ Len(wire[p]) < MaxFrames
    /\ wire' = [wire EXCEPT ![p] = Append(@, ErrorFrame)]
    /\ relay' = [relay EXCEPT ![p].pc = "ended"]
    /\ UNCHANGED <<fleet, hasES, dialog, log, es, poll, ref, abort, seen>>

\* Mutant: the chunk that ends the run is not shown.
MutOnMessage(p) ==
    LET c == Head(wire[p]) IN
    /\ es[p] = "open" /\ wire[p] # <<>> /\ c.kind = "data"
    /\ IF c.finished
       THEN /\ CloseStream(p) /\ ref' = None
            /\ dialog' = [dialog EXCEPT !.finished = TRUE]
            /\ UNCHANGED log
       ELSE /\ wire' = [wire EXCEPT ![p] = SubSeq(@, 2, Len(@))]
            /\ log' = log \o Lines(p, c)
            /\ UNCHANGED <<es, relay, ref, dialog>>
    /\ UNCHANGED <<fleet, hasES, poll, abort, seen>>

\* onmessage; the `done` frame that follows meets a closed stream.
OnMessage(p) ==
    LET c == Head(wire[p]) IN
    /\ es[p] = "open" /\ wire[p] # <<>> /\ c.kind = "data"
    /\ log' = log \o Lines(p, c)
    /\ IF c.finished
       THEN /\ CloseStream(p) /\ ref' = None
            /\ dialog' = [dialog EXCEPT !.finished = TRUE]
       ELSE /\ wire' = [wire EXCEPT ![p] = SubSeq(@, 2, Len(@))]
            /\ UNCHANGED <<es, relay, ref, dialog>>
    /\ UNCHANGED <<fleet, hasES, poll, abort, seen>>

\* Mutant: the error of the server closes the stream and is not shown.
MutOnErrorFrame(p) ==
    /\ es[p] = "open" /\ wire[p] # <<>> /\ Head(wire[p]).kind = "error"
    /\ CloseStream(p) /\ ref' = None
    /\ UNCHANGED <<fleet, hasES, dialog, log, poll, abort, seen>>

\* The `error` frame of the server: its message is shown, and onerror, which
\* sees the same event next, finds the stream closed and returns.
OnErrorFrame(p) ==
    /\ es[p] = "open" /\ wire[p] # <<>> /\ Head(wire[p]).kind = "error"
    /\ CloseStream(p) /\ ref' = None
    /\ dialog' = [dialog EXCEPT !.error = TRUE]
    /\ UNCHANGED <<fleet, hasES, log, poll, abort, seen>>

\* A refused or lost connection, or an exception in the generator.  This
\* event too is an `error`: the listener finds no message in it and closes
\* the stream, and onerror, which would have polled on, returns.
TransportError(p) ==
    /\ es[p] \in {"connecting", "open"}
    /\ CloseStream(p) /\ ref' = None
    /\ broken' = broken \cup {p}
    /\ UNCHANGED <<fleet, hasES, dialog, log, poll, abort, tails, late>>

-----------------------------------------------------------------------------
(* Tailing by polling.                                                     *)

PollGoto(p, pc) == poll' = [poll EXCEPT ![p].pc = pc, ![p].chunk = ErrorFrame]

PollAnswer(p) ==
    /\ poll[p].pc = "ask"
    /\ poll' = [poll EXCEPT ![p].pc = "answer", ![p].chunk = Chunk(poll[p].at, p)]
    /\ UNCHANGED <<fleet, hasES, dialog, log, es, wire, relay, ref, abort, seen>>

PollError(p) ==
    /\ poll[p].pc = "ask"
    /\ PollGoto(p, "ended")
    /\ dialog' = [dialog EXCEPT !.error = TRUE]
    /\ UNCHANGED <<fleet, hasES, log, es, wire, relay, ref, abort, seen>>

PollAppend(p) ==
    LET c == poll[p].chunk IN
    /\ poll[p].pc = "answer"
    /\ IF abort
       THEN PollGoto(p, "ended") /\ UNCHANGED <<log, dialog>>
       ELSE /\ log' = log \o Lines(p, c)
            /\ poll' = [poll EXCEPT ![p] = [pc |-> IF c.finished THEN "ended" ELSE "sleep",
                                            at |-> c.to, chunk |-> ErrorFrame]]
            /\ dialog' = [dialog EXCEPT !.finished = @ \/ c.finished]
    /\ UNCHANGED <<fleet, hasES, es, wire, relay, ref, abort, seen>>

PollAgain(p) ==
    /\ poll[p].pc = "sleep"
    /\ PollGoto(p, IF abort THEN "ended" ELSE "ask")
    /\ UNCHANGED <<fleet, hasES, dialog, log, es, wire, relay, ref, abort, seen>>

-----------------------------------------------------------------------------
Fleet(p) == FleetStep(p) /\ UNCHANGED <<hasES, dialog, log, transport, seen>>

TailStep(p) ==
    \/ StreamOpen(p) \/ RelayChunk(p) \/ OnMessage(p) \/ OnErrorFrame(p)
    \/ PollAnswer(p) \/ PollAppend(p) \/ PollAgain(p)

Next ==
    \/ FleetStatus \/ Unmount
    \/ \E p \in Pushes :
        \/ HandlePush(p) \/ PushAnswered(p) \/ PushLost(p) \/ PushElsewhere(p) \/ Fleet(p) \/ TailStep(p)
        \/ RelayError(p) \/ TransportError(p) \/ PollError(p)

Spec == Init /\ [][Next]_vars

\* Requests are answered, timers go off, and builds end.
Fairness ==
    \A p \in Pushes :
        /\ WF_vars(TailStep(p))
        /\ WF_vars(JobFinish(p) /\ UNCHANGED <<hasES, dialog, log, transport, seen>>)

FairSpec == Spec /\ Fairness

-----------------------------------------------------------------------------
(* Properties.                                                             *)

Frames == [kind : {"data", "done", "error"}, from : 0 .. MaxLines, to : 0 .. MaxLines,
           finished : BOOLEAN]

Dialogs == [open : BOOLEAN, status : {"checking", "available", "down"},
            pushing : Pushes \cup {None}, run : Pushes \cup {None},
            finished : BOOLEAN, error : BOOLEAN]

Relays == [pc : {"off", "poll", "ended"}, at : 0 .. MaxLines]

Polls == [pc : {"off", "ask", "answer", "sleep", "ended"}, at : 0 .. MaxLines, chunk : Frames]

\* The variables have the types the code gives them.
TypeOK ==
    /\ FleetTypeOK /\ hasES \in BOOLEAN
    /\ dialog \in Dialogs
    /\ log \in Seq(Pushes \X (1 .. MaxLines))
    /\ es \in [Pushes -> {"none", "connecting", "open", "closed"}]
    /\ wire \in [Pushes -> Seq(Frames)] /\ \A p \in Pushes : Len(wire[p]) <= MaxFrames + 1
    /\ relay \in [Pushes -> Relays] /\ poll \in [Pushes -> Polls]
    /\ ref \in Pushes \cup {None} /\ abort \in BOOLEAN
    /\ tails \subseteq Pushes /\ late \subseteq Pushes /\ broken \subseteq Pushes

LinesOf(p) == {log[i][2] : i \in {j \in 1 .. Len(log) : log[j][1] = p}}

\* The lines of every run are on screen in order, none missing and none
\* twice, by stream or by polling, and also while the tail of an earlier run
\* still appends to the same log; those of the last run start at its first.
NoGapsNoRepeats ==
    /\ \A i, j \in 1 .. Len(log) :
        i < j /\ log[i][1] = log[j][1] =>
            /\ log[i][2] < log[j][2]
            /\ \A n \in log[i][2] .. log[j][2] : n \in LinesOf(log[i][1])
    /\ dialog.run # None /\ LinesOf(dialog.run) # {} => 1 \in LinesOf(dialog.run)

\* "finished" is shown for a run that has ended and whose whole log is there,
\* as long as no second push has been tailed in the same dialog.  (The run
\* checks it as a part of DialogIsATail.)
FinishedMeansWhole ==
    \A p \in Pushes :
        dialog.finished /\ tails = {p} =>
            job[p].state = "finished" /\ LinesOf(p) = 1 .. job[p].lines

\* A closed dialog has stopped its tail: no stream is open and the loop will
\* not ask again, if the tail was started before the close and was the only
\* one.  (The comment in handlePush claims it of every tail.)
SilentAfterClose ==
    ~dialog.open /\ late = {} /\ Cardinality(tails) = 1 =>
        \A p \in tails : es[p] \notin {"connecting", "open"} /\ (poll[p].pc # "off" => abort)

\* Why they hold.  A run is tailed once, by the one means or the other, and the
\* close of the dialog reaches the only tail there is ...
Live(p) == es[p] \in {"connecting", "open"} \/ poll[p].pc \in {"ask", "answer", "sleep"}

Known(p) ==
    /\ p \notin tails => es[p] = "none" /\ poll[p].pc = "off"
    /\ IF hasES THEN poll[p].pc = "off" ELSE es[p] = "none"
    /\ poll[p].pc = "off" => poll[p].at = 0
    /\ es[p] # "open" => wire[p] = <<>> /\ relay[p].at = 0 /\ relay[p].pc # "poll"
    /\ ref = p => es[p] \in {"connecting", "open"}
    /\ es[p] \in {"connecting", "open"} /\ tails = {p} /\ late = {} => dialog.open /\ ref = p

TailsAreKnown ==
    /\ IsFiniteSet(tails)
    /\ \A p \in tails : call[p].pc = "answered"
    /\ ~dialog.open /\ late = {} => abort
    /\ \A p \in Pushes : Known(p)

\* ... the frames of a stream are pieces of the run's log that follow one
\* another up to where the generator stands ...
NextFrom(p, i) ==
    IF i < Len(wire[p]) /\ wire[p][i + 1].kind = "data" THEN wire[p][i + 1].from ELSE relay[p].at

PieceOf(p, c) ==
    c.kind = "data" =>
        /\ c.from <= c.to /\ c.to <= job[p].lines
        /\ c.finished => job[p].state = "finished" /\ c.to = job[p].lines

Follows(p) ==
    /\ relay[p].at <= job[p].lines /\ poll[p].at <= job[p].lines
    /\ poll[p].pc = "answer" => /\ PieceOf(p, poll[p].chunk)
                                /\ poll[p].chunk.kind = "data" /\ poll[p].chunk.from = poll[p].at
    /\ \A i \in 1 .. Len(wire[p]) :
          /\ PieceOf(p, wire[p][i])
          /\ IF wire[p][i].kind = "data" THEN wire[p][i].to = NextFrom(p, i)
             ELSE i = Len(wire[p]) /\ relay[p].pc = "ended"

FramesFollow == \A p \in Pushes : Follows(p)

\* ... and what is on screen of a run ends where the tail will go on, and begins
\* at the first line if no other run's tail can have cleared the screen.
Got(p) == IF hasES THEN NextFrom(p, 0) ELSE poll[p].at

Ascending ==
    \A i, j \in 1 .. Len(log) : i < j /\ log[i][1] = log[j][1] => log[i][2] < log[j][2]

ShownUpTo(p, lo, hi) ==
    /\ LinesOf(p) = lo + 1 .. hi
    /\ Live(p) => hi = Got(p)
    /\ dialog.run = p \/ tails = {p} => lo = 0

Shown(p) == \E lo, hi \in 0 .. MaxLines : ShownUpTo(p, lo, hi)

Whole(p) ==
    dialog.finished /\ tails = {p} =>
        ~Live(p) /\ job[p].state = "finished" /\ LinesOf(p) = 1 .. job[p].lines

LogInOrder == Ascending /\ \A p \in Pushes : Shown(p) /\ Whole(p)

TailInv == TypeOK /\ TailsAreKnown /\ FramesFollow /\ LogInOrder

\* Stream or poll, the dialog is a tail: what it shows is what a cursor in each
\* log would print, whose every step is one of LogTail's, or none.
Cursor == [p \in {q \in Pushes : Live(q)} |-> Got(p)]

BuiltLines == [p \in Pushes |-> job[p].lines]

Over == {p \in Pushes : job[p].state = "finished"}

Reader == INSTANCE LogTail WITH
             Runs <- Pushes, lines <- BuiltLines, over <- Over,
             begun <- tails, cursor <- Cursor, screen <- log, whole <- dialog.finished

DialogIsATail == Reader!Spec

\* The dialog says "tailing".
Tailing == dialog.open /\ dialog.run # None /\ ~dialog.finished /\ ~dialog.error

\* A tail that keeps its connection does not stay at "tailing" forever.
TailEnds == Tailing /\ broken = {} ~> ~Tailing \/ broken # {}

\* PushToFleetDialog.tsx:82 "A transport-level onerror flips us back to polling
\* so a flaky proxy never strands the UI in tailing forever".
NeverStranded == Tailing ~> ~Tailing
=============================================================================
