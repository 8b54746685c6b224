----------------------------- MODULE AgentTurn -----------------------------
(***************************************************************************)
(* The agent: turns that run the model and its tools on a copy of a design *)
(* (agent/agent.py), the session files they append to (agent/session.py),  *)
(* the endpoints that start them (api/app.py) and the chat sidebar of one  *)
(* tab (web/src/components/AgentSidebar.tsx, api/client.ts).               *)
(*                                                                         *)
(* A turn is a generator in a thread of the server's pool.  The tab reads  *)
(* its events from a stream that may break while the turn goes on; the     *)
(* user may then send again in the same session.  A script may post turns  *)
(* of any session to /agent/turn.  A text, a tool call or an entry is told *)
(* from the others only by the turn it belongs to.                         *)
(***************************************************************************)
EXTENDS Naturals, Sequences, SequencesExt

CONSTANTS
    MaxTurns,    \* bound: turns that are started
    MaxRounds,   \* max_iterations, 12 in the code
    MaxEdits,    \* bound: edits the user makes
    MaxFaults,   \* bound: broken streams, server crashes and full disks
    Scripts,     \* the turns that a script may post to /agent/turn
    None

ASSUME AgentAssumption ==
    /\ MaxTurns \in Nat /\ MaxEdits \in Nat /\ MaxFaults \in Nat
    /\ MaxRounds \in Nat \ {0}
    /\ Scripts \subseteq 1 .. MaxTurns /\ None \notin 1 .. MaxTurns

Turns     == 1 .. MaxTurns
\* new_session_id is random: a session is named after the turn that opens it.
Sessions  == Turns
UserEdits == {0} \X (1 .. MaxEdits)
ToolEdits == Turns \X (1 .. MaxRounds)
Designs   == SUBSET (UserEdits \cup ToolEdits)
\* The part of a design that the tools of turn t made.
EditsOf(t, design) == {e \in design : e[1] = t}

\* A line of a session file.  An append to a full disk may leave a torn one.
Line(role, t) == [role |-> role, turn |-> t]
Lines         == [role : {"user", "assistant", "torn"}, turn : Turns]

Events == {"session_start", "text_delta", "turn_complete", "error"}

VARIABLES
    turn,    \* turn -> its generator on the server
    file,    \* session -> the lines of sessions/<id>.jsonl, <<>> if there is none
    wire,    \* turn -> events of its stream that the tab has not read
    design,  \* the working design of the tab
    sid,     \* sessionId of the sidebar
    chat,    \* messages of the sidebar, one entry per question with its answer
    pending, \* the flag that disables the composer
    reading, \* turns whose stream a call of handleSend reads
    updated, \* those of them whose turn_complete has set updatedDesign
    edits,   \* edits of the user so far
    faults   \* faults so far

server == <<turn, file>>
calls  == <<pending, reading, updated>>
tab    == <<design, sid, chat, calls, edits>>
vars   == <<server, wire, tab, faults>>

Unsent == [pc |-> "unsent", via |-> "stream", sid |-> None, given |-> {},
           work |-> {}, seen |-> <<>>, round |-> 0]

Init ==
    /\ turn = [t \in Turns |-> Unsent]
    /\ file = [s \in Sessions |-> <<>>]
    /\ wire = [t \in Turns |-> <<>>]
    /\ design = {} /\ sid = None /\ chat = <<>>
    /\ pending = FALSE /\ reading = {} /\ updated = {}
    /\ edits = 0 /\ faults = 0

-----------------------------------------------------------------------------
(* The server.                                                             *)

Running(t) == turn[t].pc \in {"asked", "model", "tools", "append", "reply"}

\* What the turn yields goes to the stream, if the tab still reads it.
Yield(t, events) ==
    wire' = IF t \in reading THEN [wire EXCEPT ![t] = @ \o events] ELSE wire

\* run_turn has seen turn_complete; it raises where the turn ended without.
Completed(t) == turn[t].pc = "done"

Goto(t, pc) == turn' = [turn EXCEPT ![t].pc = pc]

\* FileSessionStore.load, whose json.loads raises on a torn line.
Loads(s) == \A i \in DOMAIN file[s] : file[s][i].role # "torn"

\* Mutant: the turn starts from a design of its own.
MutBeginIn(t, s) ==
    /\ turn' = [turn EXCEPT ![t].pc = "model", ![t].sid = s, ![t].seen = file[s]]
    /\ Yield(t, <<"session_start">>)

\* _initialize_turn and the first event.
BeginIn(t, s) ==
    /\ turn' = [turn EXCEPT ![t].pc = "model", ![t].sid = s,
                            ![t].work = turn[t].given, ![t].seen = file[s]]
    /\ Yield(t, <<"session_start">>)

Begin(t) ==
    /\ turn[t].pc = "asked"
    /\ LET s == IF turn[t].sid = None THEN t ELSE turn[t].sid IN
       IF Loads(s)
       THEN BeginIn(t, s)
       ELSE Goto(t, "failed") /\ Yield(t, <<"error">>)
    /\ UNCHANGED <<file, tab, faults>>

\* A response of the model that calls tools; its text is streamed.  The events
\* of the tools only decorate the bubble and are left out.
ModelCallsTools(t) ==
    /\ turn[t].pc = "model" /\ turn[t].round < MaxRounds
    /\ turn' = [turn EXCEPT ![t].pc = "tools", ![t].round = @ + 1]
    /\ Yield(t, <<"text_delta">>)
    /\ UNCHANGED <<file, tab, faults>>

\* A response that ends the turn, or the end of range(max_iterations).
ModelStops(t) ==
    /\ turn[t].pc = "model"
    /\ Goto(t, "append")
    /\ Yield(t, IF turn[t].round < MaxRounds THEN <<"text_delta">> ELSE <<>>)
    /\ UNCHANGED <<file, tab, faults>>

\* Mutant: an API error is swallowed.
MutSilentFailure(t) ==
    /\ turn[t].pc = "model" /\ turn[t].round < MaxRounds
    /\ Goto(t, "failed") /\ UNCHANGED wire
    /\ UNCHANGED <<file, tab, faults>>

\* anthropic.APIError, a timeout included: an error event and no more.
ModelFails(t) ==
    /\ turn[t].pc = "model" /\ turn[t].round < MaxRounds
    /\ Goto(t, "failed") /\ Yield(t, <<"error">>)
    /\ UNCHANGED <<file, tab, faults>>

\* execute_tool tells the model of a file that is not there and of arguments
\* that do not fit; other exceptions of a tool end the turn, and the endpoint
\* turns them into an error event.
ToolRaises(t) == Goto(t, "failed") /\ Yield(t, <<"error">>)

\* The tool calls of a response, on the turn's own copy of the design.  A round
\* that edits nothing is left out.
RunTools(t) ==
    /\ turn[t].pc = "tools"
    /\ \/ /\ turn' = [turn EXCEPT ![t].pc = "model", ![t].work = @ \cup {<<t, turn[t].round>>}]
          /\ UNCHANGED wire
       \/ ToolRaises(t)
    /\ UNCHANGED <<file, tab, faults>>

\* The outcomes of FileSessionStore.append: the line, or an OSError that leaves
\* a part of it or nothing.
AppendLine(t, role, then, events) ==
    LET s == turn[t].sid IN
    \/ /\ file' = [file EXCEPT ![s] = Append(@, Line(role, t))]
       /\ Goto(t, then) /\ Yield(t, events)
       /\ UNCHANGED faults
    \/ /\ faults < MaxFaults /\ faults' = faults + 1
       /\ \E part \in {<<>>, <<Line("torn", t)>>} : file' = [file EXCEPT ![s] = @ \o part]
       /\ Goto(t, "lost") /\ Yield(t, <<"error">>)

\* Mutant: the turn reports before it has saved its answer.
MutEarlyComplete(t) ==
    /\ turn[t].pc = "append"
    /\ AppendLine(t, "user", "reply", <<"turn_complete">>)
    /\ UNCHANGED tab

AppendUser(t) ==
    /\ turn[t].pc = "append"
    /\ AppendLine(t, "user", "reply", <<>>)
    /\ UNCHANGED tab

AppendReply(t) ==
    /\ turn[t].pc = "reply"
    /\ AppendLine(t, "assistant", "done", <<"turn_complete">>)
    /\ UNCHANGED tab

\* The server may notice that the client of a stream went away, and drops the
\* generator where it stands, at an event: the thread that runs from the last
\* event to turn_complete is waited for.
DropStream(t) ==
    /\ turn[t].via = "stream" /\ t \notin reading
    /\ turn[t].pc \in {"asked", "model", "tools", "append"}
    /\ Goto(t, "dropped")
    /\ UNCHANGED <<file, wire, tab, faults>>

-----------------------------------------------------------------------------
(* The sidebar.                                                            *)

Bubble(t) == [turn |-> t, state |-> "streaming", of |-> {}]

\* appendToLastAssistant: a message for a chat that was cleared is dropped.
OnLast(m) == chat' = IF chat = <<>> THEN chat ELSE [chat EXCEPT ![Len(chat)] = m]

LastErrs == OnLast([Last(chat) EXCEPT !.state = "error"])

NextTurn(t) == turn[t].pc = "unsent" /\ \A u \in 1 .. t - 1 : turn[u].pc # "unsent"

Ask(t, via, s, given) ==
    turn' = [turn EXCEPT ![t] = [Unsent EXCEPT !.pc = "asked", !.via = via,
                                               !.sid = s, !.given = given]]

\* handleSend up to its first await.
SendMessage(t) ==
    /\ ~pending /\ NextTurn(t)
    /\ pending' = TRUE /\ reading' = reading \cup {t} /\ UNCHANGED updated
    /\ chat' = Append(chat, Bubble(t))
    /\ Ask(t, "stream", sid, design)
    /\ UNCHANGED <<file, wire, design, sid, edits, faults>>

\* The call of handleSend for turn t is over: its finally.
Finish(t) ==
    /\ reading' = reading \ {t} /\ updated' = updated \ {t}
    /\ pending' = FALSE
    /\ wire' = [wire EXCEPT ![t] = <<>>]

\* The request is refused: no API key (503), the rate limit (429), no server.
RequestFails(t) ==
    /\ t \in reading /\ turn[t].pc = "asked"
    /\ Goto(t, "dropped") /\ Finish(t)
    /\ LastErrs
    /\ UNCHANGED <<file, design, sid, edits, faults>>

\* One turn of the for await loop.
ReadEvent(t) ==
    /\ t \in reading /\ wire[t] # <<>>
    /\ wire' = [wire EXCEPT ![t] = Tail(@)]
    /\ LET e == Head(wire[t])
           m == Last(chat) IN
       /\ sid' = IF e = "session_start" THEN turn[t].sid ELSE sid
       /\ updated' = IF e = "turn_complete" THEN updated \cup {t} ELSE updated
       /\ OnLast(CASE e = "text_delta"    -> [m EXCEPT !.of = @ \cup {t}]
                   [] e = "turn_complete" -> [m EXCEPT !.of = @ \cup {t}, !.state = "complete"]
                   [] e = "error"         -> [m EXCEPT !.of = @ \cup {t}, !.state = "error"]
                   [] OTHER               -> m)
    /\ UNCHANGED <<server, design, pending, reading, edits, faults>>

StreamEnded(t) ==
    wire[t] = <<>> /\ (Completed(t) \/ turn[t].pc \in {"failed", "lost"})

\* Mutant: the design of the tools so far, without a complete turn.
MutEndOfStream(t) ==
    /\ t \in reading /\ StreamEnded(t)
    /\ design' = turn[t].work
    /\ Finish(t)
    /\ UNCHANGED <<server, sid, chat, edits, faults>>

\* Mutant: the composer comes back only with a new design.
MutNoFinally(t) ==
    /\ t \in reading /\ StreamEnded(t) /\ t \in updated
    /\ design' = turn[t].work
    /\ Finish(t)
    /\ UNCHANGED <<server, sid, chat, edits, faults>>

\* The end of the stream: the design is swapped if the turn was complete
\* (handleAgentDesignReplaced).
EndOfStream(t) ==
    /\ t \in reading /\ StreamEnded(t)
    /\ design' = IF t \in updated THEN turn[t].work ELSE design
    /\ Finish(t)
    /\ UNCHANGED <<server, sid, chat, edits, faults>>

\* The connection breaks, handleSend's catch runs; the turn may run on.
StreamBreaks(t) ==
    /\ t \in reading
    /\ faults < MaxFaults /\ faults' = faults + 1
    /\ Finish(t)
    /\ LastErrs
    /\ UNCHANGED <<server, design, sid, edits>>

\* Mutant: New also gives the composer back.
MutNewSession ==
    /\ chat # <<>>
    /\ sid' = None /\ chat' = <<>> /\ pending' = FALSE
    /\ UNCHANGED <<server, wire, design, reading, updated, edits, faults>>

\* Mutant: New leaves the messages on screen.
MutKeepChat ==
    /\ chat # <<>>
    /\ sid' = None
    /\ UNCHANGED <<server, wire, design, calls, chat, edits, faults>>

\* handleNewSession: the New button works while a turn is pending.
NewSession ==
    /\ chat # <<>>
    /\ sid' = None /\ chat' = <<>>
    /\ UNCHANGED <<server, wire, design, calls, edits, faults>>

\* The user edits the design, whether a turn is pending or not.
EditDesign ==
    /\ edits < MaxEdits
    /\ edits' = edits + 1
    /\ design' = design \cup {<<0, edits + 1>>}
    /\ UNCHANGED <<server, wire, sid, chat, calls, faults>>

-----------------------------------------------------------------------------
(* Others, and faults.                                                     *)

\* POST /agent/turn: run_turn reads the same events and answers at the end.
\* A script names any session it has heard of.
PostTurn(t) ==
    /\ t \in Scripts /\ NextTurn(t)
    /\ \E s \in {None} \cup {turn[u].sid : u \in Turns} : Ask(t, "post", s, {})
    /\ UNCHANGED <<file, wire, tab, faults>>

\* The server goes down and comes back: its turns are gone, the files stay, and
\* the streams of the tab break.
CrashServer ==
    /\ \E t \in Turns : Running(t)
    /\ faults < MaxFaults /\ faults' = faults + 1
    /\ turn' = [t \in Turns |->
                 IF ~Running(t) THEN turn[t]
                 ELSE [turn[t] EXCEPT !.pc = IF @ = "reply" THEN "lost" ELSE "dropped"]]
    /\ IF reading # {}
       THEN /\ LastErrs
            /\ wire' = [t \in Turns |-> <<>>]
            /\ pending' = FALSE /\ reading' = {} /\ updated' = {}
       ELSE UNCHANGED <<wire, chat, calls>>
    /\ UNCHANGED <<file, design, sid, edits>>

-----------------------------------------------------------------------------
Step(t) ==
    \/ Begin(t) \/ ModelCallsTools(t) \/ ModelStops(t) \/ ModelFails(t)
    \/ RunTools(t) \/ AppendUser(t) \/ AppendReply(t)

Next ==
    \/ \E t \in Turns :
        \/ Step(t) \/ DropStream(t) \/ PostTurn(t)
        \/ SendMessage(t) \/ RequestFails(t)
        \/ ReadEvent(t) \/ EndOfStream(t) \/ StreamBreaks(t)
    \/ NewSession \/ EditDesign \/ CrashServer

Spec == Init /\ [][Next]_vars

\* A running turn takes its steps: the client of the model's API has a timeout,
\* and the pool runs its threads.  The tab reads what has arrived.
FairSpec ==
    /\ Spec
    /\ \A t \in Turns : WF_vars(Step(t)) /\ WF_vars(ReadEvent(t) \/ EndOfStream(t))

-----------------------------------------------------------------------------
TypeOK ==
    /\ turn \in [Turns -> [pc : {"unsent", "asked", "model", "tools", "append", "reply",
                                 "done", "failed", "lost", "dropped"},
                           via : {"stream", "post"}, sid : Sessions \cup {None},
                           given : Designs, work : Designs,
                           seen : Seq(Lines), round : 0 .. MaxRounds]]
    /\ file \in [Sessions -> Seq(Lines)]
    /\ wire \in [Turns -> Seq(Events)]
    /\ design \in Designs
    /\ sid \in Sessions \cup {None}
    /\ chat \in Seq([turn : Turns, state : {"streaming", "complete", "error"},
                     of : SUBSET Turns])
    /\ pending \in BOOLEAN
    /\ reading \subseteq Turns /\ updated \subseteq reading
    /\ edits \in 0 .. MaxEdits /\ faults \in 0 .. MaxFaults

TurnsOf(lines) == {lines[i].turn : i \in DOMAIN lines}

\* The question and the reply of turn t are there, in this order, once each.
Whole(t, lines) ==
    \E q, r \in DOMAIN lines :
        /\ q < r /\ lines[q] = Line("user", t) /\ lines[r] = Line("assistant", t)
        /\ \A i \in DOMAIN lines : lines[i].turn = t => i \in {q, r}

\* Where the reply of turn t is.
RepliesAt(t, lines) == {i \in DOMAIN lines : lines[i] = Line("assistant", t)}

\* A turn that the model's API, a tool or a broken stream ended has changed
\* neither its session nor the design of the tab, however many tools had run
\* and whatever other turns of the session did.
FailedTurnsLeaveNoTrace ==
    \A t \in Turns : turn[t].pc \in {"failed", "dropped"} =>
        /\ \A s \in Sessions : t \notin TurnsOf(file[s])
        /\ EditsOf(t, design) = {}

\* A turn that ran to its end is in its session whole, question before reply,
\* whatever other turns appended meanwhile; so is one whose reply the sidebar
\* shows as complete or whose edits are in the tab's design: the next turn is
\* told of what it finds done.
DoneMeansRemembered ==
    \A t \in Turns :
        \/ Completed(t)
        \/ EditsOf(t, design) # {}
        \/ \E i \in DOMAIN chat : chat[i].turn = t /\ chat[i].state = "complete"
        => Whole(t, file[turn[t].sid])

\* The model is told every exchange that the chat of the question shows as
\* complete, once and in the order the chat shows them.
ContextCoversChat ==
    \A t \in reading : turn[t].pc \notin {"asked", "dropped", "failed"} =>
        LET at(i) == RepliesAt(chat[i].turn, turn[t].seen)
            shown == {i \in DOMAIN chat : chat[i].state = "complete" /\ chat[i].turn # t}
        IN  \A i, j \in shown :
                /\ \E k \in DOMAIN turn[t].seen : at(i) = {k}
                /\ i < j => \A k \in at(i), l \in at(j) : k < l

\* A bubble holds words of its own turn only, though New may clear the chat in
\* the middle of a turn and the tab writes to whichever bubble is last.
RepliesInTheirOwnBubble ==
    \A i \in DOMAIN chat : chat[i].of \subseteq {chat[i].turn}

\* When the composer is free no bubble is still waiting for its reply.
IdleMeansSettled ==
    ~pending => \A i \in DOMAIN chat : chat[i].state # "streaming"

\* "Start a fresh conversation" (AgentSidebar.tsx:163): the first question after
\* New, and those that follow it in the chat, are told of no turn that the chat
\* does not show.
NewMeansFresh ==
    \A t \in reading :
        chat # <<>> /\ chat[Len(chat)].turn = t =>
            TurnsOf(turn[t].seen) \subseteq {chat[i].turn : i \in DOMAIN chat}

\* What a turn was asked about stays: an edit that was in the design when the
\* user sent a question is never lost to the answer, only an edit made while
\* the turn ran is.
LostEditsAreLate ==
    [][\A e \in design : e \notin design' =>
         \E t \in reading : t \notin reading' /\ e \notin turn[t].given]_vars

\* The composer comes back.
PendingEnds == pending ~> ~pending
=============================================================================
