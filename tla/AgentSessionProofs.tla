-------------------------- MODULE AgentSessionProofs --------------------------
(***************************************************************************)
(* Proofs about the sessions of AgentTurn: what a turn that is done leaves *)
(* in its session file, and that the model is told of every exchange the   *)
(* sidebar shows, whatever other turns append to the file meanwhile.       *)
(***************************************************************************)
EXTENDS AgentTurnProofs

-----------------------------------------------------------------------------
(* The invariant.                                                          *)

\* The question of turn t is there, once, and nothing else of the turn.
AskedIn(t, lines) ==
    \E q \in DOMAIN lines :
        /\ lines[q] = Line("user", t)
        /\ \A i \in DOMAIN lines : lines[i].turn = t => i = q

\* A turn leaves its lines in one session, one after the other.
Recorded(t) ==
    /\ turn[t].pc \in Began => turn[t].sid \in Sessions
    /\ turn[t].pc = "reply" => AskedIn(t, file[turn[t].sid])
    /\ turn[t].pc = "done" => Whole(t, file[turn[t].sid])

LinesAreKept == \A t \in Turns : Recorded(t)

\* What the sidebar shows as complete is done, and in the sidebar's session; no
\* turn has two bubbles.
Complete(i) == chat[i].state = "complete"
Sess(i)     == turn[chat[i].turn].sid

Known(i) ==
    /\ turn[chat[i].turn].pc # "unsent"
    /\ Complete(i) => turn[chat[i].turn].pc = "done" /\ Sess(i) = sid
    /\ \A j \in DOMAIN chat : chat[i].turn = chat[j].turn => i = j

ChatIsKnown == \A i \in DOMAIN chat : Known(i)

\* The turn that is read was asked in that session too ...
AskedAfter(t) == \A i \in DOMAIN chat : Complete(i) /\ chat[i].turn # t => turn[t].sid = Sess(i)

Addressed == \A t \in reading : AskedAfter(t)

\* ... and the sidebar has been told its session, or will be, first of all.
FirstWord(t) ==
    /\ turn[t].pc \in {"unsent", "asked"} => wire[t] = <<>>
    /\ t \in reading => turn[t].pc # "unsent"
    /\ t \in reading /\ turn[t].pc \in Began /\ chat # <<>> =>
        sid = turn[t].sid \/ (wire[t] # <<>> /\ wire[t][1] = "session_start")

Introduced == \A t \in Turns : FirstWord(t)

\* A reply that the sidebar shows was on file before those to later questions.
Precedes(i, j) ==
    Complete(i) /\ i < j =>
        \A k \in RepliesAt(chat[i].turn, file[Sess(i)]), l \in RepliesAt(chat[j].turn, file[Sess(i)]) :
            k < l

InOrder == \A i, j \in DOMAIN chat : Precedes(i, j)

\* What a turn is told, one bubble and two at a time.
Told(t) ==
    turn[t].pc \notin {"asked", "dropped", "failed"} =>
        \A i, j \in DOMAIN chat :
            /\ Complete(i) /\ chat[i].turn # t =>
                \E k \in DOMAIN turn[t].seen : RepliesAt(chat[i].turn, turn[t].seen) = {k}
            /\ Complete(i) /\ chat[i].turn # t /\ Complete(j) /\ chat[j].turn # t /\ i < j =>
                \A k \in RepliesAt(chat[i].turn, turn[t].seen),
                   l \in RepliesAt(chat[j].turn, turn[t].seen) : k < l

AllTold == \A t \in reading : Told(t)

SessionInv ==
    LinesAreKept /\ ChatIsKnown /\ Addressed /\ Introduced /\ InOrder /\ AllTold

LEMMA ToldIsContext == AllTold => ContextCoversChat
  BY DEF AllTold, Told, ContextCoversChat, Complete

-----------------------------------------------------------------------------
(* Session files grow at their end.                                        *)

LEMMA LineIs ==
    ASSUME NEW t \in Turns, NEW role \in {"user", "assistant", "torn"}
    PROVE  Line(role, t) \in Lines /\ Line(role, t).turn = t /\ Line(role, t).role = role
  BY DEF Line, Lines

LEMMA Longer ==
    ASSUME NEW lines \in Seq(Lines), NEW line \in Lines
    PROVE  /\ Append(lines, line) \in Seq(Lines) /\ Len(lines) \in Nat
           /\ DOMAIN lines = 1 .. Len(lines)
           /\ DOMAIN Append(lines, line) = 1 .. Len(lines) + 1
           /\ \A i \in 1 .. Len(lines) : Append(lines, line)[i] = lines[i]
           /\ Append(lines, line)[Len(lines) + 1] = line
  OBVIOUS

\* A line of another turn changes nothing.
LEMMA OthersLine ==
    ASSUME NEW t \in Turns, NEW lines \in Seq(Lines), NEW line \in Lines, line.turn # t
    PROVE  /\ AskedIn(t, lines) => AskedIn(t, Append(lines, line))
           /\ Whole(t, lines) => Whole(t, Append(lines, line))
           /\ RepliesAt(t, Append(lines, line)) = RepliesAt(t, lines)
<1>1. /\ Len(lines) \in Nat /\ DOMAIN lines = 1 .. Len(lines)
      /\ DOMAIN Append(lines, line) = 1 .. Len(lines) + 1
      /\ \A i \in 1 .. Len(lines) : Append(lines, line)[i] = lines[i]
      /\ Append(lines, line)[Len(lines) + 1] = line
  BY Longer
<1>2. line # Line("assistant", t)
  BY LineIs
<1>3. AskedIn(t, lines) => AskedIn(t, Append(lines, line))
  BY <1>1 DEF AskedIn
<1>4. Whole(t, lines) => Whole(t, Append(lines, line))
  BY <1>1 DEF Whole
<1>5. RepliesAt(t, Append(lines, line)) = RepliesAt(t, lines)
  BY <1>1, <1>2 DEF RepliesAt
<1>6. QED
  BY <1>3, <1>4, <1>5

\* A reply that is appended comes after all that are there.
LEMMA LaterReply ==
    ASSUME NEW t \in Turns, NEW lines \in Seq(Lines), NEW line \in Lines,
           NEW k \in RepliesAt(t, Append(lines, line))
    PROVE  k \in RepliesAt(t, lines) \/ \A l \in DOMAIN lines : l < k
<1>1. /\ Len(lines) \in Nat /\ DOMAIN lines = 1 .. Len(lines)
      /\ DOMAIN Append(lines, line) = 1 .. Len(lines) + 1
      /\ \A i \in 1 .. Len(lines) : Append(lines, line)[i] = lines[i]
  BY Longer
<1>2. QED
  BY <1>1 DEF RepliesAt

LEMMA QuestionLine ==
    ASSUME NEW t \in Turns, NEW lines \in Seq(Lines), t \notin TurnsOf(lines)
    PROVE  AskedIn(t, Append(lines, Line("user", t)))
<1>1. Line("user", t) \in Lines
  BY LineIs
<1>2. QED
  BY <1>1, Longer DEF AskedIn, TurnsOf

LEMMA ReplyLine ==
    ASSUME NEW t \in Turns, NEW lines \in Seq(Lines), AskedIn(t, lines)
    PROVE  Whole(t, Append(lines, Line("assistant", t)))
<1>1. Line("assistant", t) \in Lines
  BY LineIs
<1>2. PICK q \in DOMAIN lines : /\ lines[q] = Line("user", t)
                                /\ \A i \in DOMAIN lines : lines[i].turn = t => i = q
  BY DEF AskedIn
<1>3. q < Len(lines) + 1
  BY <1>1, <1>2, Longer
<1>4. QED
  BY <1>1, <1>2, <1>3, Longer DEF Whole

\* There is one reply in a session that has a turn whole.
LEMMA OneReply ==
    ASSUME NEW t \in Turns, NEW lines \in Seq(Lines), Whole(t, lines)
    PROVE  \E k \in DOMAIN lines : RepliesAt(t, lines) = {k}
<1>1. PICK q \in DOMAIN lines, r \in DOMAIN lines :
        /\ q < r /\ lines[q] = Line("user", t) /\ lines[r] = Line("assistant", t)
        /\ \A i \in DOMAIN lines : lines[i].turn = t => i \in {q, r}
  BY DEF Whole
<1>2. Line("user", t) # Line("assistant", t) /\ Line("assistant", t).turn = t
  BY DEF Line
<1>3. RepliesAt(t, lines) = {r}
  BY <1>1, <1>2 DEF RepliesAt
<1>4. QED
  BY <1>3

\* In a step, the files stay or get a line of turn t.
FilesGrow(t) ==
    /\ file' \in [Sessions -> Seq(Lines)]
    /\ \A s \in Sessions :
        file'[s] = file[s] \/ \E line \in Lines : line.turn = t /\ file'[s] = Append(file[s], line)

-----------------------------------------------------------------------------
(* Steps that add no bubble and complete none.                             *)

\* A bubble of the chat was there before, and complete before if it is now.
OldBubble(i) ==
    i \in DOMAIN chat /\ chat'[i].turn = chat[i].turn /\ (Complete(i)' => Complete(i))

\* A turn keeps its session and what it was told.
Stays(u) ==
    /\ turn[u].pc # "unsent" => turn'[u].pc # "unsent"
    /\ turn[u].pc = "done" => turn'[u] = turn[u]
    /\ u \in reading' /\ turn[u].sid # None => turn'[u].sid = turn[u].sid

LEMMA ChatTypes ==
    ASSUME AgentInv
    PROVE  /\ DOMAIN chat = 1 .. Len(chat) /\ Len(chat) \in Nat
           /\ \A i \in DOMAIN chat : chat[i].turn \in Turns
           /\ turn \in [Turns -> TurnType] /\ file \in [Sessions -> Seq(Lines)]
           /\ wire \in [Turns -> Seq(Events)] /\ reading \subseteq Turns
<1>1. /\ turn \in [Turns -> TurnType] /\ chat \in Seq(BubbleType)
      /\ wire \in [Turns -> Seq(Events)] /\ file \in [Sessions -> Seq(Lines)]
  BY Unfolded DEF AgentInv
<1>2. \A i \in 1 .. Len(chat) : chat[i] \in BubbleType
  BY <1>1
<1>3. \A i \in 1 .. Len(chat) : chat[i].turn \in Turns
  BY <1>2 DEF BubbleType
<1>4. DOMAIN chat = 1 .. Len(chat) /\ Len(chat) \in Nat
  BY <1>1
<1>5. reading \subseteq Turns
  BY DEF AgentInv, TypeOK
<1>6. QED
  BY <1>1, <1>3, <1>4, <1>5

LEMMA NoneIsNoSession == None \notin Sessions
  BY AgentAssumption DEF Sessions, Turns

LEMMA CompleteIs ==
    ASSUME AgentInv, SessionInv, NEW i \in DOMAIN chat, Complete(i)
    PROVE  /\ chat[i].turn \in Turns /\ turn[chat[i].turn].pc = "done" /\ Sess(i) = sid
           /\ Sess(i) \in Sessions /\ Whole(chat[i].turn, file[Sess(i)])
<1>1. chat[i].turn \in Turns /\ turn[chat[i].turn].pc = "done" /\ Sess(i) = sid
  BY ChatTypes DEF SessionInv, ChatIsKnown, Known
<1>2. Recorded(chat[i].turn)
  BY <1>1 DEF SessionInv, LinesAreKept
<1>3. QED
  BY <1>1, <1>2 DEF Recorded, Sess, Began

LEMMA ChatKept ==
    ASSUME AgentInv, SessionInv, \A i \in DOMAIN chat' : OldBubble(i), \A u \in Turns : Stays(u),
           chat' = <<>> \/ sid' = sid, reading' \subseteq reading
    PROVE  ChatIsKnown' /\ Addressed'
<1>1. ASSUME NEW i \in DOMAIN chat', Complete(i)'
      PROVE  /\ Complete(i) /\ Sess(i)' = Sess(i) /\ Sess(i) \in Sessions
             /\ turn'[chat'[i].turn].pc = "done"
  <2>1. i \in DOMAIN chat /\ Complete(i) /\ chat'[i].turn = chat[i].turn
    BY <1>1 DEF OldBubble
  <2>2. chat[i].turn \in Turns /\ turn[chat[i].turn].pc = "done" /\ Sess(i) \in Sessions
    BY <2>1, CompleteIs
  <2>3. turn'[chat[i].turn] = turn[chat[i].turn]
    BY <2>2 DEF Stays
  <2>4. QED
    BY <2>1, <2>2, <2>3 DEF Sess
<1>2. ASSUME NEW i \in DOMAIN chat' PROVE Known(i)'
  <2>1. i \in DOMAIN chat /\ chat'[i].turn = chat[i].turn /\ chat[i].turn \in Turns
        /\ \A j \in DOMAIN chat' : j \in DOMAIN chat /\ chat'[j].turn = chat[j].turn
    BY <1>2, ChatTypes DEF OldBubble
  <2>2. Known(i)
    BY <2>1 DEF SessionInv, ChatIsKnown
  <2>3. turn'[chat'[i].turn].pc # "unsent"
    BY <2>1, <2>2 DEF Known, Stays
  <2>4. chat' # <<>>
    BY <1>2
  <2>5. Complete(i)' => turn'[chat'[i].turn].pc = "done" /\ Sess(i)' = sid'
    BY <1>1, <2>1, <2>2, <2>4 DEF Known
  <2>6. QED
    BY <2>1, <2>2, <2>3, <2>5 DEF Known
<1>3. ASSUME NEW t \in reading', NEW i \in DOMAIN chat', Complete(i)', chat'[i].turn # t
      PROVE  turn'[t].sid = Sess(i)'
  <2>1. Complete(i) /\ Sess(i)' = Sess(i) /\ Sess(i) \in Sessions
    BY <1>1, <1>3
  <2>2. i \in DOMAIN chat /\ chat[i].turn # t
    BY <1>3 DEF OldBubble
  <2>3. t \in reading /\ t \in Turns
    BY <1>3, ChatTypes
  <2>4. turn[t].sid = Sess(i)
    BY <2>1, <2>2, <2>3 DEF SessionInv, Addressed, AskedAfter
  <2>5. turn'[t].sid = turn[t].sid
    BY <1>3, <2>1, <2>3, <2>4, NoneIsNoSession DEF Stays
  <2>6. QED
    BY <2>1, <2>4, <2>5
<1>4. QED
  BY <1>2, <1>3 DEF ChatIsKnown, Addressed, AskedAfter

LEMMA OrderKept ==
    ASSUME AgentInv, SessionInv, \A i \in DOMAIN chat' : OldBubble(i), \A u \in Turns : Stays(u),
           file' = file \/ \E t \in Turns : turn[t].pc # "done" /\ FilesGrow(t)
    PROVE  InOrder'
<1> SUFFICES ASSUME NEW i \in DOMAIN chat', NEW j \in DOMAIN chat', Complete(i)', i < j,
                    NEW k \in RepliesAt(chat'[i].turn, file'[Sess(i)']),
                    NEW l \in RepliesAt(chat'[j].turn, file'[Sess(i)'])
             PROVE  k < l
  BY DEF InOrder, Precedes
<1>1. /\ i \in DOMAIN chat /\ j \in DOMAIN chat /\ Complete(i)
      /\ chat'[i].turn = chat[i].turn /\ chat'[j].turn = chat[j].turn
  BY DEF OldBubble
<1>2. /\ chat[i].turn \in Turns /\ turn[chat[i].turn].pc = "done"
      /\ Sess(i) \in Sessions /\ chat[j].turn \in Turns
  BY <1>1, CompleteIs, ChatTypes
<1>3. Sess(i)' = Sess(i)
  BY <1>1, <1>2 DEF Sess, Stays
<1>4. ASSUME NEW x \in RepliesAt(chat[i].turn, file[Sess(i)]),
             NEW y \in RepliesAt(chat[j].turn, file[Sess(i)])
      PROVE  x < y
  BY <1>1 DEF SessionInv, InOrder, Precedes
<1>5. CASE file'[Sess(i)] = file[Sess(i)]
  BY <1>1, <1>3, <1>4, <1>5
<1>6. ASSUME NEW line \in Lines, line.turn # chat[i].turn,
             file'[Sess(i)] = Append(file[Sess(i)], line)
      PROVE  k < l
  <2>1. file[Sess(i)] \in Seq(Lines)
    BY <1>2, ChatTypes
  <2>2. k \in RepliesAt(chat[i].turn, file[Sess(i)])
    BY <1>1, <1>2, <1>3, <1>6, <2>1, OthersLine
  <2>3. l \in RepliesAt(chat[j].turn, file[Sess(i)]) \/ \A x \in DOMAIN file[Sess(i)] : x < l
    BY <1>1, <1>2, <1>3, <1>6, <2>1, LaterReply
  <2>4. k \in DOMAIN file[Sess(i)]
    BY <2>2 DEF RepliesAt
  <2>5. QED
    BY <1>4, <2>2, <2>3, <2>4
<1>7. QED
  BY <1>2, <1>5, <1>6 DEF FilesGrow

\* What a turn was told does not change, nor what of it has to be there.
LEMMA ToldKept ==
    ASSUME NEW t, Told(t), \A i \in DOMAIN chat' : OldBubble(i), turn'[t].seen = turn[t].seen,
           turn'[t].pc \notin {"asked", "dropped", "failed"} =>
               turn[t].pc \notin {"asked", "dropped", "failed"}
    PROVE  Told(t)'
<1> SUFFICES ASSUME turn'[t].pc \notin {"asked", "dropped", "failed"},
                    NEW i \in DOMAIN chat', NEW j \in DOMAIN chat'
             PROVE
            /\ Complete(i)' /\ chat'[i].turn # t =>
                \E k \in DOMAIN turn[t].seen : RepliesAt(chat[i].turn, turn[t].seen) = {k}
            /\ Complete(i)' /\ chat'[i].turn # t /\ Complete(j)' /\ chat'[j].turn # t /\ i < j =>
                \A k \in RepliesAt(chat[i].turn, turn[t].seen),
                   l \in RepliesAt(chat[j].turn, turn[t].seen) : k < l
  BY DEF Told, OldBubble
<1>1. OldBubble(i) /\ OldBubble(j)
  OBVIOUS
<1>2. QED
  BY <1>1 DEF Told, OldBubble

LEMMA RecordedKept ==
    ASSUME AgentInv, SessionInv, NEW u \in Turns, turn'[u].sid = turn[u].sid,
           turn'[u].pc \in Began => turn'[u].pc = turn[u].pc,
           file' = file \/ \E t \in Turns \ {u} : FilesGrow(t)
    PROVE  Recorded(u)'
<1>1. CASE turn'[u].pc \notin Began
  BY <1>1 DEF Recorded, Began
<1>2. CASE turn'[u].pc \in Began
  <2>1. Recorded(u) /\ turn[u].sid \in Sessions /\ file[turn[u].sid] \in Seq(Lines)
    BY <1>2, ChatTypes DEF SessionInv, LinesAreKept, Recorded
  <2>2. \/ file'[turn[u].sid] = file[turn[u].sid]
        \/ \E line \in Lines : /\ line.turn # u
                               /\ file'[turn[u].sid] = Append(file[turn[u].sid], line)
    BY <2>1 DEF FilesGrow
  <2>3. /\ AskedIn(u, file[turn[u].sid]) => AskedIn(u, file'[turn[u].sid])
        /\ Whole(u, file[turn[u].sid]) => Whole(u, file'[turn[u].sid])
    BY <2>1, <2>2, OthersLine
  <2>4. QED
    BY <1>2, <2>1, <2>3 DEF Recorded
<1>3. QED
  BY <1>1, <1>2

\* A step of the server for one turn, if it does its part for that one.
Others(t) == \A u \in Turns \ {t} : turn'[u] = turn[u] /\ wire'[u] = wire[u]

LEMMA ServerKeeps ==
    ASSUME AgentInv, SessionInv, NEW t \in Turns, Running(t), Others(t),
           UNCHANGED <<chat, sid, reading>>, turn'[t].pc # "unsent",
           turn[t].sid # None => turn'[t].sid = turn[t].sid,
           file' = file \/ FilesGrow(t), Recorded(t)', FirstWord(t)',
           t \in reading /\ Told(t) => Told(t)'
    PROVE  SessionInv'
<1>1. turn[t].pc \notin {"unsent", "done"}
  BY DEF Running
<1>2. \A u \in Turns : Stays(u)
  BY <1>1 DEF Others, Stays
<1>3. \A i \in DOMAIN chat' : OldBubble(i)
  BY DEF OldBubble, Complete
<1>4. ChatIsKnown' /\ Addressed'
  BY <1>2, <1>3, ChatKept
<1>5. InOrder'
  BY <1>1, <1>2, <1>3, OrderKept
<1>6. ASSUME NEW u \in Turns \ {t} PROVE Recorded(u)' /\ FirstWord(u)'
  <2>1. turn'[u] = turn[u] /\ wire'[u] = wire[u]
    BY DEF Others
  <2>2. Recorded(u)'
    BY <2>1, RecordedKept
  <2>3. FirstWord(u)'
    BY <2>1 DEF SessionInv, Introduced, FirstWord
  <2>4. QED
    BY <2>2, <2>3
<1>7. ASSUME NEW u \in reading', u # t PROVE Told(u)'
  <2>1. u \in reading /\ u \in Turns
    BY <1>7, ChatTypes
  <2>2. Told(u) /\ turn'[u] = turn[u]
    BY <1>7, <2>1 DEF SessionInv, AllTold, Others
  <2>3. QED
    BY <1>3, <2>2, ToldKept
<1>8. t \in reading' => Told(t)'
  BY DEF SessionInv, AllTold
<1>9. QED
  BY <1>4, <1>5, <1>6, <1>7, <1>8 DEF SessionInv, LinesAreKept, Introduced, AllTold

LEMMA GotoIs ==
    ASSUME AgentInv, NEW t \in Turns, NEW pc, Goto(t, pc)
    PROVE  /\ turn'[t].pc = pc /\ turn'[t].sid = turn[t].sid /\ turn'[t].seen = turn[t].seen
           /\ \A u \in Turns \ {t} : turn'[u] = turn[u]
<1>1. turn \in [Turns -> TurnType] /\ turn[t] \in TurnType
  BY ChatTypes
<1>2. turn' = [turn EXCEPT ![t] = [turn[t] EXCEPT !.pc = pc]]
  BY DEF Goto
<1>3. turn'[t] = [turn[t] EXCEPT !.pc = pc] /\ \A u \in Turns \ {t} : turn'[u] = turn[u]
  BY <1>1, <1>2
<1>4. QED
  BY <1>1, <1>3 DEF TurnType

LEMMA YieldIs ==
    ASSUME AgentInv, NEW t \in Turns, NEW events \in Seq(Events), Yield(t, events)
    PROVE  /\ \A u \in Turns \ {t} : wire'[u] = wire[u]
           /\ wire[t] # <<>> => wire'[t] # <<>> /\ wire'[t][1] = wire[t][1]
           /\ t \in reading /\ wire[t] = <<>> => wire'[t] = events
<1>1. wire \in [Turns -> Seq(Events)]
  BY ChatTypes
<1>2. /\ \A u \in Turns \ {t} : wire'[u] = wire[u]
      /\ wire'[t] = IF t \in reading THEN wire[t] \o events ELSE wire[t]
  BY <1>1 DEF Yield
<1>3. wire[t] # <<>> =>
        Len(wire[t] \o events) # 0 /\ (wire[t] \o events)[1] = wire[t][1]
  BY <1>1
<1>4. wire[t] = <<>> => wire[t] \o events = events
  BY <1>1
<1>5. wire[t] # <<>> => wire[t] \o events # <<>>
  BY <1>3
<1>6. QED
  BY <1>2, <1>3, <1>4, <1>5

\* The first word stays the first.
LEMMA FirstKept ==
    ASSUME AgentInv, SessionInv, NEW t \in Turns, NEW events \in Seq(Events), Yield(t, events),
           UNCHANGED <<chat, sid, reading>>, turn'[t].sid = turn[t].sid,
           turn'[t].pc \notin {"unsent", "asked"},
           turn'[t].pc \in Began => turn[t].pc \in Began
    PROVE  FirstWord(t)'
<1>1. FirstWord(t) /\ (wire[t] # <<>> => wire'[t] # <<>> /\ wire'[t][1] = wire[t][1])
  BY YieldIs DEF SessionInv, Introduced
<1>2. QED
  BY <1>1 DEF FirstWord

\* A step of a turn that has begun, and appends no line.
LEMMA TurnGoesOn ==
    ASSUME AgentInv, SessionInv, NEW t \in Turns, Running(t), NEW events \in Seq(Events),
           Yield(t, events), UNCHANGED <<tab, file>>,
           \A u \in Turns \ {t} : turn'[u] = turn[u],
           turn'[t].sid = turn[t].sid, turn'[t].seen = turn[t].seen,
           turn'[t].pc \in {"model", "tools", "append", "failed", "dropped"},
           turn'[t].pc \in Began => turn[t].pc \in Began
    PROVE  SessionInv'
<1>1. UNCHANGED <<chat, sid, reading>>
  BY DEF tab, calls
<1>2. Others(t)
  BY YieldIs DEF Others
<1>3. FirstWord(t)'
  BY <1>1, FirstKept
<1>4. Recorded(t)'
  <2>1. turn[t].pc \in Began => turn[t].sid \in Sessions
    BY DEF SessionInv, LinesAreKept, Recorded
  <2>2. QED
    BY <2>1 DEF Recorded
<1>5. Told(t) => Told(t)'
  <2>1. \A i \in DOMAIN chat' : OldBubble(i)
    BY <1>1 DEF OldBubble, Complete
  <2>2. turn[t].pc \in Began \/ turn[t].pc = "asked"
    BY DEF Running, Began
  <2>3. QED
    BY <2>1, <2>2, ToldKept DEF Began
<1>6. QED
  BY <1>1, <1>2, <1>3, <1>4, <1>5, ServerKeeps

-----------------------------------------------------------------------------
(* The steps of the server.                                                *)

\* A turn is told of the whole session, so of all that the chat shows.
LEMMA BeginInSession ==
    ASSUME AgentInv, SessionInv, NEW t \in Turns, NEW s \in Sessions, turn[t].pc = "asked",
           s = (IF turn[t].sid = None THEN t ELSE turn[t].sid), BeginIn(t, s),
           UNCHANGED <<tab, file>>
    PROVE  SessionInv'
<1>1. /\ turn'[t].pc = "model" /\ turn'[t].sid = s /\ turn'[t].seen = file[s]
      /\ \A u \in Turns \ {t} : turn'[u] = turn[u]
  <2>1. turn[t] \in TurnType /\ turn \in [Turns -> TurnType]
    BY ChatTypes
  <2>2. turn' = [turn EXCEPT ![t] = [turn[t] EXCEPT !.pc = "model", !.sid = s,
                                       !.work = turn[t].given, !.seen = file[s]]]
    BY DEF BeginIn
  <2>3. turn'[t] = [turn[t] EXCEPT !.pc = "model", !.sid = s,
                                   !.work = turn[t].given, !.seen = file[s]]
    BY <2>1, <2>2
  <2>4. QED
    BY <2>1, <2>2, <2>3 DEF TurnType
<1>2. UNCHANGED <<chat, sid, reading>> /\ Running(t)
  BY DEF tab, calls, Running
<1>3. <<"session_start">> \in Seq(Events) /\ <<"session_start">> # <<>>
      /\ <<"session_start">>[1] = "session_start"
  BY DEF Events
<1>4. Others(t) /\ (t \in reading => wire'[t] = <<"session_start">>)
  <2>1. wire[t] = <<>>
    BY DEF SessionInv, Introduced, FirstWord
  <2>2. QED
    BY <1>1, <1>3, <2>1, YieldIs DEF BeginIn, Others
<1>5. FirstWord(t)'
  BY <1>1, <1>2, <1>3, <1>4 DEF FirstWord
<1>6. Recorded(t)'
  BY <1>1 DEF Recorded
<1>7. t \in reading => Told(t)'
  <2> SUFFICES ASSUME t \in reading, NEW i \in DOMAIN chat, NEW j \in DOMAIN chat,
                      Complete(i), chat[i].turn # t
               PROVE  /\ \E k \in DOMAIN file[s] : RepliesAt(chat[i].turn, file[s]) = {k}
                      /\ Complete(j) /\ chat[j].turn # t /\ i < j =>
                          \A k \in RepliesAt(chat[i].turn, file[s]),
                             l \in RepliesAt(chat[j].turn, file[s]) : k < l
    BY <1>1, <1>2 DEF Told, Complete
  <2>1. turn[t].sid = Sess(i) /\ Sess(i) \in Sessions /\ Whole(chat[i].turn, file[Sess(i)])
        /\ chat[i].turn \in Turns
    BY CompleteIs DEF SessionInv, Addressed, AskedAfter
  <2>2. s = Sess(i)
    BY <2>1, NoneIsNoSession
  <2>3. \E k \in DOMAIN file[s] : RepliesAt(chat[i].turn, file[s]) = {k}
    BY <2>1, <2>2, ChatTypes, OneReply
  <2>4. Precedes(i, j)
    BY DEF SessionInv, InOrder
  <2>5. QED
    BY <2>2, <2>3, <2>4 DEF Precedes
<1>8. turn[t].sid # None => turn'[t].sid = turn[t].sid
  BY <1>1
<1>9. QED
  BY <1>1, <1>2, <1>4, <1>5, <1>6, <1>7, <1>8, ServerKeeps

\* A line that is appended is the turn's next, or the turn is over.
LEMMA AppendKeeps ==
    ASSUME AgentInv, SessionInv, NEW t \in Turns, NEW role \in {"user", "assistant"},
           NEW then \in {"reply", "done"}, NEW events \in Seq(Events),
           role = "user" => turn[t].pc = "append" /\ then = "reply",
           role = "assistant" => turn[t].pc = "reply" /\ then = "done",
           AppendLine(t, role, then, events), UNCHANGED tab
    PROVE  SessionInv'
<1> DEFINE s == turn[t].sid
<1>1. s \in Sessions /\ file[s] \in Seq(Lines) /\ Running(t) /\ turn[t].pc \in Began
      /\ file \in [Sessions -> Seq(Lines)] /\ Recorded(t)
  <2>1. turn[t].pc \in Began /\ Running(t) /\ Recorded(t)
    BY DEF Began, Running, SessionInv, LinesAreKept
  <2>2. QED
    BY <2>1, ChatTypes DEF Recorded
<1>2. UNCHANGED <<chat, sid, reading>>
  BY DEF tab, calls
<1>3. ASSUME NEW pc \in {"reply", "done", "lost"}, NEW words \in Seq(Events),
             Goto(t, pc), Yield(t, words), file' = file \/ FilesGrow(t),
             pc \in {"reply", "done"} => Recorded(t)'
      PROVE  SessionInv'
  <2>1. /\ turn'[t].pc = pc /\ turn'[t].sid = turn[t].sid /\ turn'[t].seen = turn[t].seen
        /\ \A u \in Turns \ {t} : turn'[u] = turn[u]
    BY <1>3, GotoIs
  <2>2. Others(t)
    BY <1>3, <2>1, YieldIs DEF Others
  <2>3. FirstWord(t)'
    BY <1>1, <1>2, <1>3, <2>1, FirstKept
  <2>4. Recorded(t)'
    BY <1>3, <2>1 DEF Recorded, Began
  <2>5. Told(t) => Told(t)'
    <3>1. \A i \in DOMAIN chat' : OldBubble(i)
      BY <1>2 DEF OldBubble, Complete
    <3>2. QED
      BY <1>1, <2>1, <3>1, ToldKept DEF Began
  <2>6. QED
    BY <1>1, <1>2, <1>3, <2>1, <2>2, <2>3, <2>4, <2>5, ServerKeeps
<1> HIDE DEF s
<1>4. ASSUME NEW line \in Lines, line.turn = t, file' = [file EXCEPT ![s] = Append(@, line)]
      PROVE  FilesGrow(t) /\ file'[s] = Append(file[s], line)
  <2>1. file'[s] = Append(file[s], line) /\ Append(file[s], line) \in Seq(Lines)
        /\ \A q \in Sessions \ {s} : file'[q] = file[q]
    BY <1>1, <1>4
  <2>2. file' \in [Sessions -> Seq(Lines)]
    BY <1>1, <1>4, <2>1
  <2>3. QED
    BY <1>4, <2>1, <2>2 DEF FilesGrow
<1>5. CASE /\ file' = [file EXCEPT ![s] = Append(@, Line(role, t))]
           /\ Goto(t, then) /\ Yield(t, events)
  <2>1. Line(role, t) \in Lines /\ Line(role, t).turn = t
    BY LineIs
  <2>2. FilesGrow(t) /\ file'[s] = Append(file[s], Line(role, t))
    BY <1>4, <1>5, <2>1
  <2>3. turn'[t].pc = then /\ turn'[t].sid = s
    BY <1>5, GotoIs DEF s
  <2>4. Recorded(t)'
    <3>1. CASE role = "user"
      <4>1. t \notin TurnsOf(file[s])
        BY <1>1, <3>1 DEF AgentInv, NoLineYet, Silent
      <4>2. AskedIn(t, file'[s])
        BY <1>1, <2>2, <3>1, <4>1, QuestionLine
      <4>3. QED
        BY <1>1, <2>3, <3>1, <4>2 DEF Recorded
    <3>2. CASE role = "assistant"
      <4>1. AskedIn(t, file[s])
        BY <1>1, <3>2 DEF Recorded, s
      <4>2. Whole(t, file'[s])
        BY <1>1, <2>2, <3>2, <4>1, ReplyLine
      <4>3. QED
        BY <1>1, <2>3, <3>2, <4>2 DEF Recorded
    <3>3. QED
      BY <3>1, <3>2
  <2>5. QED
    BY <1>3, <1>5, <2>2, <2>4
<1>6. CASE /\ \E part \in {<<>>, <<Line("torn", t)>>} : file' = [file EXCEPT ![s] = @ \o part]
           /\ Goto(t, "lost") /\ Yield(t, <<"error">>)
  <2>1. Line("torn", t) \in Lines /\ Line("torn", t).turn = t /\ <<"error">> \in Seq(Events)
    BY LineIs DEF Events
  <2>2. file[s] \o <<>> = file[s] /\ file[s] \o <<Line("torn", t)>> = Append(file[s], Line("torn", t))
    BY <1>1, <2>1
  <2>3. file' = file \/ file' = [file EXCEPT ![s] = Append(@, Line("torn", t))]
    BY <1>1, <1>6, <2>2
  <2>4. file' = file \/ FilesGrow(t)
    BY <1>4, <2>1, <2>3
  <2>5. QED
    BY <1>3, <1>6, <2>1, <2>4
<1>7. QED
  BY <1>5, <1>6 DEF AppendLine, s

LEMMA StepSession ==
    ASSUME AgentInv, SessionInv, NEW t \in Turns, Step(t) \/ DropStream(t)
    PROVE  SessionInv'
<1>1. /\ <<>> \in Seq(Events) /\ <<"error">> \in Seq(Events) /\ <<"text_delta">> \in Seq(Events)
      /\ <<"turn_complete">> \in Seq(Events)
  BY DEF Events
<1>2. ASSUME NEW pc \in {"model", "tools", "append", "failed", "dropped"},
             NEW events \in Seq(Events), Goto(t, pc), Yield(t, events), UNCHANGED <<tab, file>>,
             Running(t), pc \in Began => turn[t].pc \in Began
      PROVE  SessionInv'
  BY <1>2, GotoIs, TurnGoesOn
<1>3. CASE Begin(t)
  <2> DEFINE s == IF turn[t].sid = None THEN t ELSE turn[t].sid
  <2>1. s \in Sessions /\ turn[t].pc = "asked" /\ Running(t) /\ UNCHANGED <<tab, file>>
    <3>1. turn[t] \in TurnType
      BY ChatTypes
    <3>2. QED
      BY <1>3, <3>1 DEF Begin, TurnType, Sessions, Running
  <2>2. BeginIn(t, s) \/ (Goto(t, "failed") /\ Yield(t, <<"error">>))
    BY <1>3 DEF Begin
  <2> HIDE DEF s
  <2>3. CASE BeginIn(t, s)
    BY <2>1, <2>3, BeginInSession DEF s
  <2>4. CASE Goto(t, "failed") /\ Yield(t, <<"error">>)
    BY <1>1, <1>2, <2>1, <2>4 DEF Began
  <2>5. QED
    BY <2>2, <2>3, <2>4
<1>4. ASSUME NEW r, turn' = [turn EXCEPT ![t] = r], r.pc \in {"model", "tools"},
             r.sid = turn[t].sid, r.seen = turn[t].seen,
             NEW events \in Seq(Events), Yield(t, events), UNCHANGED <<tab, file>>,
             turn[t].pc \in {"model", "tools"}
      PROVE  SessionInv'
  <2>1. turn'[t] = r /\ \A u \in Turns \ {t} : turn'[u] = turn[u]
    BY <1>4, ChatTypes
  <2>2. Running(t) /\ turn[t].pc \in Began
    BY <1>4 DEF Running, Began
  <2>3. QED
    BY <1>4, <2>1, <2>2, TurnGoesOn
<1>5. CASE ModelCallsTools(t)
  <2> DEFINE r == [turn[t] EXCEPT !.pc = "tools", !.round = turn[t].round + 1]
  <2>1. turn[t] \in TurnType
    BY ChatTypes
  <2>2. r.pc = "tools" /\ r.sid = turn[t].sid /\ r.seen = turn[t].seen
    BY <2>1 DEF TurnType
  <2>3. turn' = [turn EXCEPT ![t] = r]
    BY <1>5 DEF ModelCallsTools
  <2> HIDE DEF r
  <2>4. QED
    BY <1>1, <1>4, <1>5, <2>2, <2>3 DEF ModelCallsTools
<1>6. CASE ModelStops(t)
  <2>1. PICK events \in {<<>>, <<"text_delta">>} : Yield(t, events)
    BY <1>6 DEF ModelStops
  <2>2. QED
    BY <1>1, <1>2, <1>6, <2>1 DEF ModelStops, Running, Began
<1>7. CASE ModelFails(t)
  BY <1>1, <1>2, <1>7 DEF ModelFails, Running, Began
<1>8. CASE RunTools(t) /\ ToolRaises(t)
  BY <1>1, <1>2, <1>8 DEF RunTools, ToolRaises, Running, Began
<1>9. CASE /\ RunTools(t) /\ UNCHANGED wire
           /\ turn' = [turn EXCEPT ![t].pc = "model", ![t].work = @ \cup {<<t, turn[t].round>>}]
  <2> DEFINE r == [turn[t] EXCEPT !.pc = "model", !.work = @ \cup {<<t, turn[t].round>>}]
  <2>1. turn[t] \in TurnType
    BY ChatTypes
  <2>2. r.pc = "model" /\ r.sid = turn[t].sid /\ r.seen = turn[t].seen
    BY <2>1 DEF TurnType
  <2>3. turn' = [turn EXCEPT ![t] = r]
    BY <1>9
  <2> HIDE DEF r
  <2>4. Yield(t, <<>>)
    BY <1>9, ChatTypes DEF Yield
  <2>5. QED
    BY <1>1, <1>4, <1>9, <2>2, <2>3, <2>4 DEF RunTools
<1>10. CASE AppendUser(t)
  BY <1>1, <1>10, AppendKeeps DEF AppendUser
<1>11. CASE AppendReply(t)
  BY <1>1, <1>11, AppendKeeps DEF AppendReply
<1>12. CASE DropStream(t)
  <2>1. Yield(t, <<>>)
    BY <1>12 DEF DropStream, Yield
  <2>2. QED
    BY <1>1, <1>2, <1>12, <2>1 DEF DropStream, Running, Began
<1>13. QED
  BY <1>3, <1>5, <1>6, <1>7, <1>8, <1>9, <1>10, <1>11, <1>12 DEF Step, RunTools

-----------------------------------------------------------------------------
(* The steps of the tab and of others.                                     *)

\* A turn stays as it is, or is cut off where it stands.
Cut(u) ==
    /\ turn'[u].sid = turn[u].sid /\ turn'[u].seen = turn[u].seen
    /\ turn'[u] = turn[u] \/ (Running(u) /\ turn'[u].pc \in {"dropped", "lost"})

\* A stream stays as it is, or is closed.
Closed(u) == wire'[u] = wire[u] \/ (wire'[u] = <<>> /\ u \notin reading')

LEMMA TabKeeps ==
    ASSUME AgentInv, SessionInv, \A u \in Turns : Cut(u) /\ Closed(u), file' = file,
           \A i \in DOMAIN chat' : OldBubble(i), chat # <<>> \/ chat' = <<>>,
           chat' = <<>> \/ sid' = sid, reading' \subseteq reading,
           \A u \in reading' : turn'[u] = turn[u]
    PROVE  SessionInv'
<1>1. \A u \in Turns : Stays(u)
  BY DEF Cut, Stays, Running
<1>2. ChatIsKnown' /\ Addressed'
  BY <1>1, ChatKept
<1>3. InOrder'
  BY <1>1, OrderKept
<1>4. ASSUME NEW u \in Turns PROVE Recorded(u)' /\ FirstWord(u)'
  <2>1. Cut(u) /\ Closed(u) /\ FirstWord(u)
    BY DEF SessionInv, Introduced
  <2>2. Recorded(u)'
    BY <2>1, RecordedKept DEF Cut, Began
  <2>3. FirstWord(u)'
    BY <2>1 DEF FirstWord, Cut, Closed, Began
  <2>4. QED
    BY <2>2, <2>3
<1>5. ASSUME NEW u \in reading' PROVE Told(u)'
  <2>1. Told(u) /\ turn'[u] = turn[u]
    BY DEF SessionInv, AllTold
  <2>2. QED
    BY <2>1, ToldKept
<1>6. QED
  BY <1>2, <1>3, <1>4, <1>5 DEF SessionInv, LinesAreKept, Introduced, AllTold

\* A turn that is asked, of a session that the sidebar is in if it will read it.
LEMMA AskIs ==
    ASSUME AgentInv, NEW t \in Turns, NEW via, NEW s, NEW given, Ask(t, via, s, given)
    PROVE  /\ turn'[t].pc = "asked" /\ turn'[t].sid = s
           /\ \A u \in Turns \ {t} : turn'[u] = turn[u]
<1>1. turn \in [Turns -> TurnType]
  BY ChatTypes
<1>2. turn'[t] = [Unsent EXCEPT !.pc = "asked", !.via = via, !.sid = s, !.given = given]
      /\ \A u \in Turns \ {t} : turn'[u] = turn[u]
  BY <1>1 DEF Ask
<1>3. QED
  BY <1>2 DEF Unsent

LEMMA PostTurnSession ==
    ASSUME AgentInv, SessionInv, NEW t \in Turns, PostTurn(t) PROVE SessionInv'
<1>1. turn[t].pc = "unsent" /\ UNCHANGED <<file, wire, sid, chat, reading>>
  BY DEF PostTurn, NextTurn, tab, calls
<1>2. /\ turn'[t].pc = "asked" /\ \A u \in Turns \ {t} : turn'[u] = turn[u]
  BY AskIs DEF PostTurn
<1>3. FirstWord(t)
  BY DEF SessionInv, Introduced
<1>4. t \notin reading
  BY <1>1, <1>3 DEF FirstWord
<1>5. \A i \in DOMAIN chat' : OldBubble(i)
  BY <1>1 DEF OldBubble, Complete
<1>6. \A u \in Turns : Stays(u)
  BY <1>1, <1>2, <1>4 DEF Stays
<1>7. ChatIsKnown' /\ Addressed'
  BY <1>1, <1>5, <1>6, ChatKept
<1>8. InOrder'
  BY <1>1, <1>5, <1>6, OrderKept
<1>9. ASSUME NEW u \in Turns PROVE Recorded(u)' /\ FirstWord(u)'
  <2>1. CASE u = t
    BY <1>1, <1>2, <1>3, <1>4, <2>1 DEF Recorded, FirstWord, Began
  <2>2. CASE u # t
    <3>1. Recorded(u)'
      BY <1>1, <1>2, <2>2, RecordedKept
    <3>2. FirstWord(u)'
      BY <1>1, <1>2, <2>2 DEF SessionInv, Introduced, FirstWord
    <3>3. QED
      BY <3>1, <3>2
  <2>3. QED
    BY <2>1, <2>2
<1>10. ASSUME NEW u \in reading' PROVE Told(u)'
  <2>1. u \in Turns \ {t} /\ Told(u)
    BY <1>1, <1>4, ChatTypes DEF SessionInv, AllTold
  <2>2. QED
    BY <1>2, <1>5, <2>1, ToldKept
<1>11. QED
  BY <1>7, <1>8, <1>9, <1>10 DEF SessionInv, LinesAreKept, Introduced, AllTold

LEMMA SendMessageSession ==
    ASSUME AgentInv, SessionInv, NEW t \in Turns, SendMessage(t) PROVE SessionInv'
<1>1. /\ turn[t].pc = "unsent" /\ reading = {} /\ reading' = {t}
      /\ chat' = Append(chat, Bubble(t)) /\ Ask(t, "stream", sid, design)
      /\ UNCHANGED <<file, wire, sid>>
  BY DEF SendMessage, NextTurn, AgentInv, OneCall
<1>2. /\ turn'[t].pc = "asked" /\ turn'[t].sid = sid
      /\ \A u \in Turns \ {t} : turn'[u] = turn[u]
  BY <1>1, AskIs
<1>3. Bubble(t).turn = t /\ Bubble(t).state = "streaming"
  BY DEF Bubble
<1>4. /\ DOMAIN chat' = 1 .. Len(chat) + 1 /\ chat'[Len(chat) + 1] = Bubble(t)
      /\ Len(chat) \in Nat /\ DOMAIN chat = 1 .. Len(chat)
      /\ \A i \in 1 .. Len(chat) : chat'[i] = chat[i]
  BY <1>1, Unfolded DEF AgentInv
<1>5. ASSUME NEW i \in DOMAIN chat
      PROVE  /\ chat[i].turn \in Turns \ {t} /\ chat'[i] = chat[i] /\ Known(i)
             /\ turn'[chat[i].turn] = turn[chat[i].turn]
  <2>1. Known(i) /\ chat[i].turn \in Turns
    BY ChatTypes DEF SessionInv, ChatIsKnown
  <2>2. QED
    BY <1>1, <1>2, <1>4, <2>1 DEF Known
<1>6. ASSUME NEW i \in DOMAIN chat', Complete(i)'
      PROVE  i \in DOMAIN chat /\ Complete(i) /\ Sess(i)' = Sess(i) /\ Sess(i) = sid
             /\ turn[chat[i].turn].pc = "done" /\ Sess(i) \in Sessions
  <2>1. i \in DOMAIN chat
    BY <1>3, <1>4, <1>6 DEF Complete
  <2>2. Complete(i) /\ Sess(i)' = Sess(i)
    BY <1>5, <1>6, <2>1 DEF Complete, Sess
  <2>3. QED
    BY <2>1, <2>2, CompleteIs
<1>7. ChatIsKnown'
  <2> SUFFICES ASSUME NEW i \in DOMAIN chat' PROVE Known(i)'
    BY DEF ChatIsKnown
  <2>1. turn'[chat'[i].turn].pc # "unsent"
    BY <1>2, <1>3, <1>4, <1>5 DEF Known
  <2>2. Complete(i)' => turn'[chat'[i].turn].pc = "done" /\ Sess(i)' = sid'
    BY <1>1, <1>5, <1>6
  <2>3. ASSUME NEW j \in DOMAIN chat', chat'[i].turn = chat'[j].turn PROVE i = j
    <3>1. CASE i \in DOMAIN chat /\ j \in DOMAIN chat
      BY <1>5, <2>3, <3>1 DEF Known
    <3>2. CASE i \notin DOMAIN chat \/ j \notin DOMAIN chat
      BY <1>3, <1>4, <1>5, <2>3, <3>2
    <3>3. QED
      BY <3>1, <3>2
  <2>4. QED
    BY <2>1, <2>2, <2>3 DEF Known
<1>8. Addressed'
  BY <1>1, <1>2, <1>6 DEF Addressed, AskedAfter
<1>9. InOrder'
  <2> SUFFICES ASSUME NEW i \in DOMAIN chat', NEW j \in DOMAIN chat', Complete(i)', i < j
               PROVE  Precedes(i, j)'
    BY DEF InOrder, Precedes
  <2>1. i \in DOMAIN chat /\ Complete(i) /\ Sess(i)' = Sess(i) /\ Sess(i) \in Sessions
    BY <1>6
  <2>2. CASE j \in DOMAIN chat
    BY <1>1, <1>5, <2>1, <2>2 DEF SessionInv, InOrder, Precedes
  <2>3. CASE j \notin DOMAIN chat
    <3>1. chat'[j].turn = t
      BY <1>3, <1>4, <2>3
    <3>2. t \notin TurnsOf(file[Sess(i)])
      BY <1>1, <2>1 DEF AgentInv, NoLineYet, Silent
    <3>3. RepliesAt(t, file[Sess(i)]) = {}
      BY <3>2, LineIs DEF RepliesAt, TurnsOf
    <3>4. QED
      BY <1>1, <2>1, <3>1, <3>3 DEF Precedes
  <2>4. QED
    BY <2>2, <2>3
<1>10. ASSUME NEW u \in Turns PROVE Recorded(u)' /\ FirstWord(u)'
  <2>1. CASE u = t
    BY <1>1, <1>2, <2>1 DEF SessionInv, Introduced, Recorded, FirstWord, Began
  <2>2. CASE u # t
    <3>1. Recorded(u)'
      BY <1>1, <1>2, <2>2, RecordedKept
    <3>2. FirstWord(u)'
      BY <1>1, <1>2, <2>2 DEF SessionInv, Introduced, FirstWord
    <3>3. QED
      BY <3>1, <3>2
  <2>3. QED
    BY <2>1, <2>2
<1>11. AllTold'
  BY <1>1, <1>2 DEF AllTold, Told
<1>12. QED
  BY <1>7, <1>8, <1>9, <1>10, <1>11 DEF SessionInv, LinesAreKept, Introduced

\* What reading an event does to the chat: the last bubble may become complete,
\* if its turn is done.
LEMMA ReadEventIs ==
    ASSUME AgentInv, SessionInv, NEW t \in Turns, ReadEvent(t)
    PROVE  /\ t \in reading /\ UNCHANGED <<turn, file, reading>>
           /\ \A u \in reading : u = t
           /\ sid' = IF wire[t][1] = "session_start" THEN turn[t].sid ELSE sid
           /\ \A u \in Turns \ {t} : wire'[u] = wire[u]
           /\ wire[t] # <<>>
           /\ DOMAIN chat' = DOMAIN chat
           /\ chat = <<>> <=> chat' = <<>>
           /\ \A i \in DOMAIN chat :
                /\ chat'[i].turn = chat[i].turn
                /\ i # Len(chat) => chat'[i] = chat[i]
                /\ i = Len(chat) => chat[i].turn = t
                /\ chat'[i].state = "complete" /\ chat[i].state # "complete" =>
                    wire[t][1] = "turn_complete" /\ turn[t].pc = "done"
<1> DEFINE e == Head(wire[t])
           m == chat[Len(chat)]
           n == CASE e = "text_delta"    -> [m EXCEPT !.of = @ \cup {t}]
                  [] e = "turn_complete" -> [m EXCEPT !.of = @ \cup {t}, !.state = "complete"]
                  [] e = "error"         -> [m EXCEPT !.of = @ \cup {t}, !.state = "error"]
                  [] OTHER               -> m
<1>1. /\ turn \in [Turns -> TurnType] /\ chat \in Seq(BubbleType)
      /\ wire \in [Turns -> Seq(Events)]
  BY Unfolded DEF AgentInv
<1>2. /\ t \in reading /\ wire[t] # <<>> /\ wire' = [wire EXCEPT ![t] = Tail(@)]
      /\ sid' = IF e = "session_start" THEN turn[t].sid ELSE sid
      /\ UNCHANGED <<turn, file, reading>>
  BY DEF ReadEvent, server
<1>3. e = wire[t][1] /\ (\A u \in reading : u = t) /\ \A u \in Turns \ {t} : wire'[u] = wire[u]
  BY <1>1, <1>2 DEF AgentInv, OneCall
<1>4. e = "turn_complete" => turn[t].pc = "done"
  <2>1. 1 \in 1 .. Len(wire[t])
    BY <1>1, <1>2
  <2>2. QED
    BY <1>3, <2>1 DEF AgentInv, Honest, Says
<1>5. CASE chat = <<>>
  <2>1. chat' = <<>>
    BY <1>5 DEF ReadEvent, OnLast
  <2>2. QED
    BY <1>2, <1>3, <1>5, <2>1
<1>6. CASE chat # <<>>
  <2>1. m \in BubbleType /\ m.turn = t /\ Len(chat) \in Nat \ {0}
    BY <1>1, <1>2, <1>6 DEF AgentInv, LastIsRead
  <2>2. /\ n.turn = t
        /\ n.state = "complete" => m.state = "complete" \/ e = "turn_complete"
    <3> HIDE DEF m, e
    <3>1. QED
      BY <2>1 DEF BubbleType
  <2>3. chat' = [chat EXCEPT ![Len(chat)] = n]
    BY <1>6 DEF ReadEvent, OnLast, Last
  <2>4. DOMAIN chat = 1 .. Len(chat) /\ DOMAIN chat' = DOMAIN chat /\ chat' # <<>>
    BY <1>1, <2>1, <2>3
  <2> HIDE DEF n
  <2>5. chat'[Len(chat)] = n /\ \A i \in DOMAIN chat : i # Len(chat) => chat'[i] = chat[i]
    BY <2>1, <2>3, <2>4
  <2>6. ASSUME NEW i \in DOMAIN chat
        PROVE  /\ chat'[i].turn = chat[i].turn
               /\ i # Len(chat) => chat'[i] = chat[i]
               /\ i = Len(chat) => chat[i].turn = t
               /\ chat'[i].state = "complete" /\ chat[i].state # "complete" =>
                   e = "turn_complete" /\ turn[t].pc = "done"
    BY <1>4, <2>1, <2>2, <2>5
  <2> HIDE DEF m, e
  <2>7. QED
    BY <1>2, <1>3, <1>6, <2>4, <2>6
<1>7. QED
  BY <1>5, <1>6

LEMMA ReadEventSession ==
    ASSUME AgentInv, SessionInv, NEW t \in Turns, ReadEvent(t) PROVE SessionInv'
<1>1. /\ t \in reading /\ UNCHANGED <<turn, file, reading>>
      /\ \A u \in reading : u = t
      /\ sid' = IF wire[t][1] = "session_start" THEN turn[t].sid ELSE sid
      /\ \A u \in Turns \ {t} : wire'[u] = wire[u]
      /\ wire[t] # <<>>
      /\ DOMAIN chat' = DOMAIN chat
      /\ chat = <<>> <=> chat' = <<>>
  BY ReadEventIs
<1>2. ASSUME NEW i \in DOMAIN chat
      PROVE  /\ chat'[i].turn = chat[i].turn /\ Sess(i)' = Sess(i)
             /\ i # Len(chat) => chat'[i] = chat[i]
             /\ i = Len(chat) => chat[i].turn = t
             /\ Complete(i)' /\ ~Complete(i) =>
                 i = Len(chat) /\ wire[t][1] = "turn_complete" /\ turn[t].pc = "done"
  BY <1>1, ReadEventIs DEF Complete, Sess
<1>3. ASSUME NEW i \in DOMAIN chat PROVE Known(i)'
  <2>1. Known(i) /\ FirstWord(t) /\ chat # <<>>
    BY DEF SessionInv, ChatIsKnown, Introduced
  <2>2. Complete(i)' => turn[chat[i].turn].pc = "done" /\ Sess(i) = sid'
    <3>1. CASE Complete(i)' /\ ~Complete(i)
      <4>1. turn[t].pc = "done" /\ sid' = sid /\ Sess(i) = turn[t].sid
            /\ turn[chat[i].turn].pc = "done"
        BY <1>1, <1>2, <3>1 DEF Sess
      <4>2. sid = turn[t].sid
        BY <1>1, <1>2, <2>1, <3>1, <4>1 DEF FirstWord, Began
      <4>3. QED
        BY <4>1, <4>2
    <3>2. CASE Complete(i)
      <4>1. turn[chat[i].turn].pc = "done" /\ Sess(i) = sid
        BY <2>1, <3>2 DEF Known
      <4>2. Sess(i) = turn[t].sid
        BY <1>1, <3>2 DEF SessionInv, Addressed, AskedAfter, Sess
      <4>3. QED
        BY <1>1, <4>1, <4>2
    <3>3. QED
      BY <3>1, <3>2
  <2>3. QED
    BY <1>1, <1>2, <2>1, <2>2 DEF Known
<1>4. Addressed'
  <2> SUFFICES ASSUME NEW i \in DOMAIN chat, Complete(i)', chat'[i].turn # t
               PROVE  turn'[t].sid = Sess(i)'
    BY <1>1 DEF Addressed, AskedAfter
  <2>1. Complete(i) /\ chat[i].turn # t
    BY <1>2
  <2>2. QED
    BY <1>1, <1>2, <2>1 DEF SessionInv, Addressed, AskedAfter
<1>5. InOrder'
  <2> SUFFICES ASSUME NEW i \in DOMAIN chat, NEW j \in DOMAIN chat, Complete(i)', i < j
               PROVE  Precedes(i, j)'
    BY <1>1 DEF InOrder, Precedes
  <2>1. i # Len(chat)
    BY ChatTypes
  <2>2. Complete(i) /\ Precedes(i, j)
    BY <1>2, <2>1 DEF SessionInv, InOrder
  <2>3. QED
    BY <1>1, <1>2, <2>2 DEF Precedes
<1>6. ASSUME NEW u \in Turns PROVE Recorded(u)' /\ FirstWord(u)'
  <2>1. Recorded(u) /\ FirstWord(u)
    BY DEF SessionInv, LinesAreKept, Introduced
  <2>2. Recorded(u)'
    BY <1>1, <2>1 DEF Recorded
  <2>3. CASE u = t
    <3>1. turn[t].pc \notin {"unsent", "asked"}
      BY <1>1, <2>1, <2>3 DEF FirstWord
    <3>2. turn[t].pc \in Began /\ chat' # <<>> => sid' = turn[t].sid
      BY <1>1, <2>1, <2>3 DEF FirstWord
    <3>3. QED
      BY <1>1, <2>2, <2>3, <3>1, <3>2 DEF FirstWord
  <2>4. CASE u # t
    BY <1>1, <2>1, <2>2, <2>4 DEF FirstWord
  <2>5. QED
    BY <2>3, <2>4
<1>7. AllTold'
  <2>1. Told(t)
    BY <1>1 DEF SessionInv, AllTold
  <2>2. \A i \in DOMAIN chat : /\ chat'[i].turn = chat[i].turn
                               /\ Complete(i)' /\ chat[i].turn # t => Complete(i)
    BY <1>2
  <2>3. Told(t)'
    BY <1>1, <2>1, <2>2 DEF Told
  <2>4. QED
    BY <1>1, <2>3 DEF AllTold
<1>8. QED
  BY <1>1, <1>3, <1>4, <1>5, <1>6, <1>7 DEF SessionInv, LinesAreKept, ChatIsKnown, Introduced

LEMMA LastErrsIs ==
    ASSUME AgentInv, LastErrs
    PROVE  (\A i \in DOMAIN chat' : OldBubble(i)) /\ (chat # <<>> \/ chat' = <<>>)
<1>1. /\ chat \in Seq(BubbleType) /\ chat' \in Seq(BubbleType) /\ Len(chat') = Len(chat)
      /\ chat = <<>> => chat' = <<>>
      /\ \A i \in 1 .. Len(chat) :
            /\ chat'[i].turn = chat[i].turn
            /\ chat'[i].state = IF i = Len(chat) THEN "error" ELSE chat[i].state
  BY Unfolded, ErrorOnLast DEF AgentInv
<1>2. DOMAIN chat = 1 .. Len(chat) /\ DOMAIN chat' = 1 .. Len(chat)
  BY <1>1
<1>3. QED
  BY <1>1, <1>2 DEF OldBubble, Complete

LEMMA FinishIs ==
    ASSUME AgentInv, NEW t \in reading, Finish(t)
    PROVE  reading' = {} /\ \A u \in Turns : Closed(u)
<1>1. reading' = {} /\ t \in Turns /\ wire' = [wire EXCEPT ![t] = <<>>]
  BY DEF Finish, AgentInv, OneCall, TypeOK
<1>2. QED
  BY <1>1, ChatTypes DEF Closed

LEMMA TabSession ==
    ASSUME AgentInv, SessionInv,
           \/ \E t \in Turns : RequestFails(t) \/ EndOfStream(t) \/ StreamBreaks(t)
           \/ NewSession \/ EditDesign \/ CrashServer
    PROVE  SessionInv'
<1>1. ASSUME turn' = turn PROVE \A u \in Turns : Cut(u)
  BY <1>1 DEF Cut
<1>2. ASSUME chat' = chat PROVE (\A i \in DOMAIN chat' : OldBubble(i)) /\ (chat # <<>> \/ chat' = <<>>)
  BY <1>2 DEF OldBubble, Complete
<1>3. ASSUME NEW t \in Turns, RequestFails(t) PROVE SessionInv'
  <2>1. t \in reading /\ Finish(t) /\ LastErrs /\ Goto(t, "dropped") /\ file' = file /\ sid' = sid
        /\ turn[t].pc = "asked"
    BY <1>3 DEF RequestFails
  <2>2. \A u \in Turns : Cut(u)
    BY <2>1, GotoIs DEF Cut, Running
  <2>3. QED
    BY <2>1, <2>2, LastErrsIs, FinishIs, TabKeeps
<1>4. ASSUME NEW t \in Turns, EndOfStream(t) PROVE SessionInv'
  <2>1. t \in reading /\ Finish(t) /\ turn' = turn /\ file' = file /\ sid' = sid /\ chat' = chat
    BY <1>4 DEF EndOfStream, server
  <2>2. QED
    BY <1>1, <1>2, <2>1, FinishIs, TabKeeps
<1>5. ASSUME NEW t \in Turns, StreamBreaks(t) PROVE SessionInv'
  <2>1. t \in reading /\ Finish(t) /\ LastErrs /\ turn' = turn /\ file' = file /\ sid' = sid
    BY <1>5 DEF StreamBreaks, server
  <2>2. QED
    BY <1>1, <2>1, LastErrsIs, FinishIs, TabKeeps
<1>6. CASE NewSession
  <2>1. chat' = <<>> /\ UNCHANGED <<turn, file, wire, reading>>
    BY <1>6 DEF NewSession, server, calls
  <2>2. (\A i \in DOMAIN chat' : OldBubble(i)) /\ \A u \in Turns : Closed(u)
    BY <2>1 DEF Closed
  <2>3. QED
    BY <1>1, <2>1, <2>2, TabKeeps
<1>7. CASE EditDesign
  <2>1. UNCHANGED <<turn, file, wire, reading, chat, sid>>
    BY <1>7 DEF EditDesign, server, calls
  <2>2. \A u \in Turns : Closed(u)
    BY <2>1 DEF Closed
  <2>3. QED
    BY <1>1, <1>2, <2>1, <2>2, TabKeeps
<1>8. CASE CrashServer
  <2>1. file' = file /\ sid' = sid
    BY <1>8 DEF CrashServer
  <2>2. ASSUME NEW u \in Turns PROVE Cut(u)
    <3>1. turn'[u] = IF ~Running(u) THEN turn[u]
                     ELSE [turn[u] EXCEPT !.pc = IF @ = "reply" THEN "lost" ELSE "dropped"]
      BY <1>8 DEF CrashServer
    <3>2. turn[u] \in TurnType
      BY ChatTypes
    <3>3. QED
      BY <3>1, <3>2 DEF Cut, TurnType
  <2>3. CASE reading = {}
    <3>1. UNCHANGED <<wire, chat, reading>>
      BY <1>8, <2>3 DEF CrashServer, calls
    <3>2. \A u \in Turns : Closed(u)
      BY <3>1 DEF Closed
    <3>3. QED
      BY <1>2, <2>1, <2>2, <2>3, <3>1, <3>2, TabKeeps
  <2>4. CASE reading # {}
    <3>1. LastErrs /\ reading' = {} /\ \A u \in Turns : wire'[u] = <<>>
      BY <1>8, <2>4 DEF CrashServer
    <3>2. \A u \in Turns : Closed(u)
      BY <3>1 DEF Closed
    <3>3. QED
      BY <2>1, <2>2, <3>1, <3>2, LastErrsIs, TabKeeps
  <2>5. QED
    BY <2>3, <2>4
<1>9. QED
  BY <1>3, <1>4, <1>5, <1>6, <1>7, <1>8

-----------------------------------------------------------------------------
(* The invariant, and what it is for.                                      *)

LEMMA InitSessionInv == Init => SessionInv
<1> SUFFICES ASSUME Init PROVE SessionInv
  OBVIOUS
<1>1. \A t \in Turns : turn[t].pc = "unsent" /\ wire[t] = <<>>
  BY DEF Init, Unsent
<1>2. chat = <<>> /\ reading = {}
  BY DEF Init
<1>3. LinesAreKept
  BY <1>1 DEF LinesAreKept, Recorded, Began
<1>4. Introduced
  BY <1>1, <1>2 DEF Introduced, FirstWord
<1>5. QED
  BY <1>2, <1>3, <1>4 DEF SessionInv, ChatIsKnown, Addressed, InOrder, AllTold

LEMMA SessionInvStep == ASSUME AgentInv, SessionInv, [Next]_vars PROVE SessionInv'
<1>1. CASE UNCHANGED vars
  <2>1. UNCHANGED <<turn, file, wire, chat, sid, reading>>
    BY <1>1 DEF vars, server, tab, calls
  <2>2. \A u \in Turns : Cut(u) /\ Closed(u)
    BY <2>1 DEF Cut, Closed
  <2>3. \A i \in DOMAIN chat' : OldBubble(i)
    BY <2>1 DEF OldBubble, Complete
  <2>4. QED
    BY <2>1, <2>2, <2>3, TabKeeps
<1>2. CASE Next
  BY <1>2, StepSession, PostTurnSession, SendMessageSession, ReadEventSession, TabSession
     DEF Next
<1>3. QED
  BY <1>1, <1>2

\* How the turns, the session files, the streams and the chat agree, whatever
\* scripts, broken streams, crashes and full disks do (agent/agent.py,
\* agent/session.py and AgentSidebar.tsx).
THEOREM SessionInvHolds == Spec => []SessionInv
  BY AgentInvHolds, InitSessionInv, SessionInvStep, PTL DEF Spec

\* A turn that is done, shown as complete or found in the design is in its
\* session, question before reply, once each.
THEOREM DoneIsRemembered == Spec => []DoneMeansRemembered
<1>1. AgentInv /\ SessionInv => DoneMeansRemembered
  <2> SUFFICES ASSUME AgentInv, SessionInv, NEW t \in Turns,
                      \/ Completed(t) \/ EditsOf(t, design) # {}
                      \/ \E i \in DOMAIN chat : chat[i].turn = t /\ chat[i].state = "complete"
               PROVE  Whole(t, file[turn[t].sid])
    BY DEF DoneMeansRemembered
  <2>1. EditsOf(t, design) # {} => turn[t].pc = "done"
    BY DEF EditsOf, AgentInv, Provenance, Settled, Turns
  <2>2. turn[t].pc = "done"
    BY <2>1, CompleteIs DEF Completed, Complete
  <2>3. QED
    BY <2>2 DEF SessionInv, LinesAreKept, Recorded
<1>2. QED
  BY <1>1, AgentInvHolds, SessionInvHolds, PTL

\* The model is told each exchange that the chat shows as complete, once and in
\* the order of the chat, also when a script, or a turn whose stream broke,
\* wrote to the same session in between.
THEOREM ChatIsTold == Spec => []ContextCoversChat
<1>1. SessionInv => ContextCoversChat
  BY ToldIsContext DEF SessionInv
<1>2. QED
  BY <1>1, SessionInvHolds, PTL
=============================================================================
