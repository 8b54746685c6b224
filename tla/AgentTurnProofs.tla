--------------------------- MODULE AgentTurnProofs ---------------------------
(***************************************************************************)
(* Proofs about AgentTurn: for every number of turns, rounds, edits and    *)
(* faults.                                                                 *)
(***************************************************************************)
EXTENDS AgentTurn, TLAPS

PC == {"unsent", "asked", "model", "tools", "append", "reply",
       "done", "failed", "lost", "dropped"}

TurnType ==
    [pc : PC, via : {"stream", "post"}, sid : Sessions \cup {None},
     given : Designs, work : Designs, seen : Seq(Lines), round : 0 .. MaxRounds]

BubbleType == [turn : Turns, state : {"streaming", "complete", "error"}, of : SUBSET Turns]

Began  == {"model", "tools", "append", "reply", "done"}
Over   == {"done", "failed", "lost"}
Silent == {"unsent", "asked", "model", "tools", "append", "failed", "dropped"}

Says(events, e) == \E i \in 1 .. Len(events) : events[i] = e

-----------------------------------------------------------------------------
(* The invariant.                                                          *)

\* Tools run in a round that has begun.
RoundBegun == \A t \in Turns : turn[t].pc = "tools" => turn[t].round # 0

\* The composer is disabled while one call of handleSend runs ...
OneCall ==
    /\ pending <=> reading # {}
    /\ \A t, u \in reading : t = u

\* ... whose bubble is the last one, unless New took it away, ...
LastIsRead == \A t \in reading : chat # <<>> => chat[Len(chat)].turn = t

\* ... the only one that may wait for its reply, ...
OnlyLastStreams ==
    \A i \in 1 .. Len(chat) : chat[i].state = "streaming" => i = Len(chat) /\ reading # {}

\* ... and that will get one, if its turn is over.
EndIsNear ==
    \A t \in reading :
        turn[t].pc \in Over /\ chat # <<>> =>
            \/ chat[Len(chat)].state # "streaming"
            \/ Says(wire[t], "turn_complete") \/ Says(wire[t], "error")

\* Only a turn that is done says so.
Honest ==
    \A t \in Turns : t \in updated \/ Says(wire[t], "turn_complete") => turn[t].pc = "done"

\* A turn works on what it was given.
GivenIsKept ==
    \A t \in Turns : turn[t].pc \in Began => turn[t].given \subseteq turn[t].work

\* The tab holds edits of the user and of turns that are done, and a turn those
\* and its own.
Settled(e) == e[1] = 0 \/ (e[1] \in Turns /\ turn[e[1]].pc = "done")

Provenance ==
    /\ \A e \in design : Settled(e)
    /\ \A t \in Turns :
        /\ \A e \in turn[t].given : Settled(e)
        /\ \A e \in turn[t].work : e[1] = t \/ Settled(e)

\* A turn that has not come to its append has no line in any session.
NoLineYet ==
    \A t \in Turns : turn[t].pc \in Silent => \A s \in Sessions : t \notin TurnsOf(file[s])

AgentInv ==
    /\ TypeOK /\ RoundBegun
    /\ OneCall /\ LastIsRead /\ RepliesInTheirOwnBubble /\ OnlyLastStreams /\ EndIsNear
    /\ Honest /\ GivenIsKept /\ Provenance /\ NoLineYet

LEMMA Unfolded ==
    ASSUME TypeOK
    PROVE  /\ turn \in [Turns -> TurnType] /\ chat \in Seq(BubbleType)
           /\ wire \in [Turns -> Seq(Events)] /\ file \in [Sessions -> Seq(Lines)]
  BY DEF TypeOK, TurnType, BubbleType, PC

LEMMA Folded ==
    ASSUME turn' \in [Turns -> TurnType], chat' \in Seq(BubbleType),
           wire' \in [Turns -> Seq(Events)], file' \in [Sessions -> Seq(Lines)],
           design' \in Designs, sid' \in Sessions \cup {None}, pending' \in BOOLEAN,
           reading' \subseteq Turns, updated' \subseteq reading',
           edits' \in 0 .. MaxEdits, faults' \in 0 .. MaxFaults
    PROVE  TypeOK'
  BY DEF TypeOK, TurnType, BubbleType, PC

-----------------------------------------------------------------------------
(* A step of the server takes one turn on.                                 *)

LEMMA SaysConcat ==
    ASSUME NEW a \in Seq(Events), NEW b \in Seq(Events), NEW e
    PROVE  a \o b \in Seq(Events) /\ (Says(a \o b, e) <=> Says(a, e) \/ Says(b, e))
<1>1. a \o b \in Seq(Events) /\ Len(a \o b) = Len(a) + Len(b)
      /\ Len(a) \in Nat /\ Len(b) \in Nat
  OBVIOUS
<1>2. ASSUME Says(a, e) PROVE Says(a \o b, e)
  BY <1>1, <1>2 DEF Says
<1>3. ASSUME Says(b, e) PROVE Says(a \o b, e)
  <2>1. PICK i \in 1 .. Len(b) : b[i] = e
    BY <1>3 DEF Says
  <2>2. Len(a) + i \in 1 .. Len(a \o b) /\ (a \o b)[Len(a) + i] = b[i]
    BY <1>1
  <2>3. QED
    BY <2>1, <2>2 DEF Says
<1>4. ASSUME Says(a \o b, e) PROVE Says(a, e) \/ Says(b, e)
  <2>1. PICK i \in 1 .. Len(a \o b) : (a \o b)[i] = e
    BY <1>4 DEF Says
  <2>2. CASE i <= Len(a)
    BY <1>1, <2>1, <2>2 DEF Says
  <2>3. CASE i > Len(a)
    <3>1. i - Len(a) \in 1 .. Len(b) /\ b[i - Len(a)] = e
      BY <1>1, <2>1, <2>3
    <3>2. QED
      BY <3>1 DEF Says
  <2>4. QED
    BY <1>1, <2>2, <2>3
<1>5. QED
  BY <1>1, <1>2, <1>3, <1>4

ServerMove(t, r, events) ==
    /\ r \in TurnType /\ events \in Seq(Events)
    /\ turn' = [turn EXCEPT ![t] = r] /\ Yield(t, events)
    /\ UNCHANGED tab /\ faults' \in 0 .. MaxFaults
    /\ Running(t)
    /\ r.pc \notin {"unsent", "asked"} /\ (t \in reading => r.pc # "dropped")
    /\ r.given = turn[t].given
    /\ r.pc = "tools" => r.round # 0
    /\ r.pc \in Began => r.given \subseteq r.work
    /\ \A e \in r.work : e \in turn[t].work \cup r.given \/ e[1] = t
    /\ Says(events, "turn_complete") => r.pc = "done"
    /\ t \in reading /\ r.pc \in Over => Says(events, "turn_complete") \/ Says(events, "error")
    /\ file' \in [Sessions -> Seq(Lines)]
    /\ \A s \in Sessions : TurnsOf(file'[s]) \subseteq TurnsOf(file[s]) \cup {t}
    /\ r.pc \in Silent => turn[t].pc \in Silent /\ file' = file

LEMMA ServerMoveKeeps ==
    ASSUME AgentInv, NEW t \in Turns, NEW r, NEW events, ServerMove(t, r, events)
    PROVE  AgentInv'
<1>1. /\ turn \in [Turns -> TurnType] /\ chat \in Seq(BubbleType)
      /\ wire \in [Turns -> Seq(Events)] /\ file \in [Sessions -> Seq(Lines)]
  BY Unfolded DEF AgentInv
<1>2. /\ turn' \in [Turns -> TurnType] /\ turn'[t] = r
      /\ \A u \in Turns \ {t} : turn'[u] = turn[u]
  BY <1>1 DEF ServerMove
<1>3. UNCHANGED <<design, sid, chat, pending, reading, updated, edits>>
  BY DEF ServerMove, tab, calls
<1>4. /\ wire' \in [Turns -> Seq(Events)]
      /\ \A u \in Turns \ {t} : wire'[u] = wire[u]
      /\ wire'[t] = IF t \in reading THEN wire[t] \o events ELSE wire[t]
  BY <1>1 DEF ServerMove, Yield
<1>5. turn[t].pc \in {"asked", "model", "tools", "append", "reply"}
  BY DEF ServerMove, Running
<1>6. \A e : Says(wire'[t], e) <=> Says(wire[t], e) \/ (t \in reading /\ Says(events, e))
  BY <1>1, <1>4, SaysConcat DEF ServerMove
<1>7. TypeOK'
  <2>1. /\ design \in Designs /\ sid \in Sessions \cup {None} /\ pending \in BOOLEAN
        /\ reading \subseteq Turns /\ updated \subseteq reading
        /\ edits \in 0 .. MaxEdits
    BY DEF AgentInv, TypeOK
  <2>2. QED
    BY <1>1, <1>2, <1>3, <1>4, <2>1, Folded DEF ServerMove
<1>8. RoundBegun'
  BY <1>2 DEF RoundBegun, AgentInv, ServerMove
<1>9. OneCall' /\ LastIsRead' /\ RepliesInTheirOwnBubble' /\ OnlyLastStreams'
  BY <1>3 DEF AgentInv, OneCall, LastIsRead, RepliesInTheirOwnBubble, OnlyLastStreams
<1>10. EndIsNear'
  BY <1>2, <1>3, <1>4, <1>6 DEF AgentInv, EndIsNear, ServerMove, TypeOK
<1>11. Honest'
  BY <1>2, <1>3, <1>4, <1>5, <1>6 DEF AgentInv, Honest, ServerMove
<1>12. GivenIsKept'
  BY <1>2 DEF AgentInv, GivenIsKept, ServerMove
<1>13. Provenance'
  <2>1. ASSUME NEW e, Settled(e) PROVE Settled(e)'
    <3>1. CASE e[1] = 0
      BY <3>1 DEF Settled
    <3>2. CASE e[1] \in Turns /\ turn[e[1]].pc = "done"
      <4>1. e[1] \in Turns \ {t}
        BY <1>5, <3>2
      <4>2. turn'[e[1]] = turn[e[1]]
        BY <1>2, <4>1
      <4>3. QED
        BY <3>2, <4>2 DEF Settled
    <3>3. QED
      BY <2>1, <3>1, <3>2 DEF Settled
  <2>2. \A e \in design' : Settled(e)'
    BY <1>3, <2>1 DEF AgentInv, Provenance
  <2>3. ASSUME NEW u \in Turns
        PROVE  /\ \A e \in turn'[u].given : Settled(e)'
               /\ \A e \in turn'[u].work : e[1] = u \/ Settled(e)'
    <3>1. /\ \A e \in turn[u].given : Settled(e)
          /\ \A e \in turn[u].work : e[1] = u \/ Settled(e)
      BY DEF AgentInv, Provenance
    <3>2. CASE u = t
      BY <1>2, <2>1, <3>1, <3>2 DEF ServerMove
    <3>3. CASE u # t
      BY <1>2, <2>1, <3>1, <3>3
    <3>4. QED
      BY <3>2, <3>3
  <2>4. QED
    BY <2>2, <2>3 DEF Provenance, Settled
<1>14. NoLineYet'
  <2> SUFFICES ASSUME NEW u \in Turns, turn'[u].pc \in Silent, NEW s \in Sessions
               PROVE  u \notin TurnsOf(file'[s])
    BY DEF NoLineYet, TurnsOf
  <2>1. CASE u = t
    BY <1>2, <2>1 DEF ServerMove, AgentInv, NoLineYet
  <2>2. CASE u # t
    BY <1>2, <2>2 DEF ServerMove, AgentInv, NoLineYet
  <2>3. QED
    BY <2>1, <2>2
<1>15. QED
  BY <1>7, <1>8, <1>9, <1>10, <1>11, <1>12, <1>13, <1>14 DEF AgentInv

LEMMA Words ==
    /\ <<>> \in Seq(Events) /\ \A e : ~Says(<<>>, e)
    /\ \A w \in Events : <<w>> \in Seq(Events) /\ \A e : Says(<<w>>, e) <=> e = w
  BY DEF Says

\* A step that only moves the program counter.
LEMMA GotoMoves ==
    ASSUME AgentInv, NEW t \in Turns, NEW pc \in PC \ {"unsent", "asked", "tools"},
           NEW events \in Seq(Events),
           Goto(t, pc), Yield(t, events), UNCHANGED tab, faults' \in 0 .. MaxFaults,
           Running(t), t \in reading => pc # "dropped",
           pc \in Began => turn[t].pc # "asked",
           Says(events, "turn_complete") => pc = "done",
           t \in reading /\ pc \in Over => Says(events, "turn_complete") \/ Says(events, "error"),
           file' \in [Sessions -> Seq(Lines)],
           \A s \in Sessions : TurnsOf(file'[s]) \subseteq TurnsOf(file[s]) \cup {t},
           pc \in Silent => turn[t].pc \in Silent /\ file' = file
    PROVE  AgentInv'
<1> DEFINE r == [turn[t] EXCEPT !.pc = pc]
<1>1. turn \in [Turns -> TurnType] /\ turn[t] \in TurnType
  BY Unfolded DEF AgentInv
<1>2. /\ r \in TurnType /\ r.pc = pc
      /\ r.given = turn[t].given /\ r.work = turn[t].work
  BY <1>1 DEF TurnType
<1>3. turn' = [turn EXCEPT ![t] = r]
  BY DEF Goto
<1>4. turn[t].pc \in Began \/ turn[t].pc = "asked"
  BY DEF Running, Began
<1>5. pc \in Began => r.given \subseteq r.work
  BY <1>2, <1>4 DEF AgentInv, GivenIsKept
<1> HIDE DEF r
<1>6. ServerMove(t, r, events)
  BY <1>2, <1>3, <1>5 DEF ServerMove
<1>7. QED
  BY <1>6, ServerMoveKeeps

LEMMA QuietFile ==
    ASSUME AgentInv, file' = file
    PROVE  /\ file' \in [Sessions -> Seq(Lines)]
           /\ \A t \in Turns, s \in Sessions : TurnsOf(file'[s]) \subseteq TurnsOf(file[s]) \cup {t}
           /\ faults \in 0 .. MaxFaults
  BY DEF AgentInv, TypeOK

LEMMA BeginKeeps == ASSUME AgentInv, NEW t \in Turns, Begin(t) PROVE AgentInv'
<1>1. /\ turn \in [Turns -> TurnType] /\ file \in [Sessions -> Seq(Lines)]
  BY Unfolded DEF AgentInv
<1>2. PICK s \in Sessions : BeginIn(t, s) \/ (Goto(t, "failed") /\ Yield(t, <<"error">>))
  <2> DEFINE s == IF turn[t].sid = None THEN t ELSE turn[t].sid
  <2>1. s \in Sessions
    BY <1>1 DEF TurnType, Sessions
  <2>2. BeginIn(t, s) \/ (Goto(t, "failed") /\ Yield(t, <<"error">>))
    BY DEF Begin
  <2> HIDE DEF s
  <2>3. QED
    BY <2>1, <2>2, Zenon
<1>3. Running(t) /\ turn[t].pc \in Silent /\ file' = file /\ UNCHANGED tab /\ faults' = faults
  BY DEF Begin, Running, Silent
<1>4. CASE BeginIn(t, s)
  <2> DEFINE r == [turn[t] EXCEPT !.pc = "model", !.sid = s,
                                  !.work = turn[t].given, !.seen = file[s]]
  <2>1. turn[t] \in TurnType /\ turn[t].given \in Designs /\ file[s] \in Seq(Lines)
    BY <1>1 DEF TurnType
  <2>2. /\ r \in TurnType /\ r.pc = "model"
        /\ r.work = turn[t].given /\ r.given = turn[t].given
    BY <2>1 DEF TurnType, PC
  <2>3. turn' = [turn EXCEPT ![t] = r]
    BY <1>4 DEF BeginIn
  <2> HIDE DEF r
  <2>4. Yield(t, <<"session_start">>) /\ <<"session_start">> \in Seq(Events)
        /\ ~Says(<<"session_start">>, "turn_complete")
    BY <1>4, Words DEF BeginIn, Events
  <2>5. ServerMove(t, r, <<"session_start">>)
    BY <1>3, <2>2, <2>3, <2>4, QuietFile DEF ServerMove, Over
  <2>6. QED
    BY <2>5, ServerMoveKeeps
<1>5. CASE Goto(t, "failed") /\ Yield(t, <<"error">>)
  <2>1. <<"error">> \in Seq(Events) /\ Says(<<"error">>, "error")
        /\ ~Says(<<"error">>, "turn_complete")
    BY Words DEF Events
  <2>2. QED
    BY <1>3, <1>5, <2>1, QuietFile, GotoMoves DEF PC, Began
<1>6. QED
  BY <1>2, <1>4, <1>5

LEMMA ModelCallsToolsKeeps ==
    ASSUME AgentInv, NEW t \in Turns, ModelCallsTools(t) PROVE AgentInv'
<1> DEFINE r == [turn[t] EXCEPT !.pc = "tools", !.round = turn[t].round + 1]
<1>1. turn \in [Turns -> TurnType] /\ turn[t] \in TurnType /\ turn[t].pc = "model"
      /\ turn[t].round \in 0 .. MaxRounds /\ turn[t].round < MaxRounds
  BY Unfolded DEF AgentInv, ModelCallsTools, TurnType
<1>2. /\ r \in TurnType /\ r.pc = "tools" /\ r.round # 0
      /\ r.given = turn[t].given /\ r.work = turn[t].work
  <2>1. turn[t].round + 1 \in 0 .. MaxRounds /\ turn[t].round + 1 # 0
    BY <1>1, AgentAssumption
  <2>2. QED
    BY <1>1, <2>1 DEF TurnType, PC
<1>3. turn' = [turn EXCEPT ![t] = r]
  BY DEF ModelCallsTools
<1>4. r.given \subseteq r.work
  BY <1>1, <1>2 DEF AgentInv, GivenIsKept, Began
<1> HIDE DEF r
<1>5. <<"text_delta">> \in Seq(Events) /\ ~Says(<<"text_delta">>, "turn_complete")
  BY Words DEF Events
<1>6. ServerMove(t, r, <<"text_delta">>)
  BY <1>1, <1>2, <1>3, <1>4, <1>5, QuietFile DEF ModelCallsTools, ServerMove, Running, Silent, Over
<1>7. QED
  BY <1>6, ServerMoveKeeps

LEMMA ModelStopsKeeps == ASSUME AgentInv, NEW t \in Turns, ModelStops(t) PROVE AgentInv'
<1>1. PICK events \in {<<>>, <<"text_delta">>} : Yield(t, events)
  BY DEF ModelStops
<1>2. events \in Seq(Events) /\ ~Says(events, "turn_complete")
  BY <1>1, Words DEF Events
<1>3. QED
  BY <1>1, <1>2, QuietFile, GotoMoves DEF ModelStops, Running, Silent, Over, PC

\* A turn that an API error or a tool ends.
LEMMA FailureKeeps ==
    ASSUME AgentInv, NEW t \in Turns, turn[t].pc \in {"model", "tools"},
           Goto(t, "failed"), Yield(t, <<"error">>), file' = file, UNCHANGED <<tab, faults>>
    PROVE  AgentInv'
<1>1. <<"error">> \in Seq(Events) /\ Says(<<"error">>, "error")
      /\ ~Says(<<"error">>, "turn_complete")
  BY Words DEF Events
<1>2. QED
  BY <1>1, QuietFile, GotoMoves DEF Running, Silent, Began, PC

LEMMA RunToolsKeeps == ASSUME AgentInv, NEW t \in Turns, RunTools(t) PROVE AgentInv'
<1>1. CASE ToolRaises(t)
  BY <1>1, FailureKeeps DEF RunTools, ToolRaises
<1>2. CASE /\ turn' = [turn EXCEPT ![t].pc = "model", ![t].work = @ \cup {<<t, turn[t].round>>}]
           /\ UNCHANGED wire
  <2> DEFINE e == <<t, turn[t].round>>
             r == [turn[t] EXCEPT !.pc = "model", !.work = turn[t].work \cup {e}]
  <2>1. turn \in [Turns -> TurnType] /\ turn[t] \in TurnType /\ turn[t].pc = "tools"
        /\ turn[t].round \in 0 .. MaxRounds /\ turn[t].round # 0 /\ turn[t].work \in Designs
    BY Unfolded DEF AgentInv, RunTools, TurnType, RoundBegun
  <2>2. e \in ToolEdits /\ e[1] = t
    BY <2>1, AgentAssumption DEF ToolEdits
  <2>3. turn[t].work \cup {e} \in Designs
    BY <2>1, <2>2 DEF Designs
  <2>4. /\ r \in TurnType /\ r.pc = "model"
        /\ r.given = turn[t].given /\ r.work = turn[t].work \cup {e}
    <3> HIDE DEF e
    <3>1. QED
      BY <2>1, <2>3 DEF TurnType, PC
  <2>5. turn' = [turn EXCEPT ![t] = r]
    BY <1>2
  <2>6. turn[t].given \subseteq turn[t].work
    BY <2>1 DEF AgentInv, GivenIsKept, Began
  <2> HIDE DEF r, e
  <2>7. Yield(t, <<>>) /\ <<>> \in Seq(Events) /\ ~Says(<<>>, "turn_complete")
    <3>1. wire \in [Turns -> Seq(Events)] /\ wire[t] \o <<>> = wire[t]
      BY Unfolded DEF AgentInv
    <3>2. QED
      BY <1>2, <3>1, Words DEF Yield
  <2>8. ServerMove(t, r, <<>>)
    BY <2>1, <2>2, <2>4, <2>5, <2>6, <2>7, QuietFile
       DEF RunTools, ServerMove, Running, Silent, Over
  <2>9. QED
    BY <2>8, ServerMoveKeeps
<1>3. QED
  BY <1>1, <1>2 DEF RunTools

\* What an append leaves in the files.
LEMMA AppendLineKeeps ==
    ASSUME AgentInv, NEW t \in Turns, NEW role \in {"user", "assistant"},
           NEW then \in {"reply", "done"}, NEW events \in Seq(Events),
           turn[t].pc \in {"append", "reply"}, AppendLine(t, role, then, events), UNCHANGED tab,
           then = "reply" => ~Says(events, "turn_complete"),
           then = "done" => Says(events, "turn_complete")
    PROVE  AgentInv'
<1> DEFINE s == turn[t].sid
<1>1. /\ file \in [Sessions -> Seq(Lines)] /\ faults \in 0 .. MaxFaults
      /\ turn[t].pc \in Silent \/ turn[t].pc = "reply"
  BY Unfolded DEF AgentInv, TypeOK, Silent
<1>2. ASSUME NEW lines \in Seq(Lines), NEW line \in Lines, line.turn = t
      PROVE  /\ Append(lines, line) \in Seq(Lines)
             /\ TurnsOf(Append(lines, line)) \subseteq TurnsOf(lines) \cup {t}
  BY <1>2 DEF TurnsOf
<1>3. /\ Line(role, t) \in Lines /\ Line(role, t).turn = t
      /\ Line("torn", t) \in Lines /\ Line("torn", t).turn = t
  BY DEF Line, Lines
<1>4. ASSUME \E line \in Lines : line.turn = t /\ file' = [file EXCEPT ![s] = Append(@, line)]
      PROVE  /\ file' \in [Sessions -> Seq(Lines)]
             /\ \A q \in Sessions : TurnsOf(file'[q]) \subseteq TurnsOf(file[q]) \cup {t}
  <2>1. PICK line \in Lines : line.turn = t /\ file' = [file EXCEPT ![s] = Append(@, line)]
    BY <1>4
  <2>2. ASSUME NEW q \in Sessions
        PROVE  file'[q] \in Seq(Lines) /\ TurnsOf(file'[q]) \subseteq TurnsOf(file[q]) \cup {t}
    <3>1. file'[q] = IF q = s THEN Append(file[q], line) ELSE file[q]
      BY <1>1, <2>1
    <3>2. QED
      BY <1>1, <1>2, <2>1, <3>1
  <2>3. QED
    BY <1>1, <2>1, <2>2
<1>5. CASE /\ file' = [file EXCEPT ![s] = Append(@, Line(role, t))]
           /\ Goto(t, then) /\ Yield(t, events) /\ UNCHANGED faults
  <2>1. /\ file' \in [Sessions -> Seq(Lines)]
        /\ \A q \in Sessions : TurnsOf(file'[q]) \subseteq TurnsOf(file[q]) \cup {t}
    BY <1>3, <1>4, <1>5
  <2>2. QED
    BY <1>1, <1>5, <2>1, GotoMoves DEF Running, Silent, Over, PC
<1>6. CASE /\ faults < MaxFaults /\ faults' = faults + 1
           /\ \E part \in {<<>>, <<Line("torn", t)>>} : file' = [file EXCEPT ![s] = @ \o part]
           /\ Goto(t, "lost") /\ Yield(t, <<"error">>)
  <2>1. faults' \in 0 .. MaxFaults
    BY <1>1, <1>6, AgentAssumption
  <2>2. /\ file' \in [Sessions -> Seq(Lines)]
        /\ \A q \in Sessions : TurnsOf(file'[q]) \subseteq TurnsOf(file[q]) \cup {t}
    <3>1. CASE file' = [file EXCEPT ![s] = @ \o <<>>]
      <4>1. \A q \in Sessions : file[q] \o <<>> = file[q]
        BY <1>1
      <4>2. file' = file
        BY <1>1, <3>1, <4>1
      <4>3. QED
        BY <1>1, <4>2
    <3>2. CASE file' = [file EXCEPT ![s] = @ \o <<Line("torn", t)>>]
      <4>1. \A q \in Sessions : file[q] \o <<Line("torn", t)>> = Append(file[q], Line("torn", t))
        BY <1>1, <1>3
      <4>2. file' = [file EXCEPT ![s] = Append(@, Line("torn", t))]
        BY <1>1, <3>2, <4>1
      <4>3. QED
        BY <1>3, <1>4, <4>2
    <3>3. QED
      BY <1>6, <3>1, <3>2
  <2>3. <<"error">> \in Seq(Events) /\ Says(<<"error">>, "error")
        /\ ~Says(<<"error">>, "turn_complete")
    BY Words DEF Events
  <2>4. QED
    BY <1>6, <2>1, <2>2, <2>3, GotoMoves DEF Running, Silent, Began, PC
<1>7. QED
  BY <1>5, <1>6 DEF AppendLine

LEMMA StepKeeps ==
    ASSUME AgentInv, NEW t \in Turns, Step(t) \/ DropStream(t)
    PROVE  AgentInv'
<1>1. CASE ModelFails(t)
  BY <1>1, FailureKeeps DEF ModelFails
<1>2. CASE AppendUser(t)
  BY <1>2, Words, AppendLineKeeps DEF AppendUser
<1>3. CASE AppendReply(t)
  <2>1. <<"turn_complete">> \in Seq(Events) /\ Says(<<"turn_complete">>, "turn_complete")
    BY Words DEF Events
  <2>2. QED
    BY <1>3, <2>1, AppendLineKeeps DEF AppendReply
<1>4. CASE DropStream(t)
  <2>1. Yield(t, <<>>)
    BY <1>4 DEF DropStream, Yield
  <2>2. QED
    BY <1>4, <2>1, Words, QuietFile, GotoMoves DEF DropStream, Running, Silent, Began, Over, PC
<1>5. QED
  BY <1>1, <1>2, <1>3, <1>4, BeginKeeps, ModelCallsToolsKeeps, ModelStopsKeeps, RunToolsKeeps
     DEF Step

-----------------------------------------------------------------------------
(* The steps of the tab and of others.                                     *)

\* What is settled stays so while no turn that is done is taken back.
LEMMA SettledStays ==
    ASSUME \A t \in Turns : turn[t].pc = "done" => turn'[t].pc = "done",
           NEW e, Settled(e)
    PROVE  Settled(e)'
  BY DEF Settled

LEMMA SaysHead ==
    ASSUME NEW w \in Seq(Events), w # <<>>, NEW e
    PROVE  /\ Tail(w) \in Seq(Events) /\ Head(w) \in Events
           /\ Says(w, e) <=> e = Head(w) \/ Says(Tail(w), e)
<1>1. /\ Tail(w) \in Seq(Events) /\ Head(w) \in Events /\ Head(w) = w[1]
      /\ Len(w) \in Nat \ {0} /\ Len(Tail(w)) = Len(w) - 1
      /\ \A i \in 1 .. Len(w) - 1 : Tail(w)[i] = w[i + 1]
  OBVIOUS
<1>2. ASSUME Says(w, e), e # Head(w) PROVE Says(Tail(w), e)
  <2>1. PICK i \in 1 .. Len(w) : w[i] = e
    BY <1>2 DEF Says
  <2>2. i - 1 \in 1 .. Len(w) - 1 /\ Tail(w)[i - 1] = w[i]
    BY <1>1, <1>2, <2>1
  <2>3. QED
    BY <1>1, <2>1, <2>2 DEF Says
<1>3. ASSUME Says(Tail(w), e) PROVE Says(w, e)
  <2>1. PICK i \in 1 .. Len(w) - 1 : Tail(w)[i] = e
    BY <1>1, <1>3 DEF Says
  <2>2. i + 1 \in 1 .. Len(w) /\ w[i + 1] = e
    BY <1>1, <2>1
  <2>3. QED
    BY <2>2 DEF Says
<1>4. ASSUME e = Head(w) PROVE Says(w, e)
  BY <1>1, <1>4 DEF Says
<1>5. QED
  BY <1>1, <1>2, <1>3, <1>4

\* A question is asked of a turn that has not been.
LEMMA AskMoves ==
    ASSUME AgentInv, NEW t \in Turns, turn[t].pc = "unsent",
           NEW via \in {"stream", "post"}, NEW s \in Sessions \cup {None},
           NEW given \in Designs, \A e \in given : Settled(e), Ask(t, via, s, given)
    PROVE  /\ turn' \in [Turns -> TurnType] /\ turn'[t].pc = "asked"
           /\ \A u \in Turns \ {t} : turn'[u] = turn[u]
           /\ RoundBegun' /\ GivenIsKept'
           /\ \A e : Settled(e) => Settled(e)'
           /\ \A u \in Turns : /\ \A e \in turn'[u].given : Settled(e)'
                               /\ \A e \in turn'[u].work : e[1] = u \/ Settled(e)'
<1> DEFINE r == [Unsent EXCEPT !.pc = "asked", !.via = via, !.sid = s, !.given = given]
<1>1. turn \in [Turns -> TurnType]
  BY Unfolded DEF AgentInv
<1>2. {} \in Designs /\ <<>> \in Seq(Lines) /\ 0 \in 0 .. MaxRounds
  BY AgentAssumption DEF Designs
<1>3. r \in TurnType /\ r.pc = "asked" /\ r.given = given /\ r.work = {}
  <2>1. Unsent \in TurnType /\ Unsent.work = {}
    BY <1>2 DEF Unsent, TurnType, PC
  <2> HIDE DEF Unsent
  <2>2. QED
    BY <2>1 DEF TurnType, PC
<1> HIDE DEF r
<1>4. turn' = [turn EXCEPT ![t] = r]
  BY DEF Ask, r
<1>5. turn' \in [Turns -> TurnType] /\ turn'[t] = r /\ \A u \in Turns \ {t} : turn'[u] = turn[u]
  BY <1>1, <1>3, <1>4
<1>6. RoundBegun' /\ GivenIsKept'
  BY <1>3, <1>5 DEF AgentInv, RoundBegun, GivenIsKept, Began
<1>7. ASSUME NEW e, Settled(e) PROVE Settled(e)'
  BY <1>5, <1>7, SettledStays
<1>8. ASSUME NEW u \in Turns
      PROVE  /\ \A e \in turn'[u].given : Settled(e)'
             /\ \A e \in turn'[u].work : e[1] = u \/ Settled(e)'
  BY <1>3, <1>5, <1>7 DEF AgentInv, Provenance
<1>9. QED
  BY <1>3, <1>5, <1>6, <1>7, <1>8

LEMMA PostTurnKeeps == ASSUME AgentInv, NEW t \in Turns, PostTurn(t) PROVE AgentInv'
<1>1. /\ turn \in [Turns -> TurnType] /\ chat \in Seq(BubbleType)
      /\ wire \in [Turns -> Seq(Events)] /\ file \in [Sessions -> Seq(Lines)]
  BY Unfolded DEF AgentInv
<1>2. turn[t].pc = "unsent" /\ UNCHANGED <<file, wire, design, sid, chat, pending, reading,
                                           updated, edits, faults>>
  BY DEF PostTurn, NextTurn, tab, calls
<1>3. PICK s \in {None} \cup {turn[u].sid : u \in Turns} : Ask(t, "post", s, {})
  BY DEF PostTurn
<1>4. s \in Sessions \cup {None} /\ {} \in Designs
  BY <1>1, <1>3 DEF TurnType, Designs
<1>5. /\ turn' \in [Turns -> TurnType] /\ turn'[t].pc = "asked"
      /\ \A u \in Turns \ {t} : turn'[u] = turn[u]
      /\ RoundBegun' /\ GivenIsKept'
      /\ \A e : Settled(e) => Settled(e)'
      /\ \A u \in Turns : /\ \A e \in turn'[u].given : Settled(e)'
                          /\ \A e \in turn'[u].work : e[1] = u \/ Settled(e)'
  BY <1>2, <1>3, <1>4, AskMoves
<1>6. TypeOK'
  BY <1>1, <1>2, <1>5, Folded DEF AgentInv, TypeOK
<1>7. OneCall' /\ LastIsRead' /\ RepliesInTheirOwnBubble' /\ OnlyLastStreams'
  BY <1>2 DEF AgentInv, OneCall, LastIsRead, RepliesInTheirOwnBubble, OnlyLastStreams
<1>8. EndIsNear' /\ Honest'
  BY <1>2, <1>5 DEF AgentInv, EndIsNear, Honest, Over, TypeOK
<1>9. Provenance'
  BY <1>2, <1>5 DEF AgentInv, Provenance
<1>10. NoLineYet'
  BY <1>2, <1>5 DEF AgentInv, NoLineYet, Silent, TurnsOf
<1>11. QED
  BY <1>5, <1>6, <1>7, <1>8, <1>9, <1>10 DEF AgentInv

LEMMA SendMessageKeeps == ASSUME AgentInv, NEW t \in Turns, SendMessage(t) PROVE AgentInv'
<1>1. /\ turn \in [Turns -> TurnType] /\ chat \in Seq(BubbleType)
      /\ wire \in [Turns -> Seq(Events)] /\ file \in [Sessions -> Seq(Lines)]
  BY Unfolded DEF AgentInv
<1>2. /\ turn[t].pc = "unsent" /\ reading = {} /\ reading' = {t} /\ pending' = TRUE
      /\ chat' = Append(chat, Bubble(t)) /\ Ask(t, "stream", sid, design)
      /\ UNCHANGED <<file, wire, design, sid, updated, edits, faults>>
  BY DEF SendMessage, NextTurn, AgentInv, OneCall
<1>3. /\ turn' \in [Turns -> TurnType] /\ turn'[t].pc = "asked"
      /\ \A u \in Turns \ {t} : turn'[u] = turn[u]
      /\ RoundBegun' /\ GivenIsKept'
      /\ \A e : Settled(e) => Settled(e)'
      /\ \A u \in Turns : /\ \A e \in turn'[u].given : Settled(e)'
                          /\ \A e \in turn'[u].work : e[1] = u \/ Settled(e)'
  <2>1. sid \in Sessions \cup {None} /\ design \in Designs /\ \A e \in design : Settled(e)
    BY DEF AgentInv, TypeOK, Provenance
  <2>2. QED
    BY <1>2, <2>1, AskMoves
<1>4. Bubble(t) \in BubbleType /\ Bubble(t).turn = t /\ Bubble(t).of = {}
  BY DEF Bubble, BubbleType
<1>5. /\ chat' \in Seq(BubbleType) /\ Len(chat') = Len(chat) + 1 /\ chat'[Len(chat')] = Bubble(t)
      /\ Len(chat) \in Nat /\ \A i \in 1 .. Len(chat) : chat'[i] = chat[i]
  BY <1>1, <1>2, <1>4
<1>6. TypeOK'
  BY <1>1, <1>2, <1>3, <1>5, Folded DEF AgentInv, TypeOK
<1>7. OneCall' /\ LastIsRead'
  BY <1>2, <1>4, <1>5 DEF OneCall, LastIsRead
<1>8. RepliesInTheirOwnBubble'
  <2> SUFFICES ASSUME NEW i \in 1 .. Len(chat') PROVE chat'[i].of \subseteq {chat'[i].turn}
    BY <1>5 DEF RepliesInTheirOwnBubble
  <2>1. CASE i \in 1 .. Len(chat)
    BY <1>1, <1>5, <2>1 DEF AgentInv, RepliesInTheirOwnBubble
  <2>2. CASE i = Len(chat')
    BY <1>4, <1>5, <2>2
  <2>3. QED
    BY <1>5, <2>1, <2>2
<1>9. OnlyLastStreams'
  BY <1>2, <1>5 DEF AgentInv, OnlyLastStreams
<1>10. EndIsNear' /\ Honest'
  BY <1>2, <1>3 DEF AgentInv, EndIsNear, Honest, Over, TypeOK
<1>11. Provenance'
  BY <1>2, <1>3 DEF AgentInv, Provenance
<1>12. NoLineYet'
  BY <1>2, <1>3 DEF AgentInv, NoLineYet, Silent, TurnsOf
<1>13. QED
  BY <1>3, <1>6, <1>7, <1>8, <1>9, <1>10, <1>11, <1>12 DEF AgentInv

\* The last bubble gets its error.
LEMMA ErrorOnLast ==
    ASSUME chat \in Seq(BubbleType), LastErrs
    PROVE  /\ chat' \in Seq(BubbleType) /\ Len(chat') = Len(chat)
           /\ chat = <<>> => chat' = <<>>
           /\ \A i \in 1 .. Len(chat) :
                /\ chat'[i].turn = chat[i].turn /\ chat'[i].of = chat[i].of
                /\ chat'[i].state = IF i = Len(chat) THEN "error" ELSE chat[i].state
<1>1. CASE chat = <<>>
  BY <1>1 DEF LastErrs, OnLast
<1>2. CASE chat # <<>>
  <2> DEFINE m == chat[Len(chat)]
             n == [m EXCEPT !.state = "error"]
  <2>1. m \in BubbleType
    BY <1>2
  <2>2. n \in BubbleType /\ n.turn = m.turn /\ n.of = m.of /\ n.state = "error"
    BY <2>1 DEF BubbleType
  <2>3. chat' = [chat EXCEPT ![Len(chat)] = n]
    BY <1>2 DEF LastErrs, OnLast, Last
  <2> HIDE DEF n
  <2>4. QED
    BY <1>2, <2>2, <2>3
<1>3. QED
  BY <1>1, <1>2

\* A bubble whose turn is read waits for its reply, and no other; so none does
\* once the last has its error.
LEMMA ErrorSettles ==
    ASSUME AgentInv, LastErrs
    PROVE  /\ chat' \in Seq(BubbleType) /\ RepliesInTheirOwnBubble'
           /\ \A i \in 1 .. Len(chat') : chat'[i].state # "streaming"
<1>1. chat \in Seq(BubbleType)
  BY Unfolded DEF AgentInv
<1>2. /\ chat' \in Seq(BubbleType) /\ Len(chat') = Len(chat)
      /\ \A i \in 1 .. Len(chat) :
            /\ chat'[i].turn = chat[i].turn /\ chat'[i].of = chat[i].of
            /\ chat'[i].state = IF i = Len(chat) THEN "error" ELSE chat[i].state
  BY <1>1, ErrorOnLast
<1>3. QED
  BY <1>1, <1>2 DEF AgentInv, RepliesInTheirOwnBubble, OnlyLastStreams

\* handleSend is over, with no bubble that waits.
LEMMA FinishKeeps ==
    ASSUME AgentInv, NEW t \in reading, Finish(t), file' = file, UNCHANGED <<sid, edits>>,
           turn' \in [Turns -> TurnType], \A u \in Turns \ {t} : turn'[u] = turn[u],
           turn'[t] = turn[t] \/ (turn[t].pc = "asked" /\ turn'[t] = [turn[t] EXCEPT !.pc = "dropped"]),
           design' \in Designs, \A e \in design' : Settled(e), faults' \in 0 .. MaxFaults,
           chat' \in Seq(BubbleType), RepliesInTheirOwnBubble',
           \A i \in 1 .. Len(chat') : chat'[i].state # "streaming"
    PROVE  AgentInv'
<1>1. /\ turn \in [Turns -> TurnType] /\ t \in Turns
      /\ wire \in [Turns -> Seq(Events)] /\ file \in [Sessions -> Seq(Lines)]
  BY Unfolded DEF AgentInv, TypeOK
<1>2. /\ reading' = {} /\ updated' = {} /\ pending' = FALSE
  BY DEF Finish, AgentInv, OneCall, TypeOK
<1>3. /\ wire' \in [Turns -> Seq(Events)] /\ wire'[t] = <<>>
      /\ \A u \in Turns \ {t} : wire'[u] = wire[u]
  BY <1>1 DEF Finish
<1>4. /\ turn'[t].given = turn[t].given /\ turn'[t].work = turn[t].work
      /\ turn'[t].pc = turn[t].pc \/ (turn[t].pc = "asked" /\ turn'[t].pc = "dropped")
      /\ turn'[t].round = turn[t].round
  BY <1>1 DEF TurnType
<1>5. TypeOK'
  BY <1>1, <1>2, <1>3, Folded DEF AgentInv, TypeOK
<1>6. RoundBegun' /\ GivenIsKept'
  BY <1>4 DEF AgentInv, RoundBegun, GivenIsKept, Began
<1>7. OneCall' /\ LastIsRead' /\ OnlyLastStreams' /\ EndIsNear'
  BY <1>2 DEF OneCall, LastIsRead, OnlyLastStreams, EndIsNear
<1>8. \A u \in Turns : turn[u].pc = "done" => turn'[u].pc = "done"
  BY <1>4
<1>9. Honest'
  <2>1. ~Says(<<>>, "turn_complete")
    BY Words
  <2>2. QED
    BY <1>2, <1>3, <1>8, <2>1 DEF AgentInv, Honest
<1>10. Provenance'
  <2>1. \A e : Settled(e) => Settled(e)'
    BY <1>8, SettledStays
  <2>2. ASSUME NEW u \in Turns
        PROVE  /\ \A e \in turn'[u].given : Settled(e)'
               /\ \A e \in turn'[u].work : e[1] = u \/ Settled(e)'
    BY <1>4, <2>1 DEF AgentInv, Provenance
  <2>3. QED
    BY <2>1, <2>2 DEF Provenance
<1>11. NoLineYet'
  BY <1>4 DEF AgentInv, NoLineYet, Silent, TurnsOf
<1>12. QED
  BY <1>5, <1>6, <1>7, <1>9, <1>10, <1>11 DEF AgentInv

LEMMA RequestFailsKeeps == ASSUME AgentInv, NEW t \in Turns, RequestFails(t) PROVE AgentInv'
<1>1. turn \in [Turns -> TurnType] /\ t \in reading
  BY Unfolded DEF AgentInv, RequestFails
<1>2. /\ turn' = [turn EXCEPT ![t].pc = "dropped"] /\ turn[t].pc = "asked" /\ Finish(t)
      /\ LastErrs
      /\ UNCHANGED <<file, design, sid, edits, faults>>
  BY DEF RequestFails, Goto
<1>3. turn' \in [Turns -> TurnType] /\ turn'[t] = [turn[t] EXCEPT !.pc = "dropped"]
      /\ \A u \in Turns \ {t} : turn'[u] = turn[u]
  <2>1. turn[t] \in TurnType /\ "dropped" \in PC
    BY <1>1 DEF PC
  <2>2. [turn[t] EXCEPT !.pc = "dropped"] \in TurnType
    BY <2>1 DEF TurnType
  <2>3. turn' = [turn EXCEPT ![t] = [turn[t] EXCEPT !.pc = "dropped"]]
    BY <1>2
  <2>4. QED
    BY <1>1, <2>2, <2>3
<1>4. design' \in Designs /\ (\A e \in design' : Settled(e)) /\ faults' \in 0 .. MaxFaults
  BY <1>2 DEF AgentInv, TypeOK, Provenance
<1>5. QED
  BY <1>1, <1>2, <1>3, <1>4, ErrorSettles, FinishKeeps

LEMMA StreamBreaksKeeps == ASSUME AgentInv, NEW t \in Turns, StreamBreaks(t) PROVE AgentInv'
<1>1. turn \in [Turns -> TurnType] /\ t \in reading /\ turn' = turn
  BY Unfolded DEF AgentInv, StreamBreaks, server
<1>2. /\ Finish(t) /\ LastErrs
      /\ UNCHANGED <<file, design, sid, edits>>
  BY DEF StreamBreaks, server
<1>3. design' \in Designs /\ (\A e \in design' : Settled(e)) /\ faults' \in 0 .. MaxFaults
  BY <1>2, AgentAssumption DEF AgentInv, TypeOK, Provenance, StreamBreaks
<1>4. QED
  BY <1>1, <1>2, <1>3, ErrorSettles, FinishKeeps

LEMMA EndOfStreamKeeps == ASSUME AgentInv, NEW t \in Turns, EndOfStream(t) PROVE AgentInv'
<1>1. /\ turn \in [Turns -> TurnType] /\ chat \in Seq(BubbleType)
      /\ t \in reading /\ turn' = turn /\ chat' = chat /\ wire[t] = <<>>
      /\ turn[t].pc \in Over /\ Finish(t) /\ UNCHANGED <<file, sid, edits, faults>>
  BY Unfolded DEF AgentInv, EndOfStream, StreamEnded, Completed, server, Over
<1>2. design' \in Designs /\ \A e \in design' : Settled(e)
  <2>1. CASE t \in updated
    <3>1. design' = turn[t].work /\ turn[t].pc = "done"
      BY <2>1 DEF EndOfStream, AgentInv, Honest
    <3>2. \A e \in turn[t].work : e[1] = t => Settled(e)
      BY <3>1 DEF Settled
    <3>3. QED
      BY <1>1, <3>1, <3>2 DEF AgentInv, Provenance, TurnType
  <2>2. CASE t \notin updated
    BY <2>2 DEF EndOfStream, AgentInv, Provenance, TypeOK
  <2>3. QED
    BY <2>1, <2>2
<1>3. \A i \in 1 .. Len(chat) : chat[i].state # "streaming"
  <2>1. chat # <<>> => chat[Len(chat)].state # "streaming"
    BY <1>1 DEF AgentInv, EndIsNear, Says
  <2>2. QED
    BY <1>1, <2>1 DEF AgentInv, OnlyLastStreams
<1>4. RepliesInTheirOwnBubble' /\ faults' \in 0 .. MaxFaults
  BY <1>1 DEF AgentInv, RepliesInTheirOwnBubble, TypeOK
<1>5. QED
  BY <1>1, <1>2, <1>3, <1>4, FinishKeeps

LEMMA ReadEventKeeps == ASSUME AgentInv, NEW t \in Turns, ReadEvent(t) PROVE AgentInv'
<1> DEFINE e == Head(wire[t])
           m == chat[Len(chat)]
           n == CASE e = "text_delta"    -> [m EXCEPT !.of = @ \cup {t}]
                  [] e = "turn_complete" -> [m EXCEPT !.of = @ \cup {t}, !.state = "complete"]
                  [] e = "error"         -> [m EXCEPT !.of = @ \cup {t}, !.state = "error"]
                  [] OTHER               -> m
<1>1. /\ turn \in [Turns -> TurnType] /\ chat \in Seq(BubbleType)
      /\ wire \in [Turns -> Seq(Events)] /\ file \in [Sessions -> Seq(Lines)]
  BY Unfolded DEF AgentInv
<1>2. /\ t \in reading /\ wire[t] # <<>> /\ wire' = [wire EXCEPT ![t] = Tail(@)]
      /\ updated' = IF e = "turn_complete" THEN updated \cup {t} ELSE updated
      /\ sid' \in {turn[t].sid, sid}
      /\ UNCHANGED <<turn, file, design, pending, reading, edits, faults>>
  BY DEF ReadEvent, server
<1>3. /\ wire' \in [Turns -> Seq(Events)] /\ e \in Events
      /\ \A u \in Turns \ {t} : wire'[u] = wire[u]
      /\ \A w : Says(wire[t], w) <=> w = e \/ Says(wire'[t], w)
  BY <1>1, <1>2, SaysHead
<1>4. sid' \in Sessions \cup {None} /\ updated' \subseteq reading
  <2>1. turn[t].sid \in Sessions \cup {None}
    BY <1>1 DEF TurnType
  <2>2. QED
    BY <1>2, <2>1 DEF AgentInv, TypeOK
<1>5. CASE chat = <<>>
  <2>1. chat' = <<>>
    BY <1>5 DEF ReadEvent, OnLast
  <2>2. TypeOK'
    BY <1>1, <1>2, <1>3, <1>4, <2>1, Folded DEF AgentInv, TypeOK
  <2>3. LastIsRead' /\ RepliesInTheirOwnBubble' /\ OnlyLastStreams' /\ EndIsNear'
    BY <2>1 DEF LastIsRead, RepliesInTheirOwnBubble, OnlyLastStreams, EndIsNear
  <2>4. QED
    BY <1>2, <1>3, <2>2, <2>3
       DEF AgentInv, RoundBegun, OneCall, Honest, GivenIsKept, Provenance, Settled, NoLineYet, TurnsOf
<1>6. CASE chat # <<>>
  <2>1. m \in BubbleType /\ m.turn = t /\ Len(chat) \in Nat \ {0} /\ m.of \subseteq {t}
    <3>1. Len(chat) \in 1 .. Len(chat) /\ m \in BubbleType
      BY <1>1, <1>6
    <3>2. QED
      BY <1>1, <1>2, <1>6, <3>1 DEF AgentInv, LastIsRead, RepliesInTheirOwnBubble
  <2>2. /\ n \in BubbleType /\ n.turn = t /\ n.of \subseteq {t}
        /\ e \in {"turn_complete", "error"} => n.state # "streaming"
        /\ m.state # "streaming" => n.state # "streaming"
    <3> HIDE DEF m, e
    <3>1. QED
      BY <2>1 DEF BubbleType
  <2>3. chat' = [chat EXCEPT ![Len(chat)] = n]
    BY <1>6 DEF ReadEvent, OnLast, Last
  <2> HIDE DEF n, m, e
  <2>4. /\ chat' \in Seq(BubbleType) /\ Len(chat') = Len(chat) /\ chat'[Len(chat)] = n
        /\ \A i \in 1 .. Len(chat) : i # Len(chat) => chat'[i] = chat[i]
    BY <1>1, <2>1, <2>2, <2>3
  <2>5. TypeOK'
    BY <1>1, <1>2, <1>3, <1>4, <2>4, Folded DEF AgentInv, TypeOK
  <2>6. LastIsRead'
    BY <1>2, <2>2, <2>4 DEF AgentInv, LastIsRead, OneCall
  <2>7. RepliesInTheirOwnBubble'
    BY <1>1, <2>2, <2>4 DEF AgentInv, RepliesInTheirOwnBubble
  <2>8. OnlyLastStreams'
    BY <1>2, <2>2, <2>4 DEF AgentInv, OnlyLastStreams
  <2>9. EndIsNear'
    <3> SUFFICES ASSUME turn[t].pc \in Over
                 PROVE  \/ n.state # "streaming"
                        \/ Says(wire'[t], "turn_complete") \/ Says(wire'[t], "error")
      BY <1>2, <2>4 DEF EndIsNear, AgentInv, OneCall
    <3>1. \/ m.state # "streaming"
          \/ Says(wire[t], "turn_complete") \/ Says(wire[t], "error")
      BY <1>2, <1>6 DEF AgentInv, EndIsNear, m
    <3>2. QED
      BY <1>3, <2>2, <3>1
  <2>10. QED
    BY <1>2, <1>3, <2>5, <2>6, <2>7, <2>8, <2>9
       DEF AgentInv, RoundBegun, OneCall, Honest, GivenIsKept, Provenance, Settled, NoLineYet, TurnsOf
<1>7. QED
  BY <1>5, <1>6

LEMMA NewSessionKeeps == ASSUME AgentInv, NewSession PROVE AgentInv'
<1>1. /\ turn \in [Turns -> TurnType] /\ chat \in Seq(BubbleType)
      /\ wire \in [Turns -> Seq(Events)] /\ file \in [Sessions -> Seq(Lines)]
  BY Unfolded DEF AgentInv
<1>2. /\ sid' = None /\ chat' = <<>>
      /\ UNCHANGED <<turn, file, wire, design, pending, reading, updated, edits, faults>>
  BY DEF NewSession, server, calls
<1>3. TypeOK'
  BY <1>1, <1>2, Folded DEF AgentInv, TypeOK
<1>4. LastIsRead' /\ RepliesInTheirOwnBubble' /\ OnlyLastStreams' /\ EndIsNear'
  BY <1>2 DEF LastIsRead, RepliesInTheirOwnBubble, OnlyLastStreams, EndIsNear
<1>5. QED
  BY <1>2, <1>3, <1>4
     DEF AgentInv, RoundBegun, OneCall, Honest, GivenIsKept, Provenance, Settled, NoLineYet, TurnsOf

LEMMA EditDesignKeeps == ASSUME AgentInv, EditDesign PROVE AgentInv'
<1>1. /\ turn \in [Turns -> TurnType] /\ chat \in Seq(BubbleType)
      /\ wire \in [Turns -> Seq(Events)] /\ file \in [Sessions -> Seq(Lines)]
      /\ edits \in 0 .. MaxEdits /\ design \in Designs
  BY Unfolded DEF AgentInv, TypeOK
<1>2. /\ edits < MaxEdits /\ edits' = edits + 1 /\ design' = design \cup {<<0, edits + 1>>}
      /\ UNCHANGED <<turn, file, wire, sid, chat, pending, reading, updated, faults>>
  BY DEF EditDesign, server, calls
<1>3. edits' \in 0 .. MaxEdits /\ <<0, edits + 1>> \in UserEdits
  BY <1>1, <1>2, AgentAssumption DEF UserEdits
<1>4. design' \in Designs
  BY <1>1, <1>2, <1>3 DEF Designs
<1>5. TypeOK'
  BY <1>1, <1>2, <1>3, <1>4, Folded DEF AgentInv, TypeOK
<1>6. Provenance'
  <2>1. \A e : Settled(e) => Settled(e)'
    BY <1>2, SettledStays
  <2>2. Settled(<<0, edits + 1>>)
    BY DEF Settled
  <2>3. \A e \in design' : Settled(e)'
    BY <1>2, <2>1, <2>2 DEF AgentInv, Provenance
  <2>4. QED
    BY <1>2, <2>1, <2>3 DEF AgentInv, Provenance
<1>7. QED
  BY <1>2, <1>5, <1>6
     DEF AgentInv, RoundBegun, OneCall, LastIsRead, RepliesInTheirOwnBubble, OnlyLastStreams,
         EndIsNear, Honest, GivenIsKept, NoLineYet, TurnsOf

LEMMA CrashServerKeeps == ASSUME AgentInv, CrashServer PROVE AgentInv'
<1>1. /\ turn \in [Turns -> TurnType] /\ chat \in Seq(BubbleType)
      /\ wire \in [Turns -> Seq(Events)] /\ file \in [Sessions -> Seq(Lines)]
  BY Unfolded DEF AgentInv
<1>2. /\ UNCHANGED <<file, design, sid, edits>> /\ faults' \in 0 .. MaxFaults
  <2>1. faults \in 0 .. MaxFaults /\ faults < MaxFaults /\ faults' = faults + 1
    BY DEF CrashServer, AgentInv, TypeOK
  <2>2. faults' \in 0 .. MaxFaults
    BY <2>1, AgentAssumption
  <2>3. QED
    BY <2>2 DEF CrashServer
<1>3. ASSUME NEW t \in Turns
      PROVE  /\ turn'[t] \in TurnType
             /\ turn'[t].given = turn[t].given /\ turn'[t].work = turn[t].work
             /\ ~Running(t) => turn'[t] = turn[t]
             /\ Running(t) => \/ turn[t].pc = "reply" /\ turn'[t].pc = "lost"
                              \/ turn[t].pc # "reply" /\ turn'[t].pc = "dropped"
  <2>1. turn'[t] = IF ~Running(t) THEN turn[t]
                   ELSE [turn[t] EXCEPT !.pc = IF @ = "reply" THEN "lost" ELSE "dropped"]
    BY DEF CrashServer
  <2>2. turn[t] \in TurnType
    BY <1>1
  <2>3. CASE turn[t].pc = "reply"
    BY <2>1, <2>2, <2>3 DEF TurnType, PC
  <2>4. CASE turn[t].pc # "reply"
    BY <2>1, <2>2, <2>4 DEF TurnType, PC
  <2>5. QED
    BY <2>3, <2>4
<1>4. turn' \in [Turns -> TurnType]
  <2>1. turn' = [t \in Turns |-> turn'[t]]
    BY DEF CrashServer
  <2>2. QED
    BY <1>3, <2>1
<1>5. /\ wire' \in [Turns -> Seq(Events)]
      /\ \A t \in Turns : \A e : Says(wire'[t], e) => Says(wire[t], e)
  <2>1. \A e : ~Says(<<>>, e)
    BY Words
  <2>2. CASE reading = {}
    BY <1>1, <2>2 DEF CrashServer
  <2>3. CASE reading # {}
    <3>1. wire' = [t \in Turns |-> <<>>]
      BY <2>3 DEF CrashServer
    <3>2. <<>> \in Seq(Events) /\ \A t \in Turns : wire'[t] = <<>>
      BY <3>1
    <3>3. QED
      BY <2>1, <3>1, <3>2
  <2>4. QED
    BY <2>2, <2>3
<1>6. /\ reading' = {} /\ updated' = {} /\ pending' = FALSE
  BY DEF CrashServer, calls, AgentInv, OneCall, TypeOK
<1>7. /\ chat' \in Seq(BubbleType) /\ RepliesInTheirOwnBubble'
      /\ \A i \in 1 .. Len(chat') : chat'[i].state # "streaming"
  <2>1. CASE reading = {}
    BY <1>1, <2>1 DEF CrashServer, AgentInv, RepliesInTheirOwnBubble, OnlyLastStreams
  <2>2. CASE reading # {}
    BY <2>2, ErrorSettles DEF CrashServer
  <2>3. QED
    BY <2>1, <2>2
<1>8. TypeOK'
  BY <1>1, <1>2, <1>4, <1>5, <1>6, <1>7, Folded DEF AgentInv, TypeOK
<1>9. RoundBegun' /\ GivenIsKept'
  BY <1>3 DEF AgentInv, RoundBegun, GivenIsKept, Running, Began
<1>10. OneCall' /\ LastIsRead' /\ OnlyLastStreams' /\ EndIsNear'
  BY <1>6, <1>7 DEF OneCall, LastIsRead, OnlyLastStreams, EndIsNear
<1>11. \A t \in Turns : turn[t].pc = "done" => turn'[t].pc = "done"
  BY <1>3 DEF Running
<1>12. Honest'
  BY <1>5, <1>6, <1>11 DEF AgentInv, Honest
<1>13. Provenance'
  <2>1. \A e : Settled(e) => Settled(e)'
    BY <1>11, SettledStays
  <2>2. QED
    BY <1>2, <1>3, <2>1 DEF AgentInv, Provenance
<1>14. NoLineYet'
  BY <1>2, <1>3 DEF AgentInv, NoLineYet, Silent, TurnsOf, Running
<1>15. QED
  BY <1>7, <1>8, <1>9, <1>10, <1>12, <1>13, <1>14 DEF AgentInv

-----------------------------------------------------------------------------
(* The invariant, and what it is for.                                      *)

LEMMA InitAgentInv == Init => AgentInv
<1> SUFFICES ASSUME Init PROVE AgentInv
  OBVIOUS
<1>1. Unsent \in TurnType /\ Unsent.pc = "unsent" /\ Unsent.given = {} /\ Unsent.work = {}
  <2>1. {} \in Designs /\ <<>> \in Seq(Lines) /\ 0 \in 0 .. MaxRounds
    BY AgentAssumption DEF Designs
  <2>2. QED
    BY <2>1 DEF Unsent, TurnType, PC
<1>2. \A t \in Turns : turn[t] = Unsent
  BY DEF Init
<1>3. TypeOK
  <2>1. turn \in [Turns -> [pc : {"unsent", "asked", "model", "tools", "append", "reply",
                                 "done", "failed", "lost", "dropped"},
                           via : {"stream", "post"}, sid : Sessions \cup {None},
                           given : Designs, work : Designs,
                           seen : Seq(Lines), round : 0 .. MaxRounds]]
    <3> HIDE DEF Unsent
    <3>1. QED
      BY <1>1 DEF Init, TurnType, PC
  <2>2. {} \in Designs /\ 0 \in 0 .. MaxEdits /\ 0 \in 0 .. MaxFaults
    BY AgentAssumption DEF Designs
  <2>3. /\ <<>> \in Seq(Lines) /\ <<>> \in Seq(Events)
        /\ <<>> \in Seq([turn : Turns, state : {"streaming", "complete", "error"},
                         of : SUBSET Turns])
    OBVIOUS
  <2>4. QED
    BY <2>1, <2>2, <2>3 DEF Init, TypeOK
<1>4. Honest
  BY <1>2, Words DEF Init, Honest
<1>5. RoundBegun /\ GivenIsKept /\ Provenance
  BY <1>1, <1>2 DEF Init, RoundBegun, GivenIsKept, Provenance, Began
<1>6. QED
  BY <1>3, <1>4, <1>5
     DEF Init, AgentInv, OneCall, LastIsRead, RepliesInTheirOwnBubble, OnlyLastStreams, EndIsNear,
         NoLineYet, TurnsOf

LEMMA AgentInvStep == ASSUME AgentInv, [Next]_vars PROVE AgentInv'
<1>1. CASE UNCHANGED vars
  <2>1. UNCHANGED <<turn, file, wire, design, sid, chat, pending, reading, updated, edits, faults>>
    BY <1>1 DEF vars, server, tab, calls
  <2>2. TypeOK' /\ RoundBegun' /\ OneCall' /\ LastIsRead'
    BY <2>1 DEF AgentInv, TypeOK, RoundBegun, OneCall, LastIsRead
  <2>3. RepliesInTheirOwnBubble' /\ OnlyLastStreams' /\ EndIsNear'
    BY <2>1 DEF AgentInv, RepliesInTheirOwnBubble, OnlyLastStreams, EndIsNear
  <2>4. Honest' /\ GivenIsKept' /\ NoLineYet'
    BY <2>1 DEF AgentInv, Honest, GivenIsKept, NoLineYet, TurnsOf
  <2>5. Provenance'
    BY <2>1 DEF AgentInv, Provenance, Settled
  <2>6. QED
    BY <2>2, <2>3, <2>4, <2>5 DEF AgentInv
<1>2. CASE Next
  BY <1>2, StepKeeps, PostTurnKeeps, SendMessageKeeps, RequestFailsKeeps, ReadEventKeeps,
     EndOfStreamKeeps, StreamBreaksKeeps, NewSessionKeeps, EditDesignKeeps, CrashServerKeeps
     DEF Next
<1>3. QED
  BY <1>1, <1>2

\* The types of the agent's variables, and how turns, streams, sessions and the
\* sidebar belong together.
THEOREM AgentInvHolds == Spec => []AgentInv
  BY InitAgentInv, AgentInvStep, PTL DEF Spec

\* A turn that was cut short has left nothing in a session or in the design.
THEOREM CutTurnsLeaveNothing == Spec => []FailedTurnsLeaveNoTrace
<1>1. AgentInv => FailedTurnsLeaveNoTrace
  <2> SUFFICES ASSUME AgentInv, NEW t \in Turns, turn[t].pc \in {"failed", "dropped"}
               PROVE  /\ \A s \in Sessions : t \notin TurnsOf(file[s])
                      /\ EditsOf(t, design) = {}
    BY DEF FailedTurnsLeaveNoTrace
  <2>1. \A s \in Sessions : t \notin TurnsOf(file[s])
    BY DEF AgentInv, NoLineYet, Silent
  <2>2. \A e \in design : e[1] # t
    BY DEF AgentInv, Provenance, Settled, Turns
  <2>3. QED
    BY <2>1, <2>2 DEF EditsOf
<1>2. QED
  BY <1>1, AgentInvHolds, PTL

\* A reply is written into the bubble of its own question, whenever New is
\* pressed.
THEOREM RepliesStayInTheirBubble == Spec => []RepliesInTheirOwnBubble
<1>1. AgentInv => RepliesInTheirOwnBubble
  BY DEF AgentInv
<1>2. QED
  BY <1>1, AgentInvHolds, PTL

\* However a turn ends, its bubble is settled before the composer is free.
THEOREM FreeMeansSettled == Spec => []IdleMeansSettled
<1>1. AgentInv => IdleMeansSettled
  <2> SUFFICES ASSUME AgentInv, ~pending, NEW i \in DOMAIN chat PROVE chat[i].state # "streaming"
    BY DEF IdleMeansSettled
  <2>1. i \in 1 .. Len(chat)
    BY Unfolded DEF AgentInv
  <2>2. QED
    BY <2>1 DEF AgentInv, OneCall, OnlyLastStreams
<1>2. QED
  BY <1>1, AgentInvHolds, PTL

\* An answer takes away only edits that its question was not asked with.
THEOREM OnlyLateEditsAreLost == Spec => LostEditsAreLate
<1>1. ASSUME AgentInv, [Next]_vars
      PROVE  [\A e \in design : e \notin design' =>
                \E t \in reading : t \notin reading' /\ e \notin turn[t].given]_vars
  <2> SUFFICES ASSUME NEW e \in design, e \notin design'
               PROVE  \E t \in reading : t \notin reading' /\ e \notin turn[t].given
    OBVIOUS
  <2>1. PICK t \in Turns : EndOfStream(t)
    BY <1>1 DEF Next, vars, tab, Step, Begin, ModelCallsTools, ModelStops, ModelFails, RunTools,
                AppendUser, AppendReply, DropStream, PostTurn, SendMessage, RequestFails,
                ReadEvent, StreamBreaks, NewSession, EditDesign, CrashServer
  <2>2. t \in reading /\ t \notin reading' /\ t \in updated /\ design' = turn[t].work
    BY <2>1 DEF EndOfStream, Finish
  <2>3. turn[t].given \subseteq turn[t].work
    BY <1>1, <2>2 DEF AgentInv, Honest, GivenIsKept, Began
  <2>4. QED
    BY <2>2, <2>3
<1>2. QED
  BY <1>1, AgentInvHolds, PTL DEF Spec, LostEditsAreLate
=============================================================================
