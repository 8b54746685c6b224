------------------------- MODULE DesignServerProofs -------------------------
(***************************************************************************)
(* Proofs about DesignServer, for any number of designs, threads, streams, *)
(* requests and crashes: its types, and the invariant behind the promises  *)
(* about files, events and the active pointer.                             *)
(***************************************************************************)
EXTENDS DesignServer, FiniteSetTheorems, TLAPS

USE DEF Actors, Documents

-----------------------------------------------------------------------------
(* Documents and files.                                                    *)

LEMMA SizeType == \A d \in Documents : Size(d) \in Nat /\ Size(d) > 0
<1> SUFFICES ASSUME NEW d \in Documents PROVE Size(d) \in Nat /\ Size(d) > 0
  OBVIOUS
<1>1. IsFiniteSet(d)
  BY FS_Subset, DocAssumption
<1>2. Cardinality(d) \in Nat
  BY <1>1, FS_CardinalityType
<1>3. QED
  BY <1>2 DEF Size

LEMMA FileValues ==
    /\ Absent \in Files /\ Empty \in Files
    /\ \A d \in Documents : Json(d) \in Files
    /\ \A n \in Nat : Torn(n) \in Files
  BY SizeType DEF Absent, Empty, Json, Torn, Files

LEMMA OverwriteType ==
    ASSUME NEW f \in Files, NEW d \in Documents
    PROVE  /\ Overwrite(f, d) \in Files
           /\ Overwrite(f, d) # Absent
           /\ f = Empty => Overwrite(f, d).kind = "json"
<1>1. Size(d) \in Nat /\ Size(d) > 0 /\ f.size \in Nat
  BY SizeType DEF Files
<1>2. Overwrite(f, d) \in Files
  BY <1>1, FileValues DEF Overwrite
<1>3. Overwrite(f, d).kind \in {"json", "torn"}
  BY DEF Overwrite, Json, Torn
<1>4. f = Empty => Overwrite(f, d).kind = "json"
  BY <1>1 DEF Overwrite, Json, Empty
<1>5. QED
  BY <1>2, <1>3, <1>4 DEF Absent

-----------------------------------------------------------------------------
(* Type correctness.                                                       *)

\* The threads.
LEMMA OpFields ==
    ASSUME TypeOK, NEW a \in Actors, op[a].pc # "idle"
    PROVE  /\ op[a] \in [pc : Steps, id : Ids, doc : Documents, live : BOOLEAN, tool : BOOLEAN]
           /\ op[a].id \in Ids /\ op[a].doc \in Documents
  BY DEF TypeOK, Ops, Idle

LEMMA GotoType ==
    ASSUME TypeOK, NEW a \in Actors, op[a].pc # "idle", NEW pc \in Steps, Goto(a, pc)
    PROVE  op' \in [Actors -> Ops]
<1>1. [op[a] EXCEPT !.pc = pc] \in Ops
  BY OpFields DEF Ops
<1>2. QED
  BY <1>1 DEF Goto, TypeOK

LEMMA DoneType ==
    ASSUME TypeOK, NEW a, Done(a)
    PROVE  op' \in [Actors -> Ops]
  BY DEF Done, TypeOK, Ops

\* A step that changes only what the threads do.
LEMMA OpOnly ==
    ASSUME TypeOK, op' \in [Actors -> Ops], requests' \in 0 .. MaxRequests,
           UNCHANGED <<file, active, stream, queue, view, history>>
    PROVE  TypeOK'
  BY DEF TypeOK, history

LEMMA InitTypeOK == Init => TypeOK
<1> SUFFICES ASSUME Init PROVE TypeOK
  OBVIOUS
<1>1. file \in [Ids -> Files]
  BY FileValues DEF Init
<1>2. op \in [Actors -> Ops]
  BY DEF Init, Ops
<1>3. stream \in [Streams -> Connections]
  BY DEF Init, Off, Connections
<1>4. QED
  BY <1>1, <1>2, <1>3, RequestAssumption DEF Init, TypeOK

LEMMA RequestTypeOK ==
    ASSUME TypeOK, NEW a \in Actors, Request(a)
    PROVE  TypeOK'
<1>1. requests' \in 0 .. MaxRequests
  <2>1. NewRequest
    BY DEF Request, SaveRequest, DeleteRequest, PutActive, SetActiveTool, ClearActiveTool, ToolCall
  <2>2. QED
    BY <2>1, RequestAssumption DEF NewRequest, TypeOK
<1>2. CASE PutActive(a) \/ ClearActiveTool(a)
  BY <1>1, <1>2 DEF TypeOK, PutActive, ClearActiveTool, SetTo, Late
<1>3. CASE SaveRequest(a) \/ DeleteRequest(a) \/ SetActiveTool(a) \/ ToolCall(a)
  <2>1. \E r \in Ops : op' = [op EXCEPT ![a] = r]
    <3>1. CASE SaveRequest(a)
      <4>1. PICK id \in Ids, d \in BrowserDocs :
              op' = [op EXCEPT ![a] = [Idle EXCEPT !.pc = "open", !.id = id, !.doc = d]]
        BY <3>1 DEF SaveRequest
      <4>2. [Idle EXCEPT !.pc = "open", !.id = id, !.doc = d] \in Ops
        BY DocAssumption DEF Idle, Ops, Steps
      <4>3. QED
        BY <4>1, <4>2
    <3>2. CASE DeleteRequest(a)
      <4>1. \A id \in Ids : [Idle EXCEPT !.pc = "unlink", !.id = id] \in Ops
        BY DEF Idle, Ops, Steps
      <4>2. QED
        BY <3>2, <4>1 DEF DeleteRequest
    <3>3. CASE SetActiveTool(a)
      <4>1. \A id \in Ids : [Idle EXCEPT !.pc = "set_active", !.id = id] \in Ops
        BY DEF Idle, Ops, Steps
      <4>2. QED
        BY <3>3, <4>1 DEF SetActiveTool
    <3>4. CASE ToolCall(a)
      <4>1. \A id \in Ids : [Idle EXCEPT !.pc = "load", !.id = id, !.tool = TRUE] \in Ops
        BY DEF Idle, Ops, Steps
      <4>2. PICK rid \in Ids \cup {None} :
              op' = [op EXCEPT ![a] = IF rid = None THEN Idle
                       ELSE [Idle EXCEPT !.pc = "load", !.id = rid, !.tool = TRUE]]
        BY <3>4 DEF ToolCall, TypeOK
      <4>3. Idle \in Ops
        BY DEF Ops
      <4>4. QED
        BY <4>1, <4>2, <4>3
    <3>5. QED
      BY <1>3, <3>1, <3>2, <3>3, <3>4
  <2>2. op' \in [Actors -> Ops]
    BY <2>1 DEF TypeOK
  <2>3. UNCHANGED <<file, active, stream, queue, view, history>>
    BY <1>3 DEF SaveRequest, DeleteRequest, SetActiveTool, ToolCall
  <2>4. QED
    BY <1>1, <2>2, <2>3, OpOnly
<1>4. QED
  BY <1>2, <1>3 DEF Request

LEMMA PublishType ==
    ASSUME TypeOK, NEW id, NEW event \in {"saved", "deleted"}, Publish(id, event)
    PROVE  /\ queue' \in [Streams -> Seq({"saved", "deleted"})]
           /\ view' \in [Streams -> {"current", "behind", "notified"}]
<1>1. \A s \in Streams : Append(queue[s], event) \in Seq({"saved", "deleted"})
  BY DEF TypeOK
<1>2. QED
  BY <1>1 DEF TypeOK, Publish

LEMMA StepTypeOK ==
    ASSUME TypeOK, NEW a \in Actors, Step(a)
    PROVE  TypeOK'
<1>1. op[a].pc # "idle"
  BY DEF Step, OpenFile, WriteFile, StatFile, PublishSaved, Unlink, PublishDeleted, CheckActive,
         ClearActive, SetActive, LoadDesign, ToolError, At
<1>2. op[a].id \in Ids /\ op[a].doc \in Documents
  BY <1>1, OpFields
<1>3. CASE OpenFile(a)
  <2>1. [op[a] EXCEPT !.pc = "write", !.live = TRUE] \in Ops
    BY <1>1, OpFields DEF Ops, Steps
  <2>2. op' = [op EXCEPT ![a] = [op[a] EXCEPT !.pc = "write", !.live = TRUE]]
    BY <1>3 DEF OpenFile
  <2>3. op' \in [Actors -> Ops]
    BY <2>1, <2>2 DEF TypeOK
  <2>4. file' \in [Ids -> Files] /\ kept' \in [Ids -> Documents]
    BY <1>3, FileValues DEF OpenFile, Forget, TypeOK
  <2>5. QED
    BY <1>3, <2>3, <2>4 DEF TypeOK, OpenFile, Changed
<1>4. CASE WriteFile(a)
  <2>1. op' \in [Actors -> Ops]
    BY <1>1, <1>4, GotoType DEF WriteFile, Steps
  <2>2. Overwrite(file[op[a].id], op[a].doc) \in Files
    BY <1>2, OverwriteType DEF TypeOK
  <2>3. file' \in [Ids -> Files]
    BY <1>4, <2>2 DEF WriteFile, TypeOK
  <2>4. kept' \in [Ids -> Documents]
    <3>1. kept[op[a].id] \cup op[a].doc \in Documents /\ {} \in Documents
      BY <1>2 DEF TypeOK, Documents
    <3>2. CASE op[a].live
      <4>1. Account(a, op[a].id, op[a].doc)
        BY <1>4, <3>2 DEF WriteFile
      <4>2. QED
        BY <1>2, <3>1, <4>1 DEF Account, TypeOK
    <3>3. CASE ~op[a].live
      BY <1>4, <3>3 DEF WriteFile, TypeOK
    <3>4. QED
      BY <3>2, <3>3
  <2>5. view' \in [Streams -> {"current", "behind", "notified"}]
    BY <1>4 DEF WriteFile, Changed, TypeOK
  <2>6. QED
    BY <1>4, <2>1, <2>3, <2>4, <2>5 DEF TypeOK, WriteFile
<1>5. CASE StatFile(a) \/ CheckActive(a) \/ ToolError(a)
  <2>1. op' \in [Actors -> Ops]
    BY <1>1, <1>5, GotoType, DoneType DEF StatFile, CheckActive, ToolError, Steps
  <2>2. QED
    BY <1>5, <2>1, OpOnly DEF StatFile, CheckActive, ToolError, TypeOK
<1>6. CASE PublishSaved(a) \/ PublishDeleted(a)
  <2>1. op' \in [Actors -> Ops]
    BY <1>1, <1>6, GotoType, DoneType DEF PublishSaved, PublishDeleted, Steps
  <2>2. /\ queue' \in [Streams -> Seq({"saved", "deleted"})]
        /\ view' \in [Streams -> {"current", "behind", "notified"}]
    BY <1>6, PublishType DEF PublishSaved, PublishDeleted
  <2>3. QED
    BY <1>6, <2>1, <2>2 DEF PublishSaved, PublishDeleted, TypeOK, history
<1>7. CASE Unlink(a)
  <2>1. op' \in [Actors -> Ops]
    <3>1. CASE Exists(op[a].id)
      <4>1. [op[a] EXCEPT !.pc = "publish_deleted"] \in Ops
        BY <1>1, OpFields DEF Ops, Steps
      <4>2. \A b \in Actors : At(b, "write") => [op[b] EXCEPT !.live = FALSE] \in Ops
        BY OpFields DEF Ops, At
      <4>3. QED
        <5>1. op' = [b \in Actors |->
                       IF b = a THEN [op[a] EXCEPT !.pc = "publish_deleted"]
                       ELSE IF b \in Writing(op[a].id) THEN [op[b] EXCEPT !.live = FALSE]
                       ELSE op[b]]
          BY <1>7, <3>1 DEF Unlink
        <5>2. \A b \in Actors : op'[b] \in Ops
          BY <4>1, <4>2, <5>1 DEF Writing, TypeOK
        <5>3. QED
          BY <5>1, <5>2
    <3>2. CASE ~Exists(op[a].id)
      BY <1>7, <3>2, DoneType DEF Unlink
    <3>3. QED
      BY <3>1, <3>2
  <2>2. file' \in [Ids -> Files] /\ kept' \in [Ids -> Documents] /\ marred' \in [Ids -> BOOLEAN]
    BY <1>7, FileValues DEF Unlink, TypeOK
  <2>3. view' \in [Streams -> {"current", "behind", "notified"}]
    BY <1>7 DEF Unlink, Changed, TypeOK
  <2>4. fate' \in [Ids -> {"none", "deleted", "set_late"}]
    BY <1>7 DEF Unlink, TypeOK
  <2>5. QED
    BY <1>7, <2>1, <2>2, <2>3, <2>4 DEF Unlink, TypeOK
<1>8. CASE ClearActive(a) \/ SetActive(a)
  <2>1. op' \in [Actors -> Ops]
    BY <1>8, DoneType DEF ClearActive, SetActive
  <2>2. active' \in Ids \cup {None} /\ fate' \in [Ids -> {"none", "deleted", "set_late"}]
    BY <1>2, <1>8 DEF ClearActive, SetActive, SetTo, Late, TypeOK, history
  <2>3. QED
    BY <1>8, <2>1, <2>2 DEF ClearActive, SetActive, TypeOK, history
<1>9. CASE LoadDesign(a)
  <2>1. op' \in [Actors -> Ops]
    <3>1. CASE Done(a) \/ Goto(a, "raised")
      BY <1>1, <3>1, GotoType, DoneType DEF Steps
    <3>2. ASSUME NEW added \in ToolEdits,
                 op' = [op EXCEPT ![a].pc = "open", ![a].doc = file[op[a].id].doc \cup added]
          PROVE  op' \in [Actors -> Ops]
      <4>1. file[op[a].id].doc \cup added \in Documents
        BY <1>2 DEF TypeOK, Files, ToolEdits
      <4>2. [op[a] EXCEPT !.pc = "open", !.doc = file[op[a].id].doc \cup added] \in Ops
        BY <1>1, <4>1, OpFields DEF Ops, Steps
      <4>3. QED
        BY <3>2, <4>2 DEF TypeOK
    <3>3. QED
      BY <1>9, <3>1, <3>2 DEF LoadDesign
  <2>2. QED
    BY <1>9, <2>1, OpOnly DEF LoadDesign, TypeOK
<1>10. QED
  BY <1>3, <1>4, <1>5, <1>6, <1>7, <1>8, <1>9 DEF Step

\* What becomes of the streams, and of the requests.
LEMMA EndType ==
    ASSUME TypeOK, NEW ended, End(ended)
    PROVE  /\ stream' \in [Streams -> Connections]
           /\ queue' \in [Streams -> Seq({"saved", "deleted"})]
           /\ view' \in [Streams -> {"current", "behind", "notified"}]
           /\ last' \in [Streams -> {"saved", "deleted", None}]
<1>1. [Off EXCEPT !.st = "ended"] \in Connections
  BY DEF Off, Connections
<1>2. <<>> \in Seq({"saved", "deleted"})
  OBVIOUS
<1>3. stream' \in [Streams -> Connections]
  BY <1>1 DEF TypeOK, End
<1>4. QED
  BY <1>2, <1>3 DEF TypeOK, End

LEMMA GreetType ==
    ASSUME TypeOK, NEW s \in Streams, NEW st \in {"greeting", "open"}, NEW seen \in SUBSET Ids,
           stream' = [stream EXCEPT ![s] = [st |-> st, id |-> @.id, seen |-> seen]]
    PROVE  stream' \in [Streams -> Connections]
<1>1. stream \in [Streams -> Connections]
  BY DEF TypeOK
<1>2. stream[s] \in Connections
  BY <1>1
<1>3. [st |-> st, id |-> stream[s].id, seen |-> seen] \in Connections
  BY <1>2 DEF Connections
<1>4. QED
  BY <1>1, <1>3

LEMMA StreamTypeOK ==
    ASSUME TypeOK, NEW s \in Streams, Subscribe(s) \/ Serve(s) \/ Leave(s)
    PROVE  TypeOK'
<1>1. CASE Subscribe(s)
  <2>1. \A id \in Ids : [Off EXCEPT !.st = "subscribed", !.id = id] \in Connections
    BY DEF Off, Connections
  <2>2. stream' \in [Streams -> Connections]
    BY <1>1, <2>1 DEF TypeOK, Subscribe
  <2>3. QED
    BY <1>1, <2>2 DEF TypeOK, Subscribe, history
<1>2. CASE ReadHello(s)
  <2>1. {id \in Ids : file[id].kind = "json"} \in SUBSET Ids
    OBVIOUS
  <2>2. stream' = [stream EXCEPT ![s] =
                    [st   |-> IF Exists(stream[s].id) THEN "greeting" ELSE "open",
                     id   |-> stream[s].id,
                     seen |-> {id \in Ids : file[id].kind = "json"}]]
    BY <1>2 DEF ReadHello
  <2>3. stream' \in [Streams -> Connections]
    BY <2>1, <2>2, GreetType
  <2>4. QED
    BY <1>2, <2>3 DEF TypeOK, ReadHello, history
<1>3. CASE StatHello(s) \/ Leave(s)
  <2>1. CASE End({s})
    BY <1>3, <2>1, EndType DEF TypeOK, StatHello, Leave
  <2>2. CASE stream' = [stream EXCEPT ![s] = [st |-> "open", id |-> @.id, seen |-> {}]] /\ UNCHANGED <<queue, view, last>>
    <3>1. {} \in SUBSET Ids
      OBVIOUS
    <3>2. stream' \in [Streams -> Connections]
      BY <2>2, <3>1, GreetType
    <3>3. UNCHANGED <<file, active, op, requests, kept, marred, fate>>
      BY <1>3 DEF StatHello, Leave
    <3>4. QED
      BY <2>2, <3>2, <3>3 DEF TypeOK
  <2>3. QED
    BY <1>3, <2>1, <2>2 DEF StatHello, Leave
<1>4. CASE Deliver(s)
  <2>1. Head(queue[s]) \in {"saved", "deleted"} /\ Tail(queue[s]) \in Seq({"saved", "deleted"})
    BY <1>4 DEF Deliver, TypeOK
  <2>2. QED
    BY <1>4, <2>1 DEF TypeOK, Deliver
<1>5. QED
  BY <1>1, <1>2, <1>3, <1>4 DEF Serve

LEMMA CrashTypeOK == TypeOK /\ Crash => TypeOK'
<1> SUFFICES ASSUME TypeOK, Crash PROVE TypeOK'
  OBVIOUS
<1>1. op' \in [Actors -> Ops]
  BY DEF Crash, Ops
<1>2. requests' \in 0 .. MaxRequests
  BY RequestAssumption DEF Crash, NewRequest, TypeOK
<1>3. End({s \in Streams : Listening(s)})
  BY DEF Crash
<1>4. QED
  BY <1>1, <1>2, <1>3, EndType DEF Crash, TypeOK

LEMMA NextTypeOK == TypeOK /\ [Next]_vars => TypeOK'
<1> SUFFICES ASSUME TypeOK, [Next]_vars PROVE TypeOK'
  OBVIOUS
<1>1. CASE UNCHANGED vars
  BY <1>1 DEF vars, history, TypeOK
<1>2. QED
  BY <1>1, RequestTypeOK, StepTypeOK, StreamTypeOK, CrashTypeOK DEF Next

\* The variables of the server keep their types.
THEOREM TypeCorrect == Spec => []TypeOK
  BY InitTypeOK, NextTypeOK, PTL DEF Spec

-----------------------------------------------------------------------------
(* What the steps of a thread do, as far as the invariant is concerned.    *)

\* Thread a moves on, the others do not.
Alone(a) == \A b \in Actors \ {a} : op'[b] = op[b]

\* Thread a neither writes a file nor begins to.
NoWrite(a) ==
    /\ Alone(a) /\ ~At(a, "write") /\ op'[a].pc # "write"
    /\ UNCHANGED <<file, marred>>

LEMMA DoneMove ==
    ASSUME TypeOK, NEW a \in Actors, Done(a)
    PROVE  Alone(a) /\ op'[a] = Idle
  BY DEF TypeOK, Done, Alone

LEMMA GotoMove ==
    ASSUME TypeOK, NEW a \in Actors, op[a].pc # "idle", NEW pc, Goto(a, pc)
    PROVE  /\ Alone(a)
           /\ op'[a].pc = pc /\ op'[a].id = op[a].id /\ op'[a].live = op[a].live
<1>1. op \in [Actors -> Ops]
  BY DEF TypeOK
<1>2. op[a] \in [pc : Steps, id : Ids, doc : Documents, live : BOOLEAN, tool : BOOLEAN]
  BY OpFields
<1>3. op'[a] = [op[a] EXCEPT !.pc = pc]
  BY <1>1 DEF Goto
<1>4. QED
  BY <1>1, <1>2, <1>3 DEF Goto, Alone

LEMMA RequestMove ==
    ASSUME TypeOK, NEW a \in Actors, Request(a)
    PROVE  /\ NoWrite(a) /\ op[a] = Idle
           /\ op'[a].pc \in {"idle", "open", "unlink", "set_active", "load"}
           /\ UNCHANGED <<stream, queue, view>>
<1>1. op[a] = Idle
  BY DEF Request, SaveRequest, DeleteRequest, PutActive, SetActiveTool, ClearActiveTool, ToolCall, Free
<1>2. \A id, d : /\ [Idle EXCEPT !.pc = "open", !.id = id, !.doc = d].pc = "open"
                 /\ [Idle EXCEPT !.pc = "unlink", !.id = id].pc = "unlink"
                 /\ [Idle EXCEPT !.pc = "set_active", !.id = id].pc = "set_active"
                 /\ [Idle EXCEPT !.pc = "load", !.id = id, !.tool = TRUE].pc = "load"
                 /\ Idle.pc = "idle"
  BY DEF Idle
<1>3. UNCHANGED <<file, marred, stream, queue, view>>
  BY DEF Request, SaveRequest, DeleteRequest, PutActive, SetActiveTool, ClearActiveTool, ToolCall, history
<1>4. Alone(a) /\ op'[a].pc \in {"idle", "open", "unlink", "set_active", "load"}
  <2>1. CASE SaveRequest(a)
    BY <1>2, <2>1 DEF SaveRequest, TypeOK, Alone
  <2>2. CASE DeleteRequest(a)
    BY <1>2, <2>2 DEF DeleteRequest, TypeOK, Alone
  <2>3. CASE PutActive(a) \/ ClearActiveTool(a)
    BY <1>1, <1>2, <2>3 DEF PutActive, ClearActiveTool, Alone
  <2>4. CASE SetActiveTool(a)
    BY <1>2, <2>4 DEF SetActiveTool, TypeOK, Alone
  <2>5. CASE ToolCall(a)
    BY <1>2, <2>5 DEF ToolCall, TypeOK, Alone
  <2>6. QED
    BY <2>1, <2>2, <2>3, <2>4, <2>5 DEF Request
<1>5. QED
  BY <1>1, <1>2, <1>3, <1>4 DEF NoWrite, At

\* The steps that touch no file.
Light(a) ==
    \/ StatFile(a) \/ PublishSaved(a) \/ PublishDeleted(a) \/ CheckActive(a)
    \/ ClearActive(a) \/ SetActive(a) \/ LoadDesign(a) \/ ToolError(a)

LEMMA LightMove ==
    ASSUME TypeOK, NEW a \in Actors, Light(a)
    PROVE  NoWrite(a)
<1>1. op[a].pc \notin {"idle", "write"}
  BY DEF Light, StatFile, PublishSaved, PublishDeleted, CheckActive, ClearActive, SetActive,
         LoadDesign, ToolError, At
<1>2. UNCHANGED <<file, marred>>
  BY DEF Light, StatFile, PublishSaved, PublishDeleted, CheckActive, ClearActive, SetActive,
         LoadDesign, ToolError, history
<1>3. \/ Done(a)
      \/ \E pc \in {"publish_saved", "check_active", "clear_active", "raised"} : Goto(a, pc)
      \/ \E d : op' = [op EXCEPT ![a].pc = "open", ![a].doc = d]
  BY DEF Light, StatFile, PublishSaved, PublishDeleted, CheckActive, ClearActive, SetActive,
         LoadDesign, ToolError
<1>4. Alone(a) /\ op'[a].pc # "write"
  <2>1. CASE Done(a)
    BY <2>1, DoneMove DEF Idle
  <2>2. ASSUME NEW pc \in {"publish_saved", "check_active", "clear_active", "raised"}, Goto(a, pc)
        PROVE  Alone(a) /\ op'[a].pc # "write"
    BY <1>1, <2>2, GotoMove
  <2>3. ASSUME NEW d, op' = [op EXCEPT ![a].pc = "open", ![a].doc = d]
        PROVE  Alone(a) /\ op'[a].pc # "write"
    <3>1. op \in [Actors -> Ops]
      BY DEF TypeOK
    <3>2. op[a] \in [pc : Steps, id : Ids, doc : Documents, live : BOOLEAN, tool : BOOLEAN]
      BY <1>1, OpFields
    <3>3. QED
      BY <2>3, <3>1, <3>2 DEF Alone
  <2>4. QED
    BY <1>3, <2>1, <2>2, <2>3
<1>5. QED
  BY <1>1, <1>2, <1>4 DEF NoWrite, At

LEMMA OpenMove ==
    ASSUME TypeOK, NEW a \in Actors, OpenFile(a)
    PROVE  /\ Alone(a) /\ op[a].pc = "open" /\ op[a].id \in Ids
           /\ op'[a].pc = "write" /\ op'[a].id = op[a].id /\ op'[a].live
           /\ file'[op[a].id] = Empty
           /\ \A id \in Ids \ {op[a].id} :
                 file'[id] = file[id] /\ marred'[id] = marred[id] /\ fate'[id] = fate[id]
           /\ marred'[op[a].id] = (Writing(op[a].id) # {}) /\ fate'[op[a].id] = "none"
<1>1. op[a].pc = "open"
  BY DEF OpenFile, At
<1>2. op[a].id \in Ids
  BY <1>1, OpFields
<1>3. op \in [Actors -> Ops]
  BY DEF TypeOK
<1>4. op[a] \in [pc : Steps, id : Ids, doc : Documents, live : BOOLEAN, tool : BOOLEAN]
  BY <1>1, OpFields
<1>5. op' = [op EXCEPT ![a].pc = "write", ![a].live = TRUE]
  BY DEF OpenFile
<1>6. Alone(a) /\ op'[a].pc = "write" /\ op'[a].id = op[a].id /\ op'[a].live
  BY <1>3, <1>4, <1>5 DEF Alone
<1>7. QED
  BY <1>1, <1>2, <1>6 DEF OpenFile, TypeOK

LEMMA WriteMove ==
    ASSUME TypeOK, NEW a \in Actors, WriteFile(a)
    PROVE  /\ Alone(a) /\ op[a].pc = "write" /\ op[a].id \in Ids
           /\ op'[a].pc = "stat" /\ op'[a].id = op[a].id
           /\ UNCHANGED <<marred, fate, active>>
           /\ op[a].live =>
                 /\ file'[op[a].id] = Overwrite(file[op[a].id], op[a].doc)
                 /\ \A id \in Ids \ {op[a].id} : file'[id] = file[id]
           /\ ~op[a].live => file' = file
<1>1. op[a].pc = "write"
  BY DEF WriteFile, At
<1>2. op[a].id \in Ids
  BY <1>1, OpFields
<1>3. Alone(a) /\ op'[a].pc = "stat" /\ op'[a].id = op[a].id
  BY <1>1, GotoMove DEF WriteFile
<1>4. QED
  BY <1>1, <1>2, <1>3 DEF WriteFile, TypeOK

LEMMA UnlinkMove ==
    ASSUME TypeOK, NEW a \in Actors, Unlink(a)
    PROVE  /\ op[a].pc = "unlink" /\ op[a].id \in Ids
           /\ Exists(op[a].id) =>
                 /\ file' = [file EXCEPT ![op[a].id] = Absent]
                 /\ marred' = [marred EXCEPT ![op[a].id] = FALSE]
                 /\ fate' = [fate EXCEPT ![op[a].id] = "deleted"]
                 /\ op'[a].pc = "publish_deleted" /\ op'[a].id = op[a].id
                 /\ \A b \in Writing(op[a].id) :
                       op'[b].pc = "write" /\ op'[b].id = op[b].id /\ ~op'[b].live
                 /\ \A b \in Actors \ {a} : b \notin Writing(op[a].id) => op'[b] = op[b]
           /\ ~Exists(op[a].id) =>
                 /\ UNCHANGED <<file, marred, fate, view>>
                 /\ Alone(a) /\ op'[a].pc = "idle"
<1>1. op[a].pc = "unlink"
  BY DEF Unlink, At
<1>2. op[a].id \in Ids
  BY <1>1, OpFields
<1>3. CASE Exists(op[a].id)
  <2>1. op' = [b \in Actors |->
                 IF b = a THEN [op[a] EXCEPT !.pc = "publish_deleted"]
                 ELSE IF b \in Writing(op[a].id) THEN [op[b] EXCEPT !.live = FALSE]
                 ELSE op[b]]
    BY <1>3 DEF Unlink
  <2>2. op'[a].pc = "publish_deleted" /\ op'[a].id = op[a].id
    BY <1>1, <2>1, OpFields
  <2>3. ASSUME NEW b \in Writing(op[a].id)
        PROVE  op'[b].pc = "write" /\ op'[b].id = op[b].id /\ ~op'[b].live
    <3>1. b \in Actors /\ op[b].pc = "write" /\ b # a
      BY <1>1 DEF Writing, At
    <3>2. op[b] \in [pc : Steps, id : Ids, doc : Documents, live : BOOLEAN, tool : BOOLEAN]
      BY <3>1, OpFields
    <3>3. op'[b] = [op[b] EXCEPT !.live = FALSE]
      BY <2>1, <3>1
    <3>4. QED
      BY <3>1, <3>2, <3>3
  <2>4. \A b \in Actors \ {a} : b \notin Writing(op[a].id) => op'[b] = op[b]
    BY <2>1
  <2>5. QED
    BY <1>1, <1>2, <1>3, <2>2, <2>3, <2>4 DEF Unlink
<1>4. CASE ~Exists(op[a].id)
  BY <1>1, <1>2, <1>4, DoneMove DEF Unlink, Idle
<1>5. QED
  BY <1>3, <1>4

-----------------------------------------------------------------------------
(* Files.                                                                  *)

LEMMA WritingKept ==
    ASSUME NEW a \in Actors, NoWrite(a)
    PROVE  \A id : Writing(id)' = Writing(id)
  BY DEF NoWrite, Alone, Writing, At

LEMMA OpenFiles ==
    ASSUME TypeOK, SoloWriter, LiveHasFile, NEW a \in Actors, OpenFile(a)
    PROVE  SoloWriter' /\ LiveHasFile'
<1>0. PICK own \in Ids : own = op[a].id
  BY OpenMove
<1>1. ASSUME NEW id \in Ids \ {own} PROVE Writing(id)' = Writing(id)
  <2>1. \A b \in Actors : b \in Writing(id)' <=> b \in Writing(id)
    BY <1>0, OpenMove DEF Alone, Writing, At
  <2>2. QED
    BY <2>1 DEF Writing
<1>2. Writing(own)' = Writing(own) \cup {a}
  <2>1. \A b \in Actors : b \in Writing(own)' <=> b \in Writing(own) \/ b = a
    BY <1>0, OpenMove DEF Alone, Writing, At
  <2>2. QED
    BY <2>1 DEF Writing
<1>3. SoloWriter'
  <2> SUFFICES ASSUME NEW id \in Ids, ~marred'[id]
               PROVE  \/ Writing(id)' = {} /\ file'[id].kind \in {"absent", "json"}
                      \/ \E b \in Actors : Writing(id)' = {b} /\ file'[id] = Empty
    BY DEF SoloWriter
  <2>1. CASE id = own
    BY <1>0, <1>2, <2>1, OpenMove
  <2>2. CASE id # own
    <3>1. file'[id] = file[id] /\ ~marred[id]
      BY <1>0, <2>2, OpenMove
    <3>2. QED
      BY <1>1, <2>2, <3>1 DEF SoloWriter
  <2>3. QED
    BY <2>1, <2>2
<1>4. LiveHasFile'
  <2>1. Empty # Absent
    BY DEF Empty, Absent
  <2>2. \A id \in Ids : Exists(id) => Exists(id)'
    BY <2>1, OpenMove DEF Exists
  <2>3. Exists(own)'
    BY <1>0, <2>1, OpenMove DEF Exists
  <2>4. \A b \in Actors : At(b, "write") => op[b].id \in Ids
    BY OpFields DEF At
  <2>5. ASSUME NEW b \in Actors \ {a}, At(b, "write")', op'[b].live PROVE Exists(op[b].id)'
    <3>1. op'[b] = op[b]
      BY OpenMove DEF Alone
    <3>2. Exists(op[b].id) /\ op[b].id \in Ids
      BY <2>4, <2>5, <3>1 DEF LiveHasFile, At
    <3>3. file'[op[b].id] # Absent
      BY <2>2, <3>2 DEF Exists
    <3>4. QED
      BY <3>1, <3>3 DEF Exists
  <2>6. Exists(op[a].id)'
    BY <1>0, <2>3, OpenMove DEF Exists
  <2>7. QED
    BY <2>5, <2>6 DEF LiveHasFile
<1>5. QED
  BY <1>3, <1>4

LEMMA WriteFiles ==
    ASSUME TypeOK, SoloWriter, LiveHasFile, NEW a \in Actors, WriteFile(a)
    PROVE  SoloWriter' /\ LiveHasFile' /\ (op[a].live => Exists(op[a].id)')
<1>0. PICK own \in Ids : own = op[a].id
  BY WriteMove
<1>1. file[own] \in Files /\ op[a].doc \in Documents
  BY <1>0, WriteMove, OpFields DEF TypeOK
<1>2. /\ Overwrite(file[own], op[a].doc) # Absent
      /\ file[own] = Empty => Overwrite(file[own], op[a].doc).kind = "json"
  BY <1>1, OverwriteType
<1>3. ASSUME NEW id \in Ids \ {own} PROVE Writing(id)' = Writing(id)
  <2>1. \A b \in Actors : b \in Writing(id)' <=> b \in Writing(id)
    BY <1>0, WriteMove DEF Alone, Writing, At
  <2>2. QED
    BY <2>1 DEF Writing
<1>4. Writing(own)' = Writing(own) \ {a} /\ (a \in Writing(own) <=> op[a].live)
  <2>1. \A b \in Actors : b \in Writing(own)' <=> b \in Writing(own) /\ b # a
    BY <1>0, WriteMove DEF Alone, Writing, At
  <2>2. a \in Writing(own) <=> op[a].live
    BY <1>0, WriteMove DEF Writing, At
  <2>3. QED
    BY <2>1, <2>2 DEF Writing
<1>5. SoloWriter'
  <2> SUFFICES ASSUME NEW id \in Ids, ~marred[id]
               PROVE  \/ Writing(id)' = {} /\ file'[id].kind \in {"absent", "json"}
                      \/ \E b \in Actors : Writing(id)' = {b} /\ file'[id] = Empty
    BY WriteMove DEF SoloWriter
  <2>1. CASE id = own /\ op[a].live
    <3>1. Writing(own) = {a} /\ file[own] = Empty
      BY <1>0, <1>4, <2>1 DEF SoloWriter
    <3>2. QED
      BY <1>0, <1>2, <1>4, <2>1, <3>1, WriteMove
  <2>2. CASE id = own /\ ~op[a].live
    BY <1>0, <1>4, <2>2, WriteMove DEF SoloWriter
  <2>3. CASE id # own
    BY <1>0, <1>3, <2>3, WriteMove DEF SoloWriter
  <2>4. QED
    BY <2>1, <2>2, <2>3
<1>6. \A id \in Ids : Exists(id) => Exists(id)'
  BY <1>0, <1>2, WriteMove DEF Exists
<1>7. LiveHasFile'
  <2>1. \A b \in Actors : At(b, "write") => op[b].id \in Ids
    BY OpFields DEF At
  <2>2. QED
    BY <1>6, <2>1, WriteMove DEF LiveHasFile, At, Alone, Exists
<1>8. op[a].live => Exists(op[a].id)'
  BY <1>0, <1>2, WriteMove DEF Exists
<1>9. QED
  BY <1>5, <1>7, <1>8

LEMMA UnlinkFiles ==
    ASSUME TypeOK, SoloWriter, LiveHasFile, NEW a \in Actors, Unlink(a)
    PROVE  SoloWriter' /\ LiveHasFile'
<1>0. PICK own \in Ids : own = op[a].id
  BY UnlinkMove
<1>1. CASE Exists(own)
  <2>1. a \notin Writing(own)
    BY UnlinkMove DEF Writing, At
  <2>2. Writing(own)' = {}
    <3>1. \A b \in Actors : b \notin Writing(own)'
      BY <1>0, <1>1, <2>1, UnlinkMove DEF Writing, At
    <3>2. QED
      BY <3>1 DEF Writing
  <2>3. ASSUME NEW id \in Ids \ {own} PROVE Writing(id)' = Writing(id)
    <3>1. \A b \in Actors : b \in Writing(id)' <=> b \in Writing(id)
      BY <1>0, <1>1, UnlinkMove DEF Writing, At
    <3>2. QED
      BY <3>1 DEF Writing
  <2>4. /\ file'[own] = Absent
        /\ \A id \in Ids \ {own} : file'[id] = file[id] /\ marred'[id] = marred[id]
    BY <1>0, <1>1, UnlinkMove DEF TypeOK
  <2>5. SoloWriter'
    BY <2>2, <2>3, <2>4 DEF SoloWriter, Absent
  <2>6. LiveHasFile'
    <3> SUFFICES ASSUME NEW b \in Actors, op'[b].pc = "write", op'[b].live
                 PROVE  file'[op'[b].id] # Absent
      BY DEF LiveHasFile, At, Exists
    <3>1. b # a /\ b \notin Writing(own) /\ op'[b] = op[b]
      BY <1>0, <1>1, UnlinkMove
    <3>2. op[b].id \in Ids /\ op[b].id # own
      BY <3>1, OpFields DEF Writing, At
    <3>3. QED
      BY <2>4, <3>1, <3>2 DEF LiveHasFile, At, Exists
  <2>7. QED
    BY <2>5, <2>6
<1>2. CASE ~Exists(own)
  <2>1. NoWrite(a)
    BY <1>0, <1>2, UnlinkMove DEF NoWrite, At
  <2>2. QED
    BY <2>1, WritingKept DEF NoWrite, Alone, SoloWriter, LiveHasFile, At, Exists
<1>3. QED
  BY <1>1, <1>2

LEMMA FilesStep == TypeOK /\ SoloWriter /\ LiveHasFile /\ [Next]_vars => SoloWriter' /\ LiveHasFile'
<1> SUFFICES ASSUME TypeOK, SoloWriter, LiveHasFile, [Next]_vars
             PROVE  SoloWriter' /\ LiveHasFile'
  OBVIOUS
<1>1. ASSUME NEW a \in Actors, NoWrite(a) PROVE SoloWriter' /\ LiveHasFile'
  BY <1>1, WritingKept DEF NoWrite, Alone, SoloWriter, LiveHasFile, At, Exists
<1>2. ASSUME NEW a \in Actors, Request(a) PROVE SoloWriter' /\ LiveHasFile'
  BY <1>1, <1>2, RequestMove
<1>3. ASSUME NEW a \in Actors, Step(a) PROVE SoloWriter' /\ LiveHasFile'
  <2>1. CASE Light(a)
    BY <1>1, <2>1, LightMove
  <2>2. QED
    BY <1>3, <2>1, OpenFiles, WriteFiles, UnlinkFiles DEF Step, Light
<1>4. CASE UNCHANGED <<file, op, marred>>
  <2>1. \A id : Writing(id)' = Writing(id)
    BY <1>4 DEF Writing, At
  <2>2. QED
    BY <1>4, <2>1 DEF SoloWriter, LiveHasFile, At, Exists
<1>5. ASSUME NEW s \in Streams, Subscribe(s) \/ Serve(s) \/ Leave(s)
      PROVE  SoloWriter' /\ LiveHasFile'
  BY <1>4, <1>5 DEF Subscribe, Serve, ReadHello, StatHello, Deliver, Leave, history
<1>6. CASE Crash
  <2>1. \A a \in Actors : op'[a].pc = "idle"
    BY <1>6 DEF Crash, Idle
  <2>2. \A id : Writing(id)' = {}
    BY <2>1 DEF Writing, At
  <2>3. \A id \in Ids : ~marred'[id] => ~marred[id] /\ Writing(id) = {}
    BY <1>6 DEF Crash
  <2>4. SoloWriter'
    BY <1>6, <2>2, <2>3 DEF Crash, SoloWriter
  <2>5. QED
    BY <2>1, <2>4 DEF LiveHasFile, At
<1>7. CASE UNCHANGED vars
  BY <1>4, <1>7 DEF vars, history
<1>8. QED
  BY <1>2, <1>3, <1>5, <1>6, <1>7 DEF Next

-----------------------------------------------------------------------------
(* The active pointer.                                                     *)

DeleteSteps == {"publish_deleted", "check_active", "clear_active"}

LEMMA DanglingStep == TypeOK /\ DanglingOnlyByLateSet /\ [Next]_vars => DanglingOnlyByLateSet'
<1> SUFFICES ASSUME TypeOK, DanglingOnlyByLateSet, [Next]_vars PROVE DanglingOnlyByLateSet'
  OBVIOUS
<1>1. ASSUME NEW a \in Actors, Alone(a), op[a].pc \notin DeleteSteps,
             UNCHANGED <<active, fate>>
      PROVE  DanglingOnlyByLateSet'
  BY <1>1 DEF DanglingOnlyByLateSet, Deleting, Alone, DeleteSteps
<1>2. ASSUME active' = None PROVE DanglingOnlyByLateSet'
  BY <1>2, ActorAssumption DEF DanglingOnlyByLateSet
<1>3. ASSUME NEW id, SetTo(id) PROVE DanglingOnlyByLateSet'
  <2>1. active' = None \/ active' = id
    BY <1>3 DEF SetTo
  <2>2. CASE active' = id
    BY <1>3, <2>2 DEF SetTo, Late, DanglingOnlyByLateSet
  <2>3. QED
    BY <1>2, <2>1, <2>2
<1>4. ASSUME NEW a \in Actors, Request(a) PROVE DanglingOnlyByLateSet'
  <2>1. CASE PutActive(a) \/ ClearActiveTool(a)
    BY <1>3, <2>1 DEF PutActive, ClearActiveTool
  <2>2. CASE SaveRequest(a) \/ DeleteRequest(a) \/ SetActiveTool(a) \/ ToolCall(a)
    <3>1. UNCHANGED <<active, fate>>
      BY <2>2 DEF SaveRequest, DeleteRequest, SetActiveTool, ToolCall, history
    <3>2. QED
      BY <1>1, <1>4, <3>1, RequestMove DEF NoWrite, Idle, DeleteSteps
  <2>3. QED
    BY <1>4, <2>1, <2>2 DEF Request
<1>5. ASSUME NEW a \in Actors, Step(a) PROVE DanglingOnlyByLateSet'
  <2>1. CASE OpenFile(a)
    <3>1. active' = active /\ op[a].pc \notin DeleteSteps /\ Alone(a)
      BY <2>1, OpenMove DEF OpenFile, DeleteSteps
    <3>2. \A id \in Ids : fate'[id] = "deleted" => fate[id] = "deleted"
      BY <2>1, OpenMove
    <3>3. QED
      BY <3>1, <3>2 DEF DanglingOnlyByLateSet, Deleting, Alone, DeleteSteps
  <2>2. CASE WriteFile(a)
    BY <1>1, <2>2, WriteMove DEF DeleteSteps
  <2>3. CASE StatFile(a) \/ PublishSaved(a) \/ LoadDesign(a) \/ ToolError(a)
    <3>1. UNCHANGED <<active, fate>> /\ op[a].pc \notin DeleteSteps
      BY <2>3 DEF StatFile, PublishSaved, LoadDesign, ToolError, history, At, DeleteSteps
    <3>2. QED
      BY <1>1, <2>3, <3>1, LightMove DEF Light, NoWrite
  <2>4. CASE Unlink(a)
    <3>1. active' = active
      BY <2>4 DEF Unlink
    <3>2. CASE Exists(op[a].id)
      <4> SUFFICES ASSUME NEW id \in Ids, active = id, fate'[id] = "deleted"
                   PROVE  Deleting(id)'
        BY <3>1 DEF DanglingOnlyByLateSet
      <4>1. CASE id = op[a].id
        BY <2>4, <3>2, <4>1, UnlinkMove DEF Deleting
      <4>2. CASE id # op[a].id
        <5>1. fate[id] = "deleted"
          BY <2>4, <3>2, <4>2, UnlinkMove DEF TypeOK
        <5>2. PICK b \in Actors : op[b].id = id /\ op[b].pc \in DeleteSteps
          BY <5>1 DEF DanglingOnlyByLateSet, Deleting, DeleteSteps
        <5>3. op'[b] = op[b]
          BY <2>4, <3>2, <4>2, <5>2, UnlinkMove DEF Writing, At, DeleteSteps
        <5>4. QED
          BY <5>2, <5>3 DEF Deleting, DeleteSteps
      <4>3. QED
        BY <4>1, <4>2
    <3>3. CASE ~Exists(op[a].id)
      BY <1>1, <2>4, <3>1, <3>3, UnlinkMove DEF DeleteSteps
    <3>4. QED
      BY <3>2, <3>3
  <2>5. CASE PublishDeleted(a)
    <3>1. /\ Alone(a) /\ op'[a].pc = "check_active" /\ op'[a].id = op[a].id
          /\ UNCHANGED <<active, fate>>
      BY <2>5, GotoMove DEF PublishDeleted, At, history
    <3>2. QED
      BY <3>1 DEF DanglingOnlyByLateSet, Deleting, Alone
  <2>6. CASE CheckActive(a)
    <3>1. Alone(a) /\ UNCHANGED <<active, fate>>
      BY <2>6, GotoMove, DoneMove DEF CheckActive, At, history
    <3>2. active = op[a].id => op'[a].pc = "clear_active" /\ op'[a].id = op[a].id
      BY <2>6, GotoMove DEF CheckActive, At
    <3>3. QED
      BY <3>1, <3>2 DEF DanglingOnlyByLateSet, Deleting, Alone
  <2>7. CASE ClearActive(a)
    BY <1>2, <2>7 DEF ClearActive
  <2>8. CASE SetActive(a)
    BY <1>3, <2>8 DEF SetActive
  <2>9. QED
    BY <1>5, <2>1, <2>2, <2>3, <2>4, <2>5, <2>6, <2>7, <2>8 DEF Step
<1>6. CASE UNCHANGED <<active, op, fate>>
  BY <1>6 DEF DanglingOnlyByLateSet, Deleting
<1>7. ASSUME NEW s \in Streams, Subscribe(s) \/ Serve(s) \/ Leave(s)
      PROVE  DanglingOnlyByLateSet'
  BY <1>6, <1>7 DEF Subscribe, Serve, ReadHello, StatHello, Deliver, Leave, history
<1>8. CASE Crash
  BY <1>2, <1>8 DEF Crash
<1>9. CASE UNCHANGED vars
  BY <1>6, <1>9 DEF vars, history
<1>10. QED
  BY <1>4, <1>5, <1>7, <1>8, <1>9 DEF Next

-----------------------------------------------------------------------------
(* Events.                                                                 *)

\* A step that no client sees, of a thread that keeps its promises.
LEMMA UnseenStep ==
    ASSUME WatchersServed, NEW a \in Actors, Alone(a), UNCHANGED <<file, stream, queue, view>>,
           \A id : WillPublish(a, id) => WillPublish(a, id)'
    PROVE  WatchersServed'
<1>1. \A s \in Streams : Listening(s)' = Listening(s)
  BY DEF Listening
<1>2. ASSUME NEW id, NEW b \in Actors \ {a}, WillPublish(b, id) PROVE WillPublish(b, id)'
  BY <1>2 DEF Alone, WillPublish, At, Exists
<1>3. ASSUME NEW s \in Streams, Promised(s) PROVE Promised(s)'
  <2>1. PICK b \in Actors : WillPublish(b, stream[s].id)
    BY <1>3 DEF Promised
  <2>2. WillPublish(b, stream[s].id)'
    BY <1>2, <2>1 DEF WillPublish, At, Exists
  <2>3. QED
    BY <2>2 DEF Promised
<1>4. QED
  BY <1>1, <1>3 DEF WatchersServed, Served

\* A step that changes the file of one design and tells its watchers.
LEMMA ChangingStep ==
    ASSUME TypeOK, WatchersServed, NEW a \in Actors, NEW own \in Ids, Changed(own),
           UNCHANGED <<stream, queue>>, WillPublish(a, own)',
           \A id \in Ids \ {own} : file'[id] = file[id],
           \A b \in Actors : op[b].id # own => op'[b] = op[b]
    PROVE  WatchersServed'
<1> SUFFICES ASSUME NEW s \in Streams
             PROVE  Served(s)'
  BY DEF WatchersServed
<1>1. Listening(s)' = Listening(s) /\ stream'[s] = stream[s] /\ queue'[s] = queue[s]
  BY DEF Listening
<1>2. CASE s \in Watchers(own)
  <2>1. view'[s] = "behind"
    BY <1>2 DEF Changed
  <2>2. stream[s].id = own /\ Listening(s)
    BY <1>2 DEF Watchers
  <2>3. WillPublish(a, stream[s].id)'
    BY <1>1, <2>2 DEF WillPublish, At, Exists
  <2>4. QED
    BY <1>1, <2>1, <2>2, <2>3 DEF Served, Promised
<1>3. CASE s \notin Watchers(own)
  <2>1. view'[s] = view[s]
    BY <1>3 DEF Changed
  <2>2. ASSUME view[s] = "behind" PROVE Promised(s)'
    <3>1. PICK b \in Actors : WillPublish(b, stream[s].id)
      BY <2>2 DEF WatchersServed, Served, Promised
    <3>2. Listening(s)
      BY <2>2 DEF WatchersServed, Served, Promised
    <3>3. stream[s].id # own
      BY <1>3, <3>2 DEF Watchers
    <3>4. op'[b] = op[b] /\ op[b].id = stream[s].id
      BY <3>1, <3>3 DEF WillPublish
    <3>5. op[b].id \in Ids
      BY <3>1, OpFields DEF WillPublish, At
    <3>6. file'[stream[s].id] = file[stream[s].id]
      BY <3>3, <3>4, <3>5
    <3>7. WillPublish(b, stream[s].id)'
      BY <1>1, <3>1, <3>4, <3>6 DEF WillPublish, At, Exists
    <3>8. QED
      BY <3>7 DEF Promised
  <2>3. QED
    BY <1>1, <2>1, <2>2 DEF WatchersServed, Served
<1>4. QED
  BY <1>2, <1>3

\* A step that publishes: its watchers have an event to read.
LEMMA PublishingStep ==
    ASSUME TypeOK, WatchersServed, NEW a \in Actors, Alone(a), NEW event,
           Publish(op[a].id, event), UNCHANGED <<file, stream>>
    PROVE  WatchersServed'
<1> SUFFICES ASSUME NEW s \in Streams
             PROVE  Served(s)'
  BY DEF WatchersServed
<1>1. Listening(s)' = Listening(s) /\ stream'[s] = stream[s]
  BY DEF Listening
<1>2. CASE s \in Watchers(op[a].id)
  <2>1. queue'[s] = Append(queue[s], event) /\ queue[s] \in Seq({"saved", "deleted"})
    BY <1>2 DEF Publish, TypeOK
  <2>2. queue'[s] # <<>>
    BY <2>1
  <2>3. view'[s] # "behind" /\ Listening(s)
    BY <1>2 DEF Publish, Watchers
  <2>4. QED
    BY <1>1, <2>2, <2>3 DEF Served
<1>3. CASE s \notin Watchers(op[a].id)
  <2>1. queue'[s] = queue[s] /\ view'[s] = view[s]
    BY <1>3 DEF Publish
  <2>2. ASSUME view[s] = "behind" PROVE Promised(s)'
    <3>1. PICK b \in Actors : WillPublish(b, stream[s].id)
      BY <2>2 DEF WatchersServed, Served, Promised
    <3>2. Listening(s)
      BY <2>2 DEF WatchersServed, Served, Promised
    <3>3. b # a
      BY <1>3, <3>1, <3>2 DEF Watchers, WillPublish
    <3>4. WillPublish(b, stream[s].id)'
      BY <1>1, <3>1, <3>3 DEF WillPublish, At, Exists, Alone
    <3>5. QED
      BY <3>4 DEF Promised
  <2>3. QED
    BY <1>1, <2>1, <2>2 DEF WatchersServed, Served
<1>4. QED
  BY <1>2, <1>3

LEMMA StepServed ==
    ASSUME TypeOK, WatchersServed, SoloWriter, LiveHasFile, NEW a \in Actors, Step(a)
    PROVE  WatchersServed'
<1>1. CASE OpenFile(a)
  <2>1. op[a].id \in Ids /\ Changed(op[a].id) /\ UNCHANGED <<stream, queue>>
    BY <1>1, OpenMove DEF OpenFile
  <2>2. WillPublish(a, op[a].id)'
    BY <1>1, OpenMove DEF WillPublish, At
  <2>3. \A b \in Actors : op[b].id # op[a].id => op'[b] = op[b]
    BY <1>1, OpenMove DEF Alone
  <2>4. \A id \in Ids \ {op[a].id} : file'[id] = file[id]
    BY <1>1, OpenMove
  <2>5. PICK own \in Ids : own = op[a].id
    BY <2>1
  <2>6. WillPublish(a, own)'
    BY <1>1, <2>5, OpenMove DEF WillPublish, At
  <2>7. QED
    BY <2>1, <2>3, <2>4, <2>5, <2>6, ChangingStep
<1>2. CASE WriteFile(a) /\ op[a].live
  <2>1. op[a].id \in Ids /\ Changed(op[a].id) /\ UNCHANGED <<stream, queue>>
    BY <1>2, WriteMove DEF WriteFile
  <2>2. \A b \in Actors : op[b].id # op[a].id => op'[b] = op[b]
    BY <1>2, WriteMove DEF Alone
  <2>3. \A id \in Ids \ {op[a].id} : file'[id] = file[id]
    BY <1>2, WriteMove
  <2>4. PICK own \in Ids : own = op[a].id
    BY <2>1
  <2>5. Exists(op[a].id)'
    BY <1>2, WriteFiles
  <2>6. WillPublish(a, own)'
    BY <1>2, <2>4, <2>5, WriteMove DEF WillPublish, At, Exists
  <2>7. QED
    BY <2>1, <2>2, <2>3, <2>4, <2>6, ChangingStep
<1>3. CASE WriteFile(a) /\ ~op[a].live
  <2>1. Alone(a) /\ UNCHANGED <<file, stream, queue, view>>
    BY <1>3, WriteMove DEF WriteFile
  <2>2. \A id : ~WillPublish(a, id)
    BY <1>3, WriteMove DEF WillPublish, At
  <2>3. QED
    BY <2>1, <2>2, UnseenStep
<1>4. CASE StatFile(a)
  <2>1. Alone(a) /\ UNCHANGED <<file, stream, queue, view>> /\ op[a].pc = "stat"
    BY <1>4, LightMove DEF StatFile, Light, NoWrite, At
  <2>2. ASSUME NEW id, WillPublish(a, id) PROVE WillPublish(a, id)'
    <3>1. op[a].id = id /\ Exists(id)
      BY <2>1, <2>2 DEF WillPublish, At
    <3>2. op'[a].pc = "publish_saved" /\ op'[a].id = op[a].id
      BY <1>4, <2>1, <3>1, GotoMove DEF StatFile
    <3>3. QED
      BY <2>1, <3>1, <3>2 DEF WillPublish, Exists, At
  <2>3. QED
    BY <2>1, <2>2, UnseenStep
<1>5. CASE PublishSaved(a)
  BY <1>5, LightMove, PublishingStep DEF PublishSaved, Light, NoWrite
<1>6. CASE PublishDeleted(a)
  BY <1>6, LightMove, PublishingStep DEF PublishDeleted, Light, NoWrite
<1>7. CASE CheckActive(a) \/ ClearActive(a) \/ SetActive(a) \/ LoadDesign(a) \/ ToolError(a)
  <2>1. Alone(a) /\ UNCHANGED <<file, stream, queue, view>>
    BY <1>7, LightMove DEF CheckActive, ClearActive, SetActive, LoadDesign, ToolError, Light, NoWrite
  <2>2. op[a].pc \in {"check_active", "clear_active", "set_active", "load", "raised"}
    BY <1>7 DEF CheckActive, ClearActive, SetActive, LoadDesign, ToolError, At
  <2>3. \A id : ~WillPublish(a, id)
    BY <2>2 DEF WillPublish, At
  <2>4. QED
    BY <2>1, <2>3, UnseenStep
<1>8. CASE Unlink(a) /\ Exists(op[a].id)
  <2>1. op[a].id \in Ids /\ Changed(op[a].id) /\ UNCHANGED <<stream, queue>>
    BY <1>8, UnlinkMove DEF Unlink
  <2>2. PICK own \in Ids : own = op[a].id
    BY <2>1
  <2>3. WillPublish(a, own)'
    BY <1>8, <2>2, UnlinkMove DEF WillPublish, At
  <2>4. \A b \in Actors : op[b].id # own => op'[b] = op[b]
    BY <1>8, <2>2, UnlinkMove DEF Writing, At
  <2>5. \A id \in Ids \ {own} : file'[id] = file[id]
    BY <1>8, <2>2, UnlinkMove DEF TypeOK
  <2>6. QED
    BY <2>1, <2>2, <2>3, <2>4, <2>5, ChangingStep
<1>9. CASE Unlink(a) /\ ~Exists(op[a].id)
  <2>1. Alone(a) /\ UNCHANGED <<file, stream, queue, view>> /\ op[a].pc = "unlink"
    BY <1>9, UnlinkMove DEF Unlink
  <2>2. \A id : ~WillPublish(a, id)
    BY <2>1 DEF WillPublish, At
  <2>3. QED
    BY <2>1, <2>2, UnseenStep
<1>10. QED
  BY <1>1, <1>2, <1>3, <1>4, <1>5, <1>6, <1>7, <1>8, <1>9 DEF Step

\* The end of some streams, with nothing else that their clients could see.
LEMMA EndServed ==
    ASSUME WatchersServed, NEW ended, End(ended),
           \A b \in Actors : \A id : WillPublish(b, id) => WillPublish(b, id)'
    PROVE  WatchersServed'
<1> SUFFICES ASSUME NEW s \in Streams
             PROVE  Served(s)'
  BY DEF WatchersServed
<1>1. CASE s \in ended
  <2>1. view'[s] = "current"
    BY <1>1 DEF End
  <2>2. QED
    BY <2>1 DEF Served
<1>2. CASE s \notin ended
  <2>1. stream'[s] = stream[s] /\ view'[s] = view[s] /\ queue'[s] = queue[s]
    BY <1>2 DEF End
  <2>2. Listening(s)' = Listening(s)
    BY <2>1 DEF Listening
  <2>3. ASSUME Promised(s) PROVE Promised(s)'
    <3>1. PICK b \in Actors : WillPublish(b, stream[s].id)
      BY <2>3 DEF Promised
    <3>2. WillPublish(b, stream[s].id)'
      BY <2>1, <3>1
    <3>3. QED
      BY <3>2 DEF Promised
  <2>4. QED
    BY <2>1, <2>2, <2>3 DEF WatchersServed, Served
<1>3. QED
  BY <1>1, <1>2

\* A queue of more than one event is not empty after the first.
LEMMA MoreLeft ==
    ASSUME NEW T, NEW q \in Seq(T), q # <<>>, Len(q) # 1
    PROVE  Tail(q) # <<>>
<1>1. Len(q) \in Nat /\ Len(q) # 0
  OBVIOUS
<1>2. Len(Tail(q)) = Len(q) - 1
  BY <1>1
<1>3. Len(Tail(q)) # 0
  BY <1>1, <1>2
<1>4. Len(<<>>) = 0
  OBVIOUS
<1>5. QED
  BY <1>3, <1>4, Zenon

LEMMA StreamServed ==
    ASSUME TypeOK, WatchersServed, NEW s \in Streams, Subscribe(s) \/ Serve(s) \/ Leave(s)
    PROVE  WatchersServed'
<1>1. UNCHANGED <<file, op>>
  BY DEF Subscribe, Serve, ReadHello, StatHello, Deliver, Leave
<1>2. ASSUME NEW b \in Actors, NEW id, WillPublish(b, id) PROVE WillPublish(b, id)'
  BY <1>1, <1>2 DEF WillPublish, At, Exists
<1>3. CASE End({s})
  BY <1>2, <1>3, EndServed
<1>4. ASSUME NEW x \in Streams, Promised(x), stream'[x].id = stream[x].id PROVE Promised(x)'
  <2>1. PICK b \in Actors : WillPublish(b, stream[x].id)
    BY <1>4 DEF Promised
  <2>2. WillPublish(b, stream[x].id)'
    BY <1>2, <1>4, <2>1 DEF WillPublish, At, Exists
  <2>3. QED
    BY <2>2 DEF Promised
<1>5. ASSUME NEW r, stream' = [stream EXCEPT ![s] = r], UNCHANGED <<queue, view>>,
             r.st \in {"subscribed", "greeting", "open"},
             Listening(s) => r.id = stream[s].id
      PROVE  WatchersServed'
  <2> SUFFICES ASSUME NEW x \in Streams
               PROVE  Served(x)'
    BY DEF WatchersServed
  <2>1. CASE x = s
    <3>1. Listening(x)' /\ stream'[x].id = r.id
      BY <1>5, <2>1 DEF TypeOK, Listening
    <3>2. ASSUME view[x] = "behind" PROVE Promised(x)'
      <4>1. stream'[x].id = stream[x].id
        BY <1>5, <2>1, <3>1, <3>2 DEF WatchersServed, Served
      <4>2. QED
        BY <1>4, <3>2, <4>1 DEF WatchersServed, Served
    <3>3. QED
      BY <1>5, <3>1, <3>2 DEF WatchersServed, Served
  <2>2. CASE x # s
    <3>1. stream'[x] = stream[x]
      BY <1>5, <2>2 DEF TypeOK
    <3>2. Listening(x)' = Listening(x)
      BY <3>1 DEF Listening
    <3>3. QED
      BY <1>5, <1>4, <3>1, <3>2 DEF WatchersServed, Served
  <2>3. QED
    BY <2>1, <2>2
<1>6. CASE Subscribe(s)
  <2>1. ~Listening(s)
    BY <1>6 DEF Subscribe, Listening
  <2>2. PICK id \in Ids : stream' = [stream EXCEPT ![s] = [Off EXCEPT !.st = "subscribed", !.id = id]]
    BY <1>6 DEF Subscribe
  <2>3. [Off EXCEPT !.st = "subscribed", !.id = id].st = "subscribed"
    BY DEF Off
  <2>4. QED
    BY <1>5, <1>6, <2>1, <2>2, <2>3 DEF Subscribe
<1>7. CASE ReadHello(s)
  <2>1. PICK st \in {"greeting", "open"}, seen \in SUBSET Ids :
          stream' = [stream EXCEPT ![s] = [st |-> st, id |-> stream[s].id, seen |-> seen]]
    <3>1. {id \in Ids : file[id].kind = "json"} \in SUBSET Ids
      OBVIOUS
    <3>2. QED
      BY <1>7, <3>1 DEF ReadHello
  <2>2. QED
    BY <1>5, <1>7, <2>1 DEF ReadHello
<1>8. CASE StatHello(s) /\ ~End({s})
  <2>1. stream' = [stream EXCEPT ![s] = [st |-> "open", id |-> stream[s].id, seen |-> {}]]
    BY <1>8 DEF StatHello
  <2>2. QED
    BY <1>5, <1>8, <2>1 DEF StatHello
<1>9. CASE Deliver(s)
  <2> SUFFICES ASSUME NEW x \in Streams
               PROVE  Served(x)'
    BY DEF WatchersServed
  <2>1. stream' = stream /\ Listening(x)' = Listening(x)
    BY <1>9 DEF Deliver, Listening
  <2>2. CASE x = s
    <3>1. queue[x] \in Seq({"saved", "deleted"}) /\ queue[x] # <<>> /\ queue'[x] = Tail(queue[x])
      BY <1>9, <2>2 DEF Deliver, TypeOK
    <3>2. view'[x] = IF view[x] = "notified" /\ Len(queue[x]) = 1 THEN "current" ELSE view[x]
      BY <1>9, <2>2 DEF Deliver, TypeOK
    <3>3. Len(queue[x]) # 1 => queue'[x] # <<>>
      BY <3>1, MoreLeft
    <3>4. view'[x] = "behind" => view[x] = "behind"
      BY <3>2
    <3>5. view'[x] = "notified" => queue'[x] # <<>>
      BY <3>2, <3>3
    <3>6. ~Listening(x) => view'[x] = "current"
      BY <3>2 DEF WatchersServed, Served
    <3>7. QED
      BY <1>4, <2>1, <3>4, <3>5, <3>6 DEF WatchersServed, Served
  <2>3. CASE x # s
    <3>1. queue'[x] = queue[x] /\ view'[x] = view[x]
      BY <1>9, <2>3 DEF Deliver, TypeOK
    <3>2. QED
      BY <1>4, <2>1, <3>1 DEF WatchersServed, Served
  <2>4. QED
    BY <2>2, <2>3
<1>10. CASE Leave(s)
  BY <1>3, <1>10 DEF Leave
<1>11. QED
  BY <1>3, <1>6, <1>7, <1>8, <1>9, <1>10 DEF Serve

LEMMA ServedStep ==
    ASSUME TypeOK, WatchersServed, SoloWriter, LiveHasFile, [Next]_vars
    PROVE  WatchersServed'
<1>1. ASSUME NEW a \in Actors, Request(a) PROVE WatchersServed'
  <2>1. Alone(a) /\ UNCHANGED <<file, stream, queue, view>>
    BY <1>1, RequestMove DEF NoWrite
  <2>2. \A id : ~WillPublish(a, id)
    BY <1>1, RequestMove DEF WillPublish, At, Idle
  <2>3. QED
    BY <2>1, <2>2, UnseenStep
<1>2. CASE Crash
  <2>1. \A s \in Streams : view'[s] = "current"
    BY <1>2 DEF Crash, End, WatchersServed, Served
  <2>2. QED
    BY <2>1 DEF WatchersServed, Served
<1>3. CASE UNCHANGED vars
  <2>1. UNCHANGED <<file, op, stream, queue, view>>
    BY <1>3 DEF vars
  <2>2. \A s \in Streams : Listening(s)' = Listening(s)
    BY <2>1 DEF Listening
  <2>3. \A b, id : WillPublish(b, id)' = WillPublish(b, id)
    BY <2>1 DEF WillPublish, At, Exists
  <2>4. QED
    BY <2>1, <2>2, <2>3 DEF WatchersServed, Served, Promised
<1>4. QED
  BY <1>1, <1>2, <1>3, StepServed, StreamServed DEF Next

-----------------------------------------------------------------------------
(* The edits of tools.                                                     *)

\* A thread that goes on with its request keeps its document.
SameRequest(a) ==
    op'[a].tool = op[a].tool /\ op'[a].id = op[a].id /\ op'[a].doc = op[a].doc

LEMMA GotoSame ==
    ASSUME TypeOK, NEW a \in Actors, op[a].pc # "idle", NEW pc, Goto(a, pc)
    PROVE  SameRequest(a)
<1>1. op \in [Actors -> Ops]
  BY DEF TypeOK
<1>2. op[a] \in [pc : Steps, id : Ids, doc : Documents, live : BOOLEAN, tool : BOOLEAN]
  BY OpFields
<1>3. QED
  BY <1>1, <1>2 DEF Goto, SameRequest

LEMMA IdleTool == ~Idle.tool /\ Idle.pc = "idle"
  BY DEF Idle

\* A step that adds to no account and changes no file keeps the promise if no
\* tool gets another document by it.
LEMMA AccountKept ==
    ASSUME ToolsInv, NEW a \in Actors, Alone(a), file' = file, kept' = kept,
           op'[a].tool =>
               /\ a = Loop
               /\ op'[a].pc \in {"open", "write"} => kept[op'[a].id] \subseteq op'[a].doc
    PROVE  ToolsInv'
<1>1. EditsSurvive'
  BY DEF ToolsInv, EditsSurvive
<1>2. ASSUME NEW b \in Actors, op'[b].tool
      PROVE  /\ b = Loop
             /\ op'[b].pc \in {"open", "write"} => kept'[op'[b].id] \subseteq op'[b].doc
  <2>1. CASE b = a
    BY <1>2, <2>1
  <2>2. CASE b # a
    BY <1>2, <2>2 DEF Alone, ToolsInv, LoadedIsFresh
  <2>3. QED
    BY <2>1, <2>2
<1>3. QED
  BY <1>1, <1>2 DEF ToolsInv, LoadedIsFresh

LEMMA RequestTools ==
    ASSUME TypeOK, ToolsInv, NEW a \in Actors, Request(a)
    PROVE  ToolsInv'
<1>1. Alone(a) /\ file' = file
  BY RequestMove DEF NoWrite
<1>2. kept' = kept
  BY DEF Request, SaveRequest, DeleteRequest, PutActive, SetActiveTool, ClearActiveTool, ToolCall, history
<1>3. op \in [Actors -> Ops]
  BY DEF TypeOK
<1>4. op'[a].tool => a = Loop /\ op'[a].pc = "load"
  <2>1. CASE SaveRequest(a)
    BY <1>3, <2>1 DEF SaveRequest, Idle
  <2>2. CASE DeleteRequest(a)
    BY <1>3, <2>2 DEF DeleteRequest, Idle
  <2>3. CASE PutActive(a) \/ ClearActiveTool(a)
    BY <2>3, RequestMove, IdleTool DEF PutActive, ClearActiveTool
  <2>4. CASE SetActiveTool(a)
    BY <1>3, <2>4 DEF SetActiveTool, Idle
  <2>5. CASE ToolCall(a)
    <3>1. a = Loop
      BY <2>5 DEF ToolCall, ToolThreads
    <3>2. op'[a] = Idle \/ op'[a].pc = "load"
      BY <1>3, <2>5 DEF ToolCall, Idle
    <3>3. QED
      BY <3>1, <3>2, IdleTool
  <2>6. QED
    BY <2>1, <2>2, <2>3, <2>4, <2>5 DEF Request
<1>5. QED
  BY <1>1, <1>2, <1>4, AccountKept

LEMMA LightTools ==
    ASSUME TypeOK, ToolsInv, NEW a \in Actors, Light(a)
    PROVE  ToolsInv'
<1>1. Alone(a) /\ file' = file /\ op[a].pc # "idle"
  BY LightMove DEF NoWrite, Light, StatFile, PublishSaved, PublishDeleted, CheckActive, ClearActive,
                   SetActive, LoadDesign, ToolError, At
<1>2. kept' = kept
  BY DEF Light, StatFile, PublishSaved, PublishDeleted, CheckActive, ClearActive, SetActive,
         LoadDesign, ToolError, history
<1>3. op[a].tool => a = Loop
  BY DEF ToolsInv, LoadedIsFresh
<1>4. CASE Done(a)
  BY <1>1, <1>2, <1>4, AccountKept, DoneMove, IdleTool
<1>5. ASSUME NEW pc \in {"publish_saved", "check_active", "clear_active", "raised"}, Goto(a, pc)
      PROVE  ToolsInv'
  <2>1. op'[a].pc = pc /\ op'[a].tool = op[a].tool
    BY <1>1, <1>5, GotoMove, GotoSame DEF SameRequest
  <2>2. QED
    BY <1>1, <1>2, <1>3, <2>1, AccountKept
<1>6. ASSUME LoadDesign(a), NEW added,
             op' = [op EXCEPT ![a].pc = "open", ![a].doc = file[op[a].id].doc \cup added]
      PROVE  ToolsInv'
  <2>1. op[a] \in [pc : Steps, id : Ids, doc : Documents, live : BOOLEAN, tool : BOOLEAN]
    BY <1>1, OpFields
  <2>2. op \in [Actors -> Ops]
    BY DEF TypeOK
  <2>3. /\ op'[a].tool = op[a].tool /\ op'[a].id = op[a].id
        /\ op'[a].doc = file[op[a].id].doc \cup added
    BY <1>6, <2>1, <2>2
  <2>4. file[op[a].id].kind = "json" \/ op'[a].pc = "raised"
    BY <1>1, <1>6, GotoMove DEF LoadDesign
  <2>5. file[op[a].id].kind = "json" => kept[op[a].id] \subseteq file[op[a].id].doc
    BY <2>1 DEF ToolsInv, EditsSurvive
  <2>6. QED
    BY <1>1, <1>2, <1>3, <2>3, <2>4, <2>5, AccountKept
<1>7. QED
  BY <1>4, <1>5, <1>6 DEF Light, StatFile, PublishSaved, PublishDeleted, CheckActive, ClearActive,
                          SetActive, LoadDesign, ToolError

LEMMA OpenTools ==
    ASSUME TypeOK, ToolsInv, NEW a \in Actors, OpenFile(a)
    PROVE  ToolsInv'
<1>1. Alone(a) /\ op[a].pc = "open" /\ op[a].id \in Ids
  BY OpenMove
<1>2. op[a] \in [pc : Steps, id : Ids, doc : Documents, live : BOOLEAN, tool : BOOLEAN]
  BY <1>1, OpFields
<1>3. SameRequest(a)
  BY <1>2 DEF OpenFile, TypeOK, SameRequest
<1>4. \A id \in Ids : kept'[id] \subseteq kept[id]
  BY DEF OpenFile, Forget, TypeOK
<1>5. EditsSurvive'
  <2> SUFFICES ASSUME NEW id \in Ids, file'[id].kind = "json" PROVE kept'[id] \subseteq file'[id].doc
    BY DEF EditsSurvive
  <2>1. id # op[a].id
    BY OpenMove DEF Empty
  <2>2. file'[id] = file[id]
    BY <2>1, OpenMove
  <2>3. QED
    BY <1>4, <2>2 DEF ToolsInv, EditsSurvive
<1>6. ASSUME NEW b \in Actors, op'[b].tool
      PROVE  /\ b = Loop
             /\ op'[b].pc \in {"open", "write"} => kept'[op'[b].id] \subseteq op'[b].doc
  <2>1. CASE b = a
    BY <1>1, <1>3, <1>4, <1>6, <2>1 DEF SameRequest, ToolsInv, LoadedIsFresh
  <2>2. CASE b # a
    <3>1. op'[b] = op[b]
      BY <1>1, <2>2 DEF Alone
    <3>2. op[b].pc \in {"open", "write"} => op[b].id \in Ids
      BY OpFields
    <3>3. QED
      BY <1>4, <1>6, <3>1, <3>2 DEF ToolsInv, LoadedIsFresh
  <2>3. QED
    BY <2>1, <2>2
<1>7. QED
  BY <1>5, <1>6 DEF ToolsInv, LoadedIsFresh

LEMMA WriteTools ==
    ASSUME TypeOK, ToolsInv, NEW a \in Actors, WriteFile(a)
    PROVE  ToolsInv'
<1>1. Alone(a) /\ op[a].pc = "write" /\ op'[a].pc = "stat" /\ op[a].id \in Ids
  BY WriteMove
<1>2. op'[a].tool = op[a].tool
  BY <1>1, GotoSame DEF WriteFile, SameRequest
<1>3. op[a].tool => a = Loop /\ kept[op[a].id] \subseteq op[a].doc
  BY <1>1 DEF ToolsInv, LoadedIsFresh
<1>4. CASE ~op[a].live
  BY <1>1, <1>2, <1>3, <1>4, AccountKept DEF WriteFile
<1>5. CASE op[a].live
  <2>1. \A id \in Ids \ {op[a].id} : file'[id] = file[id] /\ kept'[id] = kept[id]
    BY <1>1, <1>5, WriteMove DEF WriteFile, Account, TypeOK
  <2>2. kept'[op[a].id] = IF op[a].tool THEN kept[op[a].id] \cup op[a].doc
                          ELSE IF Loaded(op[a].id) = {} THEN op[a].doc ELSE {}
    BY <1>1, <1>5 DEF WriteFile, Account, TypeOK
  <2>3. ASSUME file'[op[a].id].kind = "json" PROVE file'[op[a].id].doc = op[a].doc
    <3>1. file'[op[a].id] = Overwrite(file[op[a].id], op[a].doc)
      BY <1>5, WriteMove
    <3>2. \/ file'[op[a].id] = Torn(file[op[a].id].size)
          \/ file'[op[a].id] = Json(op[a].doc)
      BY <3>1 DEF Overwrite
    <3>3. file'[op[a].id] = Json(op[a].doc)
      BY <2>3, <3>2 DEF Torn
    <3>4. QED
      BY <3>3 DEF Json
  <2>4. EditsSurvive'
    <3> SUFFICES ASSUME NEW id \in Ids, file'[id].kind = "json" PROVE kept'[id] \subseteq file'[id].doc
      BY DEF EditsSurvive
    <3>1. CASE id = op[a].id
      BY <1>3, <2>2, <2>3, <3>1
    <3>2. CASE id # op[a].id
      BY <2>1, <3>2 DEF ToolsInv, EditsSurvive
    <3>3. QED
      BY <3>1, <3>2
  <2>5. ASSUME NEW b \in Actors, op'[b].tool
        PROVE  /\ b = Loop
               /\ op'[b].pc \in {"open", "write"} => kept'[op'[b].id] \subseteq op'[b].doc
    <3>1. CASE b = a
      BY <1>1, <1>2, <1>3, <2>5, <3>1
    <3>2. CASE b # a
      <4>1. op'[b] = op[b]
        BY <1>1, <3>2 DEF Alone
      <4>2. b = Loop
        BY <2>5, <4>1 DEF ToolsInv, LoadedIsFresh
      <4>3. ASSUME op[b].pc \in {"open", "write"}, op[b].id = op[a].id
            PROVE  kept'[op[a].id] = {}
        <5>1. b \in Loaded(op[a].id)
          BY <2>5, <4>1, <4>3 DEF Loaded
        <5>2. QED
          BY <1>3, <2>2, <3>2, <4>2, <5>1
      <4>4. op[b].pc \in {"open", "write"} => op[b].id \in Ids
        BY OpFields
      <4>5. QED
        BY <2>1, <2>5, <4>1, <4>2, <4>3, <4>4 DEF ToolsInv, LoadedIsFresh
    <3>3. QED
      BY <3>1, <3>2
  <2>6. QED
    BY <2>4, <2>5 DEF ToolsInv, LoadedIsFresh
<1>6. QED
  BY <1>4, <1>5

LEMMA UnlinkTools ==
    ASSUME TypeOK, ToolsInv, NEW a \in Actors, Unlink(a)
    PROVE  ToolsInv'
<1>1. op[a].pc = "unlink" /\ op[a].id \in Ids
  BY UnlinkMove
<1>2. CASE ~Exists(op[a].id)
  <2>1. Alone(a) /\ file' = file
    BY <1>2, UnlinkMove
  <2>2. op'[a] = Idle /\ kept' = kept
    BY <1>2, DoneMove DEF Unlink
  <2>3. QED
    BY <2>1, <2>2, IdleTool, AccountKept
<1>3. CASE Exists(op[a].id)
  <2>1. \A id \in Ids : kept'[id] = IF id = op[a].id THEN {} ELSE kept[id]
    BY <1>1, <1>3 DEF Unlink, TypeOK
  <2>2. EditsSurvive'
    <3> SUFFICES ASSUME NEW id \in Ids, file'[id].kind = "json" PROVE kept'[id] \subseteq file'[id].doc
      BY DEF EditsSurvive
    <3>1. CASE id = op[a].id
      BY <2>1, <3>1
    <3>2. CASE id # op[a].id
      <4>1. file'[id] = file[id]
        BY <1>3, <3>2, UnlinkMove DEF TypeOK
      <4>2. QED
        BY <2>1, <3>2, <4>1 DEF ToolsInv, EditsSurvive
    <3>3. QED
      BY <3>1, <3>2
  <2>3. ASSUME NEW b \in Actors
        PROVE  /\ SameRequest(b)
               /\ b = a \/ op'[b].pc = op[b].pc
    <3>1. op' = [c \in Actors |->
                   IF c = a THEN [op[a] EXCEPT !.pc = "publish_deleted"]
                   ELSE IF c \in Writing(op[a].id) THEN [op[c] EXCEPT !.live = FALSE]
                   ELSE op[c]]
      BY <1>3 DEF Unlink
    <3>2. op[a] \in [pc : Steps, id : Ids, doc : Documents, live : BOOLEAN, tool : BOOLEAN]
      BY <1>1, OpFields
    <3>3. CASE b = a
      BY <3>1, <3>2, <3>3 DEF SameRequest
    <3>4. CASE b # a /\ b \in Writing(op[a].id)
      <4>1. op[b] \in [pc : Steps, id : Ids, doc : Documents, live : BOOLEAN, tool : BOOLEAN]
        BY <3>4, OpFields DEF Writing, At
      <4>2. QED
        BY <3>1, <3>4, <4>1 DEF SameRequest
    <3>5. CASE b # a /\ b \notin Writing(op[a].id)
      BY <3>1, <3>5 DEF SameRequest
    <3>6. QED
      BY <3>3, <3>4, <3>5
  <2>4. op'[a].pc = "publish_deleted"
    BY <1>3, UnlinkMove
  <2>5. ASSUME NEW b \in Actors, op'[b].tool
        PROVE  /\ b = Loop
               /\ op'[b].pc \in {"open", "write"} => kept'[op'[b].id] \subseteq op'[b].doc
    <3>1. op[b].tool /\ op'[b].id = op[b].id /\ op'[b].doc = op[b].doc
      BY <2>3, <2>5 DEF SameRequest
    <3>2. ASSUME op'[b].pc \in {"open", "write"} PROVE kept'[op[b].id] \subseteq op[b].doc
      <4>1. op[b].pc \in {"open", "write"}
        BY <2>3, <2>4, <3>2
      <4>2. op[b].id \in Ids
        BY <4>1, OpFields
      <4>3. kept[op[b].id] \subseteq op[b].doc
        BY <3>1, <4>1 DEF ToolsInv, LoadedIsFresh
      <4>4. QED
        BY <2>1, <4>2, <4>3
    <3>3. QED
      BY <3>1, <3>2 DEF ToolsInv, LoadedIsFresh
  <2>6. QED
    BY <2>2, <2>5 DEF ToolsInv, LoadedIsFresh
<1>4. QED
  BY <1>2, <1>3

LEMMA ToolsStep == TypeOK /\ ToolsInv /\ [Next]_vars => ToolsInv'
<1> SUFFICES ASSUME TypeOK, ToolsInv, [Next]_vars PROVE ToolsInv'
  OBVIOUS
<1>1. ASSUME NEW a \in Actors, Step(a) PROVE ToolsInv'
  BY <1>1, LightTools, OpenTools, WriteTools, UnlinkTools DEF Step, Light
<1>2. CASE UNCHANGED <<file, op, kept>>
  BY <1>2 DEF ToolsInv, EditsSurvive, LoadedIsFresh
<1>3. ASSUME NEW s \in Streams, Subscribe(s) \/ Serve(s) \/ Leave(s)
      PROVE  ToolsInv'
  BY <1>2, <1>3 DEF Subscribe, Serve, ReadHello, StatHello, Deliver, Leave, history
<1>4. CASE Crash
  <2>1. \A a \in Actors : ~op'[a].tool
    BY <1>4, IdleTool DEF Crash
  <2>2. file' = file /\ kept' = kept
    BY <1>4 DEF Crash
  <2>3. QED
    BY <2>1, <2>2 DEF ToolsInv, EditsSurvive, LoadedIsFresh
<1>5. CASE UNCHANGED vars
  BY <1>2, <1>5 DEF vars, history
<1>6. QED
  BY <1>1, <1>3, <1>4, <1>5, RequestTools DEF Next

-----------------------------------------------------------------------------
(* The invariant, and what it is for.                                      *)

LEMMA InitServerInv == Init => ServerInv
<1> SUFFICES ASSUME Init PROVE ServerInv
  OBVIOUS
<1>1. \A a \in Actors : op[a].pc = "idle"
  BY DEF Init, Idle
<1>2. \A id : Writing(id) = {}
  BY <1>1 DEF Writing, At
<1>3. \A id \in Ids : file[id].kind \in {"absent", "json"}
  BY DEF Init, Absent, Json
<1>4. SoloWriter /\ LiveHasFile
  BY <1>1, <1>2, <1>3 DEF SoloWriter, LiveHasFile, At
<1>5. WatchersServed
  BY DEF Init, WatchersServed, Served
<1>6. DanglingOnlyByLateSet
  BY DEF Init, DanglingOnlyByLateSet
<1>7. QED
  BY <1>4, <1>5, <1>6, InitTypeOK DEF ServerInv

LEMMA NextServerInv == ServerInv /\ [Next]_vars => ServerInv'
  BY NextTypeOK, FilesStep, ServedStep, DanglingStep DEF ServerInv

\* The invariant of the server holds whatever its threads, streams, tools and
\* crashes do.
THEOREM ServerInvHolds == Spec => []ServerInv
  BY InitServerInv, NextServerInv, PTL DEF Spec

\* A design that nobody is writing, and that neither two saves at once nor a
\* crash has hit, can be read.
THEOREM DesignsStayReadable == Spec => []SoloSavesAreIntact
<1>1. ServerInv => SoloSavesAreIntact
  BY DEF ServerInv, SoloWriter, SoloSavesAreIntact
<1>2. QED
  BY <1>1, ServerInvHolds, PTL

\* The active pointer dangles only while the delete runs or by a late set.
THEOREM PointerDanglesOnlyByLateSet == Spec => []DanglingOnlyByLateSet
<1>1. ServerInv => DanglingOnlyByLateSet
  BY DEF ServerInv
<1>2. QED
  BY <1>1, ServerInvHolds, PTL

\* Every change of a watched file is on its way to its watchers.
THEOREM WritesAreAnnounced == Spec => []EveryWriteAnnounced
<1>1. ServerInv => EveryWriteAnnounced
  <2> SUFFICES ASSUME ServerInv, NEW s \in Streams, Listening(s)
               PROVE  /\ view[s] = "behind" => Announcing(stream[s].id)
                      /\ view[s] = "notified" => queue[s] # <<>>
    BY DEF EveryWriteAnnounced
  <2>1. \A a \in Actors : \A id : WillPublish(a, id) => Announcing(id)
    BY DEF WillPublish, Announcing, At
  <2>2. QED
    BY <2>1 DEF ServerInv, WatchersServed, Served, Promised
<1>2. QED
  BY <1>1, ServerInvHolds, PTL

\* Two tools never lose one another's edit, although they lock nothing, and a
\* tool undoes only the HTTP saves written between its load and its save.
THEOREM EditsAreKept == Spec => []EditsSurvive
<1>1. Init => ToolsInv
  <2> SUFFICES ASSUME Init PROVE ToolsInv
    OBVIOUS
  <2>1. \A a \in Actors : ~op[a].tool
    BY IdleTool DEF Init
  <2>2. \A id \in Ids : kept[id] = {}
    BY DEF Init
  <2>3. QED
    BY <2>1, <2>2 DEF ToolsInv, EditsSurvive, LoadedIsFresh
<1>2. ToolsInv => EditsSurvive
  BY DEF ToolsInv
<1>3. QED
  BY <1>1, <1>2, ToolsStep, TypeCorrect, PTL DEF Spec
=============================================================================
