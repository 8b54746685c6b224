----------------------------- MODULE DesignServer -----------------------------
(***************************************************************************)
(* The server side of wirestudio's saved designs: the JSON files of        *)
(* FileDesignStore, the DesignEventBus that EventEmittingDesignStore       *)
(* publishes to, the SSE streams that drain it and the ActiveDesignTracker *)
(* (wirestudio/designs, the /designs handlers of wirestudio/api/app.py and *)
(* the design tools of wirestudio/mcp/server.py).                          *)
(*                                                                         *)
(* Plain `def` endpoints run on the threads of a pool; the MCP tools are   *)
(* sync functions that the event loop calls itself, as it runs the SSE     *)
(* generators, so one such step ends before the next begins.  Nothing is   *)
(* locked: every file system call and every read or write of the active    *)
(* pointer is a step of its own.                                           *)
(***************************************************************************)
EXTENDS Naturals, FiniteSets, Sequences

CONSTANTS
    Ids,         \* design ids
    Workers,     \* threads of the pool
    Loop,        \* the event loop thread
    Streams,     \* SSE connections
    Edits,       \* what MCP tools add to a design
    BrowserDocs, \* the documents a browser saves
    MaxRequests, \* bound: requests the clients send and crashes, in all
    None

ASSUME ActorAssumption  == Loop \notin Workers /\ None \notin Ids
ASSUME RequestAssumption == MaxRequests \in Nat
ASSUME DocAssumption    == IsFiniteSet(Edits) /\ BrowserDocs \subseteq SUBSET Edits

VARIABLES
    file,     \* id -> designs/<id>.json
    active,   \* ActiveDesignTracker._id
    op,       \* thread -> the request it runs and the next step of it
    stream,   \* SSE connection -> its state
    queue,    \* SSE connection -> its asyncio.Queue
    requests, \* requests and crashes so far
    last,     \* history: the last event a stream handed to its client
    view,     \* history: what a stream's client can know of the file
    kept,     \* history: id -> what its writers since the last HTTP request
              \* began to write or delete it put there
    marred,   \* history: id -> the newest save began while another was writing,
              \* or a crash cut it off
    fate      \* history: id -> deleted, and if so, made active again after that

history == <<last, kept, marred, fate>>
vars == <<file, active, op, stream, queue, requests, view, history>>

Actors    == Workers \cup {Loop}
Documents == SUBSET Edits

-----------------------------------------------------------------------------
(* Files.  A document is the set of the edits in it, and is the longer the *)
(* more it has; "torn" is what is left of two interleaved writes, which,   *)
(* like the empty file, json.loads rejects.                                *)

Size(d)   == 1 + Cardinality(d)
Absent    == [kind |-> "absent", doc |-> {}, size |-> 0]
Empty     == [kind |-> "empty", doc |-> {}, size |-> 0]
Json(d)   == [kind |-> "json", doc |-> d, size |-> Size(d)]
Torn(n)   == [kind |-> "torn", doc |-> {}, size |-> n]
Exists(id) == file[id] # Absent

\* write(2) at offset 0 of a file that write_text opened for writing.
Overwrite(f, d) == IF f.size > Size(d) THEN Torn(f.size) ELSE Json(d)

-----------------------------------------------------------------------------
(* Threads and streams.                                                    *)

Idle == [pc |-> "idle", id |-> None, doc |-> {}, live |-> FALSE,
         tool |-> FALSE]
Off  == [st |-> "off", id |-> None, seen |-> {}]

Listening(s) == stream[s].st \in {"subscribed", "greeting", "open"}
Watchers(id) == {s \in Streams : Listening(s) /\ stream[s].id = id}
Greeting     == \E s \in Streams : stream[s].st = "greeting"

\* The event loop takes up something new only when it is doing nothing else.
Free(a) == op[a] = Idle /\ (a = Loop => ~Greeting)

\* Mutant: the tools are run in the pool as well.
MutToolThreads == Actors

\* FastMCP calls a sync tool on the event loop.
ToolThreads == {Loop}

At(a, pc)   == op[a].pc = pc
Goto(a, pc) == op' = [op EXCEPT ![a].pc = pc]
Done(a)     == op' = [op EXCEPT ![a] = Idle]

NewRequest == requests < MaxRequests /\ requests' = requests + 1

\* The file of this design changed under the clients that watch it.
Changed(id) ==
    view' = [s \in Streams |-> IF s \in Watchers(id) THEN "behind" ELSE view[s]]

Init ==
    /\ file \in [Ids -> {Absent, Json({})}]
    /\ active = None
    /\ op = [a \in Actors |-> Idle]
    /\ stream = [s \in Streams |-> Off]
    /\ queue = [s \in Streams |-> <<>>]
    /\ requests = 0
    /\ last = [s \in Streams |-> None]
    /\ view = [s \in Streams |-> "current"]
    /\ kept = [id \in Ids |-> {}]
    /\ marred = [id \in Ids |-> FALSE]
    /\ fate = [id \in Ids |-> "none"]

-----------------------------------------------------------------------------
(* FileDesignStore.save: open and truncate, write, stat, then publish.     *)

SaveRequest(w) ==
    /\ Free(w) /\ NewRequest
    /\ \E id \in Ids, d \in BrowserDocs :
        op' = [op EXCEPT ![w] = [Idle EXCEPT !.pc = "open", !.id = id, !.doc = d]]
    /\ UNCHANGED <<file, active, stream, queue, view, history>>

Writing(id) == {a \in Actors : At(a, "write") /\ op[a].id = id /\ op[a].live}

\* An HTTP write starts the account of what is in the design anew.
Forget(a, id) == kept' = IF op[a].tool THEN kept ELSE [kept EXCEPT ![id] = {}]

\* Mutant: the file is opened without truncating it.
MutOpenFile(a) ==
    LET id == op[a].id IN
    /\ At(a, "open")
    /\ file' = IF Exists(id) THEN file ELSE [file EXCEPT ![id] = Empty]
    /\ op' = [op EXCEPT ![a].pc = "write", ![a].live = TRUE]
    /\ Changed(id) /\ Forget(a, id) /\ fate' = [fate EXCEPT ![id] = "none"]
    /\ marred' = [marred EXCEPT ![id] = Writing(id) # {}]
    /\ UNCHANGED <<active, stream, queue, requests, last>>

OpenFile(a) ==
    LET id == op[a].id IN
    /\ At(a, "open")
    /\ file' = [file EXCEPT ![id] = Empty]
    /\ op' = [op EXCEPT ![a].pc = "write", ![a].live = TRUE]
    /\ Changed(id) /\ Forget(a, id) /\ fate' = [fate EXCEPT ![id] = "none"]
    /\ marred' = [marred EXCEPT ![id] = Writing(id) # {}]
    /\ UNCHANGED <<active, stream, queue, requests, last>>

\* The tools that will write this design as they loaded it.
Loaded(id) == {a \in Actors : op[a].tool /\ op[a].id = id /\ op[a].pc \in {"open", "write"}}

\* What an HTTP write adds is on the account unless such a tool is to undo it.
Account(a, id, d) ==
    kept' = [kept EXCEPT ![id] = IF op[a].tool THEN @ \cup d
                                 ELSE IF Loaded(id) = {} THEN d ELSE {}]

\* What a deleted file's descriptor gets is lost with it.
WriteFile(a) ==
    LET id == op[a].id
        d  == op[a].doc
    IN
    /\ At(a, "write")
    /\ Goto(a, "stat")
    /\ IF op[a].live
       THEN /\ file' = [file EXCEPT ![id] = Overwrite(@, d)]
            /\ Changed(id)
            /\ Account(a, id, d)
       ELSE UNCHANGED <<file, view, kept>>
    /\ UNCHANGED <<active, stream, queue, requests, last, marred, fate>>

\* path.stat() raises when the file is gone, and nothing is published.
StatFile(a) ==
    /\ At(a, "stat")
    /\ IF Exists(op[a].id) THEN Goto(a, "publish_saved") ELSE Done(a)
    /\ UNCHANGED <<file, active, stream, queue, requests, view, history>>

\* EventEmittingDesignStore publishes to the queues subscribed by now.
Publish(id, event) ==
    /\ queue' = [s \in Streams |-> IF s \in Watchers(id) THEN Append(queue[s], event)
                                                         ELSE queue[s]]
    /\ view' = [s \in Streams |-> IF s \in Watchers(id) /\ view[s] = "behind"
                                  THEN "notified" ELSE view[s]]

\* Mutant: POST /designs writes past the emitting store.
MutPublishSaved(a) ==
    /\ At(a, "publish_saved")
    /\ IF op[a].tool THEN Publish(op[a].id, "saved") ELSE UNCHANGED <<queue, view>>
    /\ Done(a)
    /\ UNCHANGED <<file, active, stream, requests, history>>

PublishSaved(a) ==
    /\ At(a, "publish_saved")
    /\ Publish(op[a].id, "saved")
    /\ Done(a)
    /\ UNCHANGED <<file, active, stream, requests, history>>

-----------------------------------------------------------------------------
(* DELETE /designs/{id}: unlink, publish, then clear the active pointer.   *)

DeleteRequest(w) ==
    /\ Free(w) /\ NewRequest
    /\ \E id \in Ids :
        /\ Exists(id)
        /\ op' = [op EXCEPT ![w] = [Idle EXCEPT !.pc = "unlink", !.id = id]]
    /\ UNCHANGED <<file, active, stream, queue, view, history>>

\* A second unlink of the same file raises.
Unlink(w) ==
    LET id == op[w].id IN
    /\ At(w, "unlink")
    /\ IF Exists(id)
       THEN /\ file' = [file EXCEPT ![id] = Absent]
            /\ op' = [a \in Actors |->
                        IF a = w THEN [op[w] EXCEPT !.pc = "publish_deleted"]
                        ELSE IF a \in Writing(id) THEN [op[a] EXCEPT !.live = FALSE]
                        ELSE op[a]]
            /\ Changed(id)
            /\ kept' = [kept EXCEPT ![id] = {}]
            /\ marred' = [marred EXCEPT ![id] = FALSE]
            /\ fate' = [fate EXCEPT ![id] = "deleted"]
       ELSE Done(w) /\ UNCHANGED <<file, view, kept, marred, fate>>
    /\ UNCHANGED <<active, stream, queue, requests, last>>

\* Mutant: a delete tells nobody.
MutPublishDeleted(w) ==
    /\ At(w, "publish_deleted")
    /\ Goto(w, "check_active")
    /\ UNCHANGED <<file, active, stream, queue, requests, view, history>>

PublishDeleted(w) ==
    /\ At(w, "publish_deleted")
    /\ Publish(op[w].id, "deleted")
    /\ Goto(w, "check_active")
    /\ UNCHANGED <<file, active, stream, requests, history>>

CheckActive(w) ==
    /\ At(w, "check_active")
    /\ IF active = op[w].id THEN Goto(w, "clear_active") ELSE Done(w)
    /\ UNCHANGED <<file, active, stream, queue, requests, view, history>>

\* Mutant: the pointer is left alone.
MutClearActive(w) ==
    /\ At(w, "clear_active")
    /\ Done(w)
    /\ UNCHANGED <<file, active, stream, queue, requests, view, history>>

ClearActive(w) ==
    /\ At(w, "clear_active")
    /\ active' = None
    /\ Done(w)
    /\ UNCHANGED <<file, stream, queue, requests, view, history>>

-----------------------------------------------------------------------------
(* The active pointer is also set by PUT /designs/active, which checks     *)
(* nothing, and by the set_active_design tool, which looks for the file    *)
(* first.                                                                  *)

Late(id) == fate' = [i \in Ids |-> IF i = id /\ fate[i] = "deleted" THEN "set_late" ELSE fate[i]]

\* The empty string clears the pointer, as null does.
SetTo(id) ==
    /\ active' = IF id = "" THEN None ELSE id
    /\ Late(id)

PutActive(w) ==
    /\ Free(w) /\ NewRequest
    /\ \E id \in Ids \cup {None, ""} : SetTo(id)
    /\ UNCHANGED <<file, op, stream, queue, view, last, kept, marred>>

SetActiveTool(a) ==
    /\ a \in ToolThreads /\ Free(a) /\ NewRequest
    /\ \E id \in Ids :
        /\ Exists(id)
        /\ op' = [op EXCEPT ![a] = [Idle EXCEPT !.pc = "set_active", !.id = id]]
    /\ UNCHANGED <<file, active, stream, queue, view, history>>

ClearActiveTool(a) ==
    /\ a \in ToolThreads /\ Free(a) /\ NewRequest
    /\ SetTo("")
    /\ UNCHANGED <<file, op, stream, queue, view, last, kept, marred>>

SetActive(a) ==
    /\ At(a, "set_active")
    /\ SetTo(op[a].id)
    /\ Done(a)
    /\ UNCHANGED <<file, stream, queue, requests, view, last, kept, marred>>

-----------------------------------------------------------------------------
(* A design tool: resolve the id, load, change the document, save it.      *)

\* Without an id and an active design the tool answers ok: false.
ToolCall(a) ==
    /\ a \in ToolThreads /\ Free(a) /\ NewRequest
    /\ \E arg \in Ids \cup {None} :
        LET rid == IF arg # None THEN arg ELSE active IN
        op' = [op EXCEPT ![a] = IF rid = None THEN Idle
                                ELSE [Idle EXCEPT !.pc = "load", !.id = rid, !.tool = TRUE]]
    /\ UNCHANGED <<file, active, stream, queue, view, history>>

\* What an editing tool (set_board, add_component and the others) adds to the
\* document; nothing when its edit is refused, and it saves all the same.
ToolEdits == {{}} \cup {{e} : e \in Edits}

\* A read-only tool is done; an editing one goes on to save.
LoadDesign(a) ==
    LET f == file[op[a].id] IN
    /\ At(a, "load")
    /\ \/ f.kind = "json" /\ Done(a)
       \/ /\ f.kind = "json"
          /\ \E added \in ToolEdits :
                op' = [op EXCEPT ![a].pc = "open", ![a].doc = f.doc \cup added]
       \/ f.kind # "json" /\ Goto(a, "raised")
    /\ UNCHANGED <<file, active, stream, queue, requests, view, history>>

\* The exception of the load leaves the tool.
ToolError(a) ==
    /\ At(a, "raised")
    /\ Done(a)
    /\ UNCHANGED <<file, active, stream, queue, requests, view, history>>

-----------------------------------------------------------------------------
(* GET /designs/{id}/events.  A client that connects again is another       *)
(* stream.                                                                 *)

\* Unsubscribing drops the queue; nobody hears what is published from now on.
End(ended) ==
    /\ stream' = [s \in Streams |-> IF s \in ended THEN [Off EXCEPT !.st = "ended"] ELSE stream[s]]
    /\ queue' = [s \in Streams |-> IF s \in ended THEN <<>> ELSE queue[s]]
    /\ view' = [s \in Streams |-> IF s \in ended THEN "current" ELSE view[s]]
    /\ last' = [s \in Streams |-> IF s \in ended THEN None ELSE last[s]]

Subscribe(s) ==
    /\ stream[s].st = "off"
    /\ Free(Loop)
    /\ \E id \in Ids : stream' = [stream EXCEPT ![s] = [Off EXCEPT !.st = "subscribed", !.id = id]]
    /\ UNCHANGED <<file, active, op, queue, requests, view, history>>

\* The hello frame lists the whole store: every readable file is read, then
\* stat'ed.
ReadHello(s) ==
    /\ stream[s].st = "subscribed" /\ Free(Loop)
    /\ stream' = [stream EXCEPT ![s] =
                    [st   |-> IF Exists(@.id) THEN "greeting" ELSE "open",
                     id   |-> @.id,
                     seen |-> {id \in Ids : file[id].kind = "json"}]]
    /\ UNCHANGED <<file, active, op, queue, requests, view, history>>

\* A file that is gone by then ends the generator, and with it the stream.
StatHello(s) ==
    /\ stream[s].st = "greeting"
    /\ IF \A id \in stream[s].seen : Exists(id)
       THEN /\ stream' = [stream EXCEPT ![s] = [st |-> "open", id |-> @.id, seen |-> {}]]
            /\ UNCHANGED <<queue, view, last>>
       ELSE End({s})
    /\ UNCHANGED <<file, active, op, requests, kept, marred, fate>>

Deliver(s) ==
    /\ stream[s].st = "open" /\ Free(Loop)
    /\ queue[s] # <<>>
    /\ last' = [last EXCEPT ![s] = Head(queue[s])]
    /\ queue' = [queue EXCEPT ![s] = Tail(@)]
    /\ view' = [view EXCEPT ![s] = IF @ = "notified" /\ Len(queue[s]) = 1 THEN "current" ELSE @]
    /\ UNCHANGED <<file, active, op, stream, requests, kept, marred, fate>>

\* The client is gone and the generator unsubscribes.
Leave(s) ==
    /\ stream[s].st = "open" /\ Free(Loop)
    /\ End({s})
    /\ UNCHANGED <<file, active, op, requests, kept, marred, fate>>

-----------------------------------------------------------------------------
(* The process is killed and started again: requests, streams, queues and  *)
(* the active pointer go with it, the files stay as they are.              *)

Crash ==
    /\ NewRequest
    /\ active' = None
    /\ op' = [a \in Actors |-> Idle]
    /\ End({s \in Streams : Listening(s)})
    /\ marred' = [id \in Ids |-> marred[id] \/ Writing(id) # {}]
    /\ UNCHANGED <<file, kept, fate>>

-----------------------------------------------------------------------------
\* Which idle thread of the pool takes a request makes no difference.
Request(a) ==
    \/ /\ a \in Workers /\ Free(a) /\ a = CHOOSE w \in Workers : Free(w)
       /\ (SaveRequest(a) \/ DeleteRequest(a) \/ PutActive(a))
    \/ SetActiveTool(a) \/ ClearActiveTool(a) \/ ToolCall(a)

\* What a thread does next for the request it runs.
Step(a) ==
    \/ OpenFile(a) \/ WriteFile(a) \/ StatFile(a) \/ PublishSaved(a)
    \/ Unlink(a) \/ PublishDeleted(a) \/ CheckActive(a) \/ ClearActive(a)
    \/ SetActive(a) \/ LoadDesign(a) \/ ToolError(a)

Serve(s) == ReadHello(s) \/ StatHello(s) \/ Deliver(s)

Next ==
    \/ \E a \in Actors : Request(a) \/ Step(a)
    \/ \E s \in Streams : Subscribe(s) \/ Serve(s) \/ Leave(s)
    \/ Crash

Spec == Init /\ [][Next]_vars

\* The threads of the pool are scheduled, and the event loop runs its tasks.
Fairness ==
    /\ \A a \in Actors : WF_vars(Step(a))
    /\ \A s \in Streams : WF_vars(Serve(s))

FairSpec == Spec /\ Fairness

-----------------------------------------------------------------------------
(* Properties.                                                             *)

Steps == {"open", "write", "stat", "publish_saved", "unlink", "publish_deleted",
          "check_active", "clear_active", "set_active", "load", "raised"}

Files == [kind : {"absent", "empty", "json", "torn"}, doc : Documents, size : Nat]

Ops == {Idle} \cup [pc : Steps, id : Ids, doc : Documents, live : BOOLEAN, tool : BOOLEAN]

Connections == [st : {"off", "subscribed", "greeting", "open", "ended"},
                id : Ids \cup {None}, seen : SUBSET Ids]

\* The variables have the types the code gives them.
TypeOK ==
    /\ file \in [Ids -> Files]
    /\ active \in Ids \cup {None}
    /\ op \in [Actors -> Ops]
    /\ stream \in [Streams -> Connections]
    /\ queue \in [Streams -> Seq({"saved", "deleted"})]
    /\ requests \in 0 .. MaxRequests
    /\ last \in [Streams -> {"saved", "deleted", None}]
    /\ view \in [Streams -> {"current", "behind", "notified"}]
    /\ kept \in [Ids -> Documents]
    /\ marred \in [Ids -> BOOLEAN]
    /\ fate \in [Ids -> {"none", "deleted", "set_late"}]

\* Every change of a watched file is told to its watchers: as long as one is
\* behind, some request is still on its way to publish, even though a save
\* gives up without an event when its file is deleted under it, and as long
\* as one is only notified, the event is in its queue.
Announcing(id) ==
    \E a \in Actors :
        /\ op[a].id = id
        /\ \/ At(a, "write") /\ op[a].live
           \/ op[a].pc \in {"stat", "publish_saved", "publish_deleted"}

EveryWriteAnnounced ==
    \A s \in Streams :
        Listening(s) =>
            /\ view[s] = "behind" => Announcing(stream[s].id)
            /\ view[s] = "notified" => queue[s] # <<>>

\* What an HTTP request or a tool wrote stays in the design until the next HTTP
\* request writes or deletes it: two tools never lose one another's edit,
\* although both load, change and save without a lock or a version, and the
\* only HTTP saves a tool can undo are those written between its load and its
\* save.
EditsSurvive ==
    \A id \in Ids : file[id].kind = "json" => kept[id] \subseteq file[id].doc

\* A design can be read again once nobody is writing it, unless two saves
\* were writing it at the same time or the server was killed between the
\* truncation and the write.
SoloSavesAreIntact ==
    \A id \in Ids :
        Writing(id) = {} /\ ~marred[id] => file[id].kind \in {"absent", "json"}

\* The active pointer is at a deleted design only while the delete is still
\* running or when somebody set it after the file was gone (app.py:595).
Deleting(id) ==
    \E w \in Actors :
        /\ op[w].id = id
        /\ op[w].pc \in {"publish_deleted", "check_active", "clear_active"}

DanglingOnlyByLateSet ==
    \A id \in Ids : active = id /\ fate[id] = "deleted" => Deleting(id)

\* Why they hold.  One save at a time finds its own empty file ...
SoloWriter ==
    \A id \in Ids : ~marred[id] =>
        \/ Writing(id) = {} /\ file[id].kind \in {"absent", "json"}
        \/ \E a \in Actors : Writing(id) = {a} /\ file[id] = Empty

\* ... and a save that may yet give up is not all that a client waits for.
LiveHasFile == \A a \in Actors : At(a, "write") /\ op[a].live => Exists(op[a].id)

WillPublish(a, id) ==
    /\ op[a].id = id
    /\ \/ At(a, "write") /\ op[a].live
       \/ op[a].pc \in {"stat", "publish_saved"} /\ Exists(id)
       \/ At(a, "publish_deleted")

Promised(s) == \E a \in Actors : WillPublish(a, stream[s].id)

Served(s) ==
    /\ ~Listening(s) => view[s] = "current"
    /\ view[s] = "behind" => Promised(s)
    /\ view[s] = "notified" => queue[s] # <<>>

WatchersServed == \A s \in Streams : Served(s)

\* A tool runs on the event loop, so no other tool writes between its load and
\* its save.
LoadedIsFresh ==
    \A a \in Actors : op[a].tool =>
        /\ a = Loop
        /\ op[a].pc \in {"open", "write"} => kept[op[a].id] \subseteq op[a].doc

ToolsInv == EditsSurvive /\ LoadedIsFresh

ServerInv ==
    /\ TypeOK /\ SoloWriter /\ LiveHasFile /\ WatchersServed /\ DanglingOnlyByLateSet

\* A client whose stream stays up hears of every change sooner or later.
ClientsCatchUp ==
    \A s \in Streams : view[s] # "current" /\ Listening(s)
                           ~> view[s] = "current" \/ ~Listening(s)

-----------------------------------------------------------------------------
(* What the documents and comments say, and the code does not do.          *)

Quiet == \A a \in Actors : op[a] = Idle

\* web/src/App.tsx:181 "`deleted` always wins because the design is gone":
\* once all is quiet, a client whose last event was `deleted` watches an id
\* that has no file.
DeletedMeansGone ==
    \A s \in Streams :
        Quiet /\ Listening(s) /\ queue[s] = <<>> /\ last[s] = "deleted"
            => ~Exists(stream[s].id)
=============================================================================
