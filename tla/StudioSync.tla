----------------------------- MODULE StudioSync -----------------------------
(***************************************************************************)
(* One browser tab of the studio (web/src/App.tsx) and the saved designs   *)
(* of its server.  The tab shows one working design; it loads, saves,      *)
(* deletes and solves designs by requests whose answers arrive whenever    *)
(* they do, and refetches the design it shows when an event says that it   *)
(* was saved, by itself, by another tab or by an MCP tool.                 *)
(*                                                                         *)
(* The server is the one that DesignServer describes, seen from far away:  *)
(* a request is served in one step, and the events of a design are queued  *)
(* for the tab that listens in the order of the writes.                    *)
(***************************************************************************)
EXTENDS Naturals, Sequences

CONSTANTS
    Ids,        \* ids of designs
    Example,    \* the id in the document of the bundled example
    MaxFlights, \* bound: requests of the tab under way
    MaxEdits,   \* bound: edits the user makes
    MaxWrites,  \* bound: writes and deletes by others
    MaxActs,    \* bound: requests and selections of the user
    None

ASSUME StudioAssumption ==
    /\ None \notin Ids /\ Example \in Ids
    /\ MaxEdits \in Nat /\ MaxWrites \in Nat /\ MaxActs \in Nat /\ MaxFlights \in Nat \ {0}

UserEdits  == 1 .. MaxEdits
ToolEdits  == MaxEdits + 1 .. MaxEdits + MaxWrites
SolverEdit == 0
Slots      == 1 .. MaxFlights

\* A document: its id field and the edits that made it what it is.
Docs   == [id : Ids, edits : SUBSET (UserEdits \cup ToolEdits \cup {SolverEdit})]
Doc(d) == [id |-> d, edits |-> {}]

ASSUME NoneAssumption == None \notin Docs /\ None \notin Slots

VARIABLES
    design,   \* the working design on screen
    original, \* originalDesign, what Reset goes back to
    sel,      \* selectedSaved
    example,  \* selectedExample and its fetch: "off", "loading", "loaded" (or failed)
    es,       \* the EventSource: "off", "connecting", "open"
    events,   \* events on their way to it
    flight,   \* slot -> a request under way
    file,     \* the saved designs
    edits,    \* user edits so far
    writes,   \* writes by others so far
    acts,     \* requests and selections so far
    safe,     \* history: user edits that have been on disk
    missed,   \* history: the tab failed to take notice of a write
    crossed   \* history: an answer landed on a screen it was not meant for

screen == <<design, original, sel, example>>
stream == <<es, events>>
counts == <<edits, writes, acts>>
vars   == <<screen, stream, flight, file, counts, safe, missed, crossed>>

NoFlight == [op |-> "none", st |-> "idle", id |-> None, doc |-> None,
             mine |-> FALSE, old |-> FALSE, stale |-> FALSE]

Init ==
    /\ design = None /\ original = None /\ sel = None
    /\ example \in {"off", "loading"}
    /\ es = "off" /\ events = <<>>
    /\ flight = [f \in Slots |-> NoFlight]
    /\ file \in [Ids -> {None} \cup {Doc(d) : d \in Ids}] /\ \A d \in Ids : file[d] \in {None, Doc(d)}
    /\ edits = 0 /\ writes = 0 /\ acts = 0
    /\ safe = {} /\ missed = FALSE /\ crossed = FALSE

-----------------------------------------------------------------------------
(* The effects of the tab.                                                 *)

IsDirty == original # None /\ design # None /\ original # design

Idle(f)  == flight[f].st = "idle"
Busy(op) == \E f \in Slots : ~Idle(f) /\ flight[f].op = op

\* A new request of the user or of the tab, in the first slot.
Send(f, r) ==
    /\ Idle(f) /\ \A g \in 1 .. f - 1 : ~Idle(g)
    /\ flight' = [flight EXCEPT ![f] = r]

Request(op, d, doc) ==
    [NoFlight EXCEPT !.op = op, !.st = "sent", !.id = d, !.doc = doc,
                      !.mine = op = "delete" /\ sel = d]

\* The other requests under way are from before the tab turned to another
\* design, or back to one design after answers had crossed.
Outdated(f) ==
    [g \in Slots |-> IF g = f THEN NoFlight
                     ELSE [flight[g] EXCEPT !.stale = @ \/ flight[g].op \notin {"none", "delete"}]]

\* The effect of selectedSaved: the old stream is closed, a new one opened.
Listen(d) ==
    /\ sel' = d
    /\ IF d = sel
       THEN UNCHANGED stream
       ELSE es' = (IF d = None THEN "off" ELSE "connecting") /\ events' = <<>>

\* Requests that a write of design d makes old news.
Aged(d) == [f \in Slots |-> IF flight[f].st = "ok" /\ flight[f].id = d
                            THEN [flight[f] EXCEPT !.old = TRUE] ELSE flight[f]]

Show(doc) == design' = doc /\ original' = doc

\* Nothing is under way that would bring the news an old answer lacks.
NothingPending(f) ==
    /\ events = <<>>
    /\ \A g \in Slots \ {f} :
        flight[g].op \in {"select", "refetch"} => flight[g].id # flight[f].id

-----------------------------------------------------------------------------
(* The user.                                                               *)

Act == acts < MaxActs /\ acts' = acts + 1

Edit ==
    /\ design # None /\ edits < MaxEdits
    /\ edits' = edits + 1
    /\ design' = [design EXCEPT !.edits = @ \cup {edits'}]
    /\ UNCHANGED <<original, sel, example, stream, flight, file, writes, acts, safe, missed, crossed>>

HandleReset ==
    /\ original # None
    /\ design' = original
    /\ UNCHANGED <<original, sel, example, stream, flight, file, counts, safe, missed, crossed>>

\* The example is fetched when it was not selected before.
SelectExample ==
    /\ Act
    /\ Listen(None)
    /\ example' = IF example = "off" THEN "loading" ELSE example
    /\ flight' = Outdated(None)
    /\ UNCHANGED <<design, original, file, edits, writes, safe, missed, crossed>>

ExampleAnswered ==
    /\ example = "loading"
    /\ \/ /\ Show(Doc(Example))
          /\ flight' = Outdated(None)
          /\ crossed' = (crossed \/ sel # None)
       \/ UNCHANGED <<design, original, flight, crossed>>
    /\ example' = "loaded"
    /\ UNCHANGED <<sel, stream, file, counts, safe, missed>>

\* Mutant: the saved design stays selected.
MutAdoptDesign(d) ==
    /\ Act
    /\ Show(Doc(d))
    /\ example' = "off"
    /\ flight' = Outdated(None)
    /\ crossed' = FALSE
    /\ UNCHANGED <<sel, stream, file, edits, writes, safe, missed>>

\* A design from the dialogs for new and detected devices.
AdoptDesign(d) ==
    /\ Act
    /\ Show(Doc(d))
    /\ Listen(None)
    /\ example' = "off"
    /\ flight' = Outdated(None)
    /\ crossed' = FALSE
    /\ UNCHANGED <<file, edits, writes, safe, missed>>

SelectSaved(f, d) ==
    /\ Act /\ file[d] # None
    /\ Send(f, Request("select", d, None))
    /\ UNCHANGED <<screen, stream, file, edits, writes, safe, missed, crossed>>

HandleSave(f) ==
    /\ Act /\ design # None /\ ~Busy("save")
    /\ Send(f, Request("save", design.id, design))
    /\ UNCHANGED <<screen, stream, file, edits, writes, safe, missed, crossed>>

DeleteSaved(f, d) ==
    /\ Act /\ file[d] # None
    /\ Send(f, Request("delete", d, None))
    /\ UNCHANGED <<screen, stream, file, edits, writes, safe, missed, crossed>>

\* The solver, or a turn of the agent.
SolvePins(f) ==
    /\ Act /\ design # None /\ ~Busy("solve")
    /\ Send(f, Request("solve", design.id, design))
    /\ UNCHANGED <<screen, stream, file, edits, writes, safe, missed, crossed>>

-----------------------------------------------------------------------------
(* The server.                                                             *)

Announce(d, e) == events' = IF es = "open" /\ sel = d THEN Append(events, e) ELSE events

Answered(fl, f, doc) == [fl EXCEPT ![f].st = "ok", ![f].doc = doc]

Write(f, doc) ==
    /\ file' = [file EXCEPT ![doc.id] = doc]
    /\ Announce(doc.id, "saved")
    /\ safe' = safe \cup (doc.edits \cap UserEdits)
    /\ flight' = Answered(Aged(doc.id), f, doc)

\* A design that is not there is answered by Fail.
Serve(f) ==
    LET r == flight[f] IN
    /\ r.st = "sent"
    /\ \/ /\ r.op \in {"select", "refetch"} /\ file[r.id] # None
          /\ flight' = Answered(flight, f, file[r.id])
          /\ UNCHANGED <<events, file, safe>>
       \/ r.op = "save" /\ Write(f, r.doc)
       \/ /\ r.op = "delete" /\ file[r.id] # None
          /\ file' = [file EXCEPT ![r.id] = None]
          /\ Announce(r.id, "deleted")
          /\ flight' = Answered(Aged(r.id), f, None)
          /\ UNCHANGED safe
    /\ UNCHANGED <<screen, es, counts, missed, crossed>>

\* An MCP tool or another tab.
ForeignSave(d) ==
    /\ writes < MaxWrites /\ file[d] # None
    /\ writes' = writes + 1
    /\ file' = [file EXCEPT ![d].edits = @ \cup {MaxEdits + writes'}]
    /\ Announce(d, "saved")
    /\ flight' = Aged(d)
    /\ UNCHANGED <<screen, es, edits, acts, safe, missed, crossed>>

ForeignDelete(d) ==
    /\ writes < MaxWrites /\ file[d] # None
    /\ writes' = writes + 1
    /\ file' = [file EXCEPT ![d] = None]
    /\ Announce(d, "deleted")
    /\ flight' = Aged(d)
    /\ UNCHANGED <<screen, es, edits, acts, safe, missed, crossed>>

-----------------------------------------------------------------------------
(* Answers.                                                                *)

Returned(f, op) == flight[f].op = op /\ flight[f].st = "ok"

SelectAnswered(f) ==
    LET r == flight[f] IN
    /\ Returned(f, "select")
    /\ Show(r.doc)
    /\ example' = "off"
    /\ Listen(r.id)
    /\ flight' = IF r.id = sel /\ ~crossed THEN [flight EXCEPT ![f] = NoFlight] ELSE Outdated(f)
    /\ crossed' = r.stale
    /\ missed' = (r.id = sel /\ r.old /\ NothingPending(f))
    /\ UNCHANGED <<file, counts, safe>>

\* Mutant: the base for Reset and for the badge is what is on screen now.
MutSaveAnswered(f) ==
    LET r == flight[f] IN
    /\ Returned(f, "save")
    /\ original' = design
    /\ Listen(r.id)
    /\ flight' = IF sel \in {None, r.id} THEN [flight EXCEPT ![f] = NoFlight] ELSE Outdated(f)
    /\ crossed' = (crossed \/ r.stale)
    /\ missed' = (missed \/ (r.old /\ NothingPending(f)))
    /\ UNCHANGED <<design, example, file, counts, safe>>

SaveAnswered(f) ==
    LET r == flight[f] IN
    /\ Returned(f, "save")
    /\ original' = r.doc
    /\ Listen(r.id)
    /\ flight' = IF sel \in {None, r.id} THEN [flight EXCEPT ![f] = NoFlight] ELSE Outdated(f)
    /\ crossed' = (crossed \/ r.stale)
    /\ missed' = (missed \/ (r.old /\ NothingPending(f)))
    /\ UNCHANGED <<design, example, file, counts, safe>>

\* `selectedSaved` is the one of the render in which the button was pressed.
DeleteAnswered(f) ==
    /\ Returned(f, "delete")
    /\ IF flight[f].mine
       THEN Listen(None) /\ flight' = Outdated(f)
       ELSE flight' = [flight EXCEPT ![f] = NoFlight] /\ UNCHANGED <<sel, stream>>
    /\ UNCHANGED <<design, original, example, file, counts, safe, missed, crossed>>

\* The document of the request comes back with its pins assigned.
SolveAnswered(f) ==
    /\ flight[f].op = "solve"
    /\ design' = [flight[f].doc EXCEPT !.edits = @ \cup {SolverEdit}]
    /\ flight' = [flight EXCEPT ![f] = NoFlight]
    /\ crossed' = (crossed \/ flight[f].stale)
    /\ UNCHANGED <<original, sel, example, stream, file, counts, safe, missed>>

\* The answer is shown, whatever the tab shows by now.
RefetchAnswered(f) ==
    LET r == flight[f] IN
    /\ Returned(f, "refetch")
    /\ Show(r.doc)
    /\ flight' = [flight EXCEPT ![f] = NoFlight]
    /\ crossed' = (crossed \/ r.stale)
    /\ missed' = IF r.old THEN missed \/ NothingPending(f) ELSE FALSE
    /\ UNCHANGED <<sel, example, stream, file, counts, safe>>

\* The request or its answer is lost, or the server refuses it: a message is
\* shown, or only logged, and the design stays as it is.
Fail(f) ==
    /\ ~Idle(f)
    /\ flight' = [flight EXCEPT ![f] = NoFlight]
    /\ missed' = (missed \/ (flight[f].op \in {"select", "refetch"} /\ flight[f].id = sel))
    /\ UNCHANGED <<screen, stream, file, counts, safe, crossed>>

-----------------------------------------------------------------------------
(* Events.                                                                 *)

\* The hello frame says when the design was saved, and is only logged.
StreamOpen ==
    /\ es = "connecting"
    /\ es' = "open"
    /\ missed' = (missed \/ original # file[sel])
    /\ UNCHANGED <<screen, events, flight, file, counts, safe, crossed>>

\* The connection is lost, or ends; the browser connects again.
Drop ==
    /\ es = "open"
    /\ es' = "connecting" /\ events' = <<>>
    /\ UNCHANGED <<screen, flight, file, counts, safe, missed, crossed>>

\* Mutant: no refetch while the solver is at work.
MutOnSaved(f) ==
    /\ events # <<>> /\ Head(events) = "saved"
    /\ events' = Tail(events)
    /\ IF IsDirty
       THEN missed' = TRUE /\ UNCHANGED flight
       ELSE /\ IF Busy("solve") THEN UNCHANGED flight
               ELSE Send(f, Request("refetch", sel, None))
            /\ UNCHANGED missed
    /\ UNCHANGED <<screen, es, file, counts, safe, crossed>>

\* The user's edits are looked at before the refetch, and only then.
OnSaved(f) ==
    /\ events # <<>> /\ Head(events) = "saved"
    /\ events' = Tail(events)
    /\ IF IsDirty
       THEN missed' = TRUE /\ UNCHANGED flight
       ELSE Send(f, Request("refetch", sel, None)) /\ UNCHANGED missed
    /\ UNCHANGED <<screen, es, file, counts, safe, crossed>>

\* Mutant: the event is only logged.
MutOnDeleted ==
    /\ events # <<>> /\ Head(events) = "deleted"
    /\ events' = Tail(events)
    /\ UNCHANGED <<screen, es, flight, file, counts, safe, missed, crossed>>

OnDeleted ==
    /\ events # <<>> /\ Head(events) = "deleted"
    /\ Show(None)
    /\ Listen(None)
    /\ flight' = Outdated(None)
    /\ UNCHANGED <<example, file, counts, safe, missed, crossed>>

-----------------------------------------------------------------------------
Answer(f) ==
    \/ SelectAnswered(f) \/ SaveAnswered(f) \/ DeleteAnswered(f)
    \/ SolveAnswered(f) \/ RefetchAnswered(f) \/ Fail(f)

Next ==
    \/ Edit \/ HandleReset \/ SelectExample \/ ExampleAnswered
    \/ StreamOpen \/ Drop \/ OnDeleted
    \/ \E d \in Ids : AdoptDesign(d) \/ ForeignSave(d) \/ ForeignDelete(d)
    \/ \E f \in Slots :
        \/ \E d \in Ids : SelectSaved(f, d) \/ DeleteSaved(f, d)
        \/ HandleSave(f) \/ SolvePins(f) \/ Serve(f) \/ Answer(f) \/ OnSaved(f)

Spec == Init /\ [][Next]_vars

\* Requests are served and answered, and events are handled.
Fairness ==
    /\ WF_vars(StreamOpen) /\ WF_vars(OnDeleted)
    /\ \A f \in Slots : WF_vars(Serve(f)) /\ WF_vars(Answer(f)) /\ WF_vars(OnSaved(f))

FairSpec == Spec /\ Fairness

-----------------------------------------------------------------------------
(* Properties.                                                             *)

Flights == [op : {"none", "select", "refetch", "save", "delete", "solve"},
            st : {"idle", "sent", "ok"}, id : Ids \cup {None}, doc : Docs \cup {None},
            mine : BOOLEAN, old : BOOLEAN, stale : BOOLEAN]

\* The variables have the types the code gives them.
TypeOK ==
    /\ design \in Docs \cup {None} /\ original \in Docs \cup {None}
    /\ sel \in Ids \cup {None} /\ example \in {"off", "loading", "loaded"}
    /\ es \in {"off", "connecting", "open"} /\ (es = "off" <=> sel = None)
    /\ events \in Seq({"saved", "deleted"}) /\ (es # "open" => events = <<>>)
    /\ flight \in [Slots -> Flights]
    /\ file \in [Ids -> Docs \cup {None}] /\ \A d \in Ids : file[d] # None => file[d].id = d
    /\ edits \in 0 .. MaxEdits /\ writes \in 0 .. MaxWrites /\ acts \in 0 .. MaxActs
    /\ safe \subseteq UserEdits /\ missed \in BOOLEAN /\ crossed \in BOOLEAN

\* What the tab calls selected, and tells the server is the active design, is
\* what it shows, as long as every answer was for the selection of its time.
SelectionIsShown ==
    sel # None /\ ~crossed => design # None /\ design.id = sel /\ original.id = sel

\* Edits on screen that have never been on disk.
Unsaved == IF design = None THEN {} ELSE (design.edits \cap UserEdits) \ safe

\* Without the badge "Unsaved changes" there are none: whatever a save, a
\* refetch, a solve and edits between them do, the badge does not lie.
BadgeIsHonest == Unsaved # {} /\ ~crossed => IsDirty

\* Nothing is under way for the selected design.
Settled == sel # None /\ es = "open" /\ events = <<>> /\ \A f \in Slots : Idle(f)

\* A tab at rest shows what is on disk, or edits of it, unless it ignored a
\* write while dirty, was not connected at the time of one, lost a refetch or
\* had one answer overtake another.
StaleIsExplained == Settled /\ ~missed /\ ~crossed => original = file[sel]

\* Why they hold.  An answer carries a document of its own design, which was on
\* disk, and is on disk still if nobody has written since ...
Answers(f) ==
    LET r == flight[f] IN
    /\ IF r.st = "idle" THEN r.op = "none" ELSE r.id \in Ids
    /\ r.op \in {"save", "solve"} => r.doc # None
    /\ r.st = "ok" /\ r.op \in {"select", "refetch"} => r.doc # None
    /\ r.doc # None => r.doc.id = r.id
    /\ r.st = "ok" /\ r.op \in {"select", "refetch", "save"} =>
        r.doc.edits \cap UserEdits \subseteq safe /\ (~r.old => r.doc = file[r.id])

Saved(doc) == doc # None => doc.edits \cap UserEdits \subseteq safe

DisksAreSafe ==
    /\ \A f \in Slots : Answers(f)
    /\ Saved(original) /\ \A d \in Ids : Saved(file[d])

\* ... the tab and the requests it has made since it turned to its design are
\* all about that one ...
About(f) ==
    ~flight[f].stale =>
        /\ flight[f].op \in {"save", "solve"} => design # None /\ design.id = flight[f].id
        /\ flight[f].op = "refetch" => flight[f].id = sel

OneDesign ==
    ~crossed =>
        /\ design = None <=> original = None
        /\ design # None => design.id = original.id
        /\ sel # None => design # None /\ design.id = sel
        /\ \A f \in Slots : About(f)

\* ... and of what is not on screen the news is under way.
NewsComes ==
    \/ events # <<>>
    \/ \E f \in Slots : flight[f].op \in {"select", "refetch"} /\ flight[f].id = sel

NewsIsPending ==
    sel # None /\ es = "open" /\ ~missed /\ ~crossed => original = file[sel] \/ NewsComes

SyncInv == TypeOK /\ DisksAreSafe /\ OneDesign /\ NewsIsPending

\* A write by others reaches a connected tab without edits of its own.
Watching == sel # None /\ es = "open" /\ ~IsDirty /\ ~missed /\ ~crossed

ScreenCatchesUp == Watching /\ original # file[sel] ~> ~Watching \/ original = file[sel]

\* App.tsx:180 "silently overwriting them would be hostile"; START.md:264
\* "Skips refresh while the user has unsaved local edits so an MCP write
\* doesn't blow away the buffer they're typing into".
EditsSurviveRefetch ==
    [][\A f \in Slots : RefetchAnswered(f) => Unsaved \subseteq Unsaved']_vars
=============================================================================
