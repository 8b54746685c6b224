-------------------------- MODULE StudioSyncProofs --------------------------
(***************************************************************************)
(* Proofs about the browser tab of StudioSync: for every number of         *)
(* designs, of requests under way and of edits and writes, and however     *)
(* answers, events and lost connections are mixed, what the tab calls      *)
(* selected is what it shows, its badge does not hide an unsaved edit, and *)
(* a tab at rest that is not up to date has lost something.                *)
(***************************************************************************)
EXTENDS StudioSync, SequenceTheorems, TLAPS

Marks == UserEdits \cup ToolEdits \cup {SolverEdit}

-----------------------------------------------------------------------------
(* Documents, requests and streams.                                        *)

LEMMA FreshDoc ==
    ASSUME NEW d \in Ids
    PROVE  Doc(d) \in Docs /\ Doc(d) # None /\ Doc(d).id = d /\ Doc(d).edits = {}
  BY NoneAssumption DEF Doc, Docs

\* A document with more edits is one of the same design.
LEMMA MoreEdits ==
    ASSUME NEW doc \in Docs, NEW s \in SUBSET Marks
    PROVE  /\ [doc EXCEPT !.edits = @ \cup s] \in Docs /\ doc.id \in Ids
           /\ [doc EXCEPT !.edits = @ \cup s].id = doc.id
           /\ [doc EXCEPT !.edits = @ \cup s].edits = doc.edits \cup s
  BY DEF Docs, Marks

\* The marks of the user, of the tools and of the solver.
LEMMA MarkTypes ==
    /\ \A e \in 1 .. MaxEdits : e \in UserEdits
    /\ \A w \in 1 .. MaxWrites : MaxEdits + w \in ToolEdits /\ MaxEdits + w \notin UserEdits
    /\ SolverEdit \notin UserEdits
  BY StudioAssumption DEF UserEdits, ToolEdits, SolverEdit

LEMMA RequestIs ==
    ASSUME TypeOK, NEW op \in {"select", "refetch", "save", "delete", "solve"}, NEW d \in Ids,
           NEW doc \in Docs \cup {None}
    PROVE  LET r == Request(op, d, doc) IN
           /\ r \in Flights /\ r.op = op /\ r.st = "sent" /\ r.id = d /\ r.doc = doc
           /\ ~r.old /\ ~r.stale
<1>1. (op = "delete" /\ sel = d) \in BOOLEAN
  OBVIOUS
<1>2. QED
  BY <1>1 DEF Request, NoFlight, Flights

LEMMA NoFlightIs ==
    /\ NoFlight \in Flights /\ NoFlight.op = "none" /\ NoFlight.st = "idle" /\ NoFlight.doc = None
    /\ ~NoFlight.stale
  BY DEF NoFlight, Flights

\* What becomes of the request in a slot: it is the same one still, ...
Same(g) ==
    /\ flight'[g].op = flight[g].op /\ flight'[g].st = flight[g].st
    /\ flight'[g].id = flight[g].id /\ flight'[g].doc = flight[g].doc

Kept(g) == Same(g) /\ flight'[g].old = flight[g].old /\ flight'[g].stale = flight[g].stale

\* ... but the tab has turned away from what it was about, ...
Turned(g) ==
    /\ Same(g) /\ flight'[g].old = flight[g].old
    /\ flight'[g].op \notin {"none", "delete"} => flight'[g].stale

\* ... or it is over, or new.
Gone(g) == flight'[g] = NoFlight

Made(g, op, d, doc) == flight[g].st = "idle" /\ flight'[g] = Request(op, d, doc)

LEMMA SendIs ==
    ASSUME TypeOK, NEW f \in Slots, NEW r \in Flights, Send(f, r)
    PROVE  /\ flight' \in [Slots -> Flights] /\ flight[f].st = "idle" /\ flight'[f] = r
           /\ \A g \in Slots \ {f} : Kept(g)
  BY DEF Send, Idle, TypeOK, Kept, Same

LEMMA OutdatedIs ==
    ASSUME TypeOK, NEW f \in Slots \cup {None}, flight' = Outdated(f)
    PROVE  /\ flight' \in [Slots -> Flights] /\ (f \in Slots => Gone(f))
           /\ \A g \in Slots \ {f} : Turned(g)
<1>1. ASSUME NEW g \in Slots, g # f
      PROVE  /\ flight'[g] = [flight[g] EXCEPT !.stale = @ \/ flight[g].op \notin {"none", "delete"}]
             /\ flight'[g] \in Flights /\ Turned(g)
  <2>1. flight[g] \in Flights
    BY DEF TypeOK
  <2>2. flight'[g] = [flight[g] EXCEPT !.stale = @ \/ flight[g].op \notin {"none", "delete"}]
    BY <1>1 DEF Outdated
  <2>3. QED
    BY <2>1, <2>2 DEF Flights, Turned, Same
<1>2. flight'[f] = NoFlight \/ f \notin Slots
  BY DEF Outdated
<1>3. \A g \in Slots : flight'[g] \in Flights
  BY <1>1, <1>2, NoFlightIs
<1>4. flight' = [g \in Slots |-> flight'[g]]
  BY DEF Outdated
<1>5. QED
  BY <1>1, <1>2, <1>3, <1>4 DEF Gone

LEMMA OverIs ==
    ASSUME TypeOK, NEW f \in Slots, flight' = [flight EXCEPT ![f] = NoFlight]
    PROVE  /\ flight' \in [Slots -> Flights] /\ Gone(f) /\ \A g \in Slots \ {f} : Kept(g)
  BY NoFlightIs DEF TypeOK, Gone, Kept, Same

\* A write of design d makes the answers about it old.
Older(g, d) ==
    /\ Same(g) /\ flight'[g].stale = flight[g].stale
    /\ flight'[g].old = (flight[g].old \/ (flight[g].st = "ok" /\ flight[g].id = d))

LEMMA AgedIs ==
    ASSUME TypeOK, NEW d \in Ids, NEW g \in Slots
    PROVE  /\ Aged(d) \in [Slots -> Flights] /\ Aged(d)[g].op = flight[g].op
           /\ Aged(d)[g].st = flight[g].st /\ Aged(d)[g].id = flight[g].id
           /\ Aged(d)[g].doc = flight[g].doc /\ Aged(d)[g].stale = flight[g].stale
           /\ Aged(d)[g].old = (flight[g].old \/ (flight[g].st = "ok" /\ flight[g].id = d))
<1>1. ASSUME NEW h \in Slots
      PROVE  /\ Aged(d)[h] \in Flights
             /\ Aged(d)[h] = IF flight[h].st = "ok" /\ flight[h].id = d
                             THEN [flight[h] EXCEPT !.old = TRUE] ELSE flight[h]
  <2>1. flight[h] \in Flights
    BY DEF TypeOK
  <2>2. Aged(d)[h] = IF flight[h].st = "ok" /\ flight[h].id = d
                     THEN [flight[h] EXCEPT !.old = TRUE] ELSE flight[h]
    BY DEF Aged
  <2>3. QED
    BY <2>1, <2>2 DEF Flights
<1>2. Aged(d) = [h \in Slots |-> Aged(d)[h]]
  BY DEF Aged
<1>3. Aged(d) \in [Slots -> Flights]
  BY <1>1, <1>2
<1>4. flight[g] \in Flights
  BY DEF TypeOK
<1>5. QED
  BY <1>1, <1>3, <1>4 DEF Flights

LEMMA AnsweredIs ==
    ASSUME NEW fl \in [Slots -> Flights], NEW f \in Slots, NEW doc \in Docs \cup {None}
    PROVE  /\ Answered(fl, f, doc) \in [Slots -> Flights]
           /\ Answered(fl, f, doc)[f].op = fl[f].op /\ Answered(fl, f, doc)[f].st = "ok"
           /\ Answered(fl, f, doc)[f].id = fl[f].id /\ Answered(fl, f, doc)[f].doc = doc
           /\ Answered(fl, f, doc)[f].old = fl[f].old /\ Answered(fl, f, doc)[f].stale = fl[f].stale
           /\ \A g \in Slots \ {f} : Answered(fl, f, doc)[g] = fl[g]
<1> DEFINE r == [fl[f] EXCEPT !.st = "ok", !.doc = doc]
<1>1. fl[f] \in Flights
  OBVIOUS
<1>2. /\ r \in Flights /\ r.op = fl[f].op /\ r.st = "ok" /\ r.id = fl[f].id /\ r.doc = doc
      /\ r.old = fl[f].old /\ r.stale = fl[f].stale
  BY <1>1 DEF Flights
<1>3. Answered(fl, f, doc) = [fl EXCEPT ![f] = r]
  BY DEF Answered
<1> HIDE DEF r
<1>4. QED
  BY <1>2, <1>3

LEMMA ListenIs ==
    ASSUME TypeOK, NEW d \in Ids \cup {None}, Listen(d)
    PROVE  /\ sel' = d /\ es' \in {"off", "connecting", "open"} /\ (es' = "off" <=> sel' = None)
           /\ events' \in Seq({"saved", "deleted"}) /\ (es' # "open" => events' = <<>>)
           /\ d = sel => UNCHANGED stream
           /\ d # sel => es' # "open"
<1>1. <<>> \in Seq({"saved", "deleted"})
  BY EmptySeq
<1>2. CASE d = sel
  BY <1>2, StudioAssumption DEF Listen, TypeOK, stream
<1>3. CASE d # sel
  BY <1>1, <1>3, StudioAssumption DEF Listen, TypeOK, stream
<1>4. QED
  BY <1>2, <1>3

LEMMA AnnounceIs ==
    ASSUME TypeOK, NEW d \in Ids, NEW e \in {"saved", "deleted"}, Announce(d, e)
    PROVE  /\ events' \in Seq({"saved", "deleted"})
           /\ es = "open" /\ sel = d => events' # <<>>
           /\ es # "open" => events' = <<>>
           /\ events # <<>> => events' # <<>>
<1>1. events \in Seq({"saved", "deleted"})
  BY DEF TypeOK
<1>2. Append(events, e) \in Seq({"saved", "deleted"}) /\ Append(events, e) # <<>>
  BY <1>1, AppendProperties, EmptySeq
<1>3. QED
  BY <1>1, <1>2 DEF Announce, TypeOK

-----------------------------------------------------------------------------
(* Type correctness.                                                       *)

LEMMA UserType ==
    ASSUME TypeOK, NEW d \in Ids, NEW f \in Slots,
           \/ Edit \/ HandleReset \/ SelectExample \/ ExampleAnswered \/ AdoptDesign(d)
           \/ SelectSaved(f, d) \/ DeleteSaved(f, d) \/ HandleSave(f) \/ SolvePins(f)
    PROVE  TypeOK'
<1>1. CASE Edit
  <2>1. edits' \in 1 .. MaxEdits /\ design \in Docs
    BY <1>1, StudioAssumption DEF Edit, TypeOK
  <2>2. {edits'} \in SUBSET Marks
    BY <2>1, MarkTypes DEF Marks
  <2>3. design' \in Docs
    BY <1>1, <2>1, <2>2, MoreEdits DEF Edit
  <2>4. edits' \in 0 .. MaxEdits
    BY <2>1, StudioAssumption
  <2>5. QED
    BY <1>1, <2>3, <2>4 DEF Edit, TypeOK, stream
<1>2. CASE HandleReset
  BY <1>2 DEF HandleReset, TypeOK, stream, counts
<1>3. ASSUME Act PROVE acts' \in 0 .. MaxActs
  BY <1>3, StudioAssumption DEF Act, TypeOK
<1>4. CASE SelectExample
  BY <1>3, <1>4, ListenIs, OutdatedIs DEF SelectExample, TypeOK
<1>5. CASE ExampleAnswered
  <2>1. flight' \in [Slots -> Flights] /\ design' \in Docs \cup {None}
        /\ original' \in Docs \cup {None} /\ crossed' \in BOOLEAN
    BY <1>5, OutdatedIs, FreshDoc, StudioAssumption DEF ExampleAnswered, Show, TypeOK
  <2>2. QED
    BY <1>5, <2>1 DEF ExampleAnswered, TypeOK, stream, counts
<1>6. CASE AdoptDesign(d)
  <2>1. design' \in Docs /\ original' \in Docs
    BY <1>6, FreshDoc DEF AdoptDesign, Show
  <2>2. QED
    BY <1>3, <1>6, <2>1, ListenIs, OutdatedIs DEF AdoptDesign, TypeOK
<1>7. ASSUME Act, flight' \in [Slots -> Flights],
             UNCHANGED <<screen, stream, file, edits, writes, safe, missed, crossed>>
      PROVE  TypeOK'
  BY <1>3, <1>7 DEF TypeOK, screen, stream
<1>8. ASSUME NEW op \in {"select", "delete", "save", "solve"}, NEW i \in Ids, NEW doc \in Docs \cup {None},
             Send(f, Request(op, i, doc))
      PROVE  flight' \in [Slots -> Flights]
  <2>1. Request(op, i, doc) \in Flights
    BY RequestIs
  <2>2. QED
    BY <1>8, <2>1, SendIs
<1>9. CASE SelectSaved(f, d) \/ DeleteSaved(f, d)
  BY <1>7, <1>8, <1>9 DEF SelectSaved, DeleteSaved
<1>10. CASE HandleSave(f) \/ SolvePins(f)
  <2>1. design \in Docs /\ design.id \in Ids
    BY <1>10 DEF HandleSave, SolvePins, TypeOK, Docs
  <2>2. QED
    BY <1>7, <1>8, <1>10, <2>1 DEF HandleSave, SolvePins
<1>11. QED
  BY <1>1, <1>2, <1>4, <1>5, <1>6, <1>9, <1>10

LEMMA ServerType ==
    ASSUME TypeOK, DisksAreSafe, NEW d \in Ids, NEW f \in Slots,
           Serve(f) \/ ForeignSave(d) \/ ForeignDelete(d)
    PROVE  TypeOK'
<1>0. flight[f] \in Flights
  BY DEF TypeOK
<1>1. CASE Serve(f)
  <2> DEFINE r == flight[f]
  <2>1. r.st = "sent" /\ Answers(f) /\ r.id \in Ids
    BY <1>1 DEF Serve, DisksAreSafe, Answers
  <2>2. UNCHANGED <<screen, es, counts, missed, crossed>>
    BY <1>1 DEF Serve
  <2>3. CASE /\ flight' = Answered(flight, f, file[r.id])
             /\ UNCHANGED <<events, file, safe>>
    <3>1. flight' \in [Slots -> Flights]
      BY <2>1, <2>3, AnsweredIs DEF TypeOK
    <3>2. QED
      BY <2>2, <2>3, <3>1 DEF TypeOK, screen, counts
  <2>4. CASE r.op = "save" /\ Write(f, r.doc)
    <3>1. r.doc \in Docs /\ r.doc.id \in Ids
      BY <1>0, <2>1, <2>4 DEF Answers, Flights
    <3>2. flight' \in [Slots -> Flights]
      BY <2>4, <3>1, AgedIs, AnsweredIs DEF Write
    <3>3. events' \in Seq({"saved", "deleted"}) /\ (es # "open" => events' = <<>>)
      BY <2>4, <3>1, AnnounceIs DEF Write
    <3>4. file' \in [Ids -> Docs \cup {None}] /\ \A i \in Ids : file'[i] # None => file'[i].id = i
      BY <2>4, <3>1 DEF Write, TypeOK
    <3>5. safe' \subseteq UserEdits
      BY <2>4 DEF Write, TypeOK
    <3>6. QED
      BY <2>2, <3>2, <3>3, <3>4, <3>5 DEF TypeOK, screen, counts
  <2>5. CASE /\ file' = [file EXCEPT ![r.id] = None] /\ Announce(r.id, "deleted")
             /\ flight' = Answered(Aged(r.id), f, None) /\ UNCHANGED safe
    <3>1. flight' \in [Slots -> Flights]
      BY <2>1, <2>5, AgedIs, AnsweredIs
    <3>2. events' \in Seq({"saved", "deleted"}) /\ (es # "open" => events' = <<>>)
      BY <2>1, <2>5, AnnounceIs
    <3>3. file' \in [Ids -> Docs \cup {None}] /\ \A i \in Ids : file'[i] # None => file'[i].id = i
      BY <2>5 DEF TypeOK
    <3>4. QED
      BY <2>2, <2>5, <3>1, <3>2, <3>3 DEF TypeOK, screen, counts
  <2>6. QED
    BY <1>1, <2>3, <2>4, <2>5 DEF Serve
<1>2. ASSUME writes < MaxWrites, writes' = writes + 1, flight' = Aged(d), NEW e \in {"saved", "deleted"},
             Announce(d, e), NEW doc \in Docs \cup {None}, doc # None => doc.id = d,
             file' = [file EXCEPT ![d] = doc],
             UNCHANGED <<screen, es, edits, acts, safe, missed, crossed>>
      PROVE  TypeOK'
  <2>1. flight' \in [Slots -> Flights]
    BY <1>2, AgedIs DEF TypeOK
  <2>2. events' \in Seq({"saved", "deleted"}) /\ (es # "open" => events' = <<>>)
    BY <1>2, AnnounceIs
  <2>3. file' \in [Ids -> Docs \cup {None}] /\ \A i \in Ids : file'[i] # None => file'[i].id = i
    BY <1>2 DEF TypeOK
  <2>4. writes' \in 0 .. MaxWrites
    BY <1>2, StudioAssumption DEF TypeOK
  <2>5. QED
    BY <1>2, <2>1, <2>2, <2>3, <2>4 DEF TypeOK, screen
<1>3. CASE ForeignSave(d)
  <2> DEFINE m == MaxEdits + writes'
             doc == [file[d] EXCEPT !.edits = @ \cup {m}]
  <2>1. writes' \in 1 .. MaxWrites /\ file[d] \in Docs /\ file[d].id = d
    BY <1>3, StudioAssumption DEF ForeignSave, TypeOK
  <2>2. {m} \in SUBSET Marks
    BY <2>1, MarkTypes DEF Marks
  <2>3. doc \in Docs /\ doc.id = d
    BY <2>1, <2>2, MoreEdits
  <2>4. file' = [file EXCEPT ![d] = doc]
    BY <1>3 DEF ForeignSave, TypeOK
  <2> HIDE DEF doc
  <2>5. QED
    BY <1>2, <1>3, <2>3, <2>4 DEF ForeignSave
<1>4. CASE ForeignDelete(d)
  BY <1>2, <1>4 DEF ForeignDelete
<1>5. QED
  BY <1>1, <1>3, <1>4

LEMMA AnswerType ==
    ASSUME TypeOK, DisksAreSafe, NEW f \in Slots, Answer(f) PROVE TypeOK'
<1>0. /\ flight[f] \in Flights /\ Answers(f)
      /\ flight[f].stale \in BOOLEAN /\ flight[f].old \in BOOLEAN /\ flight[f].doc \in Docs \cup {None}
  BY DEF TypeOK, DisksAreSafe, Flights
<1>2. CASE SelectAnswered(f)
  <2>1. flight[f].id \in Ids
    BY <1>0, <1>2 DEF SelectAnswered, Returned, Answers
  <2>2. flight' \in [Slots -> Flights]
    BY <1>2, OverIs, OutdatedIs DEF SelectAnswered
  <2>3. missed' \in BOOLEAN /\ crossed' \in BOOLEAN
    BY <1>0, <1>2 DEF SelectAnswered
  <2>4. QED
    BY <1>0, <1>2, <2>1, <2>2, <2>3, ListenIs DEF SelectAnswered, Show, TypeOK, counts
<1>3. CASE SaveAnswered(f)
  <2>1. flight[f].id \in Ids
    BY <1>0, <1>3 DEF SaveAnswered, Returned, Answers
  <2>2. flight' \in [Slots -> Flights]
    BY <1>3, OverIs, OutdatedIs DEF SaveAnswered
  <2>3. missed' \in BOOLEAN /\ crossed' \in BOOLEAN
    BY <1>0, <1>3 DEF SaveAnswered, TypeOK
  <2>4. QED
    BY <1>0, <1>3, <2>1, <2>2, <2>3, ListenIs DEF SaveAnswered, TypeOK, counts
<1>4. CASE DeleteAnswered(f)
  <2>1. CASE Listen(None) /\ flight' = Outdated(f)
    BY <1>4, <2>1, ListenIs, OutdatedIs DEF DeleteAnswered, TypeOK, counts
  <2>2. CASE flight' = [flight EXCEPT ![f] = NoFlight] /\ UNCHANGED <<sel, stream>>
    BY <1>4, <2>2, OverIs DEF DeleteAnswered, TypeOK, stream, counts
  <2>3. QED
    BY <1>4, <2>1, <2>2 DEF DeleteAnswered
<1>5. CASE SolveAnswered(f)
  <2>1. flight[f].doc \in Docs
    BY <1>0, <1>5 DEF SolveAnswered, Answers
  <2>2. {SolverEdit} \in SUBSET Marks
    BY DEF Marks
  <2>3. design' \in Docs
    BY <1>5, <2>1, <2>2, MoreEdits DEF SolveAnswered
  <2>4. crossed' \in BOOLEAN
    BY <1>0, <1>5 DEF SolveAnswered, TypeOK
  <2>5. QED
    BY <1>5, <2>3, <2>4, OverIs DEF SolveAnswered, TypeOK, stream, counts
<1>6. CASE RefetchAnswered(f)
  <2>1. missed' \in BOOLEAN /\ crossed' \in BOOLEAN
    BY <1>0, <1>6 DEF RefetchAnswered, TypeOK
  <2>2. QED
    BY <1>0, <1>6, <2>1, OverIs DEF RefetchAnswered, Show, TypeOK, stream, counts
<1>7. CASE Fail(f)
  BY <1>7, OverIs DEF Fail, TypeOK, screen, stream, counts
<1>8. QED
  BY <1>2, <1>3, <1>4, <1>5, <1>6, <1>7 DEF Answer

LEMMA EventType ==
    ASSUME TypeOK, NEW f \in Slots, StreamOpen \/ Drop \/ OnDeleted \/ OnSaved(f)
    PROVE  TypeOK'
<1>1. CASE StreamOpen
  BY <1>1, StudioAssumption DEF StreamOpen, TypeOK, screen, counts
<1>2. CASE Drop
  <2>1. events' \in Seq({"saved", "deleted"})
    BY <1>2, EmptySeq DEF Drop
  <2>2. QED
    BY <1>2, <2>1 DEF Drop, TypeOK, screen, counts
<1>3. CASE OnDeleted
  BY <1>3, ListenIs, OutdatedIs DEF OnDeleted, Show, TypeOK, counts
<1>4. CASE OnSaved(f)
  <2>1. events' \in Seq({"saved", "deleted"})
    BY <1>4, HeadTailProperties DEF OnSaved, TypeOK
  <2>2. CASE IsDirty
    BY <1>4, <2>1, <2>2 DEF OnSaved, TypeOK, screen, counts
  <2>3. CASE ~IsDirty
    <3>1. Send(f, Request("refetch", sel, None)) /\ missed' = missed
      BY <1>4, <2>3 DEF OnSaved
    <3>2. Request("refetch", sel, None) \in Flights
      BY DEF Request, NoFlight, Flights, TypeOK
    <3>3. flight' \in [Slots -> Flights]
      BY <3>1, <3>2, SendIs
    <3>4. QED
      BY <1>4, <2>1, <3>1, <3>3 DEF OnSaved, TypeOK, screen, counts
  <2>4. QED
    BY <2>2, <2>3
<1>5. QED
  BY <1>1, <1>2, <1>3, <1>4

LEMMA SyncTypeStep == ASSUME TypeOK, DisksAreSafe, [Next]_vars PROVE TypeOK'
<1>1. Example \in Ids /\ 1 \in Slots
  BY StudioAssumption DEF Slots
<1>2. CASE UNCHANGED vars
  BY <1>2 DEF vars, screen, stream, counts, TypeOK
<1>3. CASE Next
  BY <1>1, <1>3, UserType, ServerType, AnswerType, EventType DEF Next
<1>4. QED
  BY <1>2, <1>3

-----------------------------------------------------------------------------
(* The documents of answers are on disk, or were.                          *)

LEMMA SameAnswers ==
    ASSUME NEW g \in Slots, Answers(g), Kept(g) \/ Turned(g), safe \subseteq safe', file' = file
    PROVE  Answers(g)'
  BY DEF Answers, Kept, Turned, Same

LEMMA GoneAnswers == ASSUME NEW g \in Slots, Gone(g) PROVE Answers(g)'
  BY NoFlightIs DEF Answers, Gone

\* A step that writes no file.
LEMMA UnwrittenSafe ==
    ASSUME DisksAreSafe, UNCHANGED <<file, safe>>, Saved(original)',
           \A g \in Slots : Kept(g) \/ Turned(g) \/ Answers(g)'
    PROVE  DisksAreSafe'
<1>1. \A g \in Slots : Answers(g)'
  BY SameAnswers DEF DisksAreSafe
<1>2. \A d \in Ids : Saved(file[d])'
  BY DEF DisksAreSafe, Saved
<1>3. QED
  BY <1>1, <1>2 DEF DisksAreSafe

LEMMA NewAnswers ==
    ASSUME TypeOK, NEW f \in Slots, NEW op \in {"select", "refetch", "save", "delete", "solve"},
           NEW d \in Ids, NEW doc \in Docs \cup {None}, op \in {"save", "solve"} => doc # None,
           doc # None => doc.id = d, Send(f, Request(op, d, doc))
    PROVE  Answers(f)' /\ \A g \in Slots \ {f} : Kept(g)
<1>1. flight'[f] = Request(op, d, doc) /\ \A g \in Slots \ {f} : Kept(g)
  BY RequestIs, SendIs
<1>2. /\ flight'[f].op = op /\ flight'[f].st = "sent" /\ flight'[f].id = d /\ flight'[f].doc = doc
  BY <1>1, RequestIs
<1>3. QED
  BY <1>1, <1>2 DEF Answers

LEMMA UserDisks ==
    ASSUME TypeOK, DisksAreSafe, NEW d \in Ids, NEW f \in Slots,
           \/ Edit \/ HandleReset \/ SelectExample \/ ExampleAnswered \/ AdoptDesign(d)
           \/ SelectSaved(f, d) \/ DeleteSaved(f, d) \/ HandleSave(f) \/ SolvePins(f)
    PROVE  DisksAreSafe'
<1>1. UNCHANGED <<file, safe>>
  BY DEF Edit, HandleReset, SelectExample, ExampleAnswered, AdoptDesign, SelectSaved, DeleteSaved,
         HandleSave, SolvePins, counts
<1>2. Saved(original) /\ \A i \in Ids : Saved(Doc(i))
  BY FreshDoc DEF DisksAreSafe, Saved
<1>3. Saved(original)'
  <2>1. original' = original \/ original' = Doc(Example) \/ original' = Doc(d)
    BY DEF Edit, HandleReset, SelectExample, ExampleAnswered, AdoptDesign, SelectSaved, DeleteSaved,
           HandleSave, SolvePins, Show, screen
  <2>2. QED
    BY <1>1, <1>2, <2>1, StudioAssumption DEF Saved, Doc
<1>4. CASE flight' = flight
  BY <1>1, <1>3, <1>4, UnwrittenSafe DEF Kept, Same
<1>5. CASE flight' = Outdated(None)
  BY <1>1, <1>3, <1>5, OutdatedIs, UnwrittenSafe, NoneAssumption
<1>6. CASE SelectSaved(f, d) \/ DeleteSaved(f, d)
  BY <1>1, <1>3, <1>6, NewAnswers, UnwrittenSafe DEF SelectSaved, DeleteSaved
<1>7. CASE HandleSave(f) \/ SolvePins(f)
  <2>1. design \in Docs /\ design.id \in Ids /\ design # None
    BY <1>7 DEF HandleSave, SolvePins, TypeOK, Docs
  <2>2. QED
    BY <1>1, <1>3, <1>7, <2>1, NewAnswers, UnwrittenSafe DEF HandleSave, SolvePins
<1>8. QED
  BY <1>4, <1>5, <1>6, <1>7
     DEF Edit, HandleReset, SelectExample, ExampleAnswered, AdoptDesign

LEMMA AnswerDisks ==
    ASSUME TypeOK, DisksAreSafe, NEW f \in Slots,
           Answer(f) \/ StreamOpen \/ Drop \/ OnDeleted \/ OnSaved(f)
    PROVE  DisksAreSafe'
<1>1. UNCHANGED <<file, safe>>
  BY DEF Answer, SelectAnswered, SaveAnswered, DeleteAnswered, SolveAnswered, RefetchAnswered, Fail,
         StreamOpen, Drop, OnDeleted, OnSaved
<1>2. Answers(f) /\ Saved(original)
  BY DEF DisksAreSafe
<1>3. Saved(original)'
  <2>1. \/ original' \in {original, None}
        \/ /\ original' = flight[f].doc /\ flight[f].st = "ok"
           /\ flight[f].op \in {"select", "refetch", "save"}
    BY DEF Answer, SelectAnswered, SaveAnswered, DeleteAnswered, SolveAnswered, RefetchAnswered, Fail,
           StreamOpen, Drop, OnDeleted, OnSaved, Show, Returned, screen
  <2>2. QED
    BY <1>1, <1>2, <2>1 DEF Saved, Answers
<1>4. CASE flight' = flight
  BY <1>1, <1>3, <1>4, UnwrittenSafe DEF Kept, Same
<1>5. CASE flight' = [flight EXCEPT ![f] = NoFlight]
  BY <1>1, <1>3, <1>5, OverIs, GoneAnswers, UnwrittenSafe
<1>6. CASE flight' = Outdated(None) \/ flight' = Outdated(f)
  BY <1>1, <1>3, <1>6, OutdatedIs, GoneAnswers, UnwrittenSafe, NoneAssumption
<1>7. CASE OnSaved(f) /\ Send(f, Request("refetch", sel, None))
  <2>1. CASE sel \in Ids
    BY <1>1, <1>3, <1>7, <2>1, NewAnswers, UnwrittenSafe
  <2>2. QED
    BY <1>7, <2>1 DEF OnSaved, TypeOK
<1>8. QED
  BY <1>4, <1>5, <1>6, <1>7 DEF Answer, SelectAnswered, SaveAnswered, DeleteAnswered, SolveAnswered,
         RefetchAnswered, Fail, StreamOpen, Drop, OnDeleted, OnSaved

\* A write of design d: who had an answer about it has an old one.
LEMMA OlderAnswers ==
    ASSUME NEW d \in Ids, NEW g \in Slots, Answers(g), Older(g, d), safe \subseteq safe',
           \A i \in Ids \ {d} : file'[i] = file[i]
    PROVE  Answers(g)'
<1>1. flight'[g].st = "ok" /\ ~flight'[g].old => file'[flight[g].id] = file[flight[g].id] /\ ~flight[g].old
  BY DEF Answers, Older, Same
<1>2. QED
  BY <1>1 DEF Answers, Older, Same

LEMMA ServerDisks ==
    ASSUME TypeOK, DisksAreSafe, NEW d \in Ids, NEW f \in Slots,
           Serve(f) \/ ForeignSave(d) \/ ForeignDelete(d)
    PROVE  DisksAreSafe'
<1>0. flight[f] \in Flights /\ flight \in [Slots -> Flights] /\ original' = original
  BY DEF TypeOK, Serve, ForeignSave, ForeignDelete, screen
<1>1. ASSUME NEW i \in Ids, NEW doc \in Docs \cup {None}, file' = [file EXCEPT ![i] = doc],
             Saved(doc)', safe \subseteq safe', \A g \in Slots : Older(g, i) \/ Answers(g)'
      PROVE  DisksAreSafe'
  <2>1. \A j \in Ids \ {i} : file'[j] = file[j]
    BY <1>1 DEF TypeOK
  <2>2. \A g \in Slots : Answers(g)'
    BY <1>1, <2>1, OlderAnswers DEF DisksAreSafe
  <2>3. ASSUME NEW j \in Ids PROVE Saved(file[j])'
    <3>1. CASE j = i
      BY <1>1, <3>1 DEF Saved, TypeOK
    <3>2. CASE j # i
      BY <1>1, <2>1, <3>2 DEF DisksAreSafe, Saved
    <3>3. QED
      BY <3>1, <3>2
  <2>4. Saved(original)'
    BY <1>0, <1>1 DEF DisksAreSafe, Saved
  <2>5. QED
    BY <2>2, <2>3, <2>4 DEF DisksAreSafe
<1>2. CASE Serve(f)
  <2> DEFINE r == flight[f]
  <2>1. r.st = "sent" /\ Answers(f) /\ r.id \in Ids
    BY <1>2 DEF Serve, DisksAreSafe, Answers
  <2>2. CASE /\ r.op \in {"select", "refetch"} /\ file[r.id] # None
             /\ flight' = Answered(flight, f, file[r.id])
             /\ UNCHANGED <<events, file, safe>>
    <3>1. file[r.id] \in Docs /\ file[r.id].id = r.id /\ Saved(file[r.id])
      BY <2>1, <2>2 DEF TypeOK, DisksAreSafe
    <3>2. /\ flight'[f].op = r.op /\ flight'[f].st = "ok" /\ flight'[f].id = r.id
          /\ flight'[f].doc = file[r.id]
          /\ \A g \in Slots \ {f} : flight'[g] = flight[g]
      BY <1>0, <2>2, <3>1, AnsweredIs
    <3>3. Answers(f)'
      BY <1>0, <2>1, <2>2, <3>1, <3>2 DEF Answers, Flights, Saved
    <3>4. QED
      BY <1>0, <2>2, <3>2, <3>3, UnwrittenSafe DEF Kept, Same, DisksAreSafe, Saved
  <2>3. ASSUME NEW i \in Ids, i = r.id, NEW doc \in Docs \cup {None}, flight' = Answered(Aged(i), f, doc)
        PROVE  /\ flight'[f].op = r.op /\ flight'[f].st = "ok" /\ flight'[f].id = i
               /\ flight'[f].doc = doc
               /\ \A g \in Slots \ {f} : Older(g, i)
    <3>1. /\ flight'[f].op = Aged(i)[f].op /\ flight'[f].st = "ok" /\ flight'[f].id = Aged(i)[f].id
          /\ flight'[f].doc = doc /\ \A g \in Slots \ {f} : flight'[g] = Aged(i)[g]
      <4>1. Aged(i) \in [Slots -> Flights]
        BY AgedIs
      <4>2. QED
        BY <2>3, <4>1, AnsweredIs
    <3>2. Aged(i)[f].op = r.op /\ Aged(i)[f].id = i
      BY <2>3, AgedIs
    <3>3. \A g \in Slots \ {f} : Older(g, i)
      BY <3>1, AgedIs DEF Older, Same
    <3>4. QED
      BY <3>1, <3>2, <3>3
  <2>4. CASE r.op = "save" /\ Write(f, r.doc)
    <3>1. r.doc \in Docs /\ r.doc.id = r.id
      BY <1>0, <2>1, <2>4 DEF Answers, Flights
    <3>2. /\ flight'[f].op = "save" /\ flight'[f].st = "ok" /\ flight'[f].id = r.id
          /\ flight'[f].doc = r.doc /\ \A g \in Slots \ {f} : Older(g, r.id)
      BY <2>1, <2>3, <2>4, <3>1 DEF Write
    <3>3. file' = [file EXCEPT ![r.id] = r.doc] /\ safe' = safe \cup (r.doc.edits \cap UserEdits)
      BY <2>4, <3>1 DEF Write
    <3>4. file'[r.id] = r.doc /\ r.doc.edits \cap UserEdits \subseteq safe'
      BY <2>1, <3>3 DEF TypeOK
    <3>5. Answers(f)'
      BY <2>1, <3>1, <3>2, <3>4, NoneAssumption DEF Answers
    <3>6. \A doc \in Docs : doc = r.doc => Saved(doc)'
      BY <3>3 DEF Saved
    <3>7. QED
      BY <1>1, <2>1, <3>1, <3>2, <3>3, <3>5, <3>6
  <2>5. CASE /\ r.op = "delete" /\ file' = [file EXCEPT ![r.id] = None]
             /\ flight' = Answered(Aged(r.id), f, None) /\ UNCHANGED safe
    <3>1. /\ flight'[f].op = "delete" /\ flight'[f].id = r.id /\ flight'[f].st = "ok"
          /\ flight'[f].doc = None /\ \A g \in Slots \ {f} : Older(g, r.id)
      BY <2>1, <2>3, <2>5
    <3>2. Answers(f)' /\ Saved(None)'
      BY <2>1, <3>1 DEF Answers, Saved
    <3>3. QED
      BY <1>1, <2>1, <2>5, <3>1, <3>2
  <2>6. QED
    BY <1>2, <2>2, <2>4, <2>5 DEF Serve
<1>3. ASSUME flight' = Aged(d) PROVE \A g \in Slots : Older(g, d)
  BY <1>3, AgedIs DEF Older, Same
<1>4. CASE ForeignSave(d)
  <2> DEFINE m == MaxEdits + writes'
             doc == [file[d] EXCEPT !.edits = @ \cup {m}]
  <2>1. writes' \in 1 .. MaxWrites /\ file[d] \in Docs /\ Saved(file[d])
    BY <1>4, StudioAssumption DEF ForeignSave, TypeOK, DisksAreSafe
  <2>2. {m} \in SUBSET Marks /\ m \notin UserEdits
    BY <2>1, MarkTypes DEF Marks
  <2>3. doc \in Docs /\ doc.edits = file[d].edits \cup {m}
    BY <2>1, <2>2, MoreEdits
  <2>4. file' = [file EXCEPT ![d] = doc] /\ safe' = safe /\ flight' = Aged(d)
    BY <1>4 DEF ForeignSave, TypeOK
  <2>5. doc.edits \cap UserEdits \subseteq safe'
    BY <2>1, <2>2, <2>3, <2>4, NoneAssumption DEF Saved
  <2> HIDE DEF doc
  <2>6. \A x \in Docs : x = doc => Saved(x)'
    BY <2>5 DEF Saved
  <2>7. QED
    BY <1>1, <1>3, <2>3, <2>4, <2>6
<1>5. CASE ForeignDelete(d)
  <2>1. Saved(None)'
    BY DEF Saved
  <2>2. QED
    BY <1>1, <1>3, <1>5, <2>1 DEF ForeignDelete
<1>6. QED
  BY <1>2, <1>4, <1>5

LEMMA DisksStep == ASSUME TypeOK, DisksAreSafe, [Next]_vars PROVE DisksAreSafe'
<1>1. Example \in Ids /\ 1 \in Slots
  BY StudioAssumption DEF Slots
<1>2. CASE UNCHANGED vars
  BY <1>2 DEF vars, screen, DisksAreSafe, Answers, Saved
<1>3. CASE Next
  BY <1>1, <1>3, UserDisks, ServerDisks, AnswerDisks DEF Next
<1>4. QED
  BY <1>2, <1>3

-----------------------------------------------------------------------------
(* One design.                                                             *)

\* A request that is still about the design of the tab, or is not any more.
Alike(g) ==
    /\ flight'[g].op = flight[g].op /\ flight'[g].id = flight[g].id
    /\ flight[g].stale => flight'[g].stale

LEMMA SameAbout ==
    ASSUME NEW g \in Slots, About(g), Alike(g),
           design # None => design' # None /\ design'.id = design.id,
           flight[g].op = "refetch" /\ flight[g].id = sel => sel' = sel
    PROVE  About(g)'
  BY DEF About, Alike

LEMMA TurnedAbout == ASSUME NEW g \in Slots, Turned(g) \/ Gone(g) PROVE About(g)'
  BY NoFlightIs DEF About, Turned, Gone

\* The tab shows the same design as before.
LEMMA OneDesignKept ==
    ASSUME OneDesign, crossed' = crossed, sel' = sel,
           design = None <=> design' = None, original = None <=> original' = None,
           design # None => design'.id = design.id, original # None => original'.id = original.id,
           \A g \in Slots : Alike(g) \/ About(g)'
    PROVE  OneDesign'
<1> SUFFICES ASSUME ~crossed
             PROVE  /\ design' = None <=> original' = None
                    /\ design' # None => design'.id = original'.id
                    /\ sel' # None => design' # None /\ design'.id = sel'
                    /\ \A g \in Slots : About(g)'
  BY DEF OneDesign
<1>1. \A g \in Slots : About(g)'
  BY SameAbout DEF OneDesign
<1>2. QED
  BY <1>1 DEF OneDesign

\* The tab turns away from what it showed.
LEMMA OneDesignTurned ==
    ASSUME ~crossed' => (design' = None <=> original' = None),
           ~crossed' /\ design' # None => design'.id = original'.id,
           ~crossed' /\ sel' # None => design' # None /\ design'.id = sel',
           \A g \in Slots : Turned(g) \/ Gone(g)
    PROVE  OneDesign'
<1>1. \A g \in Slots : About(g)'
  BY TurnedAbout
<1>2. QED
  BY <1>1 DEF OneDesign

LEMMA NewAbout ==
    ASSUME TypeOK, NEW f \in Slots, NEW op \in {"select", "refetch", "save", "delete", "solve"},
           NEW d \in Ids, NEW doc \in Docs \cup {None}, Send(f, Request(op, d, doc)),
           op \in {"save", "solve"} => design' # None /\ design'.id = d, op = "refetch" => sel' = d
    PROVE  About(f)' /\ \A g \in Slots \ {f} : Kept(g)
<1>1. flight'[f] = Request(op, d, doc) /\ \A g \in Slots \ {f} : Kept(g)
  BY RequestIs, SendIs
<1>2. flight'[f].op = op /\ flight'[f].id = d
  BY <1>1, RequestIs
<1>3. QED
  BY <1>1, <1>2 DEF About

LEMMA UserOne ==
    ASSUME TypeOK, OneDesign, NEW d \in Ids, NEW f \in Slots,
           \/ Edit \/ HandleReset \/ SelectExample \/ ExampleAnswered \/ AdoptDesign(d)
           \/ SelectSaved(f, d) \/ DeleteSaved(f, d) \/ HandleSave(f) \/ SolvePins(f)
    PROVE  OneDesign'
<1>1. CASE Edit
  <2>1. design \in Docs /\ edits' \in 1 .. MaxEdits
    BY <1>1, StudioAssumption DEF Edit, TypeOK
  <2>2. {edits'} \in SUBSET Marks
    BY <2>1, MarkTypes DEF Marks
  <2>3. design' \in Docs /\ design'.id = design.id
    BY <1>1, <2>1, <2>2, MoreEdits DEF Edit
  <2>4. design # None /\ design' # None
    BY <2>1, <2>3, NoneAssumption
  <2>5. QED
    BY <1>1, <2>3, <2>4, OneDesignKept DEF Edit, Alike
<1>2. CASE HandleReset
  <2>1. CASE crossed
    BY <1>2, <2>1 DEF HandleReset, OneDesign
  <2>2. CASE ~crossed
    <3>1. design # None /\ design.id = original.id /\ design' = original /\ original # None
      BY <1>2, <2>2 DEF HandleReset, OneDesign
    <3>2. QED
      BY <1>2, <3>1, OneDesignKept DEF HandleReset, Alike
  <2>3. QED
    BY <2>1, <2>2
<1>3. CASE flight' = Outdated(None)
  <2>1. \A g \in Slots : Turned(g) \/ Gone(g)
    BY <1>3, OutdatedIs
  <2>2. CASE SelectExample
    <3>1. sel' = None /\ UNCHANGED <<design, original, crossed>>
      BY <2>2, ListenIs DEF SelectExample
    <3>2. QED
      BY <2>1, <3>1, OneDesignTurned DEF OneDesign
  <2>3. CASE ExampleAnswered /\ Show(Doc(Example)) /\ crossed' = (crossed \/ sel # None)
    <3>1. sel' = sel /\ design' = original'
      BY <2>3 DEF ExampleAnswered, Show
    <3>2. QED
      BY <2>1, <2>3, <3>1, OneDesignTurned DEF TypeOK
  <2>4. CASE AdoptDesign(d)
    <3>1. sel' = None /\ design' = original'
      BY <2>4, ListenIs DEF AdoptDesign, Show
    <3>2. QED
      BY <2>1, <3>1, OneDesignTurned
  <2>5. CASE UNCHANGED <<design, original, flight, crossed, sel>>
    BY <2>5, OneDesignKept DEF Alike
  <2>6. CASE SelectSaved(f, d) \/ DeleteSaved(f, d) \/ HandleSave(f) \/ SolvePins(f)
    <3>1. UNCHANGED <<design, original, sel, crossed>>
      BY <2>6 DEF SelectSaved, DeleteSaved, HandleSave, SolvePins, screen
    <3>2. QED
      BY <2>1, <3>1, OneDesignTurned DEF OneDesign
  <2>7. QED
    BY <1>1, <1>2, <2>2, <2>3, <2>4, <2>5, <2>6 DEF ExampleAnswered
<1>4. CASE ExampleAnswered /\ UNCHANGED <<design, original, flight, crossed>>
  BY <1>4, OneDesignKept DEF ExampleAnswered, Alike
<1>5. CASE SelectSaved(f, d) \/ DeleteSaved(f, d)
  <2>1. UNCHANGED <<design, original, sel, crossed>>
    BY <1>5 DEF SelectSaved, DeleteSaved, screen
  <2>2. About(f)' /\ \A g \in Slots \ {f} : Kept(g)
    BY <1>5, NewAbout DEF SelectSaved, DeleteSaved
  <2>3. QED
    BY <2>1, <2>2, OneDesignKept DEF Kept, Same, Alike
<1>6. CASE HandleSave(f) \/ SolvePins(f)
  <2>1. UNCHANGED <<design, original, sel, crossed>> /\ design \in Docs /\ design.id \in Ids
    BY <1>6 DEF HandleSave, SolvePins, screen, TypeOK, Docs
  <2>2. About(f)' /\ \A g \in Slots \ {f} : Kept(g)
    BY <1>6, <2>1, NewAbout DEF HandleSave, SolvePins
  <2>3. QED
    BY <2>1, <2>2, OneDesignKept DEF Kept, Same, Alike
<1>7. QED
  BY <1>1, <1>2, <1>3, <1>4, <1>5, <1>6 DEF SelectExample, ExampleAnswered, AdoptDesign

LEMMA ServerOne ==
    ASSUME TypeOK, DisksAreSafe, OneDesign, NEW d \in Ids, NEW f \in Slots,
           Serve(f) \/ ForeignSave(d) \/ ForeignDelete(d)
    PROVE  OneDesign' /\ \A g \in Slots : Alike(g)
<1>1. UNCHANGED <<design, original, sel, crossed>> /\ flight \in [Slots -> Flights]
  BY DEF Serve, ForeignSave, ForeignDelete, screen, TypeOK
<1>2. \A g \in Slots : Alike(g)
  <2>1. ASSUME NEW i \in Ids, flight' = Aged(i) PROVE \A g \in Slots : Alike(g)
    BY <2>1, AgedIs DEF Alike
  <2>2. ASSUME NEW doc \in Docs \cup {None}, flight' = Answered(flight, f, doc)
        PROVE  \A g \in Slots : Alike(g)
    <3>1. \A g \in Slots : g = f \/ g \in Slots \ {f}
      OBVIOUS
    <3>2. QED
      BY <1>1, <2>2, <3>1, AnsweredIs DEF Alike
  <2>3. ASSUME NEW doc \in Docs \cup {None}, NEW i \in Ids, flight' = Answered(Aged(i), f, doc)
        PROVE  \A g \in Slots : Alike(g)
    <3>1. Aged(i) \in [Slots -> Flights]
      BY AgedIs
    <3>2. \A g \in Slots : /\ flight'[g].op = Aged(i)[g].op /\ flight'[g].id = Aged(i)[g].id
                           /\ flight'[g].stale = Aged(i)[g].stale
      <4>1. \A g \in Slots : g = f \/ g \in Slots \ {f}
        OBVIOUS
      <4>2. QED
        BY <2>3, <3>1, <4>1, AnsweredIs
    <3>3. QED
      BY <3>2, AgedIs DEF Alike
  <2>4. CASE Serve(f)
    <3>1. Answers(f) /\ flight[f].st = "sent" /\ flight[f].id \in Ids /\ flight[f] \in Flights
      BY <2>4 DEF Serve, DisksAreSafe, Answers, TypeOK
    <3>2. file[flight[f].id] \in Docs \cup {None} /\ flight[f].doc \in Docs \cup {None}
      BY <3>1 DEF TypeOK, Flights
    <3>3. flight[f].op = "save" => flight[f].doc.id \in Ids
      BY <3>1 DEF Answers
    <3>4. QED
      BY <2>2, <2>3, <2>4, <3>1, <3>2, <3>3 DEF Serve, Write
  <2>5. QED
    BY <2>1, <2>4 DEF ForeignSave, ForeignDelete
<1>3. QED
  BY <1>1, <1>2, OneDesignKept

\* What the answers do.
LEMMA AnswerOne ==
    ASSUME TypeOK, DisksAreSafe, OneDesign, NEW f \in Slots, Answer(f) PROVE OneDesign'
<1>0. /\ flight[f] \in Flights /\ Answers(f) /\ (~crossed => About(f)) /\ flight[f].stale \in BOOLEAN
  BY DEF TypeOK, Flights, DisksAreSafe, OneDesign
<1>1. ASSUME flight' = [flight EXCEPT ![f] = NoFlight]
      PROVE  \A g \in Slots : Alike(g) \/ About(g)'
  <2>1. Gone(f) /\ \A g \in Slots \ {f} : Kept(g)
    BY <1>1, OverIs
  <2>2. QED
    BY <2>1, TurnedAbout DEF Kept, Same, Alike
<1>2. ASSUME flight' = Outdated(f)
      PROVE  \A g \in Slots : Turned(g) \/ Gone(g)
  BY <1>2, OutdatedIs
<1>3. CASE SelectAnswered(f)
  <2>1. /\ flight[f].doc \in Docs /\ flight[f].doc.id = flight[f].id /\ flight[f].id \in Ids
        /\ design' = flight[f].doc /\ original' = flight[f].doc /\ flight[f].doc # None
    BY <1>0, <1>3, NoneAssumption DEF SelectAnswered, Returned, Show, Answers, Flights
  <2>2. sel' = flight[f].id /\ sel' # None
    BY <1>3, <2>1, ListenIs, StudioAssumption DEF SelectAnswered
  <2>3. CASE flight[f].id = sel /\ ~crossed
    <3>1. design # None /\ original # None /\ design.id = sel /\ original.id = sel
      BY <2>2, <2>3 DEF OneDesign
    <3>2. CASE crossed'
      BY <3>2 DEF OneDesign
    <3>3. CASE ~crossed'
      <4>1. crossed' = crossed
        BY <1>0, <1>3, <2>3, <3>3 DEF SelectAnswered, TypeOK
      <4>2. flight' = [flight EXCEPT ![f] = NoFlight]
        BY <1>3, <2>3 DEF SelectAnswered
      <4>3. QED
        BY <1>1, <2>1, <2>2, <2>3, <3>1, <4>1, <4>2, OneDesignKept
    <3>4. QED
      BY <3>2, <3>3
  <2>4. CASE ~(flight[f].id = sel /\ ~crossed)
    <3>1. flight' = Outdated(f)
      BY <1>3, <2>4 DEF SelectAnswered
    <3>2. QED
      BY <1>2, <2>1, <2>2, <3>1, OneDesignTurned
  <2>5. QED
    BY <2>3, <2>4
<1>4. CASE SaveAnswered(f)
  <2>1. /\ flight[f].doc \in Docs /\ flight[f].doc.id = flight[f].id /\ flight[f].id \in Ids
        /\ original' = flight[f].doc /\ design' = design /\ flight[f].op = "save"
        /\ flight[f].doc # None
    BY <1>0, <1>4, NoneAssumption DEF SaveAnswered, Returned, Answers, Flights
  <2>2. sel' = flight[f].id /\ sel' # None
    BY <1>4, <2>1, ListenIs, StudioAssumption DEF SaveAnswered
  <2>3. CASE crossed \/ flight[f].stale
    BY <1>4, <2>3 DEF SaveAnswered, OneDesign
  <2>4. CASE ~crossed /\ ~flight[f].stale
    <3>1. design # None /\ design.id = flight[f].id
      BY <1>0, <2>1, <2>4 DEF About
    <3>2. sel \in {None, flight[f].id}
      BY <2>4, <3>1 DEF OneDesign
    <3>3. flight' = [flight EXCEPT ![f] = NoFlight]
      BY <1>4, <3>2 DEF SaveAnswered
    <3>4. ASSUME NEW g \in Slots PROVE About(g)'
      <4>1. Gone(f) /\ \A h \in Slots \ {f} : Kept(h)
        BY <3>3, OverIs
      <4>2. CASE g = f
        BY <4>1, <4>2, TurnedAbout
      <4>3. CASE g # f
        <5>1. About(g) /\ Alike(g)
          BY <2>4, <4>1, <4>3 DEF OneDesign, Kept, Same, Alike
        <5>2. flight[g].op = "refetch" /\ flight[g].id = sel => sel' = sel
          <6>1. flight[g].op = "refetch" => flight[g].id \in Ids
            <7>1. Answers(g) /\ flight[g] \in Flights
              BY DEF DisksAreSafe, TypeOK
            <7>2. QED
              BY <7>1 DEF Answers, Flights
          <6>2. QED
            BY <2>2, <3>2, <6>1, StudioAssumption
        <5>3. QED
          BY <2>1, <5>1, <5>2, SameAbout
      <4>4. QED
        BY <4>2, <4>3
    <3>5. QED
      BY <2>1, <2>2, <3>1, <3>4 DEF OneDesign
  <2>5. QED
    BY <2>3, <2>4
<1>5. CASE DeleteAnswered(f)
  <2>1. UNCHANGED <<design, original, crossed>>
    BY <1>5 DEF DeleteAnswered
  <2>2. CASE Listen(None) /\ flight' = Outdated(f)
    <3>1. sel' = None
      BY <2>2, ListenIs
    <3>2. QED
      BY <1>2, <2>1, <2>2, <3>1, OneDesignTurned DEF OneDesign
  <2>3. CASE flight' = [flight EXCEPT ![f] = NoFlight] /\ UNCHANGED <<sel, stream>>
    BY <1>1, <2>1, <2>3, OneDesignKept
  <2>4. QED
    BY <1>5, <2>2, <2>3 DEF DeleteAnswered
<1>6. CASE SolveAnswered(f)
  <2>1. flight[f].doc \in Docs /\ flight[f].doc.id = flight[f].id /\ flight[f].op = "solve"
    BY <1>0, <1>6, NoneAssumption DEF SolveAnswered, Answers, Flights
  <2>2. {SolverEdit} \in SUBSET Marks
    BY DEF Marks
  <2>3. design' \in Docs /\ design'.id = flight[f].id /\ design' # None
    BY <1>6, <2>1, <2>2, MoreEdits, NoneAssumption DEF SolveAnswered
  <2>4. CASE crossed \/ flight[f].stale
    BY <1>6, <2>4 DEF SolveAnswered, OneDesign
  <2>5. CASE ~crossed /\ ~flight[f].stale
    <3>1. design # None /\ design.id = flight[f].id
      BY <1>0, <2>1, <2>5 DEF About
    <3>2. crossed' = crossed
      BY <1>6, <2>5 DEF SolveAnswered, TypeOK
    <3>3. QED
      BY <1>1, <1>6, <2>3, <3>1, <3>2, OneDesignKept DEF SolveAnswered
  <2>6. QED
    BY <2>4, <2>5
<1>7. CASE RefetchAnswered(f)
  <2>1. /\ flight[f].doc \in Docs /\ flight[f].doc.id = flight[f].id /\ flight[f].id \in Ids
        /\ design' = flight[f].doc /\ original' = flight[f].doc /\ flight[f].op = "refetch"
        /\ flight[f].doc # None /\ sel' = sel
    BY <1>0, <1>7, NoneAssumption DEF RefetchAnswered, Returned, Show, Answers, Flights
  <2>2. CASE crossed \/ flight[f].stale
    BY <1>7, <2>2 DEF RefetchAnswered, OneDesign
  <2>3. CASE ~crossed /\ ~flight[f].stale
    <3>1. sel = flight[f].id /\ design # None /\ design.id = sel /\ original # None
          /\ original.id = sel
      BY <1>0, <2>1, <2>3, StudioAssumption DEF About, OneDesign
    <3>2. crossed' = crossed
      BY <1>7, <2>3 DEF RefetchAnswered, TypeOK
    <3>3. QED
      BY <1>1, <1>7, <2>1, <3>1, <3>2, OneDesignKept DEF RefetchAnswered
  <2>4. QED
    BY <2>2, <2>3
<1>8. CASE Fail(f)
  BY <1>1, <1>8, OneDesignKept DEF Fail, screen
<1>9. QED
  BY <1>3, <1>4, <1>5, <1>6, <1>7, <1>8 DEF Answer

LEMMA EventOne ==
    ASSUME TypeOK, OneDesign, NEW f \in Slots, StreamOpen \/ Drop \/ OnDeleted \/ OnSaved(f)
    PROVE  OneDesign'
<1>1. CASE flight' = flight /\ UNCHANGED <<screen, crossed>>
  BY <1>1, OneDesignKept DEF screen, Alike
<1>2. CASE OnDeleted
  <2>1. \A g \in Slots : Turned(g) \/ Gone(g)
    BY <1>2, OutdatedIs DEF OnDeleted
  <2>2. sel' = None /\ design' = None /\ original' = None
    BY <1>2, ListenIs DEF OnDeleted, Show
  <2>3. QED
    BY <2>1, <2>2, OneDesignTurned
<1>3. CASE OnSaved(f) /\ Send(f, Request("refetch", sel, None))
  <2>1. sel \in Ids /\ UNCHANGED <<screen, crossed>>
    BY <1>3 DEF OnSaved, TypeOK
  <2>2. About(f)' /\ \A g \in Slots \ {f} : Kept(g)
    BY <1>3, <2>1, NewAbout DEF screen
  <2>3. QED
    BY <2>1, <2>2, OneDesignKept DEF screen, Kept, Same, Alike
<1>4. QED
  BY <1>1, <1>2, <1>3 DEF StreamOpen, Drop, OnSaved

LEMMA OneDesignStep == ASSUME TypeOK, DisksAreSafe, OneDesign, [Next]_vars PROVE OneDesign'
<1>1. Example \in Ids /\ 1 \in Slots
  BY StudioAssumption DEF Slots
<1>2. CASE UNCHANGED vars
  BY <1>2, OneDesignKept DEF vars, screen, Alike
<1>3. CASE Next
  BY <1>1, <1>3, UserOne, ServerOne, AnswerOne, EventOne DEF Next
<1>4. QED
  BY <1>2, <1>3

-----------------------------------------------------------------------------
(* The news.                                                               *)

\* A request that may bring the news is still there.
Carried(g) ==
    flight[g].op \in {"select", "refetch"} /\ flight[g].id = sel =>
        flight'[g].op = flight[g].op /\ flight'[g].id = flight[g].id

LEMMA NewsKept ==
    ASSUME NewsIsPending, sel' = sel, es' = "open" => es = "open", ~missed' => ~missed,
           ~crossed' => ~crossed, original' = original, sel # None => file'[sel] = file[sel],
           events # <<>> => events' # <<>>, \A g \in Slots : Carried(g)
    PROVE  NewsIsPending'
<1>1. NewsComes => NewsComes'
  BY DEF NewsComes, Carried
<1>2. QED
  BY <1>1 DEF NewsIsPending

LEMMA NewCarried ==
    ASSUME TypeOK, DisksAreSafe, NEW f \in Slots,
           NEW op \in {"select", "refetch", "save", "delete", "solve"}, NEW d \in Ids,
           NEW doc \in Docs \cup {None}, Send(f, Request(op, d, doc))
    PROVE  \A g \in Slots : Carried(g)
<1>1. flight[f].st = "idle" /\ \A g \in Slots \ {f} : Kept(g)
  BY RequestIs, SendIs
<1>2. flight[f].op = "none"
  BY <1>1 DEF DisksAreSafe, Answers
<1>3. QED
  BY <1>1, <1>2 DEF Carried, Kept, Same

LEMMA UserNews ==
    ASSUME TypeOK, DisksAreSafe, NewsIsPending, NEW d \in Ids, NEW f \in Slots,
           \/ Edit \/ HandleReset \/ SelectExample \/ ExampleAnswered \/ AdoptDesign(d)
           \/ SelectSaved(f, d) \/ DeleteSaved(f, d) \/ HandleSave(f) \/ SolvePins(f)
    PROVE  NewsIsPending'
<1>1. CASE UNCHANGED <<original, sel, stream, file, missed, crossed, flight>>
  BY <1>1, NewsKept DEF stream, Carried
<1>2. CASE SelectExample \/ AdoptDesign(d)
  <2>1. sel' = None
    BY <1>2, ListenIs DEF SelectExample, AdoptDesign
  <2>2. QED
    BY <2>1 DEF NewsIsPending
<1>3. CASE ExampleAnswered /\ crossed' = (crossed \/ sel # None)
  BY <1>3 DEF ExampleAnswered, NewsIsPending
<1>4. CASE SelectSaved(f, d) \/ DeleteSaved(f, d)
  <2>1. \A g \in Slots : Carried(g)
    BY <1>4, NewCarried DEF SelectSaved, DeleteSaved
  <2>2. QED
    BY <1>4, <2>1, NewsKept DEF SelectSaved, DeleteSaved, screen, stream
<1>5. CASE HandleSave(f) \/ SolvePins(f)
  <2>1. design \in Docs /\ design.id \in Ids
    BY <1>5 DEF HandleSave, SolvePins, TypeOK, Docs
  <2>2. \A g \in Slots : Carried(g)
    BY <1>5, <2>1, NewCarried DEF HandleSave, SolvePins
  <2>3. QED
    BY <1>5, <2>2, NewsKept DEF HandleSave, SolvePins, screen, stream
<1>6. QED
  BY <1>1, <1>2, <1>3, <1>4, <1>5 DEF Edit, HandleReset, ExampleAnswered

LEMMA ServerNews ==
    ASSUME TypeOK, DisksAreSafe, OneDesign, NewsIsPending, NEW d \in Ids, NEW f \in Slots,
           Serve(f) \/ ForeignSave(d) \/ ForeignDelete(d)
    PROVE  NewsIsPending'
<1>1. UNCHANGED <<original, sel, es, missed, crossed>> /\ \A g \in Slots : Carried(g)
  <2>1. \A g \in Slots : Alike(g)
    BY ServerOne
  <2>2. QED
    BY <2>1 DEF Serve, ForeignSave, ForeignDelete, screen, Carried, Alike
<1>2. CASE UNCHANGED <<events, file>>
  BY <1>1, <1>2, NewsKept
<1>3. ASSUME NEW i \in Ids, NEW e \in {"saved", "deleted"}, Announce(i, e), NEW doc,
             file' = [file EXCEPT ![i] = doc]
      PROVE  NewsIsPending'
  <2>1. /\ es = "open" /\ sel = i => events' # <<>>
        /\ events # <<>> => events' # <<>>
    BY <1>3, AnnounceIs
  <2>2. CASE sel = i
    BY <1>1, <2>1, <2>2 DEF NewsIsPending, NewsComes
  <2>3. CASE sel # i
    <3>1. sel # None => file'[sel] = file[sel]
      BY <1>3, <2>3 DEF TypeOK
    <3>2. QED
      BY <1>1, <2>1, <3>1, NewsKept
  <2>4. QED
    BY <2>2, <2>3
<1>4. CASE Serve(f)
  <2>1. Answers(f) /\ flight[f].st = "sent" /\ flight[f].id \in Ids
    BY <1>4 DEF Serve, DisksAreSafe, Answers
  <2>2. flight[f].op = "save" => flight[f].doc.id \in Ids
    BY <2>1 DEF Answers
  <2>3. QED
    BY <1>2, <1>3, <1>4, <2>1, <2>2 DEF Serve, Write
<1>5. CASE ForeignSave(d)
  BY <1>3, <1>5 DEF ForeignSave
<1>6. CASE ForeignDelete(d)
  BY <1>3, <1>6 DEF ForeignDelete
<1>7. QED
  BY <1>4, <1>5, <1>6

\* A fresh answer brings what is on disk; an old one is followed by another, or
\* the tab has missed it.
LEMMA AnswerNews ==
    ASSUME TypeOK, DisksAreSafe, OneDesign, NewsIsPending, NEW f \in Slots, Answer(f)
    PROVE  NewsIsPending'
<1>0. /\ flight[f] \in Flights /\ Answers(f) /\ flight[f].old \in BOOLEAN
      /\ flight[f].stale \in BOOLEAN
  BY DEF TypeOK, Flights, DisksAreSafe
<1>1. ASSUME flight' = [flight EXCEPT ![f] = NoFlight]
      PROVE  \A g \in Slots \ {f} : flight'[g] = flight[g]
  BY <1>1 DEF TypeOK
<1>3. ASSUME sel' = sel, events' = events, ~NothingPending(f), flight[f].id = sel,
             \A g \in Slots \ {f} : /\ flight'[g].op = flight[g].op
                                     /\ flight'[g].id = flight[g].id
      PROVE  NewsComes'
  BY <1>3 DEF NewsComes, NothingPending
<1>4. ASSUME \/ flight' = [flight EXCEPT ![f] = NoFlight]
             \/ flight' = Outdated(f)
      PROVE  \A g \in Slots \ {f} : flight'[g].op = flight[g].op /\ flight'[g].id = flight[g].id
  BY <1>4, OverIs, OutdatedIs DEF Kept, Turned, Same
<1>5. ASSUME sel' = flight[f].id, original' = flight[f].doc, file' = file,
             sel' = sel => events' = events,
             sel' # sel => es' # "open", flight[f].st = "ok", flight[f].op \in {"select", "refetch", "save"},
             \/ flight' = [flight EXCEPT ![f] = NoFlight]
             \/ flight' = Outdated(f),
             ~missed' /\ sel' = sel /\ flight[f].old => ~NothingPending(f)
      PROVE  NewsIsPending'
  <2>1. CASE sel' # sel
    BY <1>5, <2>1 DEF NewsIsPending
  <2>2. CASE sel' = sel /\ ~flight[f].old
    <3>1. original' = file'[sel']
      BY <1>0, <1>5, <2>2 DEF Answers
    <3>2. QED
      BY <3>1 DEF NewsIsPending
  <2>3. CASE sel' = sel /\ flight[f].old /\ ~missed'
    <3>1. NewsComes'
      BY <1>3, <1>4, <1>5, <2>3
    <3>2. QED
      BY <3>1 DEF NewsIsPending
  <2>4. CASE missed'
    BY <2>4 DEF NewsIsPending
  <2>5. QED
    BY <1>0, <2>1, <2>2, <2>3, <2>4
<1>6. CASE SelectAnswered(f)
  <2>1. /\ flight[f].id \in Ids /\ flight[f].op = "select" /\ flight[f].st = "ok" /\ file' = file
        /\ original' = flight[f].doc
        /\ missed' = (flight[f].id = sel /\ flight[f].old /\ NothingPending(f))
    BY <1>0, <1>6 DEF SelectAnswered, Returned, Show, Answers
  <2>2. sel' = flight[f].id /\ (sel' = sel => UNCHANGED stream) /\ (sel' # sel => es' # "open")
    BY <1>6, <2>1, ListenIs DEF SelectAnswered
  <2>3. flight' = [flight EXCEPT ![f] = NoFlight] \/ flight' = Outdated(f)
    BY <1>6 DEF SelectAnswered
  <2>4. ~missed' /\ sel' = sel /\ flight[f].old => ~NothingPending(f)
    BY <2>1, <2>2
  <2>5. QED
    BY <1>5, <2>1, <2>2, <2>3, <2>4 DEF stream
<1>7. CASE SaveAnswered(f)
  <2>1. /\ flight[f].id \in Ids /\ flight[f].op = "save" /\ flight[f].st = "ok" /\ file' = file
        /\ original' = flight[f].doc
        /\ missed' = (missed \/ (flight[f].old /\ NothingPending(f)))
    BY <1>0, <1>7 DEF SaveAnswered, Returned, Answers
  <2>2. sel' = flight[f].id /\ (sel' = sel => UNCHANGED stream) /\ (sel' # sel => es' # "open")
    BY <1>7, <2>1, ListenIs DEF SaveAnswered
  <2>3. flight' = [flight EXCEPT ![f] = NoFlight] \/ flight' = Outdated(f)
    BY <1>7 DEF SaveAnswered
  <2>4. ~missed' /\ sel' = sel /\ flight[f].old => ~NothingPending(f)
    BY <2>1, <2>2
  <2>5. QED
    BY <1>5, <2>1, <2>2, <2>3, <2>4 DEF stream
<1>8. ASSUME flight' = [flight EXCEPT ![f] = NoFlight],
             flight[f].op \notin {"select", "refetch"} \/ flight[f].id # sel
      PROVE  \A g \in Slots : Carried(g)
  BY <1>1, <1>8 DEF Carried
<1>9. CASE DeleteAnswered(f)
  <2>1. CASE Listen(None)
    <3>1. sel' = None
      BY <2>1, ListenIs
    <3>2. QED
      BY <3>1 DEF NewsIsPending
  <2>2. CASE flight' = [flight EXCEPT ![f] = NoFlight] /\ UNCHANGED <<sel, stream>>
    BY <1>8, <1>9, <2>2, NewsKept DEF DeleteAnswered, Returned, stream
  <2>3. QED
    BY <1>9, <2>1, <2>2 DEF DeleteAnswered
<1>10. CASE SolveAnswered(f)
  <2>1. \A g \in Slots : Carried(g)
    BY <1>8, <1>10 DEF SolveAnswered
  <2>2. ~crossed' => ~crossed
    BY <1>10 DEF SolveAnswered
  <2>3. QED
    BY <1>10, <2>1, <2>2, NewsKept DEF SolveAnswered, stream
<1>11. CASE RefetchAnswered(f)
  <2>1. /\ flight[f].op = "refetch" /\ flight[f].st = "ok" /\ file' = file /\ original' = flight[f].doc
        /\ UNCHANGED <<sel, es, events>> /\ flight' = [flight EXCEPT ![f] = NoFlight]
        /\ crossed' = (crossed \/ flight[f].stale)
        /\ missed' = IF flight[f].old THEN missed \/ NothingPending(f) ELSE FALSE
    BY <1>11 DEF RefetchAnswered, Returned, Show, stream
  <2>2. CASE crossed'
    BY <2>2 DEF NewsIsPending
  <2>3. CASE ~crossed'
    <3>1. ~missed' /\ sel' = sel /\ flight[f].old => ~NothingPending(f)
      BY <2>1
    <3>2. sel = flight[f].id
      BY <2>1, <2>3 DEF OneDesign, About
    <3>3. QED
      BY <1>5, <2>1, <3>1, <3>2
  <2>4. QED
    BY <2>2, <2>3
<1>12. CASE Fail(f)
  <2>1. CASE missed'
    BY <2>1 DEF NewsIsPending
  <2>2. CASE ~missed'
    <3>1. ~missed /\ (flight[f].op \notin {"select", "refetch"} \/ flight[f].id # sel)
      BY <1>12, <2>2 DEF Fail
    <3>2. \A g \in Slots : Carried(g)
      BY <1>8, <1>12, <3>1 DEF Fail
    <3>3. QED
      BY <1>12, <3>1, <3>2, NewsKept DEF Fail, screen, stream
  <2>3. QED
    BY <2>1, <2>2
<1>13. QED
  BY <1>6, <1>7, <1>9, <1>10, <1>11, <1>12 DEF Answer

\* A stream that opens may have missed something; an event of a write is
\* followed by a refetch, or by what the user is told.
LEMMA EventNews ==
    ASSUME TypeOK, DisksAreSafe, NewsIsPending, NEW f \in Slots,
           StreamOpen \/ Drop \/ OnDeleted \/ OnSaved(f)
    PROVE  NewsIsPending'
<1>1. CASE StreamOpen
  <2>1. original' = original /\ sel' = sel /\ file' = file
        /\ missed' = (missed \/ original # file[sel])
    BY <1>1 DEF StreamOpen, screen
  <2>2. QED
    BY <2>1 DEF NewsIsPending
<1>2. CASE Drop
  <2>1. es' # "open"
    BY <1>2 DEF Drop
  <2>2. QED
    BY <2>1 DEF NewsIsPending
<1>3. CASE OnDeleted
  <2>1. sel' = None
    BY <1>3, ListenIs DEF OnDeleted
  <2>2. QED
    BY <2>1 DEF NewsIsPending
<1>4. CASE OnSaved(f) /\ missed'
  BY <1>4 DEF NewsIsPending
<1>5. CASE OnSaved(f) /\ ~missed'
  <2>1. Send(f, Request("refetch", sel, None)) /\ sel' = sel
    BY <1>5 DEF OnSaved, screen
  <2>2. es = "open" /\ sel \in Ids
    BY <1>5 DEF OnSaved, TypeOK
  <2>3. flight'[f].op = "refetch" /\ flight'[f].id = sel
    BY <2>1, <2>2, SendIs, RequestIs
  <2>4. NewsComes'
    BY <2>1, <2>3 DEF NewsComes
  <2>5. QED
    BY <2>4 DEF NewsIsPending
<1>6. QED
  BY <1>1, <1>2, <1>3, <1>4, <1>5

LEMMA NewsStep ==
    ASSUME TypeOK, DisksAreSafe, OneDesign, NewsIsPending, [Next]_vars PROVE NewsIsPending'
<1>1. Example \in Ids /\ 1 \in Slots
  BY StudioAssumption DEF Slots
<1>2. CASE UNCHANGED vars
  BY <1>2, NewsKept DEF vars, screen, stream, Carried
<1>3. CASE Next
  BY <1>1, <1>3, UserNews, ServerNews, AnswerNews, EventNews DEF Next
<1>4. QED
  BY <1>2, <1>3

-----------------------------------------------------------------------------
(* The invariant.                                                          *)

LEMMA InitSync == ASSUME Init PROVE SyncInv
<1>1. <<>> \in Seq({"saved", "deleted"}) /\ 0 \in Nat
  BY EmptySeq
<1>2. \A d \in Ids : file[d] # None =>
        file[d] \in Docs /\ file[d].id = d /\ file[d].edits = {}
  BY FreshDoc DEF Init
<1>3. file \in [Ids -> Docs \cup {None}]
  <2>1. \A d \in Ids : Doc(d) \in Docs
    BY FreshDoc
  <2>2. QED
    BY <2>1 DEF Init
<1>4. flight \in [Slots -> Flights] /\ \A f \in Slots : flight[f] = NoFlight
  BY NoFlightIs DEF Init
<1>5. TypeOK
  <2>1. /\ design \in Docs \cup {None} /\ original \in Docs \cup {None}
        /\ sel \in Ids \cup {None} /\ example \in {"off", "loading", "loaded"}
    BY DEF Init
  <2>2. /\ es \in {"off", "connecting", "open"} /\ (es = "off" <=> sel = None)
        /\ events \in Seq({"saved", "deleted"}) /\ (es # "open" => events = <<>>)
    BY <1>1 DEF Init
  <2>3. edits \in 0 .. MaxEdits /\ writes \in 0 .. MaxWrites /\ acts \in 0 .. MaxActs
    BY StudioAssumption DEF Init
  <2>4. safe \subseteq UserEdits /\ missed \in BOOLEAN /\ crossed \in BOOLEAN
    BY DEF Init
  <2>5. QED
    BY <1>2, <1>3, <1>4, <2>1, <2>2, <2>3, <2>4 DEF TypeOK
<1>6. DisksAreSafe
  <2>1. \A f \in Slots : Answers(f)
    BY <1>4, NoFlightIs DEF Answers
  <2>2. Saved(original) /\ \A d \in Ids : Saved(file[d])
    BY <1>2 DEF Init, Saved
  <2>3. QED
    BY <2>1, <2>2 DEF DisksAreSafe
<1>7. OneDesign
  BY <1>4, NoFlightIs DEF Init, OneDesign, About
<1>8. NewsIsPending
  BY DEF Init, NewsIsPending
<1>9. QED
  BY <1>5, <1>6, <1>7, <1>8 DEF SyncInv

\* Whatever the user, the server, others and the network do, in any order:
\* answers carry documents that were on disk, the requests of the tab are about
\* the design it shows unless it turned away from it, and news that is not on
\* screen is under way (App.tsx and the routes it calls).
THEOREM SyncInvHolds == Spec => []SyncInv
<1>1. Init => SyncInv
  BY InitSync
<1>2. SyncInv /\ [Next]_vars => SyncInv'
  BY SyncTypeStep, DisksStep, OneDesignStep, NewsStep DEF SyncInv
<1>3. QED
  BY <1>1, <1>2, PTL DEF Spec

\* The tab's state has the types the code gives it, in every reachable state.
THEOREM SyncTypeCorrect == Spec => []TypeOK
<1>1. SyncInv => TypeOK
  BY DEF SyncInv
<1>2. QED
  BY <1>1, SyncInvHolds, PTL

\* The design that the tab calls selected, whose id it sends to the server as
\* the active one, is the one on screen, and the one Reset goes back to.
THEOREM SelectedIsShown == Spec => []SelectionIsShown
<1>1. SyncInv => SelectionIsShown
  <2> SUFFICES ASSUME SyncInv, sel # None, ~crossed
               PROVE  design # None /\ design.id = sel /\ original.id = sel
    BY DEF SelectionIsShown
  <2> QED
    BY DEF SyncInv, OneDesign
<1>2. QED
  BY <1>1, SyncInvHolds, PTL

\* No sequence of saves, refetches, solves and edits hides an edit of the user
\* that was never on disk behind a badge that says all is saved: what
\* originalDesign holds was on disk, so an edit that was not makes it differ.
THEOREM BadgeTellsUnsaved == Spec => []BadgeIsHonest
<1>1. SyncInv => BadgeIsHonest
  <2> SUFFICES ASSUME SyncInv, Unsaved # {}, ~crossed
               PROVE  IsDirty
    BY DEF BadgeIsHonest
  <2>1. design # None /\ original # None
    BY DEF SyncInv, OneDesign, Unsaved
  <2>2. PICK e \in design.edits \cap UserEdits : e \notin safe
    BY <2>1 DEF Unsaved
  <2>3. e \notin original.edits
    BY <2>1, <2>2 DEF SyncInv, DisksAreSafe, Saved
  <2>4. QED
    BY <2>1, <2>2, <2>3 DEF IsDirty
<1>2. QED
  BY <1>1, SyncInvHolds, PTL

\* A tab at rest whose base is not what is on disk ignored a write while dirty,
\* was not connected at the time of one, lost a refetch or had an answer
\* overtake another: there is no further way to fall behind.
THEOREM StaleHasAReason == Spec => []StaleIsExplained
<1>1. SyncInv => StaleIsExplained
  <2> SUFFICES ASSUME SyncInv, Settled, ~missed, ~crossed
               PROVE  original = file[sel]
    BY DEF StaleIsExplained
  <2>1. \A f \in Slots : flight[f].op = "none"
    BY DEF SyncInv, DisksAreSafe, Answers, Settled, Idle
  <2>2. ~NewsComes
    BY <2>1 DEF NewsComes, Settled
  <2>3. QED
    BY <2>2 DEF SyncInv, NewsIsPending, Settled
<1>2. QED
  BY <1>1, SyncInvHolds, PTL
=============================================================================
