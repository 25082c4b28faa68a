---------------------------- MODULE StagingProofs ----------------------------
(***************************************************************************)
(* Proofs about Staging, for every number of files, records and requests,  *)
(* every size of a batch and every number of faults: what is delivered is  *)
(* staged before its file leaves the drop directory, and what is wrong with *)
(* entries and rows is counted by the errors that happened.                *)
(***************************************************************************)
EXTENDS Staging, CollectionProofs

-----------------------------------------------------------------------------
(* Types, and who waits for whom. *)

\* The rows of a file that can be mapped are records.
LEMMA MapCSVType == ASSUME NEW f \in Files PROVE MapCSV[f] \in Seq(Records)
<1> DEFINE mappable == {r \in Records : r.fault # "unmappable"}
<1>1. Content[f] \in Seq(Records)
  BY FilesAssumption
<1>2. Filter(Content[f], mappable) \in Seq(Records \cap mappable)
  BY <1>1, FilterType
<1>3. MapCSV[f] = Filter(Content[f], mappable)
  BY DEF MapCSV
<1> QED BY <1>2, <1>3, SeqMonotonic

\* A handler that has looked a record up is at a record of its batch, and one that
\* stores has decided between two outcomes.
Sane(x) ==
    /\ x.pc \in {"post", "store"} => x.pos <= Len(x.batch)
    /\ x.pc = "store" => x.outcome \in {"POSTED", "QUARANTINED"}

\* The connector is in a file, and it has one request at a time: while it waits.
OneRequest ==
    /\ watcher.pc # "idle" => watcher.file \in Files
    /\ \A h \in Handlers : handler[h].client = "connector" => watcher.pc = "waiting"
    /\ \A g, h \in Handlers :
           handler[g].client = "connector" /\ handler[h].client = "connector" => g = h

Base == TypeOK /\ (\A h \in Handlers : Sane(handler[h])) /\ OneRequest

\* The part of Base that is about handlers and the connector.
Working(w, x) ==
    /\ w \in [pc : {"idle", "sending", "waiting"}, file : Files \cup {NoFile}, next : Nat \ {0}]
    /\ x \in [Handlers -> Executions] /\ \A h \in Handlers : Sane(x[h])
    /\ w.pc # "idle" => w.file \in Files
    /\ \A h \in Handlers : x[h].client = "connector" => w.pc = "waiting"
    /\ \A g, h \in Handlers : x[g].client = "connector" /\ x[h].client = "connector" => g = h

\* Base by its parts.
LEMMA BaseParts ==
    Base <=> /\ Working(watcher, handler)
             /\ journal \subseteq Records
             /\ staged \in [Records -> {"none", "POSTED", "QUARANTINED"}]
             /\ location \in [Files -> {"absent", "drop", "processed", "failed"}]
             /\ todo \subseteq Files
             /\ answered \subseteq Records \X Outcomes
             /\ offered \subseteq OtherBatches
             /\ errors \in 0..MaxErrors /\ timeouts \in 0..MaxTimeouts
BY DEF Base, TypeOK, OneRequest, Working

\* A handler that has nothing to do.
LEMMA FreeFacts ==
    /\ Free \in Executions /\ Sane(Free) /\ Free.client # "connector"
    /\ Idle \in [pc : {"idle", "sending", "waiting"}, file : Files \cup {NoFile}, next : Nat \ {0}]
    /\ Idle.pc = "idle"
<1>1. Free \in Executions
  BY DEF Free, Executions
<1>2. Sane(Free) /\ Free.client # "connector"
  BY DEF Free, Sane
<1>3. /\ Idle \in [pc : {"idle", "sending", "waiting"}, file : Files \cup {NoFile}, next : Nat \ {0}]
      /\ Idle.pc = "idle"
  BY DEF Idle
<1> QED BY <1>1, <1>2, <1>3

\* One handler goes on; no other client becomes the connector.
LEMMA WorkOn ==
    ASSUME NEW w, NEW x, Working(w, x), NEW h \in Handlers, NEW e \in Executions, Sane(e),
           e.client = "connector" => x[h].client = "connector"
    PROVE  Working(w, [x EXCEPT ![h] = e])
<1> DEFINE y == [x EXCEPT ![h] = e]
<1>1. x \in [Handlers -> Executions]
  BY DEF Working
<1>2. y[h] = e /\ \A g \in Handlers : g # h => y[g] = x[g]
  BY <1>1
<1>3. y \in [Handlers -> Executions]
  BY <1>1
<1> HIDE DEF y
<1>4. \A g \in Handlers : Sane(y[g]) /\ (y[g].client = "connector" => x[g].client = "connector")
  BY <1>2 DEF Working
<1>5. Working(w, y)
  BY <1>3, <1>4 DEF Working
<1> QED BY <1>5 DEF y

\* A handler is free again; if the connector has waited for it, it goes on.
LEMMA WorkFree ==
    ASSUME NEW w, NEW x, Working(w, x), NEW h \in Handlers, NEW v,
           v = IF x[h].client = "connector" THEN Idle ELSE w
    PROVE  Working(v, [x EXCEPT ![h] = Free])
<1> DEFINE y == [x EXCEPT ![h] = Free]
<1>1. Working(w, y)
  BY WorkOn, FreeFacts, Zenon
<1>2. y[h] = Free /\ \A g \in Handlers : g # h => y[g] = x[g]
  BY DEF Working
<1> HIDE DEF y
<1>3. CASE x[h].client = "connector"
  <2>1. \A g \in Handlers : y[g].client # "connector"
    BY <1>2, <1>3, FreeFacts DEF Working
  <2> QED BY <1>1, <1>3, <2>1, FreeFacts DEF Working, y
<1>4. CASE x[h].client # "connector"
  BY <1>1, <1>4 DEF y
<1> QED BY <1>3, <1>4

\* The connector gives up whatever it waits for.
LEMMA WorkDeserted == Working(watcher, handler) => Working(Idle, Deserted)
<1> SUFFICES ASSUME Working(watcher, handler)
             PROVE  Working(Idle, Deserted)
  OBVIOUS
<1>1. ASSUME NEW h \in Handlers
      PROVE  /\ Deserted[h] \in Executions /\ Sane(Deserted[h])
             /\ Deserted[h].client # "connector"
  <2>1. handler[h] \in Executions /\ Sane(handler[h])
    BY DEF Working
  <2> DEFINE gone == [handler[h] EXCEPT !.client = "gone"]
  <2>2. /\ gone \in Executions /\ gone.client = "gone" /\ gone.pc = handler[h].pc
        /\ gone.pos = handler[h].pos /\ gone.batch = handler[h].batch
        /\ gone.outcome = handler[h].outcome
    BY <2>1 DEF Executions
  <2>3. Deserted[h] = IF handler[h].client = "connector" THEN gone ELSE handler[h]
    BY DEF Deserted
  <2> HIDE DEF gone
  <2> QED BY <2>1, <2>2, <2>3 DEF Sane
<1>2. Deserted \in [Handlers -> Executions]
  <2>1. DOMAIN Deserted = Handlers /\ Deserted = [h \in Handlers |-> Deserted[h]]
    BY DEF Deserted
  <2> QED BY <1>1, <2>1
<1> QED BY <1>1, <1>2, FreeFacts DEF Working

-----------------------------------------------------------------------------
(* What a step does to a handler. *)

\* A posted entry with the id of the record.
HasEntry(j, r) == \E p \in j : DeriveEntryID(p) = DeriveEntryID(r)

Valid(r) == r.fault = "none"

\* A post fails for a reason other than the record.
Failing == \E h \in Handlers : PostFails(h)

\* From x to y: unchanged but for the client, free, at the first record of a new
\* batch, decided to post, decided what to store, or at the next record; j and s
\* are the journal and the staging rows after the step.
Effect(x, y, j, s) ==
    \/ y.pc = x.pc /\ y.batch = x.batch /\ y.pos = x.pos /\ y.outcome = x.outcome
    \/ y = Free
    \/ y.pc = "lookup" /\ y.pos = 1
    \/ y.pc = "post" /\ y.batch = x.batch /\ y.pos = x.pos
    \/ /\ x.pc = "post" /\ y.pc = "store" /\ y.batch = x.batch /\ y.pos = x.pos
       /\ y.outcome = "POSTED" => HasEntry(j, x.batch[x.pos])
       /\ y.outcome = "QUARANTINED" /\ Valid(x.batch[x.pos]) => Failing
    \/ /\ y.pc = "lookup" /\ y.batch = x.batch /\ y.pos = x.pos + 1
       /\ Identified(x.batch[x.pos]) => s[x.batch[x.pos]] # "none"

Effects == \A h \in Handlers : Effect(handler[h], handler'[h], journal', staged')

\* The record a handler is at.
LEMMA CurrentType ==
    ASSUME Base, NEW h \in Handlers
    PROVE  /\ handler[h] \in Executions /\ Sane(handler[h])
           /\ handler[h].pos <= Len(handler[h].batch) => Current(h) \in Records
<1>1. handler[h] \in Executions /\ Sane(handler[h])
  BY DEF Base, TypeOK
<1>2. handler[h].batch \in Seq(Records) /\ handler[h].pos \in Nat \ {0}
  BY <1>1 DEF Executions
<1>3. handler[h].pos <= Len(handler[h].batch) => Current(h) \in Records
  BY <1>2, ElementOfSeq DEF Current
<1> QED BY <1>1, <1>3

\* One handler moves, the connector does not.
LEMMA OneMoves ==
    ASSUME Base, NEW h \in Handlers,
           \E e \in Executions :
               /\ Sane(e) /\ (e.client = "connector" => handler[h].client = "connector")
               /\ handler' = [handler EXCEPT ![h] = e]
               /\ Effect(handler[h], e, journal', staged'),
           watcher' = watcher
    PROVE  Working(watcher', handler') /\ Effects
<1>1. PICK e \in Executions :
               /\ Sane(e) /\ (e.client = "connector" => handler[h].client = "connector")
               /\ handler' = [handler EXCEPT ![h] = e]
               /\ Effect(handler[h], e, journal', staged')
  OBVIOUS
<1>2. Working(watcher, handler)
  BY BaseParts
<1>3. Working(watcher', handler')
  BY <1>1, <1>2, WorkOn
<1>4. handler'[h] = e /\ \A g \in Handlers : g # h => handler'[g] = handler[g]
  BY <1>1 DEF Base, TypeOK
<1>5. \A g \in Handlers : g # h => Effect(handler[g], handler'[g], journal', staged')
  BY <1>4 DEF Effect
<1> QED BY <1>1, <1>3, <1>4, <1>5 DEF Effects

\* No handler moves.
LEMMA NoneMoves == handler' = handler => Effects
BY DEF Effects, Effect

\* A request fails or ends: the handler is free.
LEMMA OneFreed ==
    ASSUME Base, NEW h \in Handlers, handler' = [handler EXCEPT ![h] = Free]
    PROVE  Effects
<1>1. handler'[h] = Free /\ \A g \in Handlers : g # h => handler'[g] = handler[g]
  BY DEF Base, TypeOK
<1> QED BY <1>1 DEF Effects, Effect

\* The loop of a handler goes on.
LEMMA NextRecordMoves ==
    ASSUME Base, NEW h \in Handlers, handler[h].pos <= Len(handler[h].batch),
           NEW outcome \in Outcomes, handler' = [handler EXCEPT ![h] = NextRecord(h, outcome)],
           watcher' = watcher, Identified(Current(h)) => staged'[Current(h)] # "none"
    PROVE  Working(watcher', handler') /\ Effects
<1> DEFINE x == handler[h]
<1> DEFINE e == NextRecord(h, outcome)
<1>1. x \in Executions /\ Current(h) \in Records
  BY CurrentType
<1>2. x.done \cup {<<Current(h), outcome>>} \in SUBSET (Records \X Outcomes)
  BY <1>1 DEF Executions
<1>3. x.pos + 1 \in Nat \ {0}
  BY <1>1 DEF Executions
<1>4. /\ e \in Executions /\ e.pc = "lookup" /\ e.client = x.client
      /\ e.batch = x.batch /\ e.pos = x.pos + 1
  BY <1>1, <1>2, <1>3 DEF NextRecord, Executions
<1> HIDE DEF e
<1>5. Sane(e) /\ Effect(x, e, journal', staged')
  BY <1>4 DEF Sane, Effect, Current
<1> QED BY <1>4, <1>5, OneMoves DEF e

\* PostEntry has answered.
LEMMA DecideMoves ==
    ASSUME Base, NEW h \in Handlers, At(h, "post"),
           NEW outcome \in {"POSTED", "QUARANTINED"}, Decide(h, outcome),
           watcher' = watcher, outcome = "POSTED" => HasEntry(journal', Current(h)),
           outcome = "QUARANTINED" /\ Valid(Current(h)) => Failing
    PROVE  Working(watcher', handler') /\ Effects
<1> DEFINE x == handler[h]
<1> DEFINE e == [x EXCEPT !.pc = "store", !.outcome = outcome]
<1>1. x \in Executions /\ x.pc = "post" /\ x.pos <= Len(x.batch) /\ outcome \in Outcomes
  BY CurrentType DEF At, Outcomes
<1>2. /\ e \in Executions /\ e.pc = "store" /\ e.client = x.client
      /\ e.batch = x.batch /\ e.pos = x.pos /\ e.outcome = outcome
  BY <1>1 DEF Executions
<1>3. handler' = [handler EXCEPT ![h] = e]
  BY DEF Decide
<1> HIDE DEF e
<1>4. Sane(e) /\ Effect(x, e, journal', staged')
  BY <1>1, <1>2 DEF Sane, Effect, Current
<1> QED BY <1>2, <1>3, <1>4, OneMoves

\* A request is taken by a handler that was free.
LEMMA RequestMoves ==
    ASSUME Base, NEW h \in Handlers, NEW client \in {"connector", "other"},
           NEW batch \in Seq(Records), Request(h, client, batch)
    PROVE  \E e \in Executions :
               /\ Sane(e) /\ e.client = client /\ e.batch = batch
               /\ handler' = [handler EXCEPT ![h] = e]
               /\ Effect(handler[h], e, journal', staged')
<1> DEFINE e == [Free EXCEPT !.pc = "lookup", !.client = client, !.batch = batch]
<1>1. /\ e \in Executions /\ e.pc = "lookup" /\ e.client = client
      /\ e.batch = batch /\ e.pos = 1
  BY FreeFacts DEF Free, Executions
<1>2. handler' = [handler EXCEPT ![h] = e]
  BY DEF Request
<1> HIDE DEF e
<1>3. Sane(e) /\ Effect(handler[h], e, journal', staged')
  BY <1>1 DEF Sane, Effect
<1> QED BY <1>1, <1>2, <1>3

\* The next batch of a file is a batch of records.
LEMMA BatchType == ASSUME Base, watcher.pc = "sending" PROVE Batch \in Seq(Records)
<1> DEFINE records == MapCSV[watcher.file]
<1> DEFINE last == Min({watcher.next + BatchSize - 1, Len(records)})
<1>1. records \in Seq(Records) /\ watcher.next \in Nat \ {0}
  BY MapCSVType DEF Base, OneRequest, TypeOK
<1>2. Len(records) \in Nat /\ watcher.next + BatchSize - 1 \in Nat
  BY <1>1, FilesAssumption
<1>3. last \in Nat /\ last <= Len(records)
  BY <1>2, MinOfTwo
<1>4. Batch = SubSeq(records, watcher.next, last)
  BY DEF Batch
<1> HIDE DEF records, last
<1>5. \A i \in watcher.next..last : records[i] \in Records
  BY <1>1, <1>3, ElementOfSeq
<1>6. watcher.next \in Int /\ last \in Int
  BY <1>1, <1>3
<1> QED BY <1>4, <1>5, <1>6, SubSeqProperties, Zenon

\* The handlers and the connector after a step of a handler.
LEMMA IngestMoves ==
    ASSUME Base, NEW h \in Handlers,
           Submit(h) \/ Leave(h) \/ Ingest(h) \/ PostFails(h) \/ HandlerFails(h)
    PROVE  Working(watcher', handler') /\ Effects
<1> USE DEF connector, bounds
<1> DEFINE x == handler[h]
<1>x. x \in Executions /\ Sane(x) /\ Working(watcher, handler)
  BY CurrentType, BaseParts
<1>c. x.pos <= Len(x.batch) => Current(h) \in Records
  BY CurrentType
<1>s. staged \in [Records -> {"none", "POSTED", "QUARANTINED"}]
  BY DEF Base, TypeOK
<1>1. CASE Submit(h)
  <2>1. PICK batch \in OtherBatches : Request(h, "other", batch)
    BY <1>1 DEF Submit, Base, TypeOK
  <2>2. batch \in Seq(Records) /\ watcher' = watcher
    BY <1>1, FilesAssumption DEF Submit
  <2>3. \E e \in Executions :
               /\ Sane(e) /\ e.client = "other" /\ e.batch = batch
               /\ handler' = [handler EXCEPT ![h] = e]
               /\ Effect(handler[h], e, journal', staged')
    BY <2>1, <2>2, RequestMoves
  <2> QED BY <2>2, <2>3, OneMoves
<1>2. CASE Leave(h)
  <2> DEFINE e == [x EXCEPT !.client = "gone"]
  <2>1. /\ e \in Executions /\ e.client = "gone" /\ e.pc = x.pc /\ e.pos = x.pos
        /\ e.batch = x.batch /\ e.outcome = x.outcome
    BY <1>x DEF Executions
  <2>2. handler' = [handler EXCEPT ![h] = e] /\ watcher' = watcher
    BY <1>2 DEF Leave
  <2> HIDE DEF e
  <2>3. Sane(e) /\ Effect(x, e, journal', staged')
    BY <1>x, <2>1 DEF Sane, Effect
  <2> QED BY <2>1, <2>2, <2>3, OneMoves
<1>3. CASE SkipUnidentified(h)
  <2>1. "QUARANTINED" \in Outcomes /\ ~Identified(Current(h)) /\ watcher' = watcher
    BY <1>3 DEF SkipUnidentified, Outcomes, Identified
  <2> QED BY <1>3, <2>1, NextRecordMoves DEF SkipUnidentified, At
<1>4. CASE FindDuplicate(h)
  <2>1. "DUPLICATE" \in Outcomes /\ staged'[Current(h)] # "none" /\ watcher' = watcher
    BY <1>4 DEF FindDuplicate, Outcomes
  <2> QED BY <1>4, <2>1, NextRecordMoves DEF FindDuplicate, At
<1>5. CASE FindNew(h)
  <2> DEFINE e == [x EXCEPT !.pc = "post"]
  <2>1. /\ e \in Executions /\ e.client = x.client /\ e.pc = "post" /\ e.pos = x.pos
        /\ e.batch = x.batch
    BY <1>x DEF Executions
  <2>2. handler' = [handler EXCEPT ![h] = e] /\ watcher' = watcher /\ x.pos <= Len(x.batch)
    BY <1>5 DEF FindNew, At
  <2> HIDE DEF e
  <2>3. Sane(e) /\ Effect(x, e, journal', staged')
    BY <1>x, <2>1, <2>2 DEF Sane, Effect
  <2> QED BY <2>1, <2>2, <2>3, OneMoves
<1>6. CASE PostNew(h)
  <2>1. HasEntry(journal', Current(h))
    BY <1>6 DEF PostNew, HasEntry
  <2> QED BY <1>6, <2>1, DecideMoves DEF PostNew
<1>7. CASE PostDuplicate(h)
  <2>1. HasEntry(journal', Current(h))
    BY <1>7 DEF PostDuplicate, HasEntry, EntryExists
  <2> QED BY <1>7, <2>1, DecideMoves DEF PostDuplicate
<1>8. CASE PostRejected(h)
  <2>1. ~Valid(Current(h))
    BY <1>8 DEF PostRejected, Invalid, Valid
  <2> QED BY <1>8, <2>1, DecideMoves DEF PostRejected
<1>9. CASE PostFails(h)
  <2>1. Failing
    BY <1>9 DEF Failing
  <2> QED BY <1>9, <2>1, DecideMoves DEF PostFails
<1>10. CASE Store(h)
  <2>1. /\ x.outcome \in {"POSTED", "QUARANTINED"} /\ x.outcome \in Outcomes
        /\ x.pos <= Len(x.batch) /\ watcher' = watcher
    BY <1>x, <1>10 DEF Store, At, Sane, Outcomes
  <2>2. staged'[Current(h)] # "none"
    BY <1>c, <1>s, <1>10, <2>1 DEF Store, Stored
  <2> QED BY <1>10, <2>1, <2>2, NextRecordMoves DEF Store
<1>11. CASE Report500(h)
  <2>1. Working(watcher', handler')
    BY <1>x, <1>11, WorkFree DEF Report500, GiveUp
  <2> QED BY <1>11, <2>1, OneFreed DEF Report500
<1>12. CASE Respond(h)
  <2>1. handler' = [handler EXCEPT ![h] = Free]
    BY <1>12 DEF Respond
  <2>2. Working(watcher, handler')
    BY <1>x, <2>1, FreeFacts, WorkOn
  <2>3. CASE x.client = "connector"
    <3> DEFINE w == [watcher EXCEPT !.pc = "sending", !.next = @ + BatchSize]
    <3>1. watcher' = w /\ watcher.pc = "waiting"
      BY <1>x, <1>12, <2>3 DEF Respond, Working
    <3>2. watcher \in [pc : {"idle", "sending", "waiting"}, file : Files \cup {NoFile},
                       next : Nat \ {0}]
      BY DEF Base, TypeOK
    <3>3. watcher.next + BatchSize \in Nat \ {0}
      BY <3>2, FilesAssumption
    <3>4. /\ w \in [pc : {"idle", "sending", "waiting"}, file : Files \cup {NoFile},
                    next : Nat \ {0}]
          /\ w.pc = "sending" /\ w.file = watcher.file
      BY <3>2, <3>3
    <3>5. handler'[h] = Free /\ \A g \in Handlers : g # h => handler'[g] = handler[g]
      BY <1>x, <2>1 DEF Working
    <3>6. \A g \in Handlers : handler'[g].client # "connector"
      BY <1>x, <2>3, <3>5, FreeFacts DEF Working
    <3> HIDE DEF w
    <3>7. w.file \in Files
      BY <1>x, <3>1, <3>4 DEF Working
    <3>8. Working(w, handler')
      BY <2>2, <3>4, <3>6, <3>7 DEF Working
    <3> QED BY <2>1, <3>1, <3>8, OneFreed
  <2>4. CASE x.client # "connector"
    <3>1. watcher' = watcher
      BY <1>12, <2>4 DEF Respond
    <3> QED BY <2>1, <2>2, <3>1, OneFreed
  <2> QED BY <2>3, <2>4
<1>13. CASE StoreRefused(h) \/ HandlerFails(h)
  BY <1>11, <1>13 DEF StoreRefused, HandlerFails
<1> QED
  BY <1>1, <1>2, <1>3, <1>4, <1>5, <1>6, <1>7, <1>8, <1>9, <1>10, <1>12, <1>13 DEF Ingest

\* The handlers and the connector after any step.
LEMMA WorkStep == Base /\ [Next]_vars => Working(watcher', handler') /\ Effects
<1> SUFFICES ASSUME Base, [Next]_vars
             PROVE  Working(watcher', handler') /\ Effects
  OBVIOUS
<1> USE DEF connector, bounds
<1>x. Working(watcher, handler)
  BY BaseParts
<1>1. CASE UNCHANGED <<watcher, handler>>
  BY <1>1, <1>x, NoneMoves
<1>2. ASSUME NEW f \in Files, Open(f) PROVE Working(watcher', handler') /\ Effects
  <2>1. CASE watcher' = watcher
    BY <1>1, <1>2, <2>1 DEF Open
  <2>2. CASE watcher' # watcher
    <3> DEFINE w == [watcher EXCEPT !.pc = "sending", !.file = f]
    <3>1. watcher' = w /\ watcher.pc = "idle" /\ handler' = handler
      BY <1>2, <2>2 DEF Open
    <3>2. /\ w \in [pc : {"idle", "sending", "waiting"}, file : Files \cup {NoFile},
                    next : Nat \ {0}]
          /\ w.file = f
      BY DEF Base, TypeOK
    <3> HIDE DEF w
    <3>3. Working(w, handler)
      BY <1>x, <3>1, <3>2 DEF Working
    <3> QED BY <3>1, <3>3, NoneMoves
  <2> QED BY <2>1, <2>2
<1>3. ASSUME NEW h \in Handlers, Send(h) PROVE Working(watcher', handler') /\ Effects
  <2> DEFINE w == [watcher EXCEPT !.pc = "waiting"]
  <2>1. /\ watcher' = w /\ watcher.pc = "sending" /\ Request(h, "connector", Batch)
        /\ Batch \in Seq(Records)
    BY <1>3, BatchType DEF Send
  <2>2. PICK e \in Executions :
               /\ Sane(e) /\ e.client = "connector" /\ e.batch = Batch
               /\ handler' = [handler EXCEPT ![h] = e]
               /\ Effect(handler[h], e, journal', staged')
    BY <2>1, RequestMoves
  <2>3. handler'[h] = e /\ \A g \in Handlers : g # h => handler'[g] = handler[g]
    BY <1>x, <2>2 DEF Working
  <2>4. handler' \in [Handlers -> Executions]
    BY <1>x, <2>2 DEF Working
  <2>5. /\ w \in [pc : {"idle", "sending", "waiting"}, file : Files \cup {NoFile},
                  next : Nat \ {0}]
        /\ w.pc = "waiting" /\ w.file = watcher.file
    BY DEF Base, TypeOK
  <2> HIDE DEF w
  <2>6. \A g \in Handlers : handler[g].client # "connector"
    BY <1>x, <2>1 DEF Working
  <2>7. Working(w, handler')
    BY <1>x, <2>1, <2>2, <2>3, <2>4, <2>5, <2>6 DEF Working
  <2>8. Effects
    <3>1. \A g \in Handlers : g # h => Effect(handler[g], handler'[g], journal', staged')
      BY <2>3 DEF Effect
    <3> QED BY <2>2, <2>3, <3>1 DEF Effects
  <2> QED BY <2>1, <2>7, <2>8
<1>4. CASE MoveProcessed
  <2>1. watcher' = Idle /\ handler' = handler /\ watcher.pc = "sending"
    BY <1>4 DEF MoveProcessed
  <2>2. Working(Idle, handler)
    BY <1>x, <2>1, FreeFacts DEF Working
  <2> QED BY <2>1, <2>2, NoneMoves
<1>5. CASE Timeout \/ Restart
  <2>1. watcher' = Idle /\ handler' = Deserted
    BY <1>5 DEF Timeout, Restart, GiveUp
  <2>2. Effects
    <3> SUFFICES ASSUME NEW h \in Handlers
                 PROVE  Effect(handler[h], handler'[h], journal', staged')
      BY DEF Effects
    <3> DEFINE gone == [handler[h] EXCEPT !.client = "gone"]
    <3>1. /\ gone.pc = handler[h].pc /\ gone.batch = handler[h].batch
          /\ gone.pos = handler[h].pos /\ gone.outcome = handler[h].outcome
      BY DEF Base, TypeOK, Executions
    <3>2. handler'[h] = IF handler[h].client = "connector" THEN gone ELSE handler[h]
      BY <2>1 DEF Deserted
    <3> HIDE DEF gone
    <3> QED BY <3>1, <3>2 DEF Effect
  <2> QED BY <1>x, <2>1, <2>2, WorkDeserted
<1>6. CASE Sweep \/ \E f \in Files : Drop(f)
  BY <1>1, <1>6 DEF Sweep, Drop
<1>7. CASE UNCHANGED vars
  BY <1>1, <1>7 DEF vars
<1> QED
  BY <1>2, <1>3, <1>4, <1>5, <1>6, <1>7, IngestMoves DEF Next, Connector

-----------------------------------------------------------------------------
(* What a step does to the tables and files. *)

\* The journal grows by a valid record whose entry id was free.
LEMMA JournalStep ==
    [Next]_vars =>
        \/ journal' = journal
        \/ \E h \in Handlers : /\ At(h, "post") /\ ~EntryExists(Current(h)) /\ Valid(Current(h))
                               /\ journal' = journal \cup {Current(h)}
BY DEF Valid, Next, Connector, Ingest, Drop, Sweep, Open, Send, MoveProcessed, Timeout, Restart, Submit,
       Leave, SkipUnidentified, FindDuplicate, FindNew, PostNew, PostDuplicate, PostRejected,
       PostFails, Store, StoreRefused, HandlerFails, Respond, Report500, vars

\* Only Store writes staging rows.
LEMMA StagedStep == [Next]_vars => staged' = staged \/ \E h \in Handlers : Store(h)
BY DEF Next, Connector, Ingest, Drop, Sweep, Open, Send, MoveProcessed, Timeout, Restart, Submit,
       Leave, SkipUnidentified, FindDuplicate, FindNew, PostNew, PostDuplicate, PostRejected,
       PostFails, StoreRefused, HandlerFails, Respond, Report500, vars

\* A file is dropped, fails, or is processed.
LEMMA LocationStep ==
    [Next]_vars =>
        \/ UNCHANGED <<location, todo>>
        \/ todo' \subseteq Files /\ UNCHANGED location
        \/ \E f \in Files : Drop(f) \/ Open(f)
        \/ MoveProcessed
BY DEF Next, Connector, Ingest, Drop, Sweep, Send, Timeout, Restart, Submit,
       Leave, SkipUnidentified, FindDuplicate, FindNew, PostNew, PostDuplicate, PostRejected,
       PostFails, Store, StoreRefused, HandlerFails, Respond, Report500, vars, connector

\* What clients are told comes from a handler.
LEMMA AnsweredStep ==
    [Next]_vars =>
        \/ answered' = answered
        \/ \E h \in Handlers : answered' = answered \cup handler[h].done
BY DEF Next, Connector, Ingest, Drop, Sweep, Open, Send, MoveProcessed, Timeout, Restart, Submit,
       Leave, SkipUnidentified, FindDuplicate, FindNew, PostNew, PostDuplicate, PostRejected,
       PostFails, Store, StoreRefused, HandlerFails, Respond, Report500, vars

\* What is left to happen gets less.
LEMMA BoundsStep ==
    Base /\ [Next]_vars =>
        offered' \subseteq OtherBatches /\ errors' \in 0..MaxErrors /\ timeouts' \in 0..MaxTimeouts
<1> SUFFICES ASSUME Base, [Next]_vars
             PROVE  /\ offered' \subseteq OtherBatches
                    /\ errors' \in 0..MaxErrors /\ timeouts' \in 0..MaxTimeouts
  OBVIOUS
<1>1. /\ offered \subseteq OtherBatches /\ errors \in 0..MaxErrors /\ timeouts \in 0..MaxTimeouts
      /\ MaxErrors \in Nat /\ MaxTimeouts \in Nat
  BY FilesAssumption DEF Base, TypeOK
<1>2. /\ offered' \subseteq offered
      /\ errors' = errors \/ (errors < MaxErrors /\ errors' = errors + 1)
      /\ timeouts' = timeouts \/ (timeouts < MaxTimeouts /\ timeouts' = timeouts + 1)
  BY DEF Next, Connector, Ingest, Drop, Sweep, Open, Send, MoveProcessed, Timeout, Restart, Submit,
         Leave, SkipUnidentified, FindDuplicate, FindNew, PostNew, PostDuplicate, PostRejected,
         PostFails, Store, StoreRefused, HandlerFails, Respond, vars, bounds
<1> QED BY <1>1, <1>2

\* Staging rows that are there stay, with one of two outcomes.
LEMMA StagedStays ==
    Base /\ [Next]_vars =>
        /\ staged' \in [Records -> {"none", "POSTED", "QUARANTINED"}]
        /\ \A r \in Records : staged[r] # "none" => staged'[r] = staged[r]
<1> SUFFICES ASSUME Base, [Next]_vars
             PROVE  /\ staged' \in [Records -> {"none", "POSTED", "QUARANTINED"}]
                    /\ \A r \in Records : staged[r] # "none" => staged'[r] = staged[r]
  OBVIOUS
<1>1. staged \in [Records -> {"none", "POSTED", "QUARANTINED"}]
  BY DEF Base, TypeOK
<1>2. CASE staged' = staged
  BY <1>1, <1>2
<1>3. ASSUME NEW h \in Handlers, Store(h)
      PROVE  /\ staged' \in [Records -> {"none", "POSTED", "QUARANTINED"}]
             /\ \A r \in Records : staged[r] # "none" => staged'[r] = staged[r]
  <2>1. handler[h].outcome \in {"POSTED", "QUARANTINED"}
    BY <1>3, CurrentType DEF Store, At, Sane
  <2>2. staged' = Stored(Current(h), handler[h].outcome)
    BY <1>3 DEF Store
  <2> QED BY <1>1, <2>1, <2>2 DEF Stored
<1> QED BY <1>2, <1>3, StagedStep

\* Base is inductive.
LEMMA BaseStep == Base /\ [Next]_vars => Base'
<1> SUFFICES ASSUME Base, [Next]_vars
             PROVE  Base'
  OBVIOUS
<1>t. /\ journal \subseteq Records /\ todo \subseteq Files
      /\ location \in [Files -> {"absent", "drop", "processed", "failed"}]
      /\ answered \subseteq Records \X Outcomes
  BY DEF Base, TypeOK
<1>1. Working(watcher', handler')
  BY WorkStep
<1>2. journal' \subseteq Records
  <2>1. \A h \in Handlers : At(h, "post") => Current(h) \in Records
    BY CurrentType DEF At
  <2> QED BY <1>t, <2>1, JournalStep
<1>3. location' \in [Files -> {"absent", "drop", "processed", "failed"}] /\ todo' \subseteq Files
  BY <1>t, LocationStep DEF Drop, Open, MoveProcessed
<1>4. answered' \subseteq Records \X Outcomes
  <2>1. \A h \in Handlers : handler[h].done \subseteq Records \X Outcomes
    BY DEF Base, TypeOK, Executions
  <2> QED BY <1>t, <2>1, AnsweredStep
<1>5. staged' \in [Records -> {"none", "POSTED", "QUARANTINED"}]
  BY StagedStays
<1>6. offered' \subseteq OtherBatches /\ errors' \in 0..MaxErrors /\ timeouts' \in 0..MaxTimeouts
  BY BoundsStep
<1> HIDE DEF Base
<1>7. TypeOK'
  BY <1>1, <1>2, <1>3, <1>4, <1>5, <1>6 DEF TypeOK, Working
<1>8. (\A h \in Handlers : Sane(handler'[h])) /\ OneRequest'
  BY <1>1 DEF OneRequest, Working
<1> QED BY <1>7, <1>8 DEF Base

\* Base holds at first.
LEMMA BaseInit == Init => Base
<1> SUFFICES ASSUME Init PROVE Base
  OBVIOUS
<1>1. Working(watcher, handler)
  BY FreeFacts DEF Init, Working
<1>2. /\ journal \subseteq Records /\ todo \subseteq Files
      /\ staged \in [Records -> {"none", "POSTED", "QUARANTINED"}]
      /\ location \in [Files -> {"absent", "drop", "processed", "failed"}]
      /\ answered \subseteq Records \X Outcomes /\ offered \subseteq OtherBatches
      /\ errors \in 0..MaxErrors /\ timeouts \in 0..MaxTimeouts
  BY FilesAssumption DEF Init
<1> QED BY <1>1, <1>2, BaseParts

\* Base holds always.
LEMMA BaseAlways == Spec => []Base
BY BaseInit, BaseStep, PTL DEF Spec

\* The tables, the connector and the requests keep their types: of the outcomes
\* of a record only two are ever stored.
THEOREM StagingTypeCorrect == Spec => []TypeOK
<1>1. Base => TypeOK
  BY DEF Base
<1> QED BY <1>1, BaseAlways, PTL

-----------------------------------------------------------------------------
(* The journal and the staging rows. *)

\* A handler that is about to store POSTED has found, or posted, the entry.
DecidedIsInJournal ==
    \A h \in Handlers :
        handler[h].pc = "store" /\ handler[h].outcome = "POSTED" =>
            HasEntry(journal, handler[h].batch[handler[h].pos])

\* PostedIsInJournal and what makes it inductive.
JournalInv == Base /\ PostedIsInJournal /\ DecidedIsInJournal

\* Every step keeps JournalInv.
LEMMA JournalInvStep == JournalInv /\ [Next]_vars => JournalInv'
<1> SUFFICES ASSUME JournalInv, [Next]_vars
             PROVE  JournalInv'
  OBVIOUS
<1>1. Base /\ Base' /\ Effects
  BY BaseStep, WorkStep DEF JournalInv
<1>2. journal \subseteq journal'
  BY JournalStep
<1>3. \A r : HasEntry(journal, r) => HasEntry(journal', r)
  BY <1>2 DEF HasEntry
<1>4. DecidedIsInJournal'
  <2> SUFFICES ASSUME NEW h \in Handlers, handler'[h].pc = "store", handler'[h].outcome = "POSTED"
               PROVE  HasEntry(journal', handler'[h].batch[handler'[h].pos])
    BY DEF DecidedIsInJournal
  <2>1. Effect(handler[h], handler'[h], journal', staged')
    BY <1>1 DEF Effects
  <2>2. handler'[h] # Free
    BY DEF Free
  <2> QED BY <1>3, <2>1, <2>2 DEF Effect, JournalInv, DecidedIsInJournal
<1>5. PostedIsInJournal'
  <2>1. \A r \in Records : staged[r] = "POSTED" => HasEntry(journal', r)
    BY <1>3 DEF JournalInv, PostedIsInJournal, HasEntry
  <2>2. ASSUME NEW r \in Records, staged'[r] = "POSTED", staged[r] # "POSTED"
        PROVE  HasEntry(journal', r)
    <3>1. PICK h \in Handlers : Store(h)
      BY <2>2, StagedStep
    <3>2. Current(h) = r /\ handler[h].outcome = "POSTED" /\ handler[h].pc = "store"
      <4>1. staged' = Stored(Current(h), handler[h].outcome) /\ handler[h].pc = "store"
        BY <3>1 DEF Store, At
      <4>2. staged \in [Records -> {"none", "POSTED", "QUARANTINED"}]
        BY <1>1 DEF Base, TypeOK
      <4> QED BY <2>2, <4>1, <4>2 DEF Stored
    <3> QED BY <1>3, <3>2 DEF JournalInv, DecidedIsInJournal, Current
  <2> QED BY <2>1, <2>2 DEF PostedIsInJournal, HasEntry
<1> QED BY <1>1, <1>4, <1>5 DEF JournalInv

\* A row reported as POSTED has its entry in the journal, although the entry and
\* the row are written by different transactions, and by different requests.
THEOREM PostedRowsAreInJournal == Spec => []PostedIsInJournal
<1>1. Init => JournalInv
  <2> SUFFICES ASSUME Init PROVE JournalInv
    OBVIOUS
  <2>1. \A h \in Handlers : handler[h].pc = "free"
    BY DEF Init, Free
  <2>2. \A r \in Records : staged[r] = "none"
    BY DEF Init
  <2> QED BY <2>1, <2>2, BaseInit DEF JournalInv, PostedIsInJournal, DecidedIsInJournal
<1>2. JournalInv => PostedIsInJournal
  BY DEF JournalInv
<1> QED BY <1>1, <1>2, JournalInvStep, PTL DEF Spec

-----------------------------------------------------------------------------
(* What leaves the drop directory is staged. *)

\* A handler has staged the records of its batch it has come past.
PassedIsStaged ==
    \A h \in Handlers : \A i \in 1..Len(handler[h].batch) :
        i < handler[h].pos /\ Identified(handler[h].batch[i]) => staged[handler[h].batch[i]] # "none"

\* The request the connector waits for is about the batch it is at.
RequestIsBatch ==
    \A h \in Handlers : handler[h].client = "connector" => handler[h].batch = Batch

\* The connector has come past records of its file that are staged.
DeliveredIsStaged ==
    watcher.pc # "idle" =>
        \A i \in 1..Len(MapCSV[watcher.file]) :
            i < watcher.next /\ Identified(MapCSV[watcher.file][i])
                => staged[MapCSV[watcher.file][i]] # "none"

\* The records of a file that was moved to processed/ are staged.
FilesAreStaged ==
    \A f \in Files : location[f] = "processed" =>
        \A i \in 1..Len(MapCSV[f]) : Identified(MapCSV[f][i]) => staged[MapCSV[f][i]] # "none"

\* A file is read from its start.
StartsAtFirst == watcher.pc = "idle" => watcher.next = 1

\* ProcessedIsStaged and what makes it inductive.
DeliveryInv ==
    /\ Base /\ PassedIsStaged /\ RequestIsBatch /\ StartsAtFirst
    /\ DeliveredIsStaged /\ FilesAreStaged

\* Every step keeps PassedIsStaged.
LEMMA PassedStep == Base /\ PassedIsStaged /\ [Next]_vars => PassedIsStaged'
<1> SUFFICES ASSUME Base, PassedIsStaged, [Next]_vars,
                    NEW h \in Handlers, NEW i \in 1..Len(handler'[h].batch),
                    i < handler'[h].pos, Identified(handler'[h].batch[i])
             PROVE  staged'[handler'[h].batch[i]] # "none"
  BY DEF PassedIsStaged
<1> DEFINE x == handler[h]
<1> DEFINE y == handler'[h]
<1>1. Effect(x, y, journal', staged') /\ Base' /\ Base
  BY BaseStep, WorkStep DEF Effects
<1>2. x \in Executions /\ y \in Executions
  BY <1>1 DEF Base, TypeOK
<1>3. x.pos \in Nat \ {0} /\ y.batch \in Seq(Records) /\ x.batch \in Seq(Records)
  BY <1>2 DEF Executions
<1>4. y.batch[i] \in Records
  BY <1>3, ElementOfSeq
<1>5. Free.pos = 1
  BY DEF Free
<1>6. y.batch = x.batch /\ (i < x.pos \/ (i = x.pos /\ staged'[x.batch[x.pos]] # "none"))
  <2>1. y # Free /\ y.pos # 1 /\ i \in Nat
    BY <1>3, <1>5
  <2>2. CASE y.batch = x.batch /\ y.pos = x.pos
    BY <2>2
  <2>3. CASE /\ y.batch = x.batch /\ y.pos = x.pos + 1
             /\ Identified(x.batch[x.pos]) => staged'[x.batch[x.pos]] # "none"
    <3>1. i < x.pos \/ i = x.pos
      BY <1>3, <2>1, <2>3
    <3> QED BY <2>3, <3>1
  <2> QED BY <1>1, <2>1, <2>2, <2>3 DEF Effect
<1>7. CASE i < x.pos
  <2>1. staged[x.batch[i]] # "none"
    BY <1>6, <1>7 DEF PassedIsStaged
  <2> QED BY <1>1, <1>4, <1>6, <2>1, StagedStays
<1> QED BY <1>6, <1>7

\* The batch of the connector covers the rows from the next one on.
LEMMA BatchCovers ==
    ASSUME Base, watcher.pc # "idle", NEW i \in 1..Len(MapCSV[watcher.file]),
           watcher.next <= i, i < watcher.next + BatchSize
    PROVE  /\ i - watcher.next + 1 \in 1..Len(Batch)
           /\ Batch[i - watcher.next + 1] = MapCSV[watcher.file][i]
<1> DEFINE records == MapCSV[watcher.file]
<1> DEFINE first == watcher.next
<1> DEFINE last == Min({first + BatchSize - 1, Len(records)})
<1>1. records \in Seq(Records) /\ first \in Nat \ {0}
  BY MapCSVType DEF Base, OneRequest, TypeOK
<1>2. Len(records) \in Nat /\ first + BatchSize - 1 \in Nat /\ BatchSize \in Nat
  BY <1>1, FilesAssumption
<1>3. last \in Nat /\ last <= Len(records) /\ (last = first + BatchSize - 1 \/ last = Len(records))
  BY <1>2, MinOfTwo
<1>4. Batch = SubSeq(records, first, last)
  BY DEF Batch
<1> HIDE DEF records, last, first
<1>5. first \in Int /\ last \in Int /\ \A k \in first..last : records[k] \in Records
  BY <1>1, <1>3, ElementOfSeq
<1>6. /\ Len(Batch) = IF first <= last THEN last - first + 1 ELSE 0
      /\ \A k \in 1..last - first + 1 : Batch[k] = records[first + k - 1]
  <2> DEFINE b == SubSeq(records, first, last)
  <2>1. /\ Len(b) = IF first <= last THEN last - first + 1 ELSE 0
        /\ \A k \in 1..last - first + 1 : b[k] = records[first + k - 1]
    BY <1>5, SubSeqProperties
  <2> QED BY <1>4, <2>1
<1>7. i \in Nat /\ first <= i /\ i <= last
  BY <1>1, <1>2, <1>3 DEF records, first
<1> DEFINE k == i - first + 1
<1>8. k \in 1..last - first + 1 /\ first + k - 1 = i /\ first <= last
  BY <1>5, <1>7
<1> HIDE DEF k
<1>9. k \in 1..Len(Batch) /\ Batch[k] = records[i]
  BY <1>6, <1>8
<1> QED BY <1>9 DEF k, records, first

\* When the batch is empty the connector is past all rows.
LEMMA EmptyBatch ==
    ASSUME Base, watcher.pc # "idle", Batch = <<>>,
           NEW i \in 1..Len(MapCSV[watcher.file])
    PROVE  i < watcher.next
<1> DEFINE n == watcher.next
<1>1. /\ n \in Nat \ {0} /\ BatchSize \in Nat \ {0}
      /\ Len(MapCSV[watcher.file]) \in Nat
  BY MapCSVType, FilesAssumption DEF Base, OneRequest, TypeOK
<1>2. SUFFICES ASSUME n <= i PROVE FALSE
  BY <1>1
<1>3. n \in 1..Len(MapCSV[watcher.file]) /\ n <= n /\ n < n + BatchSize
  BY <1>1, <1>2
<1>4. n - n + 1 \in 1..Len(Batch)
  BY <1>3, BatchCovers
<1> QED BY <1>1, <1>4

\* What a step does to the connector: nothing, or it gives up or is done, opens a
\* file, sends a batch, or has been answered.
LEMMA WatcherStep ==
    Base /\ [Next]_vars =>
        \/ watcher' = watcher
        \/ watcher' = Idle
        \/ watcher.pc = "idle" /\ watcher'.next = watcher.next
        \/ watcher.pc = "sending" /\ watcher' = [watcher EXCEPT !.pc = "waiting"]
        \/ \E h \in Handlers :
               /\ handler[h].client = "connector" /\ handler[h].pos > Len(handler[h].batch)
               /\ watcher' = [watcher EXCEPT !.pc = "sending", !.next = @ + BatchSize]
<1> SUFFICES ASSUME Base, [Next]_vars, watcher' # watcher, watcher' # Idle
             PROVE  \/ watcher.pc = "idle" /\ watcher'.next = watcher.next
                    \/ watcher.pc = "sending" /\ watcher' = [watcher EXCEPT !.pc = "waiting"]
                    \/ \E h \in Handlers :
                           /\ handler[h].client = "connector"
                           /\ handler[h].pos > Len(handler[h].batch)
                           /\ watcher' = [watcher EXCEPT !.pc = "sending", !.next = @ + BatchSize]
  OBVIOUS
<1>1. \/ \E f \in Files : Open(f)
      \/ \E h \in Handlers : Send(h) \/ Respond(h)
  BY DEF Next, Connector, Ingest, Drop, Sweep, MoveProcessed, Timeout, Restart, Submit, Leave,
         SkipUnidentified, FindDuplicate, FindNew, PostNew, PostDuplicate, PostRejected, PostFails,
         Store, StoreRefused, HandlerFails, Report500, GiveUp, vars, connector
<1>2. ASSUME NEW f \in Files, Open(f)
      PROVE  watcher.pc = "idle" /\ watcher'.next = watcher.next
  <2>1. watcher' = [watcher EXCEPT !.pc = "sending", !.file = f] /\ watcher.pc = "idle"
    BY <1>2 DEF Open
  <2> QED BY <2>1 DEF Base, TypeOK
<1>3. ASSUME NEW h \in Handlers, Send(h)
      PROVE  watcher.pc = "sending" /\ watcher' = [watcher EXCEPT !.pc = "waiting"]
  BY <1>3 DEF Send
<1>4. ASSUME NEW h \in Handlers, Respond(h)
      PROVE  /\ handler[h].client = "connector" /\ handler[h].pos > Len(handler[h].batch)
             /\ watcher' = [watcher EXCEPT !.pc = "sending", !.next = @ + BatchSize]
  BY <1>4 DEF Respond
<1> QED BY <1>1, <1>2, <1>3, <1>4

\* The connector's request keeps its batch; a new one is the batch it is at.
LEMMA RequestStep ==
    ASSUME Base, [Next]_vars, NEW h \in Handlers, handler'[h].client = "connector"
    PROVE  \/ /\ handler[h].client = "connector" /\ handler'[h].batch = handler[h].batch
              /\ watcher' = watcher
           \/ /\ handler'[h].batch = Batch
              /\ watcher.pc = "sending" /\ watcher' = [watcher EXCEPT !.pc = "waiting"]
<1> DEFINE Kept == /\ handler[h].client = "connector" /\ handler'[h].batch = handler[h].batch
                   /\ watcher' = watcher
<1> DEFINE New == /\ handler'[h].batch = Batch
                  /\ watcher.pc = "sending" /\ watcher' = [watcher EXCEPT !.pc = "waiting"]
<1> USE DEF connector
<1>w. Working(watcher, handler) /\ Working(watcher', handler') /\ watcher'.pc = "waiting"
  <2>1. Working(watcher, handler) /\ Working(watcher', handler')
    BY BaseParts, WorkStep
  <2> QED BY <2>1 DEF Working
<1>f. Free.client = "none" /\ Idle.pc = "idle"
  BY DEF Free, Idle
<1>t. /\ handler \in [Handlers -> Executions]
      /\ watcher \in [pc : {"idle", "sending", "waiting"}, file : Files \cup {NoFile},
                      next : Nat \ {0}]
  BY <1>w DEF Working
<1>1. CASE UNCHANGED <<watcher, handler>>
  BY <1>1
<1>2. ASSUME NEW f \in Files, Open(f) PROVE Kept \/ New
  <2>1. watcher.pc = "idle" /\ handler' = handler
    BY <1>2 DEF Open
  <2> QED BY <1>w, <2>1 DEF Working
<1>3. ASSUME NEW g \in Handlers, Send(g) PROVE Kept \/ New
  <2> DEFINE e == [Free EXCEPT !.pc = "lookup", !.client = "connector", !.batch = Batch]
  <2>1. /\ handler' = [handler EXCEPT ![g] = e] /\ watcher.pc = "sending"
        /\ watcher' = [watcher EXCEPT !.pc = "waiting"]
    BY <1>3 DEF Send, Request
  <2>2. e.batch = Batch
    BY DEF Free
  <2> HIDE DEF e
  <2>3. CASE h = g
    BY <1>t, <2>1, <2>2, <2>3
  <2>4. CASE h # g
    BY <1>t, <1>w, <2>1, <2>4 DEF Working
  <2> QED BY <2>3, <2>4
<1>4. CASE MoveProcessed \/ Timeout \/ Restart
  BY <1>w, <1>f, <1>4 DEF MoveProcessed, Timeout, Restart, GiveUp
<1>5. ASSUME NEW g \in Handlers, NEW e, handler' = [handler EXCEPT ![g] = e], watcher' = watcher,
             e.client = "connector" => handler[g].client = "connector" /\ e.batch = handler[g].batch
      PROVE  Kept \/ New
  BY <1>t, <1>5
<1>6. ASSUME NEW g \in Handlers, handler' = [handler EXCEPT ![g] = Free],
             handler[g].client # "connector" => watcher' = watcher
      PROVE  Kept \/ New
  <2>1. h # g /\ handler'[h] = handler[h]
    BY <1>f, <1>t, <1>6
  <2>2. handler[g].client # "connector"
    BY <1>w, <2>1 DEF Working
  <2> QED BY <1>6, <2>1, <2>2
<1>7. ASSUME NEW g \in Handlers, Submit(g) PROVE Kept \/ New
  <2>1. PICK batch \in offered : Request(g, "other", batch)
    BY <1>7 DEF Submit
  <2> DEFINE e == [Free EXCEPT !.pc = "lookup", !.client = "other", !.batch = batch]
  <2>2. handler' = [handler EXCEPT ![g] = e] /\ watcher' = watcher
    BY <1>7, <2>1 DEF Submit, Request
  <2>3. e.client = "other"
    BY DEF Free
  <2> HIDE DEF e
  <2> QED BY <1>5, <2>2, <2>3
<1>8. ASSUME NEW g \in Handlers, Leave(g) PROVE Kept \/ New
  <2> DEFINE e == [handler[g] EXCEPT !.client = "gone"]
  <2>1. handler' = [handler EXCEPT ![g] = e] /\ watcher' = watcher
    BY <1>8 DEF Leave
  <2>2. e.client = "gone"
    BY <1>t DEF Executions
  <2> HIDE DEF e
  <2> QED BY <1>5, <2>1, <2>2
<1>9. ASSUME NEW g \in Handlers, NEW outcome, watcher' = watcher,
             handler' = [handler EXCEPT ![g] = NextRecord(g, outcome)]
      PROVE  Kept \/ New
  <2>1. /\ NextRecord(g, outcome).client = handler[g].client
        /\ NextRecord(g, outcome).batch = handler[g].batch
    BY <1>t DEF NextRecord, Executions
  <2> QED BY <1>5, <1>9, <2>1
<1>10. ASSUME NEW g \in Handlers, NEW outcome, watcher' = watcher, Decide(g, outcome)
       PROVE  Kept \/ New
  <2> DEFINE e == [handler[g] EXCEPT !.pc = "store", !.outcome = outcome]
  <2>1. e.client = handler[g].client /\ e.batch = handler[g].batch
    BY <1>t DEF Executions
  <2>2. handler' = [handler EXCEPT ![g] = e]
    BY <1>10 DEF Decide
  <2> HIDE DEF e
  <2> QED BY <1>5, <1>10, <2>1, <2>2
<1>11. ASSUME NEW g \in Handlers, FindNew(g) PROVE Kept \/ New
  <2> DEFINE e == [handler[g] EXCEPT !.pc = "post"]
  <2>1. e.client = handler[g].client /\ e.batch = handler[g].batch
    BY <1>t DEF Executions
  <2>2. handler' = [handler EXCEPT ![g] = e] /\ watcher' = watcher
    BY <1>11 DEF FindNew
  <2> HIDE DEF e
  <2> QED BY <1>5, <2>1, <2>2
<1>12. ASSUME NEW g \in Handlers, StoreRefused(g) \/ HandlerFails(g) \/ Respond(g)
       PROVE  Kept \/ New
  BY <1>6, <1>12 DEF StoreRefused, HandlerFails, Respond, Report500
<1>13. ASSUME NEW g \in Handlers, Ingest(g) \/ PostFails(g) PROVE Kept \/ New
  <2>1. CASE SkipUnidentified(g) \/ FindDuplicate(g) \/ Store(g)
    BY <1>9, <2>1 DEF SkipUnidentified, FindDuplicate, Store
  <2>2. CASE PostNew(g) \/ PostDuplicate(g) \/ PostRejected(g) \/ PostFails(g)
    BY <1>10, <2>2 DEF PostNew, PostDuplicate, PostRejected, PostFails
  <2> QED BY <1>11, <1>12, <1>13, <2>1, <2>2 DEF Ingest
<1>14. CASE Sweep \/ (\E f \in Files : Drop(f)) \/ UNCHANGED vars
  BY <1>1, <1>14 DEF Sweep, Drop, vars
<1> QED
  BY <1>2, <1>3, <1>4, <1>7, <1>8, <1>12, <1>13, <1>14 DEF Next, Connector

\* Every step keeps DeliveryInv.
LEMMA DeliveryStep == DeliveryInv /\ [Next]_vars => DeliveryInv'
<1> SUFFICES ASSUME DeliveryInv, [Next]_vars
             PROVE  DeliveryInv'
  OBVIOUS
<1>1. Base /\ Base' /\ PassedIsStaged /\ PassedIsStaged'
  BY BaseStep, PassedStep DEF DeliveryInv
<1>2. watcher \in [pc : {"idle", "sending", "waiting"}, file : Files \cup {NoFile}, next : Nat \ {0}]
  BY <1>1 DEF Base, TypeOK
<1>3. \A r \in Records : staged[r] # "none" => staged'[r] # "none"
  BY <1>1, StagedStays
<1>4. \A f \in Files : \A i \in 1..Len(MapCSV[f]) : MapCSV[f][i] \in Records
  BY MapCSVType, ElementOfSeq
<1>5. watcher.pc # "idle" => watcher.file \in Files
  BY <1>1 DEF Base, OneRequest
<1>6. RequestIsBatch'
  <2> SUFFICES ASSUME NEW h \in Handlers, handler'[h].client = "connector"
               PROVE  handler'[h].batch = Batch'
    BY DEF RequestIsBatch
  <2>1. CASE watcher' = watcher /\ handler[h].client = "connector"
             /\ handler'[h].batch = handler[h].batch
    BY <2>1 DEF DeliveryInv, RequestIsBatch, Batch
  <2>2. CASE handler'[h].batch = Batch /\ watcher' = [watcher EXCEPT !.pc = "waiting"]
    <3>1. watcher'.file = watcher.file /\ watcher'.next = watcher.next
      BY <1>2, <2>2
    <3> QED BY <2>2, <3>1 DEF Batch
  <2> QED BY <1>1, <2>1, <2>2, RequestStep
<1>7. StartsAtFirst'
  <2>1. Idle.next = 1
    BY DEF Idle
  <2>2. StartsAtFirst
    BY DEF DeliveryInv
  <2>3. CASE watcher' = watcher \/ watcher' = Idle
    BY <2>1, <2>2, <2>3 DEF StartsAtFirst
  <2>4. CASE watcher.pc = "idle" /\ watcher'.next = watcher.next
    BY <2>2, <2>4 DEF StartsAtFirst
  <2>5. CASE watcher'.pc # "idle"
    BY <2>5 DEF StartsAtFirst
  <2>6. /\ [watcher EXCEPT !.pc = "waiting"].pc # "idle"
        /\ [watcher EXCEPT !.pc = "sending", !.next = @ + BatchSize].pc # "idle"
    BY <1>2
  <2> QED BY <1>1, <2>3, <2>4, <2>5, <2>6, WatcherStep
<1>8. DeliveredIsStaged'
  <2> SUFFICES ASSUME watcher'.pc # "idle", NEW i \in 1..Len(MapCSV[watcher'.file]),
                      i < watcher'.next, Identified(MapCSV[watcher'.file][i])
               PROVE  staged'[MapCSV[watcher'.file][i]] # "none"
    BY DEF DeliveredIsStaged
  <2>1. ASSUME watcher.pc # "idle", watcher'.file = watcher.file, i < watcher.next
        PROVE  staged'[MapCSV[watcher'.file][i]] # "none"
    <3>1. staged[MapCSV[watcher.file][i]] # "none"
      BY <2>1 DEF DeliveryInv, DeliveredIsStaged
    <3>2. MapCSV[watcher.file][i] \in Records
      BY <1>4, <1>5, <2>1
    <3> QED BY <1>3, <2>1, <3>1, <3>2
  <2>2. CASE watcher' = watcher
    BY <2>1, <2>2
  <2>3. CASE watcher' = Idle
    BY <2>3 DEF Idle
  <2>4. CASE watcher.pc = "idle" /\ watcher'.next = watcher.next
    <3>1. watcher'.next = 1
      BY <2>4 DEF DeliveryInv, StartsAtFirst
    <3>2. Len(MapCSV[watcher'.file]) \in Nat
      <4>1. watcher'.file \in Files
        BY <1>1 DEF Base, OneRequest
      <4> QED BY <4>1, MapCSVType
    <3>3. i \in Nat /\ 1 <= i
      BY <3>2
    <3> QED BY <3>1, <3>3
  <2>5. CASE watcher.pc = "sending" /\ watcher' = [watcher EXCEPT !.pc = "waiting"]
    <3>1. watcher'.file = watcher.file /\ watcher'.next = watcher.next
      BY <1>2, <2>5
    <3> QED BY <2>1, <2>5, <3>1
  <2>6. ASSUME NEW h \in Handlers, handler[h].client = "connector",
               handler[h].pos > Len(handler[h].batch),
               watcher' = [watcher EXCEPT !.pc = "sending", !.next = @ + BatchSize]
        PROVE  staged'[MapCSV[watcher'.file][i]] # "none"
    <3>1. watcher'.file = watcher.file /\ watcher'.next = watcher.next + BatchSize
      BY <1>2, <2>6
    <3>2. watcher.pc # "idle" /\ handler[h].batch = Batch
      BY <2>6 DEF DeliveryInv, Base, OneRequest, RequestIsBatch
    <3>3. /\ watcher.next \in Nat \ {0} /\ BatchSize \in Nat /\ i \in Nat
      <4>1. Len(MapCSV[watcher.file]) \in Nat
        BY <1>5, <3>2, MapCSVType
      <4> QED BY <1>2, <3>1, <4>1, FilesAssumption
    <3>4. CASE watcher.next <= i
      <4> DEFINE k == i - watcher.next + 1
      <4>1. k \in 1..Len(Batch) /\ Batch[k] = MapCSV[watcher.file][i]
        BY <1>1, <3>1, <3>2, <3>4, BatchCovers
      <4>2. Len(handler[h].batch) \in Nat /\ handler[h].pos \in Nat
        BY <1>1 DEF Base, TypeOK, Executions
      <4>3. k < handler[h].pos
        <5> HIDE DEF k
        <5> QED BY <2>6, <3>2, <4>1, <4>2
      <4> HIDE DEF k
      <4>4. staged[Batch[k]] # "none"
        BY <1>1, <3>1, <3>2, <4>1, <4>3 DEF PassedIsStaged
      <4>5. MapCSV[watcher.file][i] \in Records
        BY <1>4, <1>5, <3>1, <3>2
      <4> QED BY <1>3, <3>1, <4>1, <4>4, <4>5
    <3>5. CASE i < watcher.next
      BY <2>1, <3>1, <3>2, <3>5
    <3> QED BY <3>3, <3>4, <3>5
  <2> QED BY <1>1, <2>2, <2>3, <2>4, <2>5, <2>6, WatcherStep
<1>9. FilesAreStaged'
  <2> SUFFICES ASSUME NEW f \in Files, location'[f] = "processed",
                      NEW i \in 1..Len(MapCSV[f]), Identified(MapCSV[f][i])
               PROVE  staged'[MapCSV[f][i]] # "none"
    BY DEF FilesAreStaged
  <2>1. CASE location[f] = "processed"
    BY <1>3, <1>4, <2>1 DEF DeliveryInv, FilesAreStaged
  <2>2. CASE location[f] # "processed"
    <3>1. location \in [Files -> {"absent", "drop", "processed", "failed"}]
      BY <1>1 DEF Base, TypeOK
    <3>2. MoveProcessed /\ f = watcher.file
      BY <2>2, <3>1, LocationStep DEF Drop, Open, MoveProcessed
    <3>3. Batch = <<>> /\ watcher.pc # "idle"
      BY <3>2 DEF MoveProcessed
    <3>4. i < watcher.next
      BY <1>1, <3>2, <3>3, EmptyBatch
    <3>5. staged[MapCSV[f][i]] # "none"
      BY <3>2, <3>3, <3>4 DEF DeliveryInv, DeliveredIsStaged
    <3> QED BY <1>3, <1>4, <3>5
  <2> QED BY <2>1, <2>2
<1> QED BY <1>1, <1>6, <1>7, <1>8, <1>9 DEF DeliveryInv

\* A file leaves the drop directory for processed/ only when each of its records is
\* staged, whatever timeouts, errors, crashes and overlapping requests happened.
THEOREM ProcessedFilesAreStaged == Spec => []ProcessedIsStaged
<1>1. Init => DeliveryInv
  <2> SUFFICES ASSUME Init PROVE DeliveryInv
    OBVIOUS
  <2>1. \A h \in Handlers : handler[h].pos = 1 /\ handler[h].client = "none"
                          /\ handler[h].batch = <<>>
    BY DEF Init, Free
  <2>2. watcher.pc = "idle" /\ watcher.next = 1 /\ \A f \in Files : location[f] = "absent"
    BY DEF Init, Idle
  <2>3. PassedIsStaged /\ RequestIsBatch
    BY <2>1 DEF PassedIsStaged, RequestIsBatch
  <2> QED
    BY <2>2, <2>3, BaseInit DEF DeliveryInv, StartsAtFirst, DeliveredIsStaged, FilesAreStaged
<1>2. DeliveryInv => ProcessedIsStaged
  <2> SUFFICES ASSUME DeliveryInv, NEW f \in Files, location[f] = "processed",
                      NEW r \in Range(MapCSV[f]), Identified(r)
               PROVE  staged[r] # "none"
    BY DEF ProcessedIsStaged
  <2>1. PICK i \in 1..Len(MapCSV[f]) : r = MapCSV[f][i]
    BY MapCSVType, RangeEquality
  <2> QED BY <2>1 DEF DeliveryInv, FilesAreStaged
<1> QED BY <1>1, <1>2, DeliveryStep, PTL DEF Spec

-----------------------------------------------------------------------------
(* What is in quarantine by an error. *)

\* Valid records that are in quarantine, or that a handler is about to put there.
Doomed ==
    {r \in Records : staged[r] = "QUARANTINED" /\ Valid(r)}
    \cup {handler[h].batch[handler[h].pos] :
            h \in {g \in Handlers : /\ handler[g].pc = "store"
                                    /\ handler[g].outcome = "QUARANTINED"
                                    /\ Valid(handler[g].batch[handler[g].pos])}}

\* QuarantineIsExplained and what makes it inductive: an error counts as soon as
\* it has happened, the record when its row is stored.
QuarantineInv == Base /\ AtMost(Doomed, errors)

\* A record is doomed by an error, one at a time.
LEMMA DoomedStep ==
    Base /\ [Next]_vars =>
        \/ Doomed' \subseteq Doomed /\ errors' \in Nat /\ errors <= errors'
        \/ errors' = errors + 1 /\ \E r : Doomed' \subseteq Doomed \cup {r}
<1> SUFFICES ASSUME Base, [Next]_vars
             PROVE  \/ Doomed' \subseteq Doomed /\ errors' \in Nat /\ errors <= errors'
                    \/ errors' = errors + 1 /\ \E r : Doomed' \subseteq Doomed \cup {r}
  OBVIOUS
<1>t. /\ handler \in [Handlers -> Executions] /\ errors \in Nat /\ errors' \in Nat
      /\ errors <= errors' /\ staged \in [Records -> {"none", "POSTED", "QUARANTINED"}]
  <2>1. errors' = errors \/ errors' = errors + 1
    BY DEF Next, Connector, Ingest, Drop, Sweep, Open, Send, MoveProcessed, Timeout, Restart,
           Submit, Leave, SkipUnidentified, FindDuplicate, FindNew, PostNew, PostDuplicate,
           PostRejected, PostFails, Store, StoreRefused, HandlerFails, Respond, vars, bounds
  <2> QED BY <2>1, FilesAssumption DEF Base, TypeOK
<1>s. ASSUME NEW r \in Records, staged'[r] = "QUARANTINED", Valid(r)
      PROVE  r \in Doomed
  <2>1. CASE staged[r] = "QUARANTINED"
    BY <1>s, <2>1 DEF Doomed
  <2>2. CASE staged[r] # "QUARANTINED"
    <3>1. PICK h \in Handlers : Store(h)
      BY <1>s, <2>2, StagedStep
    <3>2. /\ staged' = Stored(Current(h), handler[h].outcome) /\ handler[h].pc = "store"
      BY <3>1 DEF Store, At
    <3>3. handler[h].outcome = "QUARANTINED" /\ Current(h) = r
      BY <1>s, <1>t, <2>2, <3>2 DEF Stored
    <3> QED BY <1>s, <3>2, <3>3 DEF Doomed, Current
  <2> QED BY <2>1, <2>2
<1>h. ASSUME NEW h \in Handlers, handler'[h].pc = "store", handler'[h].outcome = "QUARANTINED",
             Valid(handler'[h].batch[handler'[h].pos]),
             handler[h].pc = "store", handler[h].outcome = "QUARANTINED",
             handler'[h].batch = handler[h].batch, handler'[h].pos = handler[h].pos
      PROVE  handler'[h].batch[handler'[h].pos] \in Doomed
  BY <1>h DEF Doomed
<1>1. ASSUME \A h \in Handlers :
                 handler'[h].pc = "store" /\ handler'[h].outcome = "QUARANTINED"
                 /\ Valid(handler'[h].batch[handler'[h].pos]) =>
                     /\ handler[h].pc = "store" /\ handler[h].outcome = "QUARANTINED"
                     /\ handler'[h].batch = handler[h].batch /\ handler'[h].pos = handler[h].pos
      PROVE  Doomed' \subseteq Doomed
  <2>1. \A h \in Handlers :
            handler'[h].pc = "store" /\ handler'[h].outcome = "QUARANTINED"
            /\ Valid(handler'[h].batch[handler'[h].pos])
                => handler'[h].batch[handler'[h].pos] \in Doomed
    BY <1>1, <1>h
  <2>2. \A r \in Records : staged'[r] = "QUARANTINED" /\ Valid(r) => r \in Doomed
    BY <1>s
  <2> SUFFICES ASSUME NEW r \in Doomed' PROVE r \in Doomed
    OBVIOUS
  <2> QED BY <2>1, <2>2 DEF Doomed
<1>2. ASSUME NEW g \in Handlers, PostFails(g)
      PROVE  errors' = errors + 1 /\ \E r : Doomed' \subseteq Doomed \cup {r}
  <2> DEFINE r == handler'[g].batch[handler'[g].pos]
  <2>1. \A h \in Handlers : h # g => handler'[h] = handler[h]
    BY <1>2, <1>t DEF PostFails, Decide
  <2>2. \A h \in Handlers :
            handler'[h].pc = "store" /\ handler'[h].outcome = "QUARANTINED"
            /\ Valid(handler'[h].batch[handler'[h].pos])
                => handler'[h].batch[handler'[h].pos] \in Doomed \cup {r}
    BY <2>1 DEF Doomed
  <2>3. \A q \in Records : staged'[q] = "QUARANTINED" /\ Valid(q) => q \in Doomed
    BY <1>s
  <2> HIDE DEF r
  <2>4. Doomed' \subseteq Doomed \cup {r}
    <3> SUFFICES ASSUME NEW q \in Doomed' PROVE q \in Doomed \cup {r}
      OBVIOUS
    <3> QED BY <2>2, <2>3 DEF Doomed
  <2>5. errors' = errors + 1
    BY <1>2 DEF PostFails
  <2> QED BY <2>4, <2>5
<1>3. CASE ~Failing
  <2> SUFFICES ASSUME NEW h \in Handlers, handler'[h].pc = "store",
                      handler'[h].outcome = "QUARANTINED",
                      Valid(handler'[h].batch[handler'[h].pos])
               PROVE  /\ handler[h].pc = "store" /\ handler[h].outcome = "QUARANTINED"
                      /\ handler'[h].batch = handler[h].batch
                      /\ handler'[h].pos = handler[h].pos
    BY <1>1, <1>t
  <2>1. Effect(handler[h], handler'[h], journal', staged')
    BY WorkStep DEF Effects
  <2>2. handler'[h] # Free
    BY DEF Free
  <2> QED BY <1>3, <2>1, <2>2 DEF Effect
<1> QED BY <1>2, <1>3, <1>t DEF Failing

\* The quarantine is no larger than the number of errors after a step.
LEMMA QuarantineStep == QuarantineInv /\ [Next]_vars => QuarantineInv'
<1> SUFFICES ASSUME QuarantineInv, [Next]_vars
             PROVE  QuarantineInv'
  OBVIOUS
<1>1. Base /\ Base' /\ AtMost(Doomed, errors)
  BY BaseStep DEF QuarantineInv
<1>2. CASE Doomed' \subseteq Doomed /\ errors' \in Nat /\ errors <= errors'
  BY <1>1, <1>2, BoundStays DEF QuarantineInv
<1>3. ASSUME errors' = errors + 1, NEW r, Doomed' \subseteq Doomed \cup {r}
      PROVE  QuarantineInv'
  <2>1. AtMost(Doomed', errors + 1)
    BY <1>1, <1>3, BoundGrows
  <2> QED BY <1>1, <1>3, <2>1 DEF QuarantineInv
<1> QED BY <1>1, <1>2, <1>3, DoomedStep

\* Every valid record in quarantine was put there by an error of core-api of its
\* own: overlapping and repeated deliveries alone quarantine none.
THEOREM QuarantineExplained == Spec => []QuarantineIsExplained
<1>1. Init => QuarantineInv
  <2> SUFFICES ASSUME Init PROVE QuarantineInv
    OBVIOUS
  <2>1. \A h \in Handlers : handler[h].pc = "free"
    BY DEF Init, Free
  <2>2. Doomed = {}
    BY <2>1 DEF Init, Doomed
  <2>3. errors = 0
    BY DEF Init
  <2> QED BY <2>2, <2>3, BaseInit, FS_EmptySet DEF QuarantineInv, AtMost
<1>2. QuarantineInv => QuarantineIsExplained
  <2> SUFFICES ASSUME QuarantineInv PROVE QuarantineIsExplained
    OBVIOUS
  <2>1. {r \in Records : staged[r] = "QUARANTINED" /\ r.fault = "none"} \subseteq Doomed
    BY DEF Doomed, Valid
  <2> QED BY <2>1, BoundOfPart DEF QuarantineIsExplained, QuarantineInv
<1> QED BY <1>1, <1>2, QuarantineStep, PTL DEF Spec

-----------------------------------------------------------------------------
(* What the client was told. *)

\* The outcome a record deserves.
Right(outcome, r) == outcome = IF Valid(r) THEN "POSTED" ELSE "QUARANTINED"

\* The client was told of a record what its staging row says.
Told(answer, s) ==
    answer[2] # "DUPLICATE" /\ Identified(answer[1]) /\ Unambiguous(answer[1])
        => s[answer[1]] = answer[2]

JournalIsValid == \A p \in journal : Valid(p)

DecidedRight ==
    \A h \in Handlers :
        handler[h].pc = "store" /\ Unambiguous(handler[h].batch[handler[h].pos])
            => Right(handler[h].outcome, handler[h].batch[handler[h].pos])

StagedRight == \A r \in Records : staged[r] # "none" /\ Unambiguous(r) => Right(staged[r], r)

AnswersRight ==
    /\ \A h \in Handlers : \A d \in handler[h].done : Told(d, staged)
    /\ \A d \in answered : Told(d, staged)

\* RowRecordsOutcome and what makes it inductive: without errors whoever decides
\* about a record decides the same, so it does not matter whose row is stored.
OutcomeInv ==
    Base /\ JournalIsValid /\ (errors = 0 => DecidedRight /\ StagedRight /\ AnswersRight)

\* The outcomes a handler has collected after a step.
LEMMA DoneStep ==
    ASSUME Base, [Next]_vars, NEW h \in Handlers, NEW d \in handler'[h].done
    PROVE  \/ d \in handler[h].done
           \/ d[2] = "DUPLICATE" \/ ~Identified(d[1])
           \/ Store(h) /\ d = <<Current(h), handler[h].outcome>>
<1> DEFINE Kept == d \in handler[h].done
<1> DEFINE Known == d[2] = "DUPLICATE" \/ ~Identified(d[1])
<1> DEFINE New == Store(h) /\ d = <<Current(h), handler[h].outcome>>
<1> USE DEF connector
<1>t. handler \in [Handlers -> Executions]
  BY DEF Base, TypeOK
<1>f. Free.done = {}
  BY DEF Free
<1>1. CASE handler' = handler
  BY <1>1
<1>2. ASSUME NEW g \in Handlers, NEW e, handler' = [handler EXCEPT ![g] = e],
             e.done \subseteq handler[g].done
      PROVE  Kept
  BY <1>2, <1>t
<1>3. CASE Timeout \/ Restart
  <2>1. handler' = Deserted
    BY <1>3 DEF Timeout, Restart
  <2>2. [handler[h] EXCEPT !.client = "gone"].done = handler[h].done
    BY <1>t DEF Executions
  <2> QED BY <2>1, <2>2 DEF Deserted
<1>4. ASSUME NEW g \in Handlers, NEW client, NEW batch, Request(g, client, batch) PROVE Kept
  <2> DEFINE e == [Free EXCEPT !.pc = "lookup", !.client = client, !.batch = batch]
  <2>1. handler' = [handler EXCEPT ![g] = e]
    BY <1>4 DEF Request
  <2>2. e.done = {}
    BY DEF Free
  <2> HIDE DEF e
  <2> QED BY <1>2, <2>1, <2>2
<1>5. ASSUME NEW g \in Handlers, Leave(g) PROVE Kept
  <2> DEFINE e == [handler[g] EXCEPT !.client = "gone"]
  <2>1. handler' = [handler EXCEPT ![g] = e]
    BY <1>5 DEF Leave
  <2>2. e.done = handler[g].done
    BY <1>t DEF Executions
  <2> HIDE DEF e
  <2> QED BY <1>2, <2>1, <2>2
<1>6. ASSUME NEW g \in Handlers, NEW outcome, Decide(g, outcome) PROVE Kept
  <2> DEFINE e == [handler[g] EXCEPT !.pc = "store", !.outcome = outcome]
  <2>1. handler' = [handler EXCEPT ![g] = e]
    BY <1>6 DEF Decide
  <2>2. e.done = handler[g].done
    BY <1>t DEF Executions
  <2> HIDE DEF e
  <2> QED BY <1>2, <2>1, <2>2
<1>7. ASSUME NEW g \in Handlers, FindNew(g) PROVE Kept
  <2> DEFINE e == [handler[g] EXCEPT !.pc = "post"]
  <2>1. handler' = [handler EXCEPT ![g] = e]
    BY <1>7 DEF FindNew
  <2>2. e.done = handler[g].done
    BY <1>t DEF Executions
  <2> HIDE DEF e
  <2> QED BY <1>2, <2>1, <2>2
<1>8. ASSUME NEW g \in Handlers, NEW outcome,
             handler' = [handler EXCEPT ![g] = NextRecord(g, outcome)]
      PROVE  Kept \/ (h = g /\ d = <<Current(g), outcome>>)
  <2>1. NextRecord(g, outcome).done = handler[g].done \cup {<<Current(g), outcome>>}
    BY <1>t DEF NextRecord, Executions
  <2>2. CASE h = g
    BY <1>8, <1>t, <2>1, <2>2
  <2>3. CASE h # g
    BY <1>8, <1>t, <2>3
  <2> QED BY <2>2, <2>3
<1>9. ASSUME NEW g \in Handlers, SkipUnidentified(g) PROVE Kept \/ Known
  <2>1. ~Identified(Current(g)) /\ <<Current(g), "QUARANTINED">>[1] = Current(g)
    BY <1>9 DEF SkipUnidentified, Identified
  <2> QED BY <1>8, <1>9, <2>1 DEF SkipUnidentified
<1>10. ASSUME NEW g \in Handlers, FindDuplicate(g) PROVE Kept \/ Known
  <2>1. <<Current(g), "DUPLICATE">>[2] = "DUPLICATE"
    OBVIOUS
  <2> QED BY <1>8, <1>10, <2>1 DEF FindDuplicate
<1>11. ASSUME NEW g \in Handlers, Store(g) PROVE Kept \/ New
  BY <1>8, <1>11 DEF Store
<1>12. ASSUME NEW g \in Handlers, handler' = [handler EXCEPT ![g] = Free] PROVE Kept
  BY <1>2, <1>12, <1>f
<1>13. ASSUME NEW g \in Handlers,
              Submit(g) \/ Leave(g) \/ Ingest(g) \/ PostFails(g) \/ HandlerFails(g)
       PROVE  Kept \/ Known \/ New
  <2>1. CASE Submit(g)
    BY <1>4, <2>1 DEF Submit
  <2>2. CASE PostNew(g) \/ PostDuplicate(g) \/ PostRejected(g) \/ PostFails(g)
    BY <1>6, <2>2 DEF PostNew, PostDuplicate, PostRejected, PostFails
  <2>3. CASE StoreRefused(g) \/ HandlerFails(g) \/ Respond(g)
    BY <1>12, <2>3 DEF StoreRefused, HandlerFails, Respond, Report500
  <2> QED BY <1>5, <1>7, <1>9, <1>10, <1>11, <1>13, <2>1, <2>2, <2>3 DEF Ingest
<1>14. ASSUME NEW g \in Handlers, Send(g) PROVE Kept
  BY <1>4, <1>14 DEF Send
<1>15. CASE Sweep \/ MoveProcessed \/ (\E f \in Files : Drop(f) \/ Open(f)) \/ UNCHANGED vars
  BY <1>1, <1>15 DEF Sweep, MoveProcessed, Drop, Open, vars
<1> QED BY <1>3, <1>13, <1>14, <1>15 DEF Next, Connector

\* Every step keeps OutcomeInv.
LEMMA OutcomeStep == OutcomeInv /\ [Next]_vars => OutcomeInv'
<1> SUFFICES ASSUME OutcomeInv, [Next]_vars
             PROVE  OutcomeInv'
  OBVIOUS
<1>1. /\ Base /\ Base' /\ Effects /\ JournalIsValid
      /\ \A r \in Records : staged[r] # "none" => staged'[r] = staged[r]
  BY BaseStep, WorkStep, StagedStays DEF OutcomeInv
<1>2. JournalIsValid'
  BY <1>1, JournalStep DEF JournalIsValid
<1>t. /\ errors \in Nat /\ handler \in [Handlers -> Executions] /\ journal' \subseteq Records
      /\ handler' \in [Handlers -> Executions] /\ answered \subseteq Records \X Outcomes
      /\ staged \in [Records -> {"none", "POSTED", "QUARANTINED"}]
  BY <1>1, FilesAssumption DEF Base, TypeOK
<1>3. ASSUME errors' = 0 PROVE DecidedRight' /\ StagedRight' /\ AnswersRight'
  <2>1. errors = 0 /\ ~Failing
    <3>1. errors' = errors \/ errors' = errors + 1
      BY DEF Next, Connector, Ingest, Drop, Sweep, Open, Send, MoveProcessed, Timeout, Restart,
             Submit, Leave, SkipUnidentified, FindDuplicate, FindNew, PostNew, PostDuplicate,
             PostRejected, PostFails, Store, StoreRefused, HandlerFails, Respond, vars, bounds
    <3>2. Failing => errors' = errors + 1
      BY DEF Failing, PostFails
    <3> QED BY <1>t, <1>3, <3>1, <3>2
  <2>2. DecidedRight /\ StagedRight /\ AnswersRight
    BY <2>1 DEF OutcomeInv
  <2>3. DecidedRight'
    <3> SUFFICES ASSUME NEW h \in Handlers, handler'[h].pc = "store",
                        Unambiguous(handler'[h].batch[handler'[h].pos])
                 PROVE  Right(handler'[h].outcome, handler'[h].batch[handler'[h].pos])
      BY DEF DecidedRight
    <3> DEFINE r == handler'[h].batch[handler'[h].pos]
    <3>1. Effect(handler[h], handler'[h], journal', staged')
      BY <1>1 DEF Effects
    <3>2. handler'[h] # Free
      BY DEF Free
    <3>3. handler'[h].outcome \in {"POSTED", "QUARANTINED"}
      BY <1>1 DEF Base, Sane
    <3>4. CASE /\ handler[h].pc = "store" /\ handler'[h].batch = handler[h].batch
               /\ handler'[h].pos = handler[h].pos /\ handler'[h].outcome = handler[h].outcome
      BY <2>2, <3>4 DEF DecidedRight
    <3>5. CASE /\ handler'[h].outcome = "POSTED" => HasEntry(journal', r)
               /\ handler'[h].outcome = "QUARANTINED" => ~Valid(r)
      <4>1. HasEntry(journal', r) => Valid(r)
        BY <1>t, <1>2 DEF HasEntry, Unambiguous, JournalIsValid
      <4> QED BY <3>3, <3>5, <4>1 DEF Right
    <3> QED BY <2>1, <3>1, <3>2, <3>4, <3>5 DEF Effect
  <2>4. ASSUME NEW h \in Handlers, Store(h), Unambiguous(Current(h))
        PROVE  staged'[Current(h)] = handler[h].outcome /\ Right(handler[h].outcome, Current(h))
    <3>1. Right(handler[h].outcome, Current(h))
      BY <2>2, <2>4 DEF Store, At, DecidedRight, Current
    <3>2. Current(h) \in Records /\ staged' = Stored(Current(h), handler[h].outcome)
      BY <1>1, <2>4, CurrentType DEF Store, At
    <3>3. CASE staged[Current(h)] = "none"
      BY <1>t, <3>1, <3>2, <3>3 DEF Stored
    <3>4. CASE staged[Current(h)] # "none"
      <4>1. Right(staged[Current(h)], Current(h))
        BY <2>2, <2>4, <3>2, <3>4 DEF StagedRight
      <4> QED BY <3>1, <3>2, <3>4, <4>1 DEF Stored, Right
    <3> QED BY <3>1, <3>3, <3>4
  <2>5. StagedRight'
    <3> SUFFICES ASSUME NEW r \in Records, staged'[r] # "none", Unambiguous(r)
                 PROVE  Right(staged'[r], r)
      BY DEF StagedRight
    <3>1. CASE staged[r] # "none"
      BY <1>1, <2>2, <3>1 DEF StagedRight
    <3>2. CASE staged[r] = "none"
      <4>1. PICK h \in Handlers : Store(h)
        BY <3>2, StagedStep
      <4>2. r = Current(h)
        BY <1>t, <3>2, <4>1 DEF Store, Stored
      <4> QED BY <2>4, <4>1, <4>2
    <3> QED BY <3>1, <3>2
  <2>6. ASSUME NEW d \in Records \X Outcomes, Told(d, staged) PROVE Told(d, staged')
    <3>1. d[1] \in Records /\ d[2] # "none"
      BY <2>6 DEF Outcomes
    <3> QED BY <1>1, <2>6, <3>1 DEF Told
  <2>7. \A h \in Handlers : \A d \in handler[h].done : d \in Records \X Outcomes /\ Told(d, staged')
    <3>1. \A h \in Handlers : \A d \in handler[h].done : d \in Records \X Outcomes
      BY <1>t DEF Executions
    <3> QED BY <2>2, <2>6, <3>1 DEF AnswersRight
  <2>8. \A d \in answered : Told(d, staged')
    BY <1>t, <2>2, <2>6 DEF AnswersRight
  <2>9. ASSUME NEW h \in Handlers, NEW d \in handler'[h].done PROVE Told(d, staged')
    <3>1. CASE d \in handler[h].done
      BY <2>7, <3>1
    <3>2. CASE d[2] = "DUPLICATE" \/ ~Identified(d[1])
      BY <3>2 DEF Told
    <3>3. CASE Store(h) /\ d = <<Current(h), handler[h].outcome>>
      <4>1. d[1] = Current(h) /\ d[2] = handler[h].outcome
        BY <3>3
      <4> QED BY <2>4, <3>3, <4>1 DEF Told
    <3> QED BY <1>1, <3>1, <3>2, <3>3, DoneStep
  <2>10. \A d \in answered' : Told(d, staged')
    BY <2>7, <2>8, AnsweredStep
  <2> QED BY <2>3, <2>5, <2>9, <2>10 DEF AnswersRight
<1> QED BY <1>1, <1>2, <1>3 DEF OutcomeInv

\* As long as core-api met no error, the staging row of a record holds what every
\* client was told of it, though the insert does not tell whose row is stored.
THEOREM RowsRecordOutcomes == Spec => []RowRecordsOutcome
<1>1. Init => OutcomeInv
  <2> SUFFICES ASSUME Init PROVE OutcomeInv
    OBVIOUS
  <2>1. \A h \in Handlers : handler[h].pc = "free" /\ handler[h].done = {}
    BY DEF Init, Free
  <2>2. journal = {} /\ answered = {} /\ \A r \in Records : staged[r] = "none"
    BY DEF Init
  <2> QED
    BY <2>1, <2>2, BaseInit
       DEF OutcomeInv, JournalIsValid, DecidedRight, StagedRight, AnswersRight
<1>2. OutcomeInv => RowRecordsOutcome
  BY DEF OutcomeInv, AnswersRight, Told, RowRecordsOutcome
<1> QED BY <1>1, <1>2, OutcomeStep, PTL DEF Spec

-----------------------------------------------------------------------------
(* Entries without a row. *)

\* A handler is about to store a row for the record.
Storing(r) ==
    \E h \in Handlers : handler[h].pc = "store" /\ handler[h].batch[handler[h].pos] = r

\* A valid record whose row says QUARANTINED, or an entry without a row to come.
Lost(r) ==
    \/ staged[r] = "QUARANTINED" /\ Valid(r)
    \/ r \in journal /\ staged[r] = "none" /\ ~Storing(r)

\* A handler is about to quarantine a valid record.
Failed(h) ==
    /\ handler[h].pc = "store" /\ handler[h].outcome = "QUARANTINED"
    /\ Valid(handler[h].batch[handler[h].pos])

\* A handler whose client may leave, or has left, and that may end for no error.
Away(h) == handler[h].client \in {"other", "gone"}

\* What is lost and what may still be: each has a fault or a foreign batch of its own.
Losses ==
    {t \in ({"row"} \X Records) \cup ({"failed", "away"} \X Handlers) :
        \/ t[1] = "row" /\ Lost(t[2])
        \/ t[1] = "failed" /\ Failed(t[2])
        \/ t[1] = "away" /\ Away(t[2])}

\* What may have gone wrong so far.
Taken == Cardinality(OtherBatches \ offered)
Causes == errors + timeouts + Taken

\* UnreportedExplained and what makes it inductive.
ReportInv == Base /\ JournalIsValid /\ AtMost(Losses, Causes)

\* One handler moves in a step of its own.
LEMMA OnlyOne ==
    ASSUME Base, NEW g \in Handlers,
           Submit(g) \/ Leave(g) \/ Ingest(g) \/ PostFails(g) \/ HandlerFails(g)
    PROVE  \A h \in Handlers : h # g => handler'[h] = handler[h]
<1>1. handler \in [Handlers -> Executions]
  BY DEF Base, TypeOK
<1>2. \E e : handler' = [handler EXCEPT ![g] = e]
  BY DEF Ingest, Submit, Leave, SkipUnidentified, FindDuplicate, FindNew, PostNew, PostDuplicate,
         PostRejected, PostFails, Store, StoreRefused, HandlerFails, Respond, Report500, Decide,
         Request
<1> QED BY <1>1, <1>2

\* A handler that is about to store stays so until it has stored or has failed.
LEMMA StoreStays ==
    ASSUME Base, [Next]_vars, NEW h \in Handlers, handler[h].pc = "store"
    PROVE  \/ /\ handler'[h].pc = "store" /\ handler'[h].batch = handler[h].batch
              /\ handler'[h].pos = handler[h].pos
           \/ Store(h) \/ StoreRefused(h) \/ HandlerFails(h)
<1> DEFINE Stays == /\ handler'[h].pc = "store" /\ handler'[h].batch = handler[h].batch
                    /\ handler'[h].pos = handler[h].pos
<1> DEFINE Ends == Store(h) \/ StoreRefused(h) \/ HandlerFails(h)
<1> DEFINE gone == [handler[h] EXCEPT !.client = "gone"]
<1>t. handler \in [Handlers -> Executions] /\ handler[h] # Free
  BY DEF Base, TypeOK, Free
<1>g. gone.pc = "store" /\ gone.batch = handler[h].batch /\ gone.pos = handler[h].pos
  BY <1>t DEF Executions
<1>1. ASSUME NEW g \in Handlers,
             Submit(g) \/ Leave(g) \/ Ingest(g) \/ PostFails(g) \/ HandlerFails(g)
      PROVE  Stays \/ Ends
  <2>1. CASE g # h
    <3>1. handler'[h] = handler[h]
      BY <1>1, <2>1, OnlyOne
    <3> QED BY <3>1
  <2>2. CASE g = h
    <3>1. CASE Leave(h)
      BY <1>t, <1>g, <3>1 DEF Leave
    <3>2. ~(Submit(h) \/ PostFails(h) \/ (Ingest(h) /\ ~Store(h) /\ ~StoreRefused(h)))
      BY <1>t DEF Ingest, Submit, SkipUnidentified, FindDuplicate, FindNew, PostNew,
                  PostDuplicate, PostRejected, PostFails, Respond, Request, At
    <3> QED BY <1>1, <2>2, <3>1, <3>2
  <2> QED BY <2>1, <2>2
<1>2. ASSUME NEW g \in Handlers, Send(g) PROVE Stays
  <2>1. g # h
    BY <1>2, <1>t DEF Send, Request
  <2>2. handler'[h] = handler[h]
    BY <1>2, <1>t, <2>1 DEF Send, Request
  <2> QED BY <2>2
<1>3. CASE Timeout \/ Restart
  <2>1. handler'[h] = gone \/ handler'[h] = handler[h]
    BY <1>3 DEF Timeout, Restart, Deserted
  <2> QED BY <1>g, <2>1
<1>4. CASE Sweep \/ MoveProcessed \/ (\E f \in Files : Drop(f) \/ Open(f)) \/ UNCHANGED vars
  <2>1. handler' = handler
    BY <1>4 DEF Sweep, MoveProcessed, Drop, Open, vars
  <2> QED BY <2>1
<1> QED BY <1>1, <1>2, <1>3, <1>4 DEF Next, Connector

\* A record is lost when a handler quarantines it, or fails before it stores it.
LEMMA LostStep ==
    ASSUME Base, JournalIsValid, [Next]_vars, NEW r \in Records, Lost(r)', ~Lost(r)
    PROVE  \E h \in Handlers :
               handler[h].pc = "store" /\ r = Current(h)
               /\ (HandlerFails(h) \/ (Store(h) /\ Failed(h)))
<1>t. /\ handler \in [Handlers -> Executions] /\ journal \subseteq Records
      /\ staged \in [Records -> {"none", "POSTED", "QUARANTINED"}]
  BY DEF Base, TypeOK
<1>1. CASE staged'[r] = "QUARANTINED" /\ Valid(r)
  <2>1. PICK h \in Handlers : Store(h)
    BY <1>1, StagedStep DEF Lost
  <2>2. staged' = Stored(Current(h), handler[h].outcome) /\ handler[h].pc = "store"
    BY <2>1 DEF Store, At
  <2>3. handler[h].outcome = "QUARANTINED" /\ Current(h) = r
    BY <1>1, <1>t, <2>2 DEF Stored, Lost
  <2>4. Failed(h)
    BY <1>1, <2>2, <2>3 DEF Failed, Current
  <2> QED BY <2>1, <2>2, <2>3, <2>4
<1>2. CASE r \in journal' /\ staged'[r] = "none" /\ ~Storing(r)'
  <2>1. staged[r] = "none"
    BY <1>2, StagedStays
  <2>2. r \in journal
    <3> SUFFICES ASSUME r \notin journal PROVE FALSE
      OBVIOUS
    <3>1. PICK h \in Handlers, outcome \in Outcomes : Decide(h, outcome) /\ r = Current(h)
      BY <1>2 DEF Next, Connector, Ingest, Drop, Sweep, Open, Send, MoveProcessed, Timeout,
         Restart, Submit, Leave, SkipUnidentified, FindDuplicate, FindNew, PostNew,
         PostDuplicate, PostRejected, PostFails, Store, StoreRefused, HandlerFails, Respond,
         Report500, vars, Outcomes
    <3>2. /\ handler'[h].pc = "store" /\ handler'[h].batch = handler[h].batch
          /\ handler'[h].pos = handler[h].pos
      BY <1>t, <3>1 DEF Decide, Executions
    <3> QED BY <1>2, <3>1, <3>2 DEF Storing, Current
  <2>3. PICK h \in Handlers : handler[h].pc = "store" /\ handler[h].batch[handler[h].pos] = r
    BY <1>2, <2>1, <2>2 DEF Lost, Storing
  <2>4. Valid(r) /\ r = Current(h)
    BY <2>2, <2>3 DEF JournalIsValid, Current
  <2>5. ~Store(h)
    <3>1. handler[h].outcome \in {"POSTED", "QUARANTINED"}
      BY <2>3 DEF Base, Sane
    <3> QED BY <1>2, <1>t, <2>1, <2>4, <3>1 DEF Store, Stored
  <2>6. ~StoreRefused(h)
    BY <2>4 DEF StoreRefused, Valid
  <2>7. HandlerFails(h)
    BY <1>2, <2>3, <2>5, <2>6, StoreStays DEF Storing
  <2> QED BY <2>3, <2>4, <2>7
<1> QED BY <1>1, <1>2 DEF Lost

\* A handler is about to quarantine a valid record when its post has failed.
LEMMA FailedStep ==
    ASSUME Base, [Next]_vars, NEW h \in Handlers, Failed(h)'
    PROVE  (Failed(h) \/ Failing) /\ ~Store(h)
<1>t. handler \in [Handlers -> Executions]
  BY DEF Base, TypeOK
<1>1. Failed(h) \/ Failing
  <2>1. Effect(handler[h], handler'[h], journal', staged')
    BY WorkStep DEF Effects
  <2>2. handler'[h] # Free
    BY DEF Failed, Free
  <2> QED BY <2>1, <2>2 DEF Effect, Failed
<1>2. ~Store(h)
  <2> SUFFICES ASSUME Store(h) PROVE FALSE
    OBVIOUS
  <2>1. handler' = [handler EXCEPT ![h] = NextRecord(h, handler[h].outcome)]
    BY DEF Store
  <2>2. NextRecord(h, handler[h].outcome).pc = "lookup"
    BY <1>t DEF NextRecord, Executions
  <2> QED BY <1>t, <2>1, <2>2 DEF Failed
<1> QED BY <1>1, <1>2

\* The clients that may leave: a batch was submitted, or the connector gave up.
LEMMA AwayStep ==
    ASSUME Base, [Next]_vars, NEW h \in Handlers, Away(h)'
    PROVE  /\ ~HandlerFails(h)
           /\ Away(h) \/ Submit(h) \/ ((Timeout \/ Restart) /\ handler[h].client = "connector")
<1>t. handler \in [Handlers -> Executions] /\ ~(Free.client \in {"other", "gone"})
  BY DEF Base, TypeOK, Free
<1>1. ~HandlerFails(h)
  BY <1>t DEF HandlerFails, Report500, Away
<1>2. ASSUME handler'[h].client = handler[h].client PROVE Away(h)
  BY <1>2 DEF Away
<1>3. ASSUME NEW g \in Handlers,
             Submit(g) \/ Leave(g) \/ Ingest(g) \/ PostFails(g) \/ HandlerFails(g)
      PROVE  Away(h) \/ Submit(h)
  <2>1. CASE g # h
    BY <1>2, <1>3, <2>1, OnlyOne
  <2>2. CASE g = h /\ Leave(h)
    BY <2>2 DEF Leave, Away
  <2>3. CASE g = h /\ (StoreRefused(h) \/ Respond(h))
    BY <1>t, <2>3 DEF StoreRefused, Respond, Report500, Away
  <2>4. CASE g = h /\ FindNew(h)
    <3> DEFINE e == [handler[h] EXCEPT !.pc = "post"]
    <3>1. e.client = handler[h].client /\ handler'[h] = e
      BY <1>t, <2>4 DEF FindNew, Executions
    <3> HIDE DEF e
    <3> QED BY <1>2, <3>1
  <2>5. ASSUME NEW outcome, Decide(h, outcome) PROVE Away(h)
    <3> DEFINE e == [handler[h] EXCEPT !.pc = "store", !.outcome = outcome]
    <3>1. e.client = handler[h].client /\ handler'[h] = e
      BY <1>t, <2>5 DEF Decide, Executions
    <3> HIDE DEF e
    <3> QED BY <1>2, <3>1
  <2>6. ASSUME NEW outcome, handler' = [handler EXCEPT ![h] = NextRecord(h, outcome)]
        PROVE  Away(h)
    <3>1. NextRecord(h, outcome).client = handler[h].client
      BY <1>t DEF NextRecord, Executions
    <3> QED BY <1>2, <1>t, <2>6, <3>1
  <2>7. CASE g = h /\ (PostNew(h) \/ PostDuplicate(h) \/ PostRejected(h) \/ PostFails(h))
    BY <2>5, <2>7 DEF PostNew, PostDuplicate, PostRejected, PostFails
  <2>8. CASE g = h /\ (SkipUnidentified(h) \/ FindDuplicate(h) \/ Store(h))
    BY <2>6, <2>8 DEF SkipUnidentified, FindDuplicate, Store
  <2> QED BY <1>1, <1>3, <2>1, <2>2, <2>3, <2>4, <2>7, <2>8 DEF Ingest
<1>4. ASSUME NEW g \in Handlers, Send(g) PROVE Away(h)
  <2> DEFINE e == [Free EXCEPT !.pc = "lookup", !.client = "connector", !.batch = Batch]
  <2>1. handler' = [handler EXCEPT ![g] = e] /\ e.client = "connector"
    BY <1>4 DEF Send, Request, Free
  <2> HIDE DEF e
  <2>2. handler'[h] = e \/ handler'[h] = handler[h]
    BY <1>t, <2>1
  <2> QED BY <1>2, <2>1, <2>2 DEF Away
<1>5. CASE Timeout \/ Restart
  <2>1. handler[h].client # "connector" => handler'[h] = handler[h]
    BY <1>5 DEF Timeout, Restart, Deserted
  <2> QED BY <1>1, <1>2, <1>5, <2>1
<1>6. CASE Sweep \/ MoveProcessed \/ (\E f \in Files : Drop(f) \/ Open(f)) \/ UNCHANGED vars
  <2>1. handler' = handler
    BY <1>6 DEF Sweep, MoveProcessed, Drop, Open, vars
  <2> QED BY <1>1, <1>2, <2>1
<1> QED BY <1>1, <1>3, <1>4, <1>5, <1>6 DEF Next, Connector

\* What counting on does to the sum.
LEMMA CausesCount ==
    ASSUME errors \in Nat, timeouts \in Nat, Taken \in Nat,
           errors' \in Nat, timeouts' \in Nat, Taken' \in Nat,
           errors <= errors', timeouts <= timeouts', Taken <= Taken'
    PROVE  /\ Causes \in Nat /\ Causes' \in Nat /\ Causes <= Causes'
           /\ \/ errors' = errors + 1 /\ timeouts' = timeouts /\ Taken' = Taken
              \/ errors' = errors /\ timeouts' = timeouts + 1 /\ Taken' = Taken
              \/ errors' = errors /\ timeouts' = timeouts /\ Taken' = Taken + 1
              => Causes' = Causes + 1
<1>1. PICK a \in Nat, b \in Nat, c \in Nat : a = errors /\ b = timeouts /\ c = Taken
  OBVIOUS
<1>2. PICK i \in Nat, j \in Nat, k \in Nat : i = errors' /\ j = timeouts' /\ k = Taken'
  OBVIOUS
<1>3. Causes = a + b + c /\ Causes' = i + j + k
  BY <1>1, <1>2 DEF Causes
<1>4. a <= i /\ b <= j /\ c <= k
  BY <1>1, <1>2
<1>5. /\ a + b + c \in Nat /\ i + j + k \in Nat /\ a + b + c <= i + j + k
      /\ (i = a + 1 /\ j = b /\ k = c) \/ (i = a /\ j = b + 1 /\ k = c)
            \/ (i = a /\ j = b /\ k = c + 1) => i + j + k = (a + b + c) + 1
  BY <1>4
<1> QED BY <1>1, <1>2, <1>3, <1>5

\* Causes are never taken back; an error and a fault are one more, so is a batch.
LEMMA CausesStep ==
    ASSUME Base, [Next]_vars
    PROVE  /\ Causes \in Nat /\ Causes' \in Nat /\ Causes <= Causes'
           /\ Failing \/ Timeout \/ Restart \/ (\E h \in Handlers : Submit(h)) => Causes' = Causes + 1
           /\ \A h \in Handlers :
                  HandlerFails(h) /\ handler[h].client # "gone" => Causes' = Causes + 1
<1>1. /\ errors \in Nat /\ timeouts \in Nat /\ offered \subseteq OtherBatches
      /\ errors' \in Nat /\ timeouts' \in Nat /\ Taken \in Nat /\ Taken' \in Nat
  <2>1. IsFiniteSet(OtherBatches \ offered) /\ IsFiniteSet(OtherBatches \ offered')
    BY FS_Subset, FilesAssumption
  <2>2. Taken \in Nat /\ Taken' \in Nat
    BY <2>1, FS_CardinalityType DEF Taken
  <2> QED BY <2>2, BoundsStep, FilesAssumption DEF Base, TypeOK
<1>2. /\ errors' = errors \/ errors' = errors + 1
      /\ timeouts' = timeouts \/ timeouts' = timeouts + 1
      /\ offered' = offered \/ \E h \in Handlers : Submit(h)
  BY DEF Next, Connector, Ingest, Drop, Sweep, Open, Send, MoveProcessed, Timeout, Restart,
         Leave, SkipUnidentified, FindDuplicate, FindNew, PostNew, PostDuplicate, PostRejected,
         PostFails, Store, StoreRefused, HandlerFails, Respond, vars, bounds, Submit
<1>3. ASSUME NEW h \in Handlers, Submit(h)
      PROVE  errors' = errors /\ timeouts' = timeouts /\ Taken' = Taken + 1
  <2>1. PICK batch \in offered : offered' = offered \ {batch}
    BY <1>3 DEF Submit
  <2>2. /\ OtherBatches \ offered' = (OtherBatches \ offered) \cup {batch}
        /\ batch \notin OtherBatches \ offered
    BY <1>1, <2>1
  <2>3. IsFiniteSet(OtherBatches \ offered)
    BY FS_Subset, FilesAssumption
  <2>4. Cardinality((OtherBatches \ offered) \cup {batch}) = Cardinality(OtherBatches \ offered) + 1
    BY <2>2, <2>3, FS_AddElement
  <2>5. errors' = errors /\ timeouts' = timeouts
    BY <1>3 DEF Submit
  <2> QED BY <2>2, <2>4, <2>5 DEF Taken
<1>4. offered' = offered => Taken' = Taken
  BY DEF Taken
<1>5. /\ Failing => errors' = errors + 1 /\ timeouts' = timeouts /\ offered' = offered
      /\ Timeout \/ Restart => errors' = errors /\ timeouts' = timeouts + 1 /\ offered' = offered
      /\ \A h \in Handlers : HandlerFails(h) /\ handler[h].client # "gone" =>
             errors' = errors + 1 /\ timeouts' = timeouts /\ offered' = offered
  BY DEF Failing, PostFails, Timeout, Restart, HandlerFails
<1>n. /\ errors \in Nat /\ timeouts \in Nat /\ Taken \in Nat
      /\ errors' \in Nat /\ timeouts' \in Nat /\ Taken' \in Nat
  BY <1>1
<1>7. errors <= errors' /\ timeouts <= timeouts' /\ Taken <= Taken'
  BY <1>1, <1>2, <1>3, <1>4
<1> QED BY <1>3, <1>4, <1>5, <1>n, <1>7, CausesCount

\* Where a handler is before and after the steps that matter here.
LEMMA Positions ==
    ASSUME Base, NEW h \in Handlers
    PROVE  /\ Submit(h) => handler[h].pc = "free" /\ handler'[h].pc = "lookup"
           /\ PostFails(h) => handler[h].pc = "post" /\ handler'[h].pc = "store"
           /\ Store(h) => handler[h].pc = "store" /\ handler'[h].pc = "lookup"
           /\ HandlerFails(h) => handler[h].pc # "free" /\ handler'[h].pc = "free"
           /\ Timeout \/ Restart => handler'[h].pc = handler[h].pc
<1>t. handler \in [Handlers -> Executions] /\ Free.pc = "free"
  BY DEF Base, TypeOK, Free
<1>1. Submit(h) => handler[h].pc = "free" /\ handler'[h].pc = "lookup"
  <2> SUFFICES ASSUME Submit(h) PROVE handler[h].pc = "free" /\ handler'[h].pc = "lookup"
    OBVIOUS
  <2>1. PICK batch : Request(h, "other", batch)
    BY DEF Submit
  <2> QED BY <1>t, <2>1 DEF Request, Free
<1>2. PostFails(h) => handler[h].pc = "post" /\ handler'[h].pc = "store"
  BY <1>t DEF PostFails, At, Decide, Executions
<1>3. Store(h) => handler[h].pc = "store" /\ handler'[h].pc = "lookup"
  BY <1>t DEF Store, At, NextRecord, Executions
<1>4. HandlerFails(h) => handler[h].pc # "free" /\ handler'[h].pc = "free"
  BY <1>t DEF HandlerFails, Report500
<1>5. Timeout \/ Restart => handler'[h].pc = handler[h].pc
  BY <1>t DEF Timeout, Restart, Deserted, Executions
<1> QED BY <1>1, <1>2, <1>3, <1>4, <1>5

\* What a step adds to the losses, one at a time.
LEMMA LossesStep ==
    ASSUME Base, JournalIsValid, [Next]_vars
    PROVE  \/ Losses' \subseteq Losses
           \/ Causes' = Causes + 1 /\ \E x : Losses' \subseteq Losses \cup {x}
           \/ \E y \in Losses : \E x : Losses' \subseteq (Losses \ {y}) \cup {x}
<1> DEFINE Moves(h) == Submit(h) \/ PostFails(h) \/ Store(h) \/ HandlerFails(h)
<1>l. \A r \in Records : Lost(r)' =>
          \/ Lost(r)
          \/ \E h \in Handlers : r = Current(h) /\ (HandlerFails(h) \/ (Store(h) /\ Failed(h)))
  BY LostStep
<1>f. \A h \in Handlers : Failed(h)' => (Failed(h) \/ Failing) /\ ~Store(h)
  BY FailedStep
<1>g. \A h \in Handlers : Failed(h)' => handler'[h].pc = "store"
  BY DEF Failed
<1>a. \A h \in Handlers : Away(h)' =>
          /\ ~HandlerFails(h)
          /\ Away(h) \/ Submit(h) \/ ((Timeout \/ Restart) /\ handler[h].client = "connector")
  BY AwayStep
<1>p. \A h \in Handlers :
          /\ Submit(h) => handler[h].pc = "free" /\ handler'[h].pc = "lookup"
          /\ PostFails(h) => handler[h].pc = "post" /\ handler'[h].pc = "store"
          /\ Store(h) => handler[h].pc = "store" /\ handler'[h].pc = "lookup"
          /\ HandlerFails(h) => handler[h].pc # "free" /\ handler'[h].pc = "free"
          /\ Timeout \/ Restart => handler'[h].pc = handler[h].pc
  BY Positions
<1>o. ASSUME NEW g \in Handlers, Moves(g), NEW h \in Handlers, h # g PROVE handler'[h] = handler[h]
  <2>1. Submit(g) \/ Leave(g) \/ Ingest(g) \/ PostFails(g) \/ HandlerFails(g)
    BY <1>o DEF Ingest
  <2> QED BY <1>o, <2>1, OnlyOne
<1>i. /\ \A r \in Records : Lost(r) => <<"row", r>> \in Losses
      /\ \A h \in Handlers : Failed(h) => <<"failed", h>> \in Losses
      /\ \A h \in Handlers : Away(h) => <<"away", h>> \in Losses
  BY DEF Losses
<1>k. ASSUME NEW X, \A r \in Records : Lost(r)' => <<"row", r>> \in X,
             \A h \in Handlers : Failed(h)' => <<"failed", h>> \in X,
             \A h \in Handlers : Away(h)' => <<"away", h>> \in X
      PROVE  Losses' \subseteq X
  BY <1>k DEF Losses
<1>c. /\ Failing \/ Timeout \/ Restart \/ (\E h \in Handlers : Submit(h)) => Causes' = Causes + 1
      /\ \A h \in Handlers : HandlerFails(h) /\ handler[h].client # "gone" => Causes' = Causes + 1
  BY CausesStep
<1>1. CASE Timeout \/ Restart
  <2>1. \A h \in Handlers : ~Moves(h)
    BY <1>1, <1>p
  <2>2. ~Failing
    BY <2>1 DEF Failing
  <2>3. PICK x : \A h \in Handlers : handler[h].client = "connector" => <<"away", h>> = x
    BY DEF Base, OneRequest
  <2> DEFINE X == Losses \cup {x}
  <2>4. \A r \in Records : Lost(r)' => <<"row", r>> \in X
    BY <1>l, <1>i, <2>1
  <2>5. \A h \in Handlers : Failed(h)' => <<"failed", h>> \in X
    BY <1>f, <1>i, <2>2
  <2>6. \A h \in Handlers : Away(h)' => <<"away", h>> \in X
    BY <1>a, <1>i, <2>1, <2>3
  <2> HIDE DEF X
  <2>7. Losses' \subseteq X
    BY <1>k, <2>4, <2>5, <2>6
  <2> QED BY <1>1, <1>c, <2>7 DEF X
<1>2. ASSUME NEW g \in Handlers, Submit(g)
      PROVE  Causes' = Causes + 1 /\ \E x : Losses' \subseteq Losses \cup {x}
  <2>1. \A h \in Handlers : ~PostFails(h) /\ ~Store(h) /\ ~HandlerFails(h)
    BY <1>2, <1>o, <1>p
  <2>2. ~Failing /\ ~(Timeout \/ Restart)
    BY <1>2, <1>p, <2>1 DEF Failing
  <2>3. \A h \in Handlers : Submit(h) => h = g
    BY <1>2, <1>o, <1>p
  <2>4. Losses' \subseteq Losses \cup {<<"away", g>>}
    BY <1>l, <1>f, <1>a, <1>i, <1>k, <2>1, <2>2, <2>3
  <2> QED BY <1>2, <1>c, <2>4
<1>3. ASSUME NEW g \in Handlers, PostFails(g)
      PROVE  Causes' = Causes + 1 /\ \E x : Losses' \subseteq Losses \cup {x}
  <2>1. \A h \in Handlers : ~Submit(h) /\ ~Store(h) /\ ~HandlerFails(h)
    BY <1>3, <1>o, <1>p
  <2>2. Failing /\ ~(Timeout \/ Restart)
    BY <1>3, <1>p DEF Failing
  <2>3. \A h \in Handlers : Failed(h)' => Failed(h) \/ h = g
    BY <1>3, <1>o DEF Failed
  <2>4. Losses' \subseteq Losses \cup {<<"failed", g>>}
    BY <1>l, <1>a, <1>i, <1>k, <2>1, <2>2, <2>3
  <2> QED BY <1>c, <2>2, <2>4
<1>4. ASSUME NEW g \in Handlers, HandlerFails(g)
      PROVE  \/ Causes' = Causes + 1 /\ \E x : Losses' \subseteq Losses \cup {x}
             \/ \E y \in Losses : \E x : Losses' \subseteq (Losses \ {y}) \cup {x}
  <2>1. \A h \in Handlers : ~Submit(h) /\ ~Store(h) /\ ~PostFails(h) /\ (HandlerFails(h) => h = g)
    BY <1>4, <1>o, <1>p
  <2>2. ~Failing /\ ~(Timeout \/ Restart)
    BY <1>4, <1>p, <2>1 DEF Failing
  <2>3. /\ \A r \in Records : Lost(r)' => Lost(r) \/ r = Current(g)
        /\ \A h \in Handlers : Failed(h)' => Failed(h)
        /\ \A h \in Handlers : Away(h)' => Away(h) /\ h # g
    BY <1>4, <1>l, <1>f, <1>a, <2>1, <2>2
  <2>4. CASE handler[g].client = "gone"
    <3> DEFINE y == <<"away", g>>
    <3>1. y \in Losses
      BY <1>i, <2>4 DEF Away
    <3> DEFINE X == (Losses \ {y}) \cup {<<"row", Current(g)>>}
    <3>2. \A r \in Records : Lost(r)' => <<"row", r>> \in X
      BY <1>i, <2>3
    <3>3. /\ \A h \in Handlers : Failed(h)' => <<"failed", h>> \in X
          /\ \A h \in Handlers : Away(h)' => <<"away", h>> \in X
      BY <1>i, <2>3
    <3> HIDE DEF y, X
    <3>4. Losses' \subseteq X
      BY <1>k, <3>2, <3>3
    <3> QED BY <3>1, <3>4 DEF X
  <2>5. CASE handler[g].client # "gone"
    <3>1. Losses' \subseteq Losses \cup {<<"row", Current(g)>>}
      BY <1>i, <1>k, <2>3
    <3> QED BY <1>4, <1>c, <2>5, <3>1
  <2> QED BY <2>4, <2>5
<1>5. ASSUME NEW g \in Handlers, Store(g)
      PROVE  \/ Losses' \subseteq Losses
             \/ \E y \in Losses : \E x : Losses' \subseteq (Losses \ {y}) \cup {x}
  <2>1. \A h \in Handlers : ~Submit(h) /\ ~HandlerFails(h) /\ ~PostFails(h) /\ (Store(h) => h = g)
    BY <1>5, <1>o, <1>p
  <2>2. ~Failing /\ ~(Timeout \/ Restart)
    BY <1>5, <1>p, <2>1 DEF Failing
  <2>3. /\ \A r \in Records : Lost(r)' => Lost(r) \/ (r = Current(g) /\ Failed(g))
        /\ \A h \in Handlers : Failed(h)' => Failed(h) /\ h # g
        /\ \A h \in Handlers : Away(h)' => Away(h)
    BY <1>5, <1>l, <1>f, <1>a, <2>1, <2>2
  <2>4. CASE Failed(g)
    <3> DEFINE y == <<"failed", g>>
    <3>1. y \in Losses
      BY <1>i, <2>4
    <3> DEFINE X == (Losses \ {y}) \cup {<<"row", Current(g)>>}
    <3>2. \A r \in Records : Lost(r)' => <<"row", r>> \in X
      BY <1>i, <2>3
    <3>3. /\ \A h \in Handlers : Failed(h)' => <<"failed", h>> \in X
          /\ \A h \in Handlers : Away(h)' => <<"away", h>> \in X
      BY <1>i, <2>3
    <3> HIDE DEF y, X
    <3>4. Losses' \subseteq X
      BY <1>k, <3>2, <3>3
    <3> QED BY <3>1, <3>4 DEF X
  <2>5. CASE ~Failed(g)
    BY <1>i, <1>k, <2>3, <2>5
  <2> QED BY <2>4, <2>5
<1>6. CASE ~(Timeout \/ Restart) /\ \A h \in Handlers : ~Moves(h)
  <2>1. ~Failing
    BY <1>6 DEF Failing
  <2> QED BY <1>l, <1>f, <1>a, <1>i, <1>k, <1>6, <2>1
<1> QED BY <1>1, <1>2, <1>3, <1>4, <1>5, <1>6

\* Every step keeps ReportInv.
LEMMA ReportStep == ReportInv /\ [Next]_vars => ReportInv'
<1> SUFFICES ASSUME ReportInv, [Next]_vars
             PROVE  ReportInv'
  OBVIOUS
<1>1. Base /\ Base' /\ JournalIsValid /\ AtMost(Losses, Causes)
  BY BaseStep DEF ReportInv
<1>2. JournalIsValid'
  BY <1>1, JournalStep DEF JournalIsValid
<1>3. Causes \in Nat /\ Causes' \in Nat /\ Causes <= Causes'
  BY <1>1, CausesStep
<1>4. CASE Losses' \subseteq Losses
  BY <1>1, <1>2, <1>3, <1>4, BoundStays DEF ReportInv
<1>5. ASSUME Causes' = Causes + 1, NEW x, Losses' \subseteq Losses \cup {x}
      PROVE  ReportInv'
  <2>1. AtMost(Losses', Causes + 1)
    BY <1>1, <1>5, BoundGrows
  <2> QED BY <1>1, <1>2, <1>5, <2>1 DEF ReportInv
<1>6. ASSUME NEW y \in Losses, NEW x, Losses' \subseteq (Losses \ {y}) \cup {x}
      PROVE  ReportInv'
  <2>1. AtMost(Losses', Causes)
    BY <1>1, <1>6, BoundExchanged
  <2>2. AtMost(Losses', Causes')
    BY <1>3, <2>1, BoundStays
  <2> QED BY <1>1, <1>2, <2>2 DEF ReportInv
<1> QED BY <1>1, <1>4, <1>5, <1>6, LossesStep

\* An entry whose row is missing or says QUARANTINED has an error, a fault or a batch
\* of another client of its own, though entry and row are written by different
\* transactions and any number of requests repeat and overtake one another.
THEOREM UnreportedAlwaysExplained == Spec => []UnreportedExplained
<1>1. Init => ReportInv
  <2> SUFFICES ASSUME Init PROVE ReportInv
    OBVIOUS
  <2>1. Losses = {}
    BY DEF Init, Free, Losses, Lost, Failed, Away
  <2>2. OtherBatches \ offered = {} /\ errors = 0 /\ timeouts = 0 /\ journal = {}
    BY DEF Init
  <2>3. Causes = 0
    BY <2>2, FS_EmptySet DEF Causes, Taken
  <2>4. AtMost(Losses, Causes)
    BY <2>1, <2>3, FS_EmptySet DEF AtMost
  <2> QED BY <2>2, <2>4, BaseInit DEF ReportInv, JournalIsValid
<1>2. ReportInv => UnreportedExplained
  <2> SUFFICES ASSUME ReportInv PROVE UnreportedExplained
    OBVIOUS
  <2> DEFINE row == [r \in Unreported |-> <<"row", r>>]
  <2>1. \A r \in Unreported : r \in Records /\ Lost(r)
    BY DEF ReportInv, Base, TypeOK, JournalIsValid, Unreported, Lost, Storing, Current
  <2>2. row \in Injection(Unreported, Losses)
    BY <2>1 DEF Injection, IsInjective, Losses
  <2>3. IsFiniteSet(Losses) /\ Causes \in Nat /\ Cardinality(Losses) <= Causes
    BY DEF ReportInv, AtMost
  <2>4. IsFiniteSet(Unreported) /\ Cardinality(Unreported) <= Cardinality(Losses)
    BY <2>2, <2>3, FS_Injection
  <2>5. Cardinality(Unreported) <= Causes
    <3>1. Cardinality(Unreported) \in Nat /\ Cardinality(Losses) \in Nat
      BY <2>3, <2>4, FS_CardinalityType
    <3> QED BY <2>3, <2>4, <3>1
  <2> QED BY <2>5 DEF UnreportedExplained, Causes, Taken
<1> QED BY <1>1, <1>2, ReportStep, PTL DEF Spec
=============================================================================
