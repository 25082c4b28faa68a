------------------------------- MODULE Staging -------------------------------
(***************************************************************************)
(* At-least-once import: the generic-file connector sweeps a directory and *)
(* delivers each file in batches to POST /v1/staging-records; core-api     *)
(* ingests every record of a batch in three steps (look the hash up, post  *)
(* a journal entry, store the outcome), none of them in one transaction    *)
(* with the next.  A client that gives up leaves its handler running, so a *)
(* retry may overtake it.  PostEntry is one step here: Journal shows that  *)
(* it is atomic.                                                           *)
(***************************************************************************)
EXTENDS Integers, Sequences, FiniteSets, SequencesExt, Filtering

CONSTANTS
    Records,        \* the rows of the source system, mapped by the connector
    Files,          \* CSV files
    Content,        \* Content[f]: the sequence of records in file f
    Unreadable,     \* files whose header MapCSV rejects
    OtherBatches,   \* batches that other clients of the API submit
    Handlers,       \* concurrent executions of submitStagingRecords
    BatchSize,      \* deliveryBatchSize (200)
    MaxBatch,       \* maxStagingBatch (500)
    MaxErrors,      \* bound on errors and crashes on the side of core-api
    MaxTimeouts,    \* bound on faults on the side of the connector
    NoFile

\* A record is identified by the hash over its source identity and content, so
\* the record stands for its own hash.  "fault" is what is wrong with it.
RecordFaults == {"none", "unmappable", "noIdentity", "invalid", "unknownInstitution", "badDate"}

ASSUME RecordsAssumption ==
    \A r \in Records : r.fault \in RecordFaults

ASSUME FilesAssumption ==
    /\ DOMAIN Content = Files /\ \A f \in Files : Content[f] \in Seq(Records)
    /\ Unreadable \subseteq Files
    /\ BatchSize \in 1..MaxBatch /\ MaxBatch \in Nat
    /\ MaxErrors \in Nat /\ MaxTimeouts \in Nat
    /\ OtherBatches \subseteq Seq(Records) /\ IsFiniteSet(OtherBatches)
    /\ NoFile \notin Files

VARIABLES
    \* the database of core-api
    journal,        \* the records whose journal entry is posted
    staged,         \* staging_records.status by source hash
    \* the connector
    location,       \* where a file is
    todo,           \* files of the current sweep still to process
    watcher,        \* what processFile is doing
    \* requests
    handler,        \* each execution of submitStagingRecords
    answered,       \* the outcomes clients have received
    offered,        \* batches other clients have yet to submit
    errors,         \* errors of core-api so far
    timeouts        \* faults of the connector so far

connector == <<location, todo, watcher>>
bounds == <<offered, errors, timeouts>>
vars == <<journal, staged, connector, handler, answered, bounds>>

Outcomes == {"POSTED", "QUARANTINED", "DUPLICATE"}
Idle  == [pc |-> "idle", file |-> NoFile, next |-> 1]
Free  == [pc |-> "free", client |-> "none", batch |-> <<>>, pos |-> 1, outcome |-> "none", done |-> {}]

\* MapCSV skips the rows it cannot map.
MapCSV == [f \in Files |-> Filter(Content[f], {r \in Records : r.fault # "unmappable"})]

\* DeriveEntryID joins system and reference with a dash.
DeriveEntryID(r) == r.system \o <<"-">> \o r.ref

\* The unique keys of journal_entries: the id, and the hash as idempotency key.
EntryExists(r) == \E p \in journal : p = r \/ DeriveEntryID(p) = DeriveEntryID(r)

Init ==
    /\ journal = {}
    /\ staged = [r \in Records |-> "none"]
    /\ location = [f \in Files |-> "absent"]
    /\ todo = {}
    /\ watcher = Idle
    /\ handler = [h \in Handlers |-> Free]
    /\ answered = {}
    /\ offered = OtherBatches /\ errors = 0 /\ timeouts = 0

-----------------------------------------------------------------------------
(* The connector *)

\* The source system exports a file into the drop directory.
Drop(f) ==
    /\ location[f] = "absent"
    /\ location' = [location EXCEPT ![f] = "drop"]
    /\ UNCHANGED <<journal, staged, todo, watcher, handler, answered, bounds>>

\* A tick: the sweep lists the directory.
Sweep ==
    /\ watcher.pc = "idle" /\ todo = {}
    /\ todo' = {f \in Files : location[f] = "drop"}
    /\ todo' # {}
    /\ UNCHANGED <<journal, staged, location, watcher, handler, answered, bounds>>

\* processFile opens and maps a file; one that cannot be mapped goes to failed/.
\* Opening and renaming may fail, which is only logged: the file stays.
Open(f) ==
    /\ watcher.pc = "idle" /\ f \in todo
    /\ todo' = todo \ {f}
    /\ \/ /\ f \in Unreadable
          /\ location' = [location EXCEPT ![f] = "failed"]
          /\ UNCHANGED <<watcher, bounds>>
       \/ /\ f \notin Unreadable
          /\ watcher' = [watcher EXCEPT !.pc = "sending", !.file = f]
          /\ UNCHANGED <<location, bounds>>
       \/ /\ timeouts < MaxTimeouts
          /\ timeouts' = timeouts + 1
          /\ UNCHANGED <<location, watcher, offered, errors>>
    /\ UNCHANGED <<journal, staged, handler, answered>>

\* The next batch of the file.
Batch ==
    LET records == MapCSV[watcher.file]
    IN  SubSeq(records, watcher.next, Min({watcher.next + BatchSize - 1, Len(records)}))

\* A request reaches a handler.  An empty batch, or one that is too long, is
\* refused and changes nothing.
Request(h, client, batch) ==
    /\ handler[h] = Free
    /\ Len(batch) \in 1..MaxBatch
    /\ handler' = [handler EXCEPT ![h] = [Free EXCEPT !.pc = "lookup", !.client = client,
                                                     !.batch = batch]]

\* deliverBatch posts the batch and waits.
Send(h) ==
    /\ watcher.pc = "sending" /\ Batch # <<>>
    /\ Request(h, "connector", Batch)
    /\ watcher' = [watcher EXCEPT !.pc = "waiting"]
    /\ UNCHANGED <<journal, staged, location, todo, answered, bounds>>

\* Deliver returned without an error: the file moves to processed/.  The
\* rename may fail, which is only logged.
MoveProcessed ==
    /\ watcher.pc = "sending" /\ Batch = <<>>
    /\ \/ /\ location' = [location EXCEPT ![watcher.file] = "processed"]
          /\ UNCHANGED bounds
       \/ /\ timeouts < MaxTimeouts
          /\ timeouts' = timeouts + 1
          /\ UNCHANGED <<location, offered, errors>>
    /\ watcher' = Idle
    /\ UNCHANGED <<journal, staged, todo, handler, answered>>

\* (mutant) The error of a batch does not stop the delivery.
CarryOn == [watcher EXCEPT !.pc = "sending", !.next = @ + BatchSize]

\* Deliver returned an error: the file stays for the next sweep.
GiveUp == Idle

\* The requests of the connector lose their client; their handlers run on.
Deserted ==
    [h \in Handlers |-> IF handler[h].client = "connector"
                        THEN [handler[h] EXCEPT !.client = "gone"] ELSE handler[h]]

\* The HTTP client times out after 30 s, or the connection breaks.
Timeout ==
    /\ watcher.pc = "waiting"
    /\ timeouts < MaxTimeouts
    /\ timeouts' = timeouts + 1
    /\ watcher' = GiveUp
    /\ handler' = Deserted
    /\ UNCHANGED <<journal, staged, location, todo, answered, offered, errors>>

\* The connector dies and is started again: it remembers nothing.
Restart ==
    /\ watcher # Idle \/ todo # {}
    /\ timeouts < MaxTimeouts
    /\ timeouts' = timeouts + 1
    /\ watcher' = Idle /\ todo' = {}
    /\ handler' = Deserted
    /\ UNCHANGED <<journal, staged, location, answered, offered, errors>>

-----------------------------------------------------------------------------
(* submitStagingRecords and Ingest *)

Current(h) == handler[h].batch[handler[h].pos]

\* Another client of the API submits a batch (once: the connector is the one to
\* repeat itself), or loses its connection.
Submit(h) ==
    /\ \E batch \in offered : Request(h, "other", batch) /\ offered' = offered \ {batch}
    /\ UNCHANGED <<journal, staged, connector, answered, errors, timeouts>>

Leave(h) ==
    /\ handler[h].client = "other"
    /\ handler' = [handler EXCEPT ![h].client = "gone"]
    /\ UNCHANGED <<journal, staged, connector, answered, bounds>>

\* The outcome of the current record is appended; the loop goes on.
NextRecord(h, outcome) ==
    [handler[h] EXCEPT !.pc = "lookup", !.pos = @ + 1, !.outcome = "none",
                       !.done = @ \cup {<<Current(h), outcome>>}]

\* The loop is at a record.
At(h, pc) == handler[h].pc = pc /\ handler[h].pos <= Len(handler[h].batch)

\* A record without source identity is reported but not stored.
SkipUnidentified(h) ==
    /\ At(h, "lookup")
    /\ Current(h).fault = "noIdentity"
    /\ handler' = [handler EXCEPT ![h] = NextRecord(h, "QUARANTINED")]
    /\ UNCHANGED <<journal, staged, connector, answered, bounds>>

\* The hash is known: redelivery short-circuits.
FindDuplicate(h) ==
    /\ At(h, "lookup")
    /\ Current(h).fault # "noIdentity"
    /\ staged[Current(h)] # "none"
    /\ handler' = [handler EXCEPT ![h] = NextRecord(h, "DUPLICATE")]
    /\ UNCHANGED <<journal, staged, connector, answered, bounds>>

FindNew(h) ==
    /\ At(h, "lookup")
    /\ Current(h).fault # "noIdentity"
    /\ staged[Current(h)] = "none"
    /\ handler' = [handler EXCEPT ![h].pc = "post"]
    /\ UNCHANGED <<journal, staged, connector, answered, bounds>>

Decide(h, outcome) ==
    handler' = [handler EXCEPT ![h].pc = "store", ![h].outcome = outcome]

Invalid(r) == r.fault \in {"invalid", "badDate"}

\* (mutant) The row of a new entry is left to the redelivery.
PostNewUnstored(h) ==
    /\ At(h, "post")
    /\ Current(h).fault = "none"
    /\ ~EntryExists(Current(h))
    /\ journal' = journal \cup {Current(h)}
    /\ handler' = [handler EXCEPT ![h] = NextRecord(h, "POSTED")]
    /\ UNCHANGED <<staged, connector, answered, bounds>>

\* PostEntry posts the entry.
PostNew(h) ==
    /\ At(h, "post")
    /\ Current(h).fault = "none"
    /\ ~EntryExists(Current(h))
    /\ journal' = journal \cup {Current(h)}
    /\ Decide(h, "POSTED")
    /\ UNCHANGED <<staged, connector, answered, bounds>>

\* The client learns that its request failed.
Report500(h) ==
    /\ handler' = [handler EXCEPT ![h] = Free]
    /\ watcher' = IF handler[h].client = "connector" THEN GiveUp ELSE watcher
    /\ UNCHANGED <<journal, staged, location, todo, answered>>

\* (mutant) An existing entry is an error like any other.
DuplicateIsAnError(h) ==
    /\ At(h, "post")
    /\ ~Invalid(Current(h))
    /\ EntryExists(Current(h))
    /\ Report500(h)
    /\ UNCHANGED bounds

\* (mutant) The staging row of an existing entry gets the status of a redelivery.
DuplicateStored(h) ==
    /\ At(h, "post")
    /\ ~Invalid(Current(h))
    /\ EntryExists(Current(h))
    /\ Decide(h, "DUPLICATE")
    /\ UNCHANGED <<journal, staged, connector, answered, bounds>>

\* (mutant) An existing entry quarantines the record.
DuplicateQuarantines(h) ==
    /\ At(h, "post")
    /\ ~Invalid(Current(h))
    /\ EntryExists(Current(h))
    /\ Decide(h, "QUARANTINED")
    /\ UNCHANGED <<journal, staged, connector, answered, bounds>>

\* PostEntry reports a duplicate: the entry exists, the record counts as posted.
PostDuplicate(h) ==
    /\ At(h, "post")
    /\ ~Invalid(Current(h))
    /\ EntryExists(Current(h))
    /\ Decide(h, "POSTED")
    /\ UNCHANGED <<journal, staged, connector, answered, bounds>>

\* (mutant) A rejected record is stored as posted.
RejectedIsPosted(h) ==
    /\ At(h, "post")
    /\ \/ Invalid(Current(h))
       \/ Current(h).fault = "unknownInstitution" /\ ~EntryExists(Current(h))
    /\ Decide(h, "POSTED")
    /\ UNCHANGED <<journal, staged, connector, answered, bounds>>

\* PostEntry rejects the entry.
PostRejected(h) ==
    /\ At(h, "post")
    /\ \/ Invalid(Current(h))
       \/ Current(h).fault = "unknownInstitution" /\ ~EntryExists(Current(h))
    /\ Decide(h, "QUARANTINED")
    /\ UNCHANGED <<journal, staged, connector, answered, bounds>>

\* PostEntry fails for another reason (a deadlock victim, a lost connection):
\* rolled back, or committed without the acknowledgement.
PostFails(h) ==
    /\ At(h, "post")
    /\ ~Invalid(Current(h))
    /\ errors < MaxErrors
    /\ errors' = errors + 1
    /\ \/ UNCHANGED journal
       \/ /\ Current(h).fault = "none"
          /\ ~EntryExists(Current(h))
          /\ journal' = journal \cup {Current(h)}
    /\ Decide(h, "QUARANTINED")
    /\ UNCHANGED <<staged, connector, answered, offered, timeouts>>

\* INSERT INTO staging_records ... ON CONFLICT (source_hash) DO NOTHING.
Stored(r, outcome) ==
    IF staged[r] = "none" THEN [staged EXCEPT ![r] = outcome] ELSE staged

Store(h) ==
    /\ At(h, "store")
    /\ Current(h).fault # "badDate"
    /\ staged' = Stored(Current(h), handler[h].outcome)
    /\ handler' = [handler EXCEPT ![h] = NextRecord(h, handler[h].outcome)]
    /\ UNCHANGED <<journal, connector, answered, bounds>>

\* The DATE column refuses a date that is none: Ingest returns the error and
\* the rest of the batch is not looked at.
StoreRefused(h) ==
    /\ At(h, "store")
    /\ Current(h).fault = "badDate"
    /\ Report500(h)
    /\ UNCHANGED bounds

\* A lookup or a store fails, the server dies, or the context of a request
\* whose client has left is cancelled (which is not a fault of its own).
HandlerFails(h) ==
    /\ handler[h].pc # "free"
    /\ \/ handler[h].client = "gone" /\ UNCHANGED bounds
       \/ /\ handler[h].client # "gone"
          /\ errors < MaxErrors
          /\ errors' = errors + 1
          /\ UNCHANGED <<offered, timeouts>>
    /\ Report500(h)

\* 200 with one outcome per record; the client sends the next batch.
Respond(h) ==
    /\ handler[h].pc = "lookup"
    /\ handler[h].pos > Len(handler[h].batch)
    /\ handler' = [handler EXCEPT ![h] = Free]
    /\ answered' = IF handler[h].client = "gone" THEN answered ELSE answered \cup handler[h].done
    /\ watcher' = IF handler[h].client = "connector"
                  THEN [watcher EXCEPT !.pc = "sending", !.next = @ + BatchSize]
                  ELSE watcher
    /\ UNCHANGED <<journal, staged, location, todo, bounds>>

Ingest(h) ==
    \/ SkipUnidentified(h) \/ FindDuplicate(h) \/ FindNew(h)
    \/ PostNew(h) \/ PostDuplicate(h) \/ PostRejected(h)
    \/ Store(h) \/ StoreRefused(h) \/ Respond(h)

Connector ==
    \/ Sweep \/ MoveProcessed
    \/ \E f \in Files : Open(f)
    \/ \E h \in Handlers : Send(h)

Next ==
    \/ \E f \in Files : Drop(f)
    \/ Connector
    \/ Timeout \/ Restart
    \/ \E h \in Handlers : Submit(h) \/ Leave(h) \/ Ingest(h) \/ PostFails(h) \/ HandlerFails(h)

Spec == Init /\ [][Next]_vars

\* The connector keeps sweeping and core-api keeps serving; nothing forces a
\* file to be dropped or a fault to happen.
FairSpec ==
    /\ Spec
    /\ WF_vars(Connector)
    /\ \A h \in Handlers : WF_vars(Ingest(h))

-----------------------------------------------------------------------------
(* Properties *)

Executions ==
    [pc : {"free", "lookup", "post", "store"}, client : {"none", "connector", "other", "gone"},
     batch : Seq(Records), pos : Nat \ {0}, outcome : Outcomes \cup {"none"},
     done : SUBSET (Records \X Outcomes)]

TypeOK ==
    /\ journal \subseteq Records
    /\ staged \in [Records -> {"none", "POSTED", "QUARANTINED"}]
    /\ location \in [Files -> {"absent", "drop", "processed", "failed"}]
    /\ todo \subseteq Files
    /\ watcher \in [pc : {"idle", "sending", "waiting"}, file : Files \cup {NoFile},
                    next : Nat \ {0}]
    /\ handler \in [Handlers -> Executions]
    /\ answered \subseteq Records \X Outcomes
    /\ offered \subseteq OtherBatches /\ errors \in 0..MaxErrors /\ timeouts \in 0..MaxTimeouts

Identified(r) == r.fault # "noIdentity"

\* A row reported as POSTED has an entry under its id in the journal, although
\* the entry and the staging row are written by different transactions.
PostedIsInJournal ==
    \A r \in Records :
        staged[r] = "POSTED" => \E p \in journal : DeriveEntryID(p) = DeriveEntryID(r)

\* A file leaves the drop directory for processed/ only when each of its records
\* is staged, whatever timeouts, errors and restarts happened on the way.
ProcessedIsStaged ==
    \A f \in Files : location[f] = "processed" =>
        \A r \in Range(MapCSV[f]) : Identified(r) => staged[r] # "none"

\* Each valid record in quarantine is there because of an error of core-api of
\* its own: overlapping and repeated deliveries alone quarantine none.
QuarantineIsExplained ==
    Cardinality({r \in Records : staged[r] = "QUARANTINED" /\ r.fault = "none"}) <= errors

\* Entries without a row that says POSTED, and without a handler about to store one.
Unreported ==
    {r \in journal : \/ staged[r] = "QUARANTINED"
                     \/ /\ staged[r] = "none"
                        /\ \A h \in Handlers : handler[h].pc = "store" => Current(h) # r}

\* Entry and staging row are written by different transactions.  An entry whose row
\* is missing, or says QUARANTINED, has an error of core-api, a fault of the
\* connector or a batch of another client (that left) of its own: overlapping and
\* repeated deliveries alone lose no row.
UnreportedExplained ==
    Cardinality(Unreported) <= errors + timeouts + Cardinality(OtherBatches \ offered)

\* No other row of the source has this entry id.
Unambiguous(r) == \A p \in Records : DeriveEntryID(p) = DeriveEntryID(r) => p = r

\* As long as core-api met no error, the staging row of an unambiguous record
\* holds the outcome the client was told, though the insert of the row does not
\* tell whether another request was first.
RowRecordsOutcome ==
    errors = 0 =>
        \A a \in answered :
            a[2] # "DUPLICATE" /\ Identified(a[1]) /\ Unambiguous(a[1]) => staged[a[1]] = a[2]

\* A dropped file is eventually moved, to processed/ or to failed/.
EveryFileMoved ==
    \A f \in Files : location[f] = "drop" ~> location[f] \in {"processed", "failed"}
=============================================================================
