------------------------------ MODULE Anchoring ------------------------------
(***************************************************************************)
(* The ledger gateway: every interval it loads the posted entries without  *)
(* a proof, commits the Merkle root of the batch to a backend (the         *)
(* hash-chained transparency log, or the Fabric chaincode) and, in a       *)
(* second transaction, records the anchor and a proof per entry.  Gateways *)
(* overlap when a deployment is rolled over or has replicas.               *)
(*                                                                         *)
(* A Merkle root is modelled by the sequence of entries it covers, the     *)
(* hash of a log row by the sequence number of the row.                    *)
(***************************************************************************)
EXTENDS Integers, Sequences, FiniteSets, SequencesExt, Filtering

CONSTANTS
    Entries,    \* journal entries
    Existing,   \* those begun before the first gateway starts, in order
    Gateways,
    Backends,   \* what OPENTREASURY_ANCHOR_BACKEND may choose
    BatchSize,  \* 500
    MaxFaults,  \* bound on crashes and errors of gateways
    NoProof

ASSUME AnchoringAssumption ==
    /\ Existing \in Seq(Entries) /\ IsInjective(Existing)
    /\ Backends \subseteq {"log", "fabric"} /\ Backends # {}
    /\ IsFiniteSet(Gateways)
    /\ BatchSize \in Nat \ {0} /\ MaxFaults \in Nat
    /\ NoProof \notin Nat

VARIABLES
    started,    \* entries by created_at, the time their transaction began
    posted,     \* entries whose transaction has committed
    log,        \* transparency_log, by sequence
    chain,      \* roots with an anchor in the chaincode's world state, by transaction
    adrift,     \* roots submitted to the orderer by a gateway that gave up on the outcome
    anchors,    \* table anchors, in the order of insertion
    proofs,     \* table journal_entry_anchors: the anchor of each entry
    backendOf,  \* the backend of each gateway, "none" when it is not deployed
    gateway,    \* what AnchorPending is doing
    faults

journal == <<started, posted>>
backend == <<log, chain, adrift>>
receipts == <<anchors, proofs>>
vars == <<journal, backend, receipts, backendOf, gateway, faults>>

\* Before the first row there is none to chain: prev_hash is "genesis".
Genesis == 0

Idle == [pc |-> "idle", batch |-> <<>>, prev |-> Genesis, sequence |-> 0, ref |-> <<>>]

Init ==
    /\ started = Existing /\ posted \in SUBSET Range(Existing)
    /\ log = <<>> /\ chain = <<>> /\ adrift = {}
    /\ anchors = <<>> /\ proofs = [e \in Entries |-> NoProof]
    /\ backendOf \in [Gateways -> Backends \cup {"none"}]
    /\ \E g \in Gateways : backendOf[g] # "none"
    /\ gateway = [g \in Gateways |-> Idle]
    /\ faults = 0

-----------------------------------------------------------------------------
(* Postings of core-api: created_at is the begin of the transaction, and    *)
(* transactions need not commit in the order they began.                    *)

BeginPosting(e) ==
    /\ e \notin Range(started)
    /\ started' = Append(started, e)
    /\ UNCHANGED <<posted, backend, receipts, backendOf, gateway, faults>>

CommitPosting(e) ==
    /\ e \in Range(started) \ posted
    /\ posted' = posted \cup {e}
    /\ UNCHANGED <<started, backend, receipts, backendOf, gateway, faults>>

-----------------------------------------------------------------------------
(* AnchorPending *)

\* (mutant) A watermark: only entries younger than all anchored ones.
AfterWatermark ==
    SelectSeq(started, LAMBDA e :
        /\ e \in posted
        /\ \A i, j \in DOMAIN started :
               started[i] = e /\ proofs[started[j]] # NoProof => j < i)

\* (mutant) Entries are taken when they have been inserted, committed or not.
BegunWithoutProof == Filter(started, {e \in Entries : proofs[e] = NoProof})

\* The posted entries without a proof, oldest first.
Unanchored == Filter(started, {e \in posted : proofs[e] = NoProof})

LoadUnanchored(g) ==
    LET pending == Unanchored
    IN  /\ backendOf[g] # "none"
        /\ gateway[g].pc = "idle"
        /\ pending # <<>>
        /\ gateway' = [gateway EXCEPT
               ![g].pc = "commit",
               ![g].batch = SubSeq(pending, 1, Min({BatchSize, Len(pending)}))]
        /\ UNCHANGED <<journal, backendOf, backend, receipts, faults>>

Root(g) == gateway[g].batch

Committed(g, ref) ==
    gateway' = [gateway EXCEPT ![g].pc = "write", ![g].ref = ref]

\* The attempt ends with an error; the next tick starts another one.
GiveUp(g) == gateway' = [gateway EXCEPT ![g] = Idle]

-----------------------------------------------------------------------------
(* TransparencyLog.Commit: two reads, each with its own snapshot, and an     *)
(* insert whose primary key is the sequence number.                          *)

\* (mutant) The last row is looked for in the wrong order.
FirstRow == IF log = <<>> THEN Genesis ELSE 1

LastRow == IF log = <<>> THEN Genesis ELSE Len(log)

ReadPrev(g) ==
    /\ backendOf[g] = "log"
    /\ gateway[g].pc = "commit"
    /\ gateway' = [gateway EXCEPT ![g].pc = "sequence", ![g].prev = LastRow]
    /\ UNCHANGED <<journal, backendOf, backend, receipts, faults>>

ReadSequence(g) ==
    /\ gateway[g].pc = "sequence"
    /\ gateway' = [gateway EXCEPT ![g].pc = "insert", ![g].sequence = Len(log) + 1]
    /\ UNCHANGED <<journal, backendOf, backend, receipts, faults>>

NewRow(g) == [root |-> Root(g), prev |-> gateway[g].prev]

\* (mutant) A row that is already there counts as success.
InsertOrIgnore(g) ==
    /\ gateway[g].pc = "insert"
    /\ log' = IF gateway[g].sequence = Len(log) + 1 THEN Append(log, NewRow(g)) ELSE log
    /\ Committed(g, <<"tlog", gateway[g].sequence>>)
    /\ UNCHANGED <<journal, backendOf, chain, adrift, receipts, faults>>

\* The insert and the commit; the primary key refuses a number that is taken.
InsertRow(g) ==
    /\ gateway[g].pc = "insert"
    /\ \/ /\ gateway[g].sequence = Len(log) + 1
          /\ log' = Append(log, NewRow(g))
          /\ Committed(g, <<"tlog", gateway[g].sequence>>)
       \/ /\ gateway[g].sequence <= Len(log)
          /\ GiveUp(g)
          /\ UNCHANGED log
    /\ UNCHANGED <<journal, backendOf, chain, adrift, receipts, faults>>

-----------------------------------------------------------------------------
(* FabricBackend.Commit: the chaincode is simulated at endorsement; a       *)
(* transaction whose reads have changed since is invalid when its block is  *)
(* committed.                                                                *)

\* CommitAnchor finds an anchor with this id, which is the root.
AlreadyExists(root) == root \in Range(chain)

Endorse(g) ==
    /\ backendOf[g] = "fabric"
    /\ gateway[g].pc = "commit"
    /\ IF AlreadyExists(Root(g))
       THEN Committed(g, <<"anchor", Root(g)>>)
       ELSE gateway' = [gateway EXCEPT ![g].pc = "endorsed"]
    /\ UNCHANGED <<journal, backendOf, backend, receipts, faults>>

\* What the committing peers do with a transaction.
Block(root) == chain' = IF AlreadyExists(root) THEN chain ELSE Append(chain, root)

CommitBlock(g) ==
    /\ gateway[g].pc = "endorsed"
    /\ Block(Root(g))
    /\ IF AlreadyExists(Root(g)) THEN GiveUp(g) ELSE Committed(g, <<"tx", Len(chain) + 1>>)
    /\ UNCHANGED <<journal, backendOf, log, adrift, receipts, faults>>

\* A transaction is committed whose gateway no longer waits for its status.
LateBlock(root) ==
    /\ root \in adrift
    /\ adrift' = adrift \ {root}
    /\ Block(root)
    /\ UNCHANGED <<journal, backendOf, log, receipts, gateway, faults>>

-----------------------------------------------------------------------------

\* INSERT INTO journal_entry_anchors ... ON CONFLICT (entry_id) DO NOTHING.
Proven(g, a) ==
    [e \in Entries |-> IF e \in Range(Root(g)) /\ proofs[e] = NoProof THEN a ELSE proofs[e]]

\* (mutant) The proofs are inserted without ON CONFLICT: one that is already
\* there makes the transaction fail.
WriteAllOrNothing(g) ==
    /\ gateway[g].pc = "write"
    /\ IF \A e \in Range(Root(g)) : proofs[e] = NoProof
       THEN /\ anchors' = Append(anchors, [root |-> Root(g), count |-> Len(Root(g)),
                                          ref |-> gateway[g].ref])
            /\ proofs' = Proven(g, Len(anchors) + 1)
       ELSE UNCHANGED receipts
    /\ GiveUp(g)
    /\ UNCHANGED <<journal, backendOf, backend, faults>>

\* (mutant) No anchor is inserted when another gateway has proven the batch.
WriteWhenNeeded(g) ==
    /\ gateway[g].pc = "write"
    /\ IF \E e \in Range(Root(g)) : proofs[e] = NoProof
       THEN /\ anchors' = Append(anchors, [root |-> Root(g), count |-> Len(Root(g)),
                                          ref |-> gateway[g].ref])
            /\ proofs' = Proven(g, Len(anchors) + 1)
       ELSE UNCHANGED receipts
    /\ GiveUp(g)
    /\ UNCHANGED <<journal, backendOf, backend, faults>>

WriteProofs(g) ==
    /\ gateway[g].pc = "write"
    /\ anchors' = Append(anchors, [root |-> Root(g), count |-> Len(Root(g)),
                                   ref |-> gateway[g].ref])
    /\ proofs' = Proven(g, Len(anchors) + 1)
    /\ gateway' = [gateway EXCEPT ![g] = Idle]
    /\ UNCHANGED <<journal, backendOf, backend, faults>>

\* A crash and restart of the gateway, or an error of a database or of Fabric.
\* That a commit succeeds unseen is InsertRow or CommitBlock and then this; a
\* transaction that has been endorsed may be on its way to the orderer.
Fault(g) ==
    /\ gateway[g].pc # "idle"
    /\ faults < MaxFaults
    /\ faults' = faults + 1
    /\ \/ UNCHANGED adrift
       \/ gateway[g].pc = "endorsed" /\ adrift' = adrift \cup {Root(g)}
    /\ GiveUp(g)
    /\ UNCHANGED <<journal, backendOf, log, chain, receipts>>

AnchorPending(g) ==
    \/ LoadUnanchored(g)
    \/ ReadPrev(g) \/ ReadSequence(g) \/ InsertRow(g)
    \/ Endorse(g) \/ CommitBlock(g)
    \/ WriteProofs(g)

Next ==
    \/ \E e \in Entries : BeginPosting(e) \/ CommitPosting(e)
    \/ \E g \in Gateways : AnchorPending(g) \/ Fault(g)
    \/ \E root \in adrift : LateBlock(root)

Spec == Init /\ [][Next]_vars

\* Run anchors once and then at every tick.
FairSpec == Spec /\ \A g \in Gateways : WF_vars(AnchorPending(g))

-----------------------------------------------------------------------------
(* Properties *)

\* What a gateway gets back from a commit: a row of the log, an anchor of the
\* chaincode by its id, or the transaction that has made it.
Refs == ({"tlog", "tx"} \X Nat) \cup ({"anchor"} \X Seq(Entries))

Attempts ==
    [pc : {"idle", "commit", "sequence", "insert", "endorsed", "write"},
     batch : Seq(Entries), prev : Nat, sequence : Nat, ref : Refs \cup {<<>>}]

TypeOK ==
    /\ started \in Seq(Entries) /\ posted \subseteq Range(started)
    /\ log \in Seq([root : Seq(Entries), prev : Nat])
    /\ chain \in Seq(Seq(Entries)) /\ adrift \subseteq Seq(Entries)
    /\ anchors \in Seq([root : Seq(Entries), count : Nat, ref : Refs])
    /\ backendOf \in [Gateways -> Backends \cup {"none"}]
    /\ proofs \in [Entries -> (DOMAIN anchors) \cup {NoProof}]
    /\ gateway \in [Gateways -> Attempts]
    /\ \A g \in Gateways :
        /\ Range(gateway[g].batch) \subseteq posted /\ Len(gateway[g].batch) <= BatchSize
        /\ gateway[g].prev <= Len(log) /\ gateway[g].sequence <= Len(log) + 1
        /\ gateway[g].pc = "write" => gateway[g].ref \in Refs
    /\ faults \in 0..MaxFaults

\* What a receipt refers to in the backend: a root that was committed there.
Resolves(ref, root) ==
    \/ ref[1] = "tlog" /\ ref[2] \in DOMAIN log /\ log[ref[2]].root = root
    \/ ref[1] = "tx" /\ ref[2] \in DOMAIN chain /\ chain[ref[2]] = root
    \/ ref[1] = "anchor" /\ ref[2] = root /\ AlreadyExists(root)

\* Everyone who holds a proof can check it: the anchor it belongs to covers the
\* entry, and its reference leads to that very root in the backend, although
\* the backend and the receipts are written by different transactions.
ReceiptsHold ==
    /\ \A e \in Entries : proofs[e] # NoProof =>
           e \in Range(anchors[proofs[e]].root) /\ e \in posted
    /\ \A i \in DOMAIN anchors : Resolves(anchors[i].ref, anchors[i].root)

\* Row N of the log chains the hash of row N-1.
LogLinked == \A n \in DOMAIN log : log[n].prev = n - 1

\* At most one gateway writes to the transparency log.
OneLogGateway ==
    \A g, h \in Gateways : backendOf[g] = "log" /\ backendOf[h] = "log" => g = h

\* The log is linked as long as one gateway writes to it: what was committed
\* before a crash is chained by the attempt after it.
LinkedByOne == OneLogGateway => LogLinked

Deployed == {g \in Gateways : backendOf[g] # "none"}

\* The roots that cover an entry, on either backend.
Anchorings(e) ==
    {<<"log", n>> : n \in {m \in DOMAIN log : e \in Range(log[m].root)}}
    \cup {<<"fabric", n>> : n \in {m \in DOMAIN chain : e \in Range(chain[m])}}

\* How often an entry can be anchored: anchor.go promises once.  What overlap,
\* crashes and late blocks make of it is at most one root for each gateway and
\* one for each fault: a retry never anchors an entry without an end.
DoubleAnchoringBounded ==
    \A e \in Entries : Cardinality(Anchorings(e)) <= Cardinality(Deployed) + faults

\* References to the backend: of the anchors, and of gateways about to insert one.
KnownRefs ==
    {anchors[i].ref : i \in DOMAIN anchors}
    \cup {gateway[g].ref : g \in {h \in Gateways : gateway[h].pc = "write"}}

\* Roots in the backend that no anchor refers to, nor will.
LostRoots ==
    {<<"log", n>> : n \in {m \in DOMAIN log : <<"tlog", m>> \notin KnownRefs}}
    \cup {<<"fabric", n>> : n \in {m \in DOMAIN chain :
            <<"tx", m>> \notin KnownRefs /\ <<"anchor", chain[m]>> \notin KnownRefs}}

\* Backend and database are reconciled up to the faults: each root that nothing
\* in the database refers to was lost by a crash or an error of its own.
LostRootsExplained == Cardinality(LostRoots) <= faults

\* No entry is covered by two roots on the chain.
AnchoredOnce ==
    \A i, j \in DOMAIN chain : Range(chain[i]) \cap Range(chain[j]) # {} => i = j

\* Every posted entry is anchored in the end, also when it became visible after
\* younger ones.
EveryEntryAnchored == \A e \in Entries : e \in posted ~> proofs[e] # NoProof
=============================================================================
