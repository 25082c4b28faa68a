--------------------------- MODULE AnchoringProofs ---------------------------
(***************************************************************************)
(* Proofs about Anchoring, for every number of gateways, entries, faults   *)
(* and every size of a batch: a receipt leads to its root, one gateway     *)
(* keeps the log linked, and roots that nothing refers to, or that cover   *)
(* an entry again, are no more than the faults and gateways account for.   *)
(***************************************************************************)
EXTENDS Anchoring, CollectionProofs

-----------------------------------------------------------------------------
(* Types. *)

\* What is loaded are posted entries.
LEMMA UnanchoredType ==
    ASSUME TypeOK
    PROVE  /\ Unanchored \in Seq(Entries)
           /\ Unanchored \in Seq(posted)
<1> DEFINE pending == {e \in posted : proofs[e] = NoProof}
<1>1. Unanchored \in Seq(Entries \cap pending)
  BY FilterType DEF TypeOK, Unanchored
<1> QED BY <1>1, SeqMonotonic

\* What TypeOK says of an attempt besides its fields, when these entries are
\* posted and the log has this length.
Sound(a, entries, length) ==
    /\ Range(a.batch) \subseteq entries /\ Len(a.batch) <= BatchSize
    /\ a.prev <= length /\ a.sequence <= length + 1
    /\ a.pc = "write" => a.ref \in Refs

\* An attempt that has not begun.
LEMMA IdleFacts == Idle \in Attempts /\ (TypeOK => Sound(Idle, posted, Len(log)))
<1>1. Idle \in Attempts
  BY DEF Idle, Attempts, Genesis
<1>2. ASSUME TypeOK PROVE Sound(Idle, posted, Len(log))
  <2>1. Len(log) \in Nat /\ BatchSize \in Nat
    BY AnchoringAssumption DEF TypeOK
  <2> QED BY <2>1 DEF Sound, Idle, Genesis, Range
<1> QED BY <1>1, <1>2

\* The gateways after a step.
SoundNext ==
    /\ gateway' \in [Gateways -> Attempts]
    /\ \A h \in Gateways : Sound(gateway'[h], posted', Len(log'))

\* Attempts stay sound when entries are posted and the log grows.
LEMMA SoundStays ==
    ASSUME TypeOK, NEW g \in Gateways,
           \E a \in Attempts : /\ Sound(a, posted, Len(log))
                               /\ gateway' = [gateway EXCEPT ![g] = a],
           posted \subseteq posted', Len(log) <= Len(log'), Len(log') \in Nat
    PROVE  SoundNext
<1>0. PICK a \in Attempts : /\ Sound(a, posted, Len(log))
                            /\ gateway' = [gateway EXCEPT ![g] = a]
  OBVIOUS
<1>1. gateway' \in [Gateways -> Attempts]
  BY <1>0 DEF TypeOK
<1>2. ASSUME NEW h \in Gateways PROVE Sound(gateway'[h], posted', Len(log'))
  <2>1. gateway'[h] \in Attempts /\ Sound(gateway'[h], posted, Len(log))
    BY <1>0 DEF TypeOK, Sound
  <2>2. Len(log) \in Nat /\ gateway'[h].prev \in Nat /\ gateway'[h].sequence \in Nat
    <3>1. Len(log) \in Nat
      BY DEF TypeOK
    <3> QED BY <2>1, <3>1 DEF Attempts
  <2>3. gateway'[h].prev <= Len(log') /\ gateway'[h].sequence <= Len(log') + 1
    BY <2>1, <2>2 DEF Sound
  <2>4. Range(gateway'[h].batch) \subseteq posted' /\ Len(gateway'[h].batch) <= BatchSize
    BY <2>1 DEF Sound
  <2> QED BY <2>1, <2>3, <2>4 DEF Sound
<1> QED BY <1>1, <1>2 DEF SoundNext

\* Every step keeps the types; whatever a gateway is in the middle of, it has a
\* batch of posted entries, and read no more of the log than there is.
LEMMA AnchoringTypeStep == TypeOK /\ [Next]_vars => TypeOK'
<1> SUFFICES ASSUME TypeOK, [Next]_vars
             PROVE  TypeOK'
  OBVIOUS
<1> USE AnchoringAssumption DEF journal, backend, receipts
<1>t. /\ Len(log) \in Nat /\ Len(chain) \in Nat /\ Len(anchors) \in Nat
      /\ \A g \in Gateways : gateway[g] \in Attempts /\ Sound(gateway[g], posted, Len(log))
  BY DEF TypeOK, Sound
<1>1. ASSUME NEW e \in Entries, BeginPosting(e) PROVE TypeOK'
  <2>1. started' \in Seq(Entries) /\ Range(started') = Range(started) \cup {e}
    BY <1>1, Appended, RangeAppended DEF BeginPosting, TypeOK
  <2>2. UNCHANGED <<posted, log, chain, adrift, anchors, proofs, backendOf, gateway, faults>>
    BY <1>1 DEF BeginPosting
  <2> QED BY <2>1, <2>2 DEF TypeOK
<1>2. ASSUME NEW e \in Entries, CommitPosting(e) PROVE TypeOK'
  BY <1>2 DEF CommitPosting, TypeOK
<1>3. ASSUME NEW g \in Gateways, LoadUnanchored(g) PROVE TypeOK'
  <2> DEFINE n == Min({BatchSize, Len(Unanchored)})
  <2> DEFINE batch == SubSeq(Unanchored, 1, n)
  <2>1. n \in Nat /\ n <= BatchSize /\ n <= Len(Unanchored)
    BY MinOfTwo, UnanchoredType
  <2>2. batch \in Seq(Entries) /\ batch \in Seq(posted) /\ Len(batch) <= BatchSize
    <3> HIDE DEF n
    <3>1. 1 \in Int /\ n \in Int
      BY <2>1
    <3>2. /\ \A i \in 1..n : Unanchored[i] \in Entries
          /\ \A i \in 1..n : Unanchored[i] \in posted
      BY <2>1, UnanchoredType, ElementOfSeq
    <3>3. batch \in Seq(Entries)
      BY <3>1, <3>2, SubSeqProperties, Zenon
    <3>5. Len(batch) <= BatchSize
      BY <2>1, <3>2, SubSeqProperties
    <3>4. batch \in Seq(posted)
      BY <3>1, <3>2, SubSeqProperties, Zenon
    <3> HIDE DEF batch
    <3> QED BY <3>3, <3>4, <3>5
  <2>3. Range(batch) \subseteq posted
    BY <2>2, RangeOfSeq
  <2> DEFINE a == [gateway[g] EXCEPT !.pc = "commit", !.batch = batch]
  <2>4. gateway' = [gateway EXCEPT ![g] = a]
    BY <1>3 DEF LoadUnanchored
  <2> HIDE DEF n, batch
  <2>5. a \in Attempts /\ Sound(a, posted, Len(log))
    <3>1. /\ a \in Attempts /\ a.pc = "commit" /\ a.batch = batch
          /\ a.prev = gateway[g].prev /\ a.sequence = gateway[g].sequence
      BY <1>t, <2>2 DEF Attempts
    <3> HIDE DEF a
    <3> QED BY <1>t, <2>2, <2>3, <3>1 DEF Sound
  <2>6. UNCHANGED <<started, posted, log, chain, adrift, anchors, proofs, backendOf, faults>>
    BY <1>3 DEF LoadUnanchored
  <2> HIDE DEF a
  <2>7. SoundNext
    <3>1. posted \subseteq posted' /\ Len(log) <= Len(log') /\ Len(log') \in Nat
      BY <1>t, <2>6
    <3> QED BY <2>4, <2>5, <3>1, SoundStays, Zenon
  <2> QED BY <2>6, <2>7 DEF TypeOK, Sound, SoundNext
<1>4. ASSUME NEW g \in Gateways, ReadPrev(g) PROVE TypeOK'
  <2> DEFINE a == [gateway[g] EXCEPT !.pc = "sequence", !.prev = LastRow]
  <2>1. LastRow \in Nat /\ LastRow <= Len(log)
    BY <1>t DEF LastRow, Genesis
  <2>2. a \in Attempts /\ Sound(a, posted, Len(log))
    <3>1. /\ a \in Attempts /\ a.pc = "sequence" /\ a.batch = gateway[g].batch
          /\ a.prev = LastRow /\ a.sequence = gateway[g].sequence
      BY <1>t, <2>1 DEF Attempts
    <3> HIDE DEF a
    <3> QED BY <1>t, <2>1, <3>1 DEF Sound
  <2>3. /\ gateway' = [gateway EXCEPT ![g] = a]
        /\ UNCHANGED <<started, posted, log, chain, adrift, anchors, proofs, backendOf, faults>>
    BY <1>4 DEF ReadPrev
  <2> HIDE DEF a
  <2>4. SoundNext
    <3>1. posted \subseteq posted' /\ Len(log) <= Len(log') /\ Len(log') \in Nat
      BY <1>t, <2>3
    <3> QED BY <2>2, <2>3, <3>1, SoundStays, Zenon
  <2> QED BY <2>3, <2>4 DEF TypeOK, Sound, SoundNext
<1>5. ASSUME NEW g \in Gateways, ReadSequence(g) PROVE TypeOK'
  <2> DEFINE next == Len(log) + 1
  <2> DEFINE a == [gateway[g] EXCEPT !.pc = "insert", !.sequence = next]
  <2>1. next \in Nat /\ next <= Len(log) + 1
    BY <1>t
  <2>2. a \in Attempts /\ Sound(a, posted, Len(log))
    <3>1. /\ a \in Attempts /\ a.pc = "insert" /\ a.batch = gateway[g].batch
          /\ a.prev = gateway[g].prev /\ a.sequence = next
      <4> HIDE DEF next
      <4> QED BY <1>t, <2>1 DEF Attempts
    <3> HIDE DEF a, next
    <3> QED BY <1>t, <2>1, <3>1 DEF Sound
  <2>3. /\ gateway' = [gateway EXCEPT ![g] = a]
        /\ UNCHANGED <<started, posted, log, chain, adrift, anchors, proofs, backendOf, faults>>
    BY <1>5 DEF ReadSequence
  <2> HIDE DEF a
  <2>4. SoundNext
    <3>1. posted \subseteq posted' /\ Len(log) <= Len(log') /\ Len(log') \in Nat
      BY <1>t, <2>3
    <3> QED BY <2>2, <2>3, <3>1, SoundStays, Zenon
  <2> QED BY <2>3, <2>4 DEF TypeOK, Sound, SoundNext
<1>6. ASSUME NEW g \in Gateways, GiveUp(g),
             UNCHANGED <<started, posted, log, chain, anchors, proofs, backendOf>>,
             adrift' \subseteq Seq(Entries), faults' \in 0..MaxFaults
      PROVE  TypeOK'
  <2>1. SoundNext
    <3>1. posted \subseteq posted' /\ Len(log) <= Len(log') /\ Len(log') \in Nat
      BY <1>t, <1>6
    <3>2. gateway' = [gateway EXCEPT ![g] = Idle]
      BY <1>6 DEF GiveUp
    <3> QED BY <3>1, <3>2, IdleFacts, SoundStays, Zenon
  <2> QED BY <1>6, <2>1 DEF TypeOK, Sound, SoundNext
<1>7. ASSUME NEW g \in Gateways, NEW ref \in Refs, Committed(g, ref),
             log' \in Seq([root : Seq(Entries), prev : Nat]), Len(log) <= Len(log'),
             chain' \in Seq(Seq(Entries)),
             UNCHANGED <<started, posted, adrift, anchors, proofs, backendOf, faults>>
      PROVE  TypeOK'
  <2> DEFINE a == [gateway[g] EXCEPT !.pc = "write", !.ref = ref]
  <2>1. a \in Attempts /\ Sound(a, posted, Len(log))
    <3>1. /\ a \in Attempts /\ a.pc = "write" /\ a.batch = gateway[g].batch
          /\ a.prev = gateway[g].prev /\ a.sequence = gateway[g].sequence /\ a.ref = ref
      BY <1>t DEF Attempts
    <3> HIDE DEF a
    <3> QED BY <1>t, <3>1 DEF Sound
  <2>2. gateway' = [gateway EXCEPT ![g] = a]
    BY <1>7 DEF Committed
  <2> HIDE DEF a
  <2>3. SoundNext
    <3>1. posted \subseteq posted' /\ Len(log) <= Len(log') /\ Len(log') \in Nat
      BY <1>t, <1>7
    <3> QED BY <2>1, <2>2, <3>1, SoundStays, Zenon
  <2> QED BY <1>7, <2>3 DEF TypeOK, Sound, SoundNext
<1>8. ASSUME NEW g \in Gateways, InsertRow(g) PROVE TypeOK'
  <2>1. CASE gateway[g].sequence = Len(log) + 1 /\ log' = Append(log, NewRow(g))
             /\ Committed(g, <<"tlog", gateway[g].sequence>>)
    <3>1. NewRow(g) \in [root : Seq(Entries), prev : Nat]
      BY <1>t DEF NewRow, Root, Attempts
    <3>2. log' \in Seq([root : Seq(Entries), prev : Nat]) /\ Len(log) <= Len(log')
      BY <1>t, <2>1, <3>1, Appended DEF TypeOK
    <3>3. <<"tlog", gateway[g].sequence>> \in Refs
      BY <1>t DEF Refs, Attempts
    <3>4. UNCHANGED <<started, posted, chain, adrift, anchors, proofs, backendOf, faults>>
      BY <1>8 DEF InsertRow
    <3>5. chain' \in Seq(Seq(Entries))
      BY <3>4 DEF TypeOK
    <3> QED BY <1>7, <2>1, <3>2, <3>3, <3>4, <3>5
  <2>2. CASE GiveUp(g) /\ UNCHANGED log
    <3>1. UNCHANGED <<started, posted, chain, adrift, anchors, proofs, backendOf, faults>>
      BY <1>8 DEF InsertRow
    <3>2. adrift' \subseteq Seq(Entries) /\ faults' \in 0..MaxFaults
      BY <3>1 DEF TypeOK
    <3> QED BY <1>6, <2>2, <3>1, <3>2
  <2> QED BY <1>8, <2>1, <2>2 DEF InsertRow
<1>9. ASSUME NEW g \in Gateways, Endorse(g) PROVE TypeOK'
  <2>1. UNCHANGED <<started, posted, log, chain, adrift, anchors, proofs, backendOf, faults>>
    BY <1>9 DEF Endorse
  <2>2. CASE AlreadyExists(Root(g))
    <3>1. <<"anchor", Root(g)>> \in Refs /\ Committed(g, <<"anchor", Root(g)>>)
      BY <1>t, <1>9, <2>2 DEF Endorse, Refs, Root, Attempts
    <3>2. log' \in Seq([root : Seq(Entries), prev : Nat]) /\ chain' \in Seq(Seq(Entries))
      BY <2>1 DEF TypeOK
    <3> QED BY <1>t, <1>7, <2>1, <3>1, <3>2
  <2>3. CASE ~AlreadyExists(Root(g))
    <3> DEFINE a == [gateway[g] EXCEPT !.pc = "endorsed"]
    <3>1. a \in Attempts /\ Sound(a, posted, Len(log))
      <4>1. /\ a \in Attempts /\ a.pc = "endorsed" /\ a.batch = gateway[g].batch
            /\ a.prev = gateway[g].prev /\ a.sequence = gateway[g].sequence
        BY <1>t DEF Attempts
      <4> HIDE DEF a
      <4> QED BY <1>t, <4>1 DEF Sound
    <3>2. gateway' = [gateway EXCEPT ![g] = a]
      BY <1>9, <2>3 DEF Endorse
    <3> HIDE DEF a
    <3>3. SoundNext
      <4>1. posted \subseteq posted' /\ Len(log) <= Len(log') /\ Len(log') \in Nat
        BY <1>t, <2>1
      <4> QED BY <3>1, <3>2, <4>1, SoundStays, Zenon
    <3> QED BY <2>1, <3>3 DEF TypeOK, Sound, SoundNext
  <2> QED BY <2>2, <2>3
<1>10. ASSUME NEW g \in Gateways, CommitBlock(g) PROVE TypeOK'
  <2>1. UNCHANGED <<started, posted, log, adrift, anchors, proofs, backendOf, faults>>
    BY <1>10 DEF CommitBlock
  <2>2. CASE AlreadyExists(Root(g))
    <3>1. GiveUp(g) /\ UNCHANGED chain
      BY <1>10, <2>2 DEF CommitBlock, Block
    <3>2. adrift' \subseteq Seq(Entries) /\ faults' \in 0..MaxFaults
      BY <2>1 DEF TypeOK
    <3> QED BY <1>6, <2>1, <3>1, <3>2
  <2>3. CASE ~AlreadyExists(Root(g))
    <3>1. chain' = Append(chain, Root(g)) /\ Committed(g, <<"tx", Len(chain) + 1>>)
      BY <1>10, <2>3 DEF CommitBlock, Block
    <3>2. chain' \in Seq(Seq(Entries))
      BY <1>t, <3>1, Appended DEF TypeOK, Root, Attempts
    <3>3. <<"tx", Len(chain) + 1>> \in Refs
      BY <1>t DEF Refs
    <3>4. log' \in Seq([root : Seq(Entries), prev : Nat]) /\ Len(log) <= Len(log')
      BY <1>t, <2>1 DEF TypeOK
    <3> QED BY <1>7, <2>1, <3>1, <3>2, <3>3, <3>4
  <2> QED BY <2>2, <2>3
<1>11. ASSUME NEW g \in Gateways, WriteProofs(g) PROVE TypeOK'
  <2> DEFINE row == [root |-> Root(g), count |-> Len(Root(g)), ref |-> gateway[g].ref]
  <2>1. row \in [root : Seq(Entries), count : Nat, ref : Refs]
    <3>1. Root(g) \in Seq(Entries) /\ Len(Root(g)) \in Nat /\ gateway[g].ref \in Refs
      BY <1>t, <1>11 DEF WriteProofs, Root, Attempts, Sound
    <3> QED BY <3>1
  <2>2. /\ anchors' \in Seq([root : Seq(Entries), count : Nat, ref : Refs])
        /\ DOMAIN anchors \subseteq DOMAIN anchors' /\ Len(anchors) + 1 \in DOMAIN anchors'
    <3>1. anchors' = Append(anchors, row)
      BY <1>11 DEF WriteProofs
    <3> HIDE DEF row
    <3>2. anchors \in Seq([root : Seq(Entries), count : Nat, ref : Refs])
      BY DEF TypeOK
    <3>3. anchors' \in Seq([root : Seq(Entries), count : Nat, ref : Refs])
      BY <2>1, <3>1, <3>2, Appended
    <3>4. DOMAIN anchors' = 1..Len(anchors) + 1 /\ DOMAIN anchors = 1..Len(anchors)
      BY <2>1, <3>1, <3>2, Appended
    <3> QED BY <1>t, <3>3, <3>4
  <2>3. proofs' \in [Entries -> (DOMAIN anchors') \cup {NoProof}]
    BY <1>11, <2>2 DEF WriteProofs, Proven, TypeOK
  <2>4. UNCHANGED <<started, posted, log, chain, adrift, backendOf, faults>>
    BY <1>11 DEF WriteProofs
  <2>5. SoundNext
    <3>1. posted \subseteq posted' /\ Len(log) <= Len(log') /\ Len(log') \in Nat
      BY <1>t, <2>4
    <3>2. gateway' = [gateway EXCEPT ![g] = Idle]
      BY <1>11 DEF WriteProofs
    <3> QED BY <3>1, <3>2, IdleFacts, SoundStays, Zenon
  <2> QED BY <2>2, <2>3, <2>4, <2>5 DEF TypeOK, Sound, SoundNext
<1>12. ASSUME NEW g \in Gateways, Fault(g) PROVE TypeOK'
  <2>1. faults' \in 0..MaxFaults
    BY <1>12 DEF Fault, TypeOK
  <2>2. adrift' \subseteq Seq(Entries)
    BY <1>12, <1>t DEF Fault, TypeOK, Root, Attempts
  <2> QED BY <1>6, <1>12, <2>1, <2>2 DEF Fault
<1>13. ASSUME NEW root \in adrift, LateBlock(root) PROVE TypeOK'
  <2>1. chain \in Seq(Seq(Entries)) /\ root \in Seq(Entries)
    BY DEF TypeOK
  <2>2. chain' \in Seq(Seq(Entries))
    BY <1>13, <2>1, Appended DEF LateBlock, Block
  <2>3. /\ adrift' \subseteq Seq(Entries)
        /\ UNCHANGED <<started, posted, log, anchors, proofs, backendOf, gateway, faults>>
    BY <1>13 DEF LateBlock, TypeOK
  <2> QED BY <2>2, <2>3 DEF TypeOK
<1>14. CASE UNCHANGED vars
  BY <1>14 DEF vars, TypeOK
<1> QED
  BY <1>1, <1>2, <1>3, <1>4, <1>5, <1>8, <1>9, <1>10, <1>11, <1>12, <1>13, <1>14
     DEF Next, AnchorPending

\* The types hold at first.
LEMMA AnchoringTypeInit == Init => TypeOK
<1> SUFFICES ASSUME Init PROVE TypeOK
  OBVIOUS
<1>1. gateway \in [Gateways -> Attempts] /\ \A g \in Gateways : gateway[g] = Idle
  BY IdleFacts DEF Init
<1>2. Range(Idle.batch) = {} /\ Len(Idle.batch) = 0 /\ Idle.prev = 0 /\ Idle.sequence = 0
      /\ Idle.pc = "idle"
  BY DEF Idle, Genesis, Range
<1>3. /\ started \in Seq(Entries) /\ posted \subseteq Range(started)
      /\ log = <<>> /\ chain = <<>> /\ adrift = {} /\ anchors = <<>>
      /\ backendOf \in [Gateways -> Backends \cup {"none"}]
      /\ proofs \in [Entries -> (DOMAIN anchors) \cup {NoProof}]
      /\ faults \in 0..MaxFaults
  BY AnchoringAssumption DEF Init
<1>4. \A g \in Gateways : Sound(gateway[g], posted, Len(log))
  <2>1. BatchSize \in Nat /\ Len(log) = 0
    BY <1>3, AnchoringAssumption
  <2> QED BY <1>1, <1>2, <2>1 DEF Sound
<1>5. log \in Seq([root : Seq(Entries), prev : Nat]) /\ chain \in Seq(Seq(Entries))
      /\ anchors \in Seq([root : Seq(Entries), count : Nat, ref : Refs])
  BY <1>3
<1> QED BY <1>1, <1>3, <1>4, <1>5 DEF TypeOK, Sound

\* The variables of gateways and backends keep their types; what a gateway works
\* on are posted entries, no more than a batch of them.
THEOREM AnchoringTypeCorrect == Spec => []TypeOK
BY AnchoringTypeInit, AnchoringTypeStep, PTL DEF Spec

-----------------------------------------------------------------------------
(* The backends only grow. *)

\* The sequence t is s, or longer.
Extends(s, t) == DOMAIN s \subseteq DOMAIN t /\ \A n \in DOMAIN s : t[n] = s[n]

\* What was committed to the log or the chain stays where it is.
LEMMA BackendGrows ==
    TypeOK /\ [Next]_vars =>
        Extends(log, log') /\ Extends(chain, chain')
<1> SUFFICES ASSUME TypeOK, [Next]_vars
             PROVE  Extends(log, log') /\ Extends(chain, chain')
  OBVIOUS
<1> DEFINE Row == [root : Seq(Entries), prev : Nat]
<1>1. \/ log' = log
      \/ \E g \in Gateways : log' = Append(log, NewRow(g))
  BY DEF Next, AnchorPending, BeginPosting, CommitPosting, LoadUnanchored, ReadPrev, ReadSequence,
         InsertRow, Endorse, CommitBlock, WriteProofs, Fault, LateBlock, vars, backend
<1>2. \/ chain' = chain
      \/ \E root \in Seq(Entries) : chain' = Append(chain, root)
  <2>1. adrift \subseteq Seq(Entries) /\ \A g \in Gateways : Root(g) \in Seq(Entries)
    BY DEF TypeOK, Attempts, Root
  <2>2. \/ chain' = chain
        \/ \E g \in Gateways : Block(Root(g))
        \/ \E root \in adrift : Block(root)
    BY DEF Next, AnchorPending, BeginPosting, CommitPosting, LoadUnanchored, ReadPrev, ReadSequence,
           InsertRow, Endorse, CommitBlock, WriteProofs, Fault, LateBlock, vars, backend
  <2> QED BY <2>1, <2>2 DEF Block
<1>3. log \in Seq(Row) /\ chain \in Seq(Seq(Entries))
  BY DEF TypeOK
<1>4. \A g \in Gateways : NewRow(g) \in Row
  BY DEF TypeOK, Attempts, NewRow, Root
<1>5. Extends(log, log')
  <2>1. CASE log' = log
    BY <2>1 DEF Extends
  <2>2. ASSUME NEW g \in Gateways, log' = Append(log, NewRow(g))
        PROVE  Extends(log, log')
    <3> HIDE DEF Row
    <3> QED BY <1>3, <1>4, <2>2, Appended DEF Extends
  <2> QED BY <1>1, <2>1, <2>2
<1>6. Extends(chain, chain')
  <2>1. CASE chain' = chain
    BY <2>1 DEF Extends
  <2>2. ASSUME NEW root \in Seq(Entries), chain' = Append(chain, root)
        PROVE  Extends(chain, chain')
    BY <1>3, <2>2, Appended DEF Extends
  <2> QED BY <1>2, <2>1, <2>2
<1> QED BY <1>5, <1>6

-----------------------------------------------------------------------------
(* A receipt leads to its root. *)

\* Resolves, as a function of the log and the chain.
Leads(ref, root, l, c) ==
    \/ ref[1] = "tlog" /\ ref[2] \in DOMAIN l /\ l[ref[2]].root = root
    \/ ref[1] = "tx" /\ ref[2] \in DOMAIN c /\ c[ref[2]] = root
    \/ ref[1] = "anchor" /\ ref[2] = root /\ \E n \in DOMAIN c : c[n] = root

\* What has been committed is found again after more of it.
LEMMA LeadsStays ==
    ASSUME NEW ref, NEW root, NEW l, NEW l2, NEW c, NEW c2,
           Leads(ref, root, l, c), Extends(l, l2), Extends(c, c2)
    PROVE  Leads(ref, root, l2, c2)
BY DEF Leads, Extends

\* A gateway that is about to write the receipt has a reference to its root.
PendingLeads ==
    \A g \in Gateways :
        gateway[g].pc = "write" => Leads(gateway[g].ref, gateway[g].batch, log, chain)

AnchorsLead == \A i \in DOMAIN anchors : Leads(anchors[i].ref, anchors[i].root, log, chain)

ProofsCover ==
    \A e \in Entries : proofs[e] # NoProof => e \in Range(anchors[proofs[e]].root) /\ e \in posted

\* ReceiptsHold and what makes it inductive: a commit and the receipt of it are
\* two steps, between which the reference is only in the memory of the gateway.
ReceiptInv == TypeOK /\ PendingLeads /\ AnchorsLead /\ ProofsCover

\* The step of one gateway to an attempt that is not writing, or has a reference
\* that leads to its batch.
LEMMA PendingStep ==
    ASSUME TypeOK, PendingLeads, Extends(log, log'), Extends(chain, chain'),
           NEW g \in Gateways,
           \E a \in Attempts : /\ gateway' = [gateway EXCEPT ![g] = a]
                               /\ a.pc = "write" => Leads(a.ref, a.batch, log', chain')
    PROVE  PendingLeads'
<1> PICK a \in Attempts : /\ gateway' = [gateway EXCEPT ![g] = a]
                          /\ a.pc = "write" => Leads(a.ref, a.batch, log', chain')
  OBVIOUS
<1> SUFFICES ASSUME NEW h \in Gateways, gateway'[h].pc = "write"
             PROVE  Leads(gateway'[h].ref, gateway'[h].batch, log', chain')
  BY DEF PendingLeads
<1>1. CASE h = g
  BY <1>1 DEF TypeOK
<1>2. CASE h # g
  <2>1. gateway'[h] = gateway[h]
    BY <1>2 DEF TypeOK
  <2> QED BY <2>1, LeadsStays DEF PendingLeads
<1> QED BY <1>1, <1>2

\* Every step keeps PendingLeads.
LEMMA PendingNext == TypeOK /\ PendingLeads /\ [Next]_vars => PendingLeads'
<1> SUFFICES ASSUME TypeOK, PendingLeads, [Next]_vars
             PROVE  PendingLeads'
  OBVIOUS
<1>g. Extends(log, log') /\ Extends(chain, chain')
  BY BackendGrows
<1>t. /\ Len(log) \in Nat /\ Len(chain) \in Nat
      /\ log \in Seq([root : Seq(Entries), prev : Nat]) /\ chain \in Seq(Seq(Entries))
      /\ \A g \in Gateways : gateway[g] \in Attempts
  BY DEF TypeOK
<1>1. CASE UNCHANGED gateway
  BY <1>1, <1>g, LeadsStays DEF PendingLeads
<1>2. ASSUME NEW g \in Gateways, GiveUp(g) PROVE PendingLeads'
  <2>1. Idle.pc # "write"
    BY DEF Idle
  <2> QED BY <1>2, <1>g, <2>1, IdleFacts, PendingStep DEF GiveUp
<1>3. ASSUME NEW g \in Gateways,
             \E a \in Attempts : a.pc # "write" /\ gateway' = [gateway EXCEPT ![g] = a]
      PROVE  PendingLeads'
  BY <1>3, <1>g, PendingStep
<1>4. ASSUME NEW g \in Gateways, NEW ref \in Refs, Committed(g, ref),
             Leads(ref, Root(g), log', chain')
      PROVE  PendingLeads'
  <2> DEFINE a == [gateway[g] EXCEPT !.pc = "write", !.ref = ref]
  <2>1. a \in Attempts /\ a.ref = ref /\ a.batch = Root(g)
    BY <1>t DEF Attempts, Root
  <2>2. gateway' = [gateway EXCEPT ![g] = a]
    BY <1>4 DEF Committed
  <2> HIDE DEF a
  <2> QED BY <1>4, <1>g, <2>1, <2>2, PendingStep
<1>5. ASSUME NEW g \in Gateways, LoadUnanchored(g) PROVE PendingLeads'
  <2> DEFINE batch == SubSeq(Unanchored, 1, Min({BatchSize, Len(Unanchored)}))
  <2> DEFINE a == [gateway[g] EXCEPT !.pc = "commit", !.batch = batch]
  <2>1. gateway' = [gateway EXCEPT ![g] = a]
    BY <1>5 DEF LoadUnanchored
  <2> HIDE DEF batch
  <2>2. gateway'[g] = a /\ gateway'[g] \in Attempts
    BY <1>5, <1>t, <2>1, AnchoringTypeStep DEF TypeOK
  <2>3. a.pc # "write"
    BY <1>t DEF Attempts
  <2> HIDE DEF a
  <2> QED BY <1>3, <2>1, <2>2, <2>3
<1>6. ASSUME NEW g \in Gateways, ReadPrev(g) PROVE PendingLeads'
  <2> DEFINE a == [gateway[g] EXCEPT !.pc = "sequence", !.prev = LastRow]
  <2>1. gateway' = [gateway EXCEPT ![g] = a]
    BY <1>6 DEF ReadPrev
  <2>2. LastRow \in Nat
    BY <1>t DEF LastRow, Genesis
  <2>3. a \in Attempts /\ a.pc # "write"
    BY <1>t, <2>2 DEF Attempts
  <2> HIDE DEF a
  <2> QED BY <1>3, <2>1, <2>3
<1>7. ASSUME NEW g \in Gateways, ReadSequence(g) PROVE PendingLeads'
  <2> DEFINE next == Len(log) + 1
  <2> DEFINE a == [gateway[g] EXCEPT !.pc = "insert", !.sequence = next]
  <2>1. gateway' = [gateway EXCEPT ![g] = a]
    BY <1>7 DEF ReadSequence
  <2>2. next \in Nat
    BY <1>t
  <2> HIDE DEF next
  <2>3. a \in Attempts /\ a.pc # "write"
    BY <1>t, <2>2 DEF Attempts
  <2> HIDE DEF a
  <2> QED BY <1>3, <2>1, <2>3
<1>8. ASSUME NEW g \in Gateways, InsertRow(g) PROVE PendingLeads'
  <2> DEFINE n == Len(log) + 1
  <2>1. CASE gateway[g].sequence = n /\ log' = Append(log, NewRow(g))
             /\ Committed(g, <<"tlog", gateway[g].sequence>>)
    <3>1. NewRow(g) \in [root : Seq(Entries), prev : Nat] /\ NewRow(g).root = Root(g)
      BY <1>t DEF NewRow, Root, Attempts
    <3>2. n \in DOMAIN log' /\ log'[n] = NewRow(g)
      <4> DEFINE Row == [root : Seq(Entries), prev : Nat]
      <4>1. log \in Seq(Row) /\ NewRow(g) \in Row
        BY <1>t, <3>1
      <4> HIDE DEF Row
      <4> QED BY <1>t, <2>1, <4>1, Appended
    <3>3. <<"tlog", n>> \in Refs
      BY <1>t DEF Refs
    <3>4. Leads(<<"tlog", n>>, Root(g), log', chain')
      BY <3>1, <3>2 DEF Leads
    <3> QED BY <1>4, <2>1, <3>3, <3>4
  <2> QED BY <1>2, <1>8, <2>1 DEF InsertRow
<1>9. ASSUME NEW g \in Gateways, Endorse(g) PROVE PendingLeads'
  <2>1. CASE AlreadyExists(Root(g))
    <3>1. <<"anchor", Root(g)>> \in Refs /\ Committed(g, <<"anchor", Root(g)>>)
      BY <1>t, <1>9, <2>1 DEF Endorse, Refs, Root, Attempts
    <3>2. Leads(<<"anchor", Root(g)>>, Root(g), log, chain)
      BY <2>1 DEF Leads, AlreadyExists, Range
    <3> QED BY <1>4, <1>g, <3>1, <3>2, LeadsStays
  <2>2. CASE ~AlreadyExists(Root(g))
    <3> DEFINE a == [gateway[g] EXCEPT !.pc = "endorsed"]
    <3>1. gateway' = [gateway EXCEPT ![g] = a]
      BY <1>9, <2>2 DEF Endorse
    <3>2. a \in Attempts /\ a.pc # "write"
      BY <1>t DEF Attempts
    <3> HIDE DEF a
    <3> QED BY <1>3, <3>1, <3>2
  <2> QED BY <2>1, <2>2
<1>10. ASSUME NEW g \in Gateways, CommitBlock(g) PROVE PendingLeads'
  <2> DEFINE n == Len(chain) + 1
  <2>1. CASE AlreadyExists(Root(g))
    BY <1>2, <1>10, <2>1 DEF CommitBlock
  <2>2. CASE ~AlreadyExists(Root(g))
    <3>1. chain' = Append(chain, Root(g)) /\ Committed(g, <<"tx", n>>)
      BY <1>10, <2>2 DEF CommitBlock, Block
    <3>2. n \in DOMAIN chain' /\ chain'[n] = Root(g)
      BY <1>t, <3>1, Appended DEF Root, Attempts
    <3>3. <<"tx", n>> \in Refs
      BY <1>t DEF Refs
    <3>4. Leads(<<"tx", n>>, Root(g), log', chain')
      BY <3>2 DEF Leads
    <3> QED BY <1>4, <3>1, <3>3, <3>4
  <2> QED BY <2>1, <2>2
<1>11. ASSUME NEW g \in Gateways, WriteProofs(g) PROVE PendingLeads'
  BY <1>2, <1>11 DEF WriteProofs, GiveUp
<1>12. ASSUME NEW g \in Gateways, Fault(g) PROVE PendingLeads'
  BY <1>2, <1>12 DEF Fault
<1>13. CASE \E e \in Entries : BeginPosting(e) \/ CommitPosting(e)
  BY <1>1, <1>13 DEF BeginPosting, CommitPosting
<1>14. CASE \E root \in adrift : LateBlock(root)
  BY <1>1, <1>14 DEF LateBlock
<1>15. CASE UNCHANGED vars
  BY <1>1, <1>15 DEF vars
<1> QED
  BY <1>5, <1>6, <1>7, <1>8, <1>9, <1>10, <1>11, <1>12, <1>13, <1>14, <1>15
     DEF Next, AnchorPending

\* Every step keeps ReceiptInv; the receipt takes over the reference.
LEMMA ReceiptStep == ReceiptInv /\ [Next]_vars => ReceiptInv'
<1> SUFFICES ASSUME ReceiptInv, [Next]_vars
             PROVE  ReceiptInv'
  OBVIOUS
<1>1. TypeOK' /\ PendingLeads' /\ Extends(log, log') /\ Extends(chain, chain')
  BY AnchoringTypeStep, PendingNext, BackendGrows DEF ReceiptInv
<1>2. CASE UNCHANGED receipts
  <2>1. AnchorsLead'
    BY <1>1, <1>2, LeadsStays DEF AnchorsLead, ReceiptInv, receipts
  <2>2. posted \subseteq posted'
    BY DEF Next, AnchorPending, BeginPosting, CommitPosting, LoadUnanchored, ReadPrev,
           ReadSequence, InsertRow, Endorse, CommitBlock, WriteProofs, Fault, LateBlock, vars,
           journal
  <2>3. ProofsCover'
    BY <1>2, <2>2 DEF ProofsCover, ReceiptInv, receipts
  <2> QED BY <1>1, <2>1, <2>3 DEF ReceiptInv
<1>3. ASSUME NEW g \in Gateways, WriteProofs(g) PROVE ReceiptInv'
  <2> DEFINE row == [root |-> Root(g), count |-> Len(Root(g)), ref |-> gateway[g].ref]
  <2> DEFINE Row == [root : Seq(Entries), count : Nat, ref : Refs]
  <2>1. /\ anchors' = Append(anchors, row) /\ posted' = posted
        /\ proofs' = Proven(g, Len(anchors) + 1) /\ gateway[g].pc = "write"
    BY <1>3 DEF WriteProofs, journal
  <2>2. row \in Row /\ row.root = Root(g) /\ row.ref = gateway[g].ref
    <3>1. Root(g) \in Seq(Entries) /\ Len(Root(g)) \in Nat /\ gateway[g].ref \in Refs
      BY <2>1 DEF ReceiptInv, TypeOK, Root, Attempts
    <3> QED BY <3>1
  <2>3. anchors \in Seq(Row) /\ Len(anchors) \in Nat
    BY DEF ReceiptInv, TypeOK
  <2> HIDE DEF row, Row
  <2>4. /\ DOMAIN anchors' = 1..Len(anchors) + 1 /\ DOMAIN anchors = 1..Len(anchors)
        /\ \A i \in 1..Len(anchors) : anchors'[i] = anchors[i]
        /\ anchors'[Len(anchors) + 1] = row
    BY <2>1, <2>2, <2>3, Appended
  <2>5. AnchorsLead'
    <3>1. \A i \in DOMAIN anchors : Leads(anchors'[i].ref, anchors'[i].root, log', chain')
      BY <1>1, <2>4, LeadsStays DEF ReceiptInv, AnchorsLead
    <3>2. Leads(row.ref, row.root, log', chain')
      BY <1>1, <2>1, <2>2, LeadsStays DEF ReceiptInv, PendingLeads, Root
    <3> QED BY <2>3, <2>4, <3>1, <3>2 DEF AnchorsLead
  <2>6. ProofsCover'
    <3> SUFFICES ASSUME NEW e \in Entries, proofs'[e] # NoProof
                 PROVE  e \in Range(anchors'[proofs'[e]].root) /\ e \in posted'
      BY DEF ProofsCover
    <3>1. CASE e \in Range(Root(g)) /\ proofs[e] = NoProof
      <4>1. proofs'[e] = Len(anchors) + 1
        BY <2>1, <3>1 DEF Proven
      <4>2. e \in posted
        BY <3>1 DEF ReceiptInv, TypeOK, Root
      <4> QED BY <2>1, <2>2, <2>4, <3>1, <4>1, <4>2
    <3>2. CASE ~ (e \in Range(Root(g)) /\ proofs[e] = NoProof)
      <4>1. proofs'[e] = proofs[e]
        BY <2>1, <3>2 DEF Proven
      <4>2. proofs[e] \in DOMAIN anchors
        BY <4>1 DEF ReceiptInv, TypeOK
      <4> QED BY <2>1, <2>4, <4>1, <4>2 DEF ReceiptInv, ProofsCover
    <3> QED BY <3>1, <3>2
  <2> QED BY <1>1, <2>5, <2>6 DEF ReceiptInv
<1> QED
  BY <1>2, <1>3
     DEF Next, AnchorPending, BeginPosting, CommitPosting, LoadUnanchored, ReadPrev,
         ReadSequence, InsertRow, Endorse, CommitBlock, Fault, LateBlock, vars

\* Whoever holds a proof can check it: the anchor covers the entry, which is
\* posted, and its reference leads to that root in the backend, although commit
\* and receipt are different transactions with crashes and gateways between them.
THEOREM ReceiptsAlwaysHold == Spec => []ReceiptsHold
<1>1. Init => ReceiptInv
  <2> SUFFICES ASSUME Init PROVE ReceiptInv
    OBVIOUS
  <2>1. \A g \in Gateways : gateway[g].pc = "idle"
    BY DEF Init, Idle
  <2>2. DOMAIN anchors = {} /\ \A e \in Entries : proofs[e] = NoProof
    BY DEF Init
  <2> QED BY <2>1, <2>2, AnchoringTypeInit DEF ReceiptInv, PendingLeads, AnchorsLead, ProofsCover
<1>2. ReceiptInv => ReceiptsHold
  BY DEF ReceiptInv, AnchorsLead, ProofsCover, ReceiptsHold, Leads, Resolves, AlreadyExists, Range
<1> QED BY <1>1, <1>2, ReceiptStep, PTL DEF Spec

-----------------------------------------------------------------------------
(* One gateway links the log. *)

\* Only gateways of the log are between its reads and its insert.
LogReaders ==
    \A g \in Gateways : gateway[g].pc \in {"sequence", "insert"} => backendOf[g] = "log"

\* What a gateway has read of the log is still so.
FreshReads ==
    \A g \in Gateways :
        /\ gateway[g].pc \in {"sequence", "insert"} => gateway[g].prev = Len(log)
        /\ gateway[g].pc = "insert" => gateway[g].sequence = Len(log) + 1

\* LogLinked and what makes it inductive: without another gateway of the log, the
\* two reads and the insert are as one.
LinkInv == TypeOK /\ LogReaders /\ (OneLogGateway => LogLinked /\ FreshReads)

\* The gateways that a step moves away from the log, or that it does not concern.
LEMMA LinkQuiet ==
    ASSUME LinkInv, TypeOK', log' = log, backendOf' = backendOf,
           \A g \in Gateways : gateway'[g] = gateway[g]
                              \/ gateway'[g].pc \notin {"sequence", "insert"}
    PROVE  LinkInv'
<1>1. LogReaders'
  BY DEF LinkInv, LogReaders
<1>2. ASSUME OneLogGateway' PROVE LogLinked' /\ FreshReads'
  <2>1. OneLogGateway
    BY <1>2 DEF OneLogGateway
  <2> QED BY <2>1 DEF LinkInv, LogLinked, FreshReads
<1> QED BY <1>1, <1>2 DEF LinkInv

\* Every step keeps the log linked as long as one gateway writes to it.
LEMMA LinkStep == LinkInv /\ [Next]_vars => LinkInv'
<1> SUFFICES ASSUME LinkInv, [Next]_vars
             PROVE  LinkInv'
  OBVIOUS
<1>t. TypeOK' /\ TypeOK /\ backendOf' = backendOf
  <2>1. backendOf' = backendOf
    BY DEF Next, AnchorPending, BeginPosting, CommitPosting, LoadUnanchored, ReadPrev,
           ReadSequence, InsertRow, Endorse, CommitBlock, WriteProofs, Fault, LateBlock, vars
  <2> QED BY <2>1, AnchoringTypeStep DEF LinkInv
<1>a. /\ Len(log) \in Nat /\ log \in Seq([root : Seq(Entries), prev : Nat])
      /\ gateway \in [Gateways -> Attempts]
  BY <1>t DEF TypeOK
<1>1. CASE UNCHANGED <<gateway, log>>
  BY <1>1, <1>t, LinkQuiet
<1>2. ASSUME NEW g \in Gateways, gateway'[g].pc \notin {"sequence", "insert"},
             \A h \in Gateways : h # g => gateway'[h] = gateway[h], log' = log
      PROVE  LinkInv'
  BY <1>2, <1>t, LinkQuiet
<1>3. ASSUME NEW g \in Gateways, GiveUp(g), log' = log PROVE LinkInv'
  <2>1. gateway'[g].pc = "idle" /\ \A h \in Gateways : h # g => gateway'[h] = gateway[h]
    BY <1>3, <1>a DEF GiveUp, Idle
  <2> QED BY <1>2, <1>3, <2>1
<1>4. ASSUME NEW g \in Gateways, NEW ref, Committed(g, ref), log' = log PROVE LinkInv'
  <2>1. gateway'[g].pc = "write" /\ \A h \in Gateways : h # g => gateway'[h] = gateway[h]
    BY <1>4, <1>a DEF Committed, Attempts
  <2> QED BY <1>2, <1>4, <2>1
<1>5. ASSUME NEW g \in Gateways, LoadUnanchored(g) PROVE LinkInv'
  <2>1. gateway'[g].pc = "commit" /\ \A h \in Gateways : h # g => gateway'[h] = gateway[h]
    BY <1>5, <1>a DEF LoadUnanchored, Attempts
  <2>2. log' = log
    BY <1>5 DEF LoadUnanchored, backend
  <2> QED BY <1>2, <2>1, <2>2
<1>6. ASSUME NEW g \in Gateways, ReadPrev(g) PROVE LinkInv'
  <2>1. /\ gateway'[g].pc = "sequence" /\ gateway'[g].prev = LastRow
        /\ \A h \in Gateways : h # g => gateway'[h] = gateway[h]
    BY <1>6, <1>a DEF ReadPrev, Attempts
  <2>2. LastRow = Len(log)
    BY <1>a DEF LastRow, Genesis
  <2>3. log' = log /\ backendOf[g] = "log"
    BY <1>6 DEF ReadPrev, backend
  <2>4. LogReaders'
    BY <1>t, <2>1, <2>3 DEF LinkInv, LogReaders
  <2>5. ASSUME OneLogGateway' PROVE LogLinked' /\ FreshReads'
    <3>1. OneLogGateway
      BY <1>t, <2>5 DEF OneLogGateway
    <3> QED BY <2>1, <2>2, <2>3, <3>1 DEF LinkInv, LogLinked, FreshReads
  <2> QED BY <1>t, <2>4, <2>5 DEF LinkInv
<1>7. ASSUME NEW g \in Gateways, ReadSequence(g) PROVE LinkInv'
  <2>1. /\ gateway'[g].pc = "insert" /\ gateway'[g].prev = gateway[g].prev
        /\ gateway'[g].sequence = Len(log) + 1 /\ gateway[g].pc = "sequence"
        /\ \A h \in Gateways : h # g => gateway'[h] = gateway[h]
    BY <1>7, <1>a DEF ReadSequence, Attempts
  <2>2. log' = log
    BY <1>7 DEF ReadSequence, backend
  <2>3. LogReaders'
    BY <1>t, <2>1 DEF LinkInv, LogReaders
  <2>4. ASSUME OneLogGateway' PROVE LogLinked' /\ FreshReads'
    <3>1. OneLogGateway
      BY <1>t, <2>4 DEF OneLogGateway
    <3> QED BY <2>1, <2>2, <3>1 DEF LinkInv, LogLinked, FreshReads
  <2> QED BY <1>t, <2>3, <2>4 DEF LinkInv
<1>8. ASSUME NEW g \in Gateways, InsertRow(g) PROVE LinkInv'
  <2>1. CASE log' = Append(log, NewRow(g)) /\ Committed(g, <<"tlog", gateway[g].sequence>>)
    <3> DEFINE Row == [root : Seq(Entries), prev : Nat]
    <3>1. /\ gateway'[g].pc = "write" /\ gateway[g].pc = "insert"
          /\ \A h \in Gateways : h # g => gateway'[h] = gateway[h]
      BY <1>8, <1>a, <2>1 DEF InsertRow, Committed, Attempts
    <3>2. LogReaders'
      BY <1>t, <3>1 DEF LinkInv, LogReaders
    <3>3. ASSUME OneLogGateway' PROVE LogLinked' /\ FreshReads'
      <4>1. OneLogGateway /\ backendOf[g] = "log"
        BY <1>t, <3>1, <3>3 DEF OneLogGateway, LinkInv, LogReaders
      <4>2. NewRow(g) \in Row /\ NewRow(g).prev = Len(log)
        BY <1>a, <3>1, <4>1 DEF LinkInv, FreshReads, NewRow, Root, Attempts
      <4>3. log \in Seq(Row)
        BY <1>a
      <4> HIDE DEF Row
      <4>4. /\ DOMAIN log' = 1..Len(log) + 1 /\ DOMAIN log = 1..Len(log)
            /\ \A i \in 1..Len(log) : log'[i] = log[i]
            /\ log'[Len(log) + 1] = NewRow(g)
        BY <2>1, <4>2, <4>3, Appended
      <4>5. LogLinked'
        <5>1. \A n \in DOMAIN log : log[n].prev = n - 1
          BY <4>1 DEF LinkInv, LogLinked
        <5>2. SUFFICES ASSUME NEW n \in 1..Len(log) + 1
                       PROVE  log'[n].prev = n - 1
          BY <4>4 DEF LogLinked
        <5>3. CASE n = Len(log) + 1
          BY <1>a, <4>2, <4>4, <5>3
        <5>4. CASE n \in 1..Len(log)
          BY <4>4, <5>1, <5>4
        <5> QED BY <1>a, <5>3, <5>4
      <4>6. \A h \in Gateways : gateway'[h].pc \notin {"sequence", "insert"}
        BY <3>1, <4>1 DEF LinkInv, LogReaders, OneLogGateway
      <4> QED BY <4>5, <4>6 DEF FreshReads
    <3> QED BY <1>t, <3>2, <3>3 DEF LinkInv
  <2>2. CASE GiveUp(g) /\ UNCHANGED log
    BY <1>3, <2>2
  <2> QED BY <1>8, <2>1, <2>2 DEF InsertRow
<1>9. ASSUME NEW g \in Gateways, Endorse(g) PROVE LinkInv'
  <2>1. log' = log
    BY <1>9 DEF Endorse, backend
  <2>2. CASE AlreadyExists(Root(g))
    BY <1>4, <1>9, <2>1, <2>2 DEF Endorse
  <2>3. CASE ~AlreadyExists(Root(g))
    <3>1. gateway'[g].pc = "endorsed" /\ \A h \in Gateways : h # g => gateway'[h] = gateway[h]
      BY <1>9, <1>a, <2>3 DEF Endorse, Attempts
    <3> QED BY <1>2, <2>1, <3>1
  <2> QED BY <2>2, <2>3
<1>10. ASSUME NEW g \in Gateways, CommitBlock(g) PROVE LinkInv'
  <2>1. log' = log
    BY <1>10 DEF CommitBlock
  <2> QED BY <1>3, <1>4, <1>10, <2>1 DEF CommitBlock
<1>11. ASSUME NEW g \in Gateways, WriteProofs(g) \/ Fault(g) PROVE LinkInv'
  BY <1>3, <1>11 DEF WriteProofs, Fault, GiveUp, backend
<1> QED
  BY <1>1, <1>5, <1>6, <1>7, <1>8, <1>9, <1>10, <1>11
     DEF Next, AnchorPending, BeginPosting, CommitPosting, LateBlock, vars, backend

\* Row N of the transparency log chains the hash of row N-1 when one gateway
\* writes to it, through all crashes and restarts of that gateway; with two it
\* may not.
THEOREM LogStaysLinked == Spec => []LinkedByOne
<1>1. Init => LinkInv
  <2> SUFFICES ASSUME Init PROVE LinkInv
    OBVIOUS
  <2>1. \A g \in Gateways : gateway[g].pc = "idle"
    BY DEF Init, Idle
  <2>2. DOMAIN log = {}
    BY DEF Init
  <2> QED BY <2>1, <2>2, AnchoringTypeInit DEF LinkInv, LogReaders, FreshReads, LogLinked
<1>2. LinkInv => LinkedByOne
  BY DEF LinkInv, LinkedByOne
<1> QED BY <1>1, <1>2, LinkStep, PTL DEF Spec

-----------------------------------------------------------------------------
(* Roots that the database does not know of. *)

\* An invalid block leaves the chain as it is, so a root is on it once.
OnceOnChain == IsInjective(chain)

\* Roots that nothing in the database refers to, and those that may become so.
Loose == LostRoots \cup {<<"late", root>> : root \in adrift}

\* LostRootsExplained and what makes it inductive: a transaction that is adrift
\* has cost a fault already, and a reference names one root.
LostInv == TypeOK /\ PendingLeads /\ OnceOnChain /\ AtMost(Loose, faults)

\* What a step does to the chain.
LEMMA ChainStep ==
    TypeOK /\ [Next]_vars =>
        \/ chain' = chain
        \/ \E root \in Seq(Entries) : chain' = Append(chain, root) /\ ~AlreadyExists(root)
<1> SUFFICES ASSUME TypeOK, [Next]_vars
             PROVE  \/ chain' = chain
                    \/ \E root \in Seq(Entries) :
                           chain' = Append(chain, root) /\ ~AlreadyExists(root)
  OBVIOUS
<1>1. adrift \subseteq Seq(Entries) /\ \A g \in Gateways : Root(g) \in Seq(Entries)
  BY DEF TypeOK, Attempts, Root
<1>2. \/ chain' = chain
      \/ \E g \in Gateways : Block(Root(g))
      \/ \E root \in adrift : Block(root)
  BY DEF Next, AnchorPending, BeginPosting, CommitPosting, LoadUnanchored, ReadPrev, ReadSequence,
         InsertRow, Endorse, CommitBlock, WriteProofs, Fault, LateBlock, vars, backend
<1> QED BY <1>1, <1>2 DEF Block

\* What a block appends to the chain.
LEMMA ChainAppended ==
    ASSUME TypeOK, NEW root \in Seq(Entries), chain' = Append(chain, root)
    PROVE  /\ Len(chain) \in Nat /\ DOMAIN chain = 1..Len(chain)
           /\ DOMAIN chain' = 1..Len(chain) + 1
           /\ \A n \in 1..Len(chain) : chain'[n] = chain[n]
           /\ chain'[Len(chain) + 1] = root
<1>1. chain \in Seq(Seq(Entries)) /\ Len(chain) \in Nat
  BY DEF TypeOK
<1> QED BY <1>1, Appended

\* What an insert appends to the log.
LEMMA LogAppended ==
    ASSUME TypeOK, NEW g \in Gateways, log' = Append(log, NewRow(g))
    PROVE  /\ Len(log) \in Nat /\ DOMAIN log = 1..Len(log)
           /\ DOMAIN log' = 1..Len(log) + 1
           /\ \A n \in 1..Len(log) : log'[n] = log[n]
           /\ log'[Len(log) + 1] = NewRow(g)
<1> DEFINE Row == [root : Seq(Entries), prev : Nat]
<1>1. log \in Seq(Row) /\ Len(log) \in Nat /\ NewRow(g) \in Row
  BY DEF TypeOK, NewRow, Root, Attempts
<1> HIDE DEF Row
<1> QED BY <1>1, Appended

\* A block that would repeat a root of the chain is invalid.
LEMMA OnceStep == TypeOK /\ OnceOnChain /\ [Next]_vars => OnceOnChain'
<1> SUFFICES ASSUME TypeOK, OnceOnChain, [Next]_vars
             PROVE  OnceOnChain'
  OBVIOUS
<1>1. CASE chain' = chain
  BY <1>1 DEF OnceOnChain, IsInjective
<1>2. ASSUME NEW root \in Seq(Entries), chain' = Append(chain, root), ~AlreadyExists(root)
      PROVE  OnceOnChain'
  <2>1. \A n \in DOMAIN chain : chain[n] # root
    BY <1>2 DEF AlreadyExists, Range
  <2> QED BY <1>2, <2>1, ChainAppended DEF OnceOnChain, IsInjective
<1> QED BY <1>1, <1>2, ChainStep

\* The references after a step of a gateway that inserts no anchor: one it was
\* about to insert may be gone.
LEMMA RefsStep ==
    ASSUME TypeOK, NEW g \in Gateways, NEW a, gateway' = [gateway EXCEPT ![g] = a],
           anchors' = anchors
    PROVE  /\ KnownRefs \subseteq KnownRefs'
                  \cup {r \in {gateway[g].ref} : gateway[g].pc = "write"}
           /\ a.pc = "write" => a.ref \in KnownRefs'
<1>1. gateway'[g] = a /\ \A h \in Gateways \ {g} : gateway'[h] = gateway[h]
  BY DEF TypeOK
<1>2. ASSUME NEW r \in KnownRefs
      PROVE  r \in KnownRefs' \/ (r = gateway[g].ref /\ gateway[g].pc = "write")
  <2>1. CASE \E i \in DOMAIN anchors : r = anchors[i].ref
    BY <2>1 DEF KnownRefs
  <2>2. ASSUME NEW h \in Gateways, gateway[h].pc = "write", r = gateway[h].ref, h # g
        PROVE  r \in KnownRefs'
    BY <1>1, <2>2 DEF KnownRefs
  <2> QED BY <2>1, <2>2 DEF KnownRefs
<1>3. a.pc = "write" => a.ref \in KnownRefs'
  BY <1>1 DEF KnownRefs
<1> QED BY <1>2, <1>3

\* Nothing gets loose when the backend stays as it is and no reference is lost.
LEMMA LooseStays ==
    ASSUME TypeOK, log' = log, chain' = chain, adrift' \subseteq adrift,
           KnownRefs \subseteq KnownRefs'
    PROVE  Loose' \subseteq Loose
<1>1. LostRoots' \subseteq LostRoots
  BY DEF LostRoots
<1> QED BY <1>1 DEF Loose

\* Nor by a row of the log whose number a gateway knows.
LEMMA LooseInsert ==
    ASSUME TypeOK, NEW g \in Gateways, log' = Append(log, NewRow(g)), chain' = chain,
           adrift' = adrift, KnownRefs \subseteq KnownRefs',
           <<"tlog", Len(log) + 1>> \in KnownRefs'
    PROVE  Loose' \subseteq Loose
<1>1. /\ Len(log) \in Nat /\ DOMAIN log = 1..Len(log)
      /\ DOMAIN log' = 1..Len(log) + 1
  BY LogAppended
<1>2. \A n \in DOMAIN log' : <<"tlog", n>> \notin KnownRefs' =>
          n \in DOMAIN log /\ <<"tlog", n>> \notin KnownRefs
  BY <1>1
<1>3. LostRoots' \subseteq LostRoots
  BY <1>2 DEF LostRoots
<1> QED BY <1>3 DEF Loose

\* Nor by a block whose transaction a gateway knows.
LEMMA LooseBlock ==
    ASSUME TypeOK, NEW root \in Seq(Entries), chain' = Append(chain, root), log' = log,
           adrift' \subseteq adrift, KnownRefs \subseteq KnownRefs'
    PROVE  /\ LostRoots' \subseteq LostRoots \cup {<<"fabric", Len(chain) + 1>>}
           /\ <<"tx", Len(chain) + 1>> \in KnownRefs' => Loose' \subseteq Loose
<1>1. /\ Len(chain) \in Nat /\ DOMAIN chain = 1..Len(chain)
      /\ DOMAIN chain' = 1..Len(chain) + 1
      /\ \A n \in 1..Len(chain) : chain'[n] = chain[n]
  BY ChainAppended
<1> DEFINE Unknown(n, c, refs) == <<"tx", n>> \notin refs /\ <<"anchor", c[n]>> \notin refs
<1>2. \A n \in DOMAIN chain' : Unknown(n, chain', KnownRefs') =>
          \/ n \in DOMAIN chain /\ Unknown(n, chain, KnownRefs)
          \/ n = Len(chain) + 1 /\ <<"tx", Len(chain) + 1>> \notin KnownRefs'
  <2> SUFFICES ASSUME NEW n \in DOMAIN chain', Unknown(n, chain', KnownRefs'), n # Len(chain) + 1
               PROVE  n \in DOMAIN chain /\ Unknown(n, chain, KnownRefs)
    OBVIOUS
  <2>1. n \in DOMAIN chain /\ chain'[n] = chain[n]
    BY <1>1
  <2> QED BY <2>1
<1>3. ASSUME NEW x \in LostRoots'
      PROVE  x \in LostRoots \/ (x = <<"fabric", Len(chain) + 1>>
                                 /\ <<"tx", Len(chain) + 1>> \notin KnownRefs')
  <2>1. CASE \E n \in DOMAIN log' : x = <<"log", n>> /\ <<"tlog", n>> \notin KnownRefs'
    BY <2>1 DEF LostRoots
  <2>2. ASSUME NEW n \in DOMAIN chain', x = <<"fabric", n>>, Unknown(n, chain', KnownRefs')
        PROVE  x \in LostRoots \/ (x = <<"fabric", Len(chain) + 1>>
                                   /\ <<"tx", Len(chain) + 1>> \notin KnownRefs')
    BY <1>2, <2>2 DEF LostRoots
  <2> QED BY <2>1, <2>2 DEF LostRoots
<1> QED BY <1>3 DEF Loose

\* A reference names one root: without it, one root gets loose.
LEMMA LooseForgotten ==
    ASSUME TypeOK, OnceOnChain, NEW ref \in Refs, log' = log, chain' = chain,
           adrift' = adrift, KnownRefs \subseteq KnownRefs' \cup {ref}
    PROVE  \E x : Loose' \subseteq Loose \cup {x}
<1> DEFINE Named(x) ==
        \/ \E n : x = <<"log", n>> /\ ref = <<"tlog", n>>
        \/ \E n \in DOMAIN chain : /\ x = <<"fabric", n>>
                                   /\ ref = <<"tx", n>> \/ ref = <<"anchor", chain[n]>>
<1>1. \A x \in LostRoots' : x \in LostRoots \/ Named(x)
  <2> SUFFICES ASSUME NEW x \in LostRoots', ~Named(x)
               PROVE  x \in LostRoots
    OBVIOUS
  <2>1. CASE \E n \in DOMAIN log : x = <<"log", n>> /\ <<"tlog", n>> \notin KnownRefs'
    BY <2>1 DEF LostRoots
  <2>2. CASE \E n \in DOMAIN chain :
                 /\ x = <<"fabric", n>>
                 /\ <<"tx", n>> \notin KnownRefs' /\ <<"anchor", chain[n]>> \notin KnownRefs'
    BY <2>2 DEF LostRoots
  <2> QED BY <2>1, <2>2 DEF LostRoots
<1>2. \A x, y : Named(x) /\ Named(y) => x = y
  BY DEF OnceOnChain, IsInjective
<1>3. \E x : \A y : Named(y) => y = x
  BY <1>2
<1> HIDE DEF Named
<1> QED BY <1>1, <1>3 DEF Loose

\* Every step keeps LostInv: a fault lets one root go.
LEMMA LostStep == LostInv /\ [Next]_vars => LostInv'
<1> SUFFICES ASSUME LostInv, [Next]_vars
             PROVE  LostInv'
  OBVIOUS
<1> USE DEF backend, receipts
<1>1. TypeOK /\ PendingLeads /\ OnceOnChain /\ AtMost(Loose, faults)
  BY DEF LostInv
<1>2. TypeOK' /\ PendingLeads' /\ OnceOnChain'
  BY <1>1, AnchoringTypeStep, PendingNext, OnceStep
<1>t. /\ faults \in Nat /\ gateway \in [Gateways -> Attempts]
      /\ \A g \in Gateways : Root(g) \in Seq(Entries)
      /\ adrift \subseteq Seq(Entries)
  BY <1>1, AnchoringAssumption DEF TypeOK, Attempts, Root
<1>3. CASE Loose' \subseteq Loose /\ faults' = faults
  BY <1>1, <1>2, <1>3, <1>t, BoundStays DEF LostInv
<1>4. ASSUME NEW x, Loose' \subseteq Loose \cup {x}, faults' = faults + 1 PROVE LostInv'
  BY <1>1, <1>2, <1>4, BoundGrows DEF LostInv
<1>5. CASE UNCHANGED <<log, chain, adrift, faults>> /\ KnownRefs \subseteq KnownRefs'
  BY <1>1, <1>3, <1>5, LooseStays
<1>6. CASE UNCHANGED <<log, chain, adrift, faults, anchors, gateway>>
  BY <1>5, <1>6 DEF KnownRefs
<1>7. ASSUME NEW g \in Gateways, NEW a, gateway' = [gateway EXCEPT ![g] = a],
             gateway[g].pc # "write", UNCHANGED <<log, chain, adrift, faults, anchors>>
      PROVE  LostInv'
  BY <1>1, <1>5, <1>7, RefsStep
<1>8. ASSUME NEW g \in Gateways, LoadUnanchored(g) \/ ReadPrev(g) \/ ReadSequence(g)
      PROVE  LostInv'
  <2>1. \E a : gateway' = [gateway EXCEPT ![g] = a]
    BY <1>8 DEF LoadUnanchored, ReadPrev, ReadSequence
  <2>2. gateway[g].pc # "write" /\ UNCHANGED <<log, chain, adrift, faults, anchors>>
    BY <1>8 DEF LoadUnanchored, ReadPrev, ReadSequence
  <2> QED BY <1>7, <2>1, <2>2
<1>9. ASSUME NEW g \in Gateways, NEW ref, Committed(g, ref), gateway[g].pc # "write",
             anchors' = anchors
      PROVE  KnownRefs \subseteq KnownRefs' /\ ref \in KnownRefs'
  <2> DEFINE a == [gateway[g] EXCEPT !.pc = "write", !.ref = ref]
  <2>1. gateway' = [gateway EXCEPT ![g] = a]
    BY <1>9 DEF Committed
  <2>2. a.pc = "write" /\ a.ref = ref
    BY <1>t DEF Attempts
  <2> HIDE DEF a
  <2> QED BY <1>1, <1>9, <2>1, <2>2, RefsStep
<1>10. ASSUME NEW g \in Gateways, InsertRow(g) PROVE LostInv'
  <2>1. gateway[g].pc = "insert" /\ UNCHANGED <<chain, adrift, faults, anchors>>
    BY <1>10 DEF InsertRow
  <2>2. CASE /\ log' = Append(log, NewRow(g)) /\ gateway[g].sequence = Len(log) + 1
             /\ Committed(g, <<"tlog", gateway[g].sequence>>)
    <3>1. KnownRefs \subseteq KnownRefs' /\ <<"tlog", Len(log) + 1>> \in KnownRefs'
      BY <1>9, <2>1, <2>2
    <3>2. Loose' \subseteq Loose
      BY <1>1, <2>1, <2>2, <3>1, LooseInsert
    <3> QED BY <1>3, <2>1, <3>2
  <2>3. CASE GiveUp(g) /\ UNCHANGED log
    BY <1>7, <2>1, <2>3 DEF GiveUp
  <2> QED BY <1>10, <2>2, <2>3 DEF InsertRow
<1>11. ASSUME NEW g \in Gateways, Endorse(g) PROVE LostInv'
  <2>1. gateway[g].pc = "commit" /\ UNCHANGED <<log, chain, adrift, faults, anchors>>
    BY <1>11 DEF Endorse
  <2>2. \E a : gateway' = [gateway EXCEPT ![g] = a]
    BY <1>11 DEF Endorse, Committed
  <2> QED BY <1>7, <2>1, <2>2
<1>12. ASSUME NEW g \in Gateways, CommitBlock(g) PROVE LostInv'
  <2>1. gateway[g].pc = "endorsed" /\ UNCHANGED <<log, adrift, faults, anchors>>
    BY <1>12 DEF CommitBlock
  <2>2. CASE AlreadyExists(Root(g))
    <3>1. GiveUp(g) /\ UNCHANGED chain
      BY <1>12, <2>2 DEF CommitBlock, Block
    <3> QED BY <1>7, <2>1, <3>1 DEF GiveUp
  <2>3. CASE ~AlreadyExists(Root(g))
    <3>1. chain' = Append(chain, Root(g)) /\ Committed(g, <<"tx", Len(chain) + 1>>)
      BY <1>12, <2>3 DEF CommitBlock, Block
    <3>2. KnownRefs \subseteq KnownRefs' /\ <<"tx", Len(chain) + 1>> \in KnownRefs'
      BY <1>9, <2>1, <3>1
    <3>3. Loose' \subseteq Loose
      BY <1>1, <1>t, <2>1, <3>1, <3>2, LooseBlock
    <3> QED BY <1>3, <2>1, <3>3
  <2> QED BY <2>2, <2>3
<1>13. ASSUME NEW g \in Gateways, WriteProofs(g) PROVE LostInv'
  <2> DEFINE row == [root |-> Root(g), count |-> Len(Root(g)), ref |-> gateway[g].ref]
  <2> DEFINE Row == [root : Seq(Entries), count : Nat, ref : Refs]
  <2>1. /\ gateway[g].pc = "write" /\ gateway' = [gateway EXCEPT ![g] = Idle]
        /\ anchors' = Append(anchors, row) /\ UNCHANGED <<log, chain, adrift, faults>>
    BY <1>13 DEF WriteProofs
  <2>2. row \in Row /\ row.ref = gateway[g].ref
    <3>1. Len(Root(g)) \in Nat /\ gateway[g].ref \in Refs
      BY <1>1, <1>t, <2>1 DEF TypeOK
    <3> QED BY <1>t, <3>1
  <2>3. anchors \in Seq(Row) /\ Len(anchors) \in Nat
    BY <1>1 DEF TypeOK
  <2> HIDE DEF row, Row
  <2>4. /\ DOMAIN anchors' = 1..Len(anchors) + 1 /\ DOMAIN anchors = 1..Len(anchors)
        /\ \A i \in 1..Len(anchors) : anchors'[i] = anchors[i]
        /\ anchors'[Len(anchors) + 1] = row
    BY <2>1, <2>2, <2>3, Appended
  <2>5. ASSUME NEW r \in KnownRefs PROVE r \in KnownRefs'
    <3>1. CASE \E i \in DOMAIN anchors : r = anchors[i].ref
      BY <2>3, <2>4, <3>1 DEF KnownRefs
    <3>2. ASSUME NEW h \in Gateways, gateway[h].pc = "write", r = gateway[h].ref
          PROVE  r \in KnownRefs'
      <4>1. CASE h = g
        BY <2>2, <2>3, <2>4, <3>2, <4>1 DEF KnownRefs
      <4>2. CASE h # g
        <5>1. gateway'[h] = gateway[h]
          BY <1>t, <2>1, <4>2
        <5> QED BY <3>2, <5>1 DEF KnownRefs
      <4> QED BY <4>1, <4>2
    <3> QED BY <3>1, <3>2 DEF KnownRefs
  <2> QED BY <1>5, <2>1, <2>5
<1>14. ASSUME NEW g \in Gateways, Fault(g) PROVE LostInv'
  <2>1. /\ gateway' = [gateway EXCEPT ![g] = Idle] /\ faults' = faults + 1
        /\ UNCHANGED <<log, chain, anchors>>
        /\ adrift' = adrift \/ (gateway[g].pc = "endorsed" /\ adrift' = adrift \cup {Root(g)})
    BY <1>14 DEF Fault, GiveUp
  <2>2. CASE gateway[g].pc = "write"
    <3>1. adrift' = adrift /\ gateway[g].ref \in Refs
      BY <1>1, <2>1, <2>2 DEF TypeOK
    <3>2. KnownRefs \subseteq KnownRefs' \cup {gateway[g].ref}
      BY <1>1, <2>1, RefsStep
    <3>3. \E x : Loose' \subseteq Loose \cup {x}
      BY <1>1, <2>1, <3>1, <3>2, LooseForgotten
    <3> QED BY <1>4, <2>1, <3>3
  <2>3. CASE gateway[g].pc # "write"
    <3>1. KnownRefs \subseteq KnownRefs'
      BY <1>1, <2>1, <2>3, RefsStep
    <3>2. LostRoots' \subseteq LostRoots
      BY <2>1, <3>1 DEF LostRoots
    <3>3. Loose' \subseteq Loose \cup {<<"late", Root(g)>>}
      BY <2>1, <3>2 DEF Loose
    <3> QED BY <1>4, <2>1, <3>3
  <2> QED BY <2>2, <2>3
<1>15. ASSUME NEW root \in adrift, LateBlock(root) PROVE LostInv'
  <2>1. /\ adrift' = adrift \ {root} /\ UNCHANGED <<log, faults, anchors, gateway>>
        /\ chain' = IF AlreadyExists(root) THEN chain ELSE Append(chain, root)
    BY <1>15 DEF LateBlock, Block
  <2>2. KnownRefs' = KnownRefs
    BY <2>1 DEF KnownRefs
  <2>3. CASE AlreadyExists(root)
    BY <1>1, <1>3, <2>1, <2>2, <2>3, LooseStays
  <2>4. CASE ~AlreadyExists(root)
    <3>1. LostRoots' \subseteq LostRoots \cup {<<"fabric", Len(chain) + 1>>}
      BY <1>1, <1>t, <2>1, <2>2, <2>4, LooseBlock
    <3>2. "log" # "late" /\ "fabric" # "late"
      OBVIOUS
    <3>3. <<"late", root>> \notin LostRoots
      BY <3>2 DEF LostRoots
    <3>4. Loose' \subseteq (Loose \ {<<"late", root>>}) \cup {<<"fabric", Len(chain) + 1>>}
      BY <2>1, <3>1, <3>3 DEF Loose
    <3>5. <<"late", root>> \in Loose
      BY DEF Loose
    <3> QED BY <1>1, <1>2, <2>1, <3>4, <3>5, BoundExchanged DEF LostInv
  <2> QED BY <2>3, <2>4
<1>16. CASE \E e \in Entries : BeginPosting(e) \/ CommitPosting(e)
  BY <1>6, <1>16 DEF BeginPosting, CommitPosting
<1>17. CASE UNCHANGED vars
  BY <1>6, <1>17 DEF vars
<1> QED
  BY <1>8, <1>10, <1>11, <1>12, <1>13, <1>14, <1>15, <1>16, <1>17 DEF Next, AnchorPending

\* Each root in the backend that nothing in the database refers to was lost by a
\* crash or an error of its own, however many gateways work on both backends and
\* however late a block is committed.
THEOREM LostRootsAlwaysExplained == Spec => []LostRootsExplained
<1>1. Init => LostInv
  <2> SUFFICES ASSUME Init PROVE LostInv
    OBVIOUS
  <2>1. \A g \in Gateways : gateway[g].pc = "idle"
    BY DEF Init, Idle
  <2>2. Loose = {} /\ faults = 0
    BY DEF Init, Loose, LostRoots
  <2>3. AtMost(Loose, faults)
    BY <2>2, FS_EmptySet DEF AtMost
  <2>4. OnceOnChain
    BY DEF Init, OnceOnChain, IsInjective
  <2> QED BY <2>1, <2>3, <2>4, AnchoringTypeInit DEF LostInv, PendingLeads
<1>2. LostInv => LostRootsExplained
  BY BoundOfPart DEF LostInv, Loose, LostRootsExplained
<1> QED BY <1>1, <1>2, LostStep, PTL DEF Spec

-----------------------------------------------------------------------------
(* How often an entry is anchored. *)

\* The roots that cover an entry, and those that may still get to the chain.
Copies(e) == Anchorings(e) \cup {<<"late", root>> : root \in {r \in adrift : e \in Range(r)}}

\* An attempt with the entry that has committed its root, or may do so.
Writing(attempt, e) == attempt.pc = "write" /\ e \in Range(attempt.batch)
Waiting(attempt, e) ==
    attempt.pc \in {"commit", "sequence", "insert", "endorsed"} /\ e \in Range(attempt.batch)

\* The gateways that account for the roots of an entry: before there is a proof
\* those about to write it, and then all but those that may still commit a root.
Accounting(e) ==
    IF proofs[e] = NoProof
    THEN {g \in Gateways : Writing(gateway[g], e)}
    ELSE {g \in Deployed : ~Waiting(gateway[g], e)}

CopiesBounded(e) == AtMost(Copies(e), faults + Cardinality(Accounting(e)))

Busy == \A g \in Gateways : gateway[g].pc # "idle" => backendOf[g] # "none"

\* DoubleAnchoringBounded and what makes it inductive.
CopiesInv == TypeOK /\ Busy /\ \A e \in Entries : CopiesBounded(e)

LEMMA AccountingFinite ==
    ASSUME NEW e \in Entries
    PROVE  /\ IsFiniteSet(Accounting(e)) /\ Cardinality(Accounting(e)) \in Nat
           /\ IsFiniteSet(Accounting(e)') /\ Cardinality(Accounting(e)') \in Nat
<1>1. /\ Accounting(e) \subseteq Gateways /\ Accounting(e)' \subseteq Gateways
      /\ IsFiniteSet(Gateways)
  BY AnchoringAssumption DEF Accounting, Deployed
<1> QED BY <1>1, FS_Subset, FS_CardinalityType

\* Only a gateway that is deployed does anything.
LEMMA BusyStep == TypeOK /\ Busy /\ [Next]_vars => Busy' /\ backendOf' = backendOf
<1> SUFFICES ASSUME TypeOK, Busy, [Next]_vars
             PROVE  Busy' /\ backendOf' = backendOf
  OBVIOUS
<1>1. backendOf' = backendOf
  BY DEF Next, AnchorPending, BeginPosting, CommitPosting, LoadUnanchored, ReadPrev,
         ReadSequence, InsertRow, Endorse, CommitBlock, WriteProofs, Fault, LateBlock, vars
<1>2. ASSUME NEW g \in Gateways, NEW a, gateway' = [gateway EXCEPT ![g] = a],
             gateway[g].pc # "idle" \/ backendOf[g] # "none"
      PROVE  Busy'
  BY <1>1, <1>2 DEF Busy, TypeOK
<1>3. CASE gateway' = gateway
  BY <1>1, <1>3 DEF Busy
<1>4. ASSUME NEW g \in Gateways, AnchorPending(g) \/ Fault(g) PROVE Busy'
  <2>1. \E a : gateway' = [gateway EXCEPT ![g] = a]
    BY <1>4 DEF AnchorPending, LoadUnanchored, ReadPrev, ReadSequence, InsertRow, Endorse,
           CommitBlock, WriteProofs, Fault, GiveUp, Committed
  <2>2. gateway[g].pc # "idle" \/ backendOf[g] # "none"
    BY <1>4 DEF AnchorPending, LoadUnanchored, ReadPrev, ReadSequence, InsertRow, Endorse,
           CommitBlock, WriteProofs, Fault
  <2> QED BY <1>2, <2>1, <2>2
<1> QED
  BY <1>1, <1>3, <1>4 DEF Next, BeginPosting, CommitPosting, LateBlock, vars

\* What a gateway loads has no proof.
LEMMA LoadedUnproven ==
    ASSUME TypeOK, NEW g \in Gateways, LoadUnanchored(g), NEW e \in Range(gateway'[g].batch)
    PROVE  proofs[e] = NoProof
<1> DEFINE n == Min({BatchSize, Len(Unanchored)})
<1> DEFINE pending == {d \in posted : proofs[d] = NoProof}
<1>1. Unanchored \in Seq(Entries \cap pending)
  BY FilterType DEF TypeOK, Unanchored
<1>2. n \in Nat /\ n <= Len(Unanchored)
  BY MinOfTwo, UnanchoredType, AnchoringAssumption
<1>3. gateway'[g].batch = SubSeq(Unanchored, 1, n)
  BY DEF LoadUnanchored, TypeOK, Attempts
<1> HIDE DEF n
<1>4. \A i \in 1..n : Unanchored[i] \in Entries \cap pending
  BY <1>1, <1>2, ElementOfSeq
<1>5. SubSeq(Unanchored, 1, n) \in Seq(Entries \cap pending)
  <2>1. 1 \in Int /\ n \in Int
    BY <1>2
  <2> QED BY <1>4, <2>1, SubSeqProperties, Zenon
<1>6. Range(gateway'[g].batch) \subseteq Entries \cap pending
  BY <1>3, <1>5, RangeOfSeq
<1> QED BY <1>6

\* Nothing that accounts for a root is lost when the gateway stays about to write
\* an entry without a proof, and does not begin with one that has a proof.
LEMMA AccountingStays ==
    ASSUME CopiesInv, NEW e \in Entries, NEW g \in Gateways, NEW a,
           gateway' = [gateway EXCEPT ![g] = a], backendOf' = backendOf,
           proofs'[e] = proofs[e],
           proofs[e] = NoProof /\ Writing(gateway[g], e) => Writing(a, e),
           proofs[e] # NoProof /\ Waiting(a, e) => Waiting(gateway[g], e)
    PROVE  Accounting(e) \subseteq Accounting(e)'
<1>1. gateway'[g] = a /\ \A h \in Gateways \ {g} : gateway'[h] = gateway[h]
  BY DEF CopiesInv, TypeOK
<1>2. Deployed' = Deployed /\ Deployed \subseteq Gateways
  BY DEF Deployed
<1>3. CASE proofs[e] = NoProof
  BY <1>1, <1>3 DEF Accounting
<1>4. CASE proofs[e] # NoProof
  BY <1>1, <1>2, <1>4 DEF Accounting
<1> QED BY <1>3, <1>4

\* The bound after a step that adds no root.
LEMMA CopiesKept ==
    ASSUME CopiesInv, NEW e \in Entries, Copies(e)' \subseteq Copies(e),
           Accounting(e) \subseteq Accounting(e)', faults' = faults
    PROVE  CopiesBounded(e)'
<1> DEFINE n == Cardinality(Accounting(e))
<1> DEFINE k == Cardinality(Accounting(e)')
<1>1. AtMost(Copies(e), faults + n) /\ faults \in Nat
  BY AnchoringAssumption DEF CopiesInv, CopiesBounded, TypeOK
<1>2. n \in Nat /\ k \in Nat /\ n <= k
  BY AccountingFinite, FS_Subset
<1> HIDE DEF n, k
<1>3. faults + k \in Nat /\ faults + n <= faults + k
  BY <1>1, <1>2
<1>4. AtMost(Copies(e)', faults + k)
  BY <1>1, <1>3, BoundStays
<1> QED BY <1>4 DEF CopiesBounded, k

\* After one that adds a root, which a gateway accounts for.
LEMMA CopiesCommitted ==
    ASSUME CopiesInv, NEW e \in Entries, NEW x, Copies(e)' \subseteq Copies(e) \cup {x},
           NEW g \in Accounting(e)', g \notin Accounting(e),
           Accounting(e) \subseteq Accounting(e)', faults' = faults
    PROVE  CopiesBounded(e)'
<1> DEFINE n == Cardinality(Accounting(e))
<1> DEFINE k == Cardinality(Accounting(e)')
<1>1. AtMost(Copies(e), faults + n) /\ faults \in Nat
  BY AnchoringAssumption DEF CopiesInv, CopiesBounded, TypeOK
<1>2. n \in Nat /\ k \in Nat /\ n + 1 <= k
  <2>1. Cardinality(Accounting(e) \cup {g}) = n + 1
    BY AccountingFinite, FS_AddElement
  <2>2. Accounting(e) \cup {g} \subseteq Accounting(e)'
    OBVIOUS
  <2>3. Cardinality(Accounting(e) \cup {g}) <= k
    BY <2>2, AccountingFinite, FS_Subset
  <2> QED BY <2>1, <2>3, AccountingFinite
<1> HIDE DEF n, k
<1>3. AtMost(Copies(e)', faults + n + 1)
  BY <1>1, BoundGrows
<1>4. faults + k \in Nat /\ faults + n + 1 <= faults + k
  BY <1>1, <1>2
<1>5. AtMost(Copies(e)', faults + k)
  BY <1>3, <1>4, BoundStays
<1> QED BY <1>5 DEF CopiesBounded, k

\* After a fault: a root may get loose, or a gateway forget that it has one.
LEMMA CopiesFaulted ==
    ASSUME CopiesInv, NEW e \in Entries, NEW x, NEW g, faults' = faults + 1,
           \/ /\ Copies(e)' \subseteq Copies(e) \cup {x}
              /\ Accounting(e) \subseteq Accounting(e)'
           \/ /\ Copies(e)' \subseteq Copies(e)
              /\ Accounting(e) \subseteq Accounting(e)' \cup {g}
    PROVE  CopiesBounded(e)'
<1> DEFINE n == Cardinality(Accounting(e))
<1> DEFINE k == Cardinality(Accounting(e)')
<1>1. AtMost(Copies(e), faults + n) /\ faults \in Nat
  BY AnchoringAssumption DEF CopiesInv, CopiesBounded, TypeOK
<1>2. n \in Nat /\ k \in Nat
  BY AccountingFinite
<1>3. CASE Copies(e)' \subseteq Copies(e) \cup {x} /\ Accounting(e) \subseteq Accounting(e)'
  <2>1. n <= k
    BY <1>3, AccountingFinite, FS_Subset
  <2> HIDE DEF n, k
  <2>2. AtMost(Copies(e)', faults + n + 1)
    BY <1>1, <1>3, BoundGrows
  <2>3. faults + 1 + k \in Nat /\ faults + n + 1 <= faults + 1 + k
    BY <1>1, <1>2, <2>1
  <2>4. AtMost(Copies(e)', faults + 1 + k)
    BY <2>2, <2>3, BoundStays
  <2> QED BY <2>4 DEF CopiesBounded, k
<1>4. CASE Copies(e)' \subseteq Copies(e) /\ Accounting(e) \subseteq Accounting(e)' \cup {g}
  <2>1. n <= k + 1
    <3>1. AtMost(Accounting(e)', k)
      BY AccountingFinite DEF AtMost
    <3>2. AtMost(Accounting(e), k + 1)
      BY <1>4, <3>1, BoundGrows
    <3> QED BY <3>2 DEF AtMost
  <2> HIDE DEF n, k
  <2>2. faults + 1 + k \in Nat /\ faults + n <= faults + 1 + k
    BY <1>1, <1>2, <2>1
  <2>3. AtMost(Copies(e)', faults + 1 + k)
    BY <1>1, <1>4, <2>2, BoundStays
  <2> QED BY <2>3 DEF CopiesBounded, k
<1> QED BY <1>3, <1>4

\* The roots that cover an entry after a block, and after an insert.
LEMMA CopiesBlock ==
    ASSUME TypeOK, NEW e \in Entries, NEW root \in Seq(Entries),
           chain' = Append(chain, root), log' = log
    PROVE  Anchorings(e)' \subseteq Anchorings(e)
              \cup {x \in {<<"fabric", Len(chain) + 1>>} : e \in Range(root)}
<1>1. /\ Len(chain) \in Nat /\ DOMAIN chain = 1..Len(chain)
      /\ DOMAIN chain' = 1..Len(chain) + 1
      /\ \A n \in 1..Len(chain) : chain'[n] = chain[n]
      /\ chain'[Len(chain) + 1] = root
  BY ChainAppended
<1>2. ASSUME NEW n \in DOMAIN chain', e \in Range(chain'[n])
      PROVE  \/ n \in DOMAIN chain /\ e \in Range(chain[n])
             \/ n = Len(chain) + 1 /\ e \in Range(root)
  <2>1. CASE n = Len(chain) + 1
    BY <1>1, <1>2, <2>1
  <2>2. CASE n # Len(chain) + 1
    <3>1. n \in DOMAIN chain /\ chain'[n] = chain[n]
      BY <1>1, <2>2
    <3> QED BY <1>2, <3>1
  <2> QED BY <2>1, <2>2
<1> QED BY <1>2 DEF Anchorings

LEMMA CopiesInsert ==
    ASSUME TypeOK, NEW e \in Entries, NEW g \in Gateways, log' = Append(log, NewRow(g)),
           chain' = chain
    PROVE  Anchorings(e)' \subseteq Anchorings(e)
              \cup {x \in {<<"log", Len(log) + 1>>} : e \in Range(Root(g))}
<1>1. /\ Len(log) \in Nat /\ DOMAIN log = 1..Len(log)
      /\ DOMAIN log' = 1..Len(log) + 1
      /\ \A n \in 1..Len(log) : log'[n] = log[n]
      /\ log'[Len(log) + 1] = NewRow(g)
  BY LogAppended
<1>2. ASSUME NEW n \in DOMAIN log', e \in Range(log'[n].root)
      PROVE  \/ n \in DOMAIN log /\ e \in Range(log[n].root)
             \/ n = Len(log) + 1 /\ e \in Range(Root(g))
  <2>1. CASE n = Len(log) + 1
    BY <1>1, <1>2, <2>1 DEF NewRow
  <2>2. CASE n # Len(log) + 1
    <3>1. n \in DOMAIN log /\ log'[n] = log[n]
      BY <1>1, <2>2
    <3> QED BY <1>2, <3>1
  <2> QED BY <2>1, <2>2
<1> QED BY <1>2 DEF Anchorings

\* Every step keeps the bound for an entry.
LEMMA CopiesStep ==
    ASSUME CopiesInv, [Next]_vars, NEW e \in Entries
    PROVE  CopiesBounded(e)'
<1> USE DEF backend, receipts
<1>1. TypeOK /\ Busy /\ backendOf' = backendOf /\ Deployed' = Deployed
  BY BusyStep DEF CopiesInv, Deployed
<1>t. /\ gateway \in [Gateways -> Attempts] /\ faults \in Nat
      /\ \A g \in Gateways : Root(g) \in Seq(Entries) /\ Root(g) = gateway[g].batch
      /\ adrift \subseteq Seq(Entries)
  BY <1>1, AnchoringAssumption DEF TypeOK, Attempts, Root
<1>i. \A d : ~Writing(Idle, d) /\ ~Waiting(Idle, d)
  BY DEF Writing, Waiting, Idle
<1>2. UNCHANGED <<log, chain, adrift>> => Copies(e)' = Copies(e)
  BY DEF Copies, Anchorings
<1>3. CASE UNCHANGED <<log, chain, adrift, faults, gateway, proofs>>
  <2>1. Accounting(e)' = Accounting(e)
    BY <1>1, <1>3 DEF Accounting
  <2> QED BY <1>2, <1>3, <2>1, CopiesKept
<1>4. ASSUME NEW g \in Gateways, NEW a, gateway' = [gateway EXCEPT ![g] = a],
             UNCHANGED <<log, chain, adrift, faults, proofs>>,
             proofs[e] = NoProof /\ Writing(gateway[g], e) => Writing(a, e),
             proofs[e] # NoProof /\ Waiting(a, e) => Waiting(gateway[g], e)
      PROVE  CopiesBounded(e)'
  <2>1. Accounting(e) \subseteq Accounting(e)'
    BY <1>1, <1>4, AccountingStays
  <2> QED BY <1>2, <1>4, <2>1, CopiesKept
<1>5. ASSUME NEW g \in Gateways, LoadUnanchored(g) PROVE CopiesBounded(e)'
  <2>1. PICK a : gateway' = [gateway EXCEPT ![g] = a]
    BY <1>5 DEF LoadUnanchored
  <2>2. gateway[g].pc = "idle" /\ UNCHANGED <<log, chain, adrift, faults, proofs>>
    BY <1>5 DEF LoadUnanchored
  <2>3. gateway'[g] = a
    BY <1>t, <2>1
  <2>4. e \in Range(a.batch) => proofs[e] = NoProof
    BY <1>1, <1>5, <2>3, LoadedUnproven
  <2> QED BY <1>4, <2>1, <2>2, <2>4 DEF Writing, Waiting
<1>6. ASSUME NEW g \in Gateways, ReadPrev(g) \/ ReadSequence(g) PROVE CopiesBounded(e)'
  <2>1. PICK a : /\ gateway' = [gateway EXCEPT ![g] = a] /\ a.batch = gateway[g].batch
    <3>1. CASE ReadPrev(g)
      <4> DEFINE a == [gateway[g] EXCEPT !.pc = "sequence", !.prev = LastRow]
      <4>1. gateway' = [gateway EXCEPT ![g] = a]
        BY <3>1 DEF ReadPrev
      <4>2. a.batch = gateway[g].batch
        BY <1>t DEF Attempts
      <4> HIDE DEF a
      <4> QED BY <4>1, <4>2
    <3>2. CASE ReadSequence(g)
      <4> DEFINE a == [gateway[g] EXCEPT !.pc = "insert", !.sequence = Len(log) + 1]
      <4>1. gateway' = [gateway EXCEPT ![g] = a]
        BY <3>2 DEF ReadSequence
      <4>2. a.batch = gateway[g].batch
        BY <1>t DEF Attempts
      <4> HIDE DEF a
      <4> QED BY <4>1, <4>2
    <3> QED BY <1>6, <3>1, <3>2
  <2>2. gateway[g].pc \in {"commit", "sequence"} /\ UNCHANGED <<log, chain, adrift, faults, proofs>>
    BY <1>6 DEF ReadPrev, ReadSequence
  <2> QED BY <1>4, <2>1, <2>2 DEF Writing, Waiting
<1>7. ASSUME NEW g \in Gateways, GiveUp(g), gateway[g].pc # "write",
             UNCHANGED <<log, chain, adrift, faults, proofs>>
      PROVE  CopiesBounded(e)'
  <2>1. ~Writing(gateway[g], e)
    BY <1>7 DEF Writing
  <2> QED BY <1>4, <1>7, <1>i, <2>1 DEF GiveUp
<1>8. ASSUME NEW g \in Gateways, NEW ref, Committed(g, ref),
             gateway[g].pc \in {"commit", "sequence", "insert", "endorsed"},
             UNCHANGED <<adrift, faults, proofs>>,
             NEW x, Anchorings(e)' \subseteq
                        Anchorings(e) \cup {y \in {x} : e \in Range(Root(g))}
      PROVE  CopiesBounded(e)'
  <2> DEFINE a == [gateway[g] EXCEPT !.pc = "write", !.ref = ref]
  <2>1. gateway' = [gateway EXCEPT ![g] = a]
    BY <1>8 DEF Committed
  <2>2. a.pc = "write" /\ a.batch = Root(g)
    BY <1>t DEF Attempts
  <2> HIDE DEF a
  <2>3. /\ Writing(a, e) <=> e \in Range(Root(g))
        /\ ~Waiting(a, e) /\ ~Writing(gateway[g], e)
        /\ Waiting(gateway[g], e) <=> e \in Range(Root(g))
    BY <1>8, <1>t, <2>2 DEF Writing, Waiting
  <2>4. Accounting(e) \subseteq Accounting(e)'
    BY <1>1, <1>8, <2>1, <2>3, AccountingStays
  <2>5. CASE e \in Range(Root(g))
    <3>1. gateway'[g] = a /\ g \in Deployed
      BY <1>1, <1>8, <1>t, <2>1 DEF Busy, Deployed
    <3>2. g \notin Accounting(e) /\ g \in Accounting(e)'
      BY <1>1, <1>8, <2>3, <2>5, <3>1 DEF Accounting
    <3>3. Copies(e)' \subseteq Copies(e) \cup {x}
      BY <1>8 DEF Copies
    <3> QED BY <1>8, <2>4, <3>2, <3>3, CopiesCommitted
  <2>6. CASE e \notin Range(Root(g))
    <3>1. Copies(e)' \subseteq Copies(e)
      BY <1>8, <2>6 DEF Copies
    <3> QED BY <1>8, <2>4, <3>1, CopiesKept
  <2> QED BY <2>5, <2>6
<1>9. ASSUME NEW g \in Gateways, InsertRow(g) PROVE CopiesBounded(e)'
  <2>1. gateway[g].pc = "insert" /\ UNCHANGED <<chain, adrift, faults, proofs>>
    BY <1>9 DEF InsertRow
  <2>2. CASE log' = Append(log, NewRow(g)) /\ Committed(g, <<"tlog", gateway[g].sequence>>)
    BY <1>1, <1>8, <2>1, <2>2, CopiesInsert
  <2>3. CASE GiveUp(g) /\ UNCHANGED log
    BY <1>7, <2>1, <2>3
  <2> QED BY <1>9, <2>2, <2>3 DEF InsertRow
<1>10. ASSUME NEW g \in Gateways, Endorse(g) PROVE CopiesBounded(e)'
  <2>1. gateway[g].pc = "commit" /\ UNCHANGED <<log, chain, adrift, faults, proofs>>
    BY <1>10 DEF Endorse
  <2>2. CASE AlreadyExists(Root(g))
    <3>1. Committed(g, <<"anchor", Root(g)>>)
      BY <1>10, <2>2 DEF Endorse
    <3>2. Anchorings(e)' = Anchorings(e)
      BY <2>1 DEF Anchorings
    <3> QED BY <1>8, <2>1, <3>1, <3>2
  <2>3. CASE ~AlreadyExists(Root(g))
    <3> DEFINE a == [gateway[g] EXCEPT !.pc = "endorsed"]
    <3>1. gateway' = [gateway EXCEPT ![g] = a]
      BY <1>10, <2>3 DEF Endorse
    <3>2. a.pc = "endorsed" /\ a.batch = gateway[g].batch
      BY <1>t DEF Attempts
    <3> HIDE DEF a
    <3> QED BY <1>4, <2>1, <3>1, <3>2 DEF Writing, Waiting
  <2> QED BY <2>2, <2>3
<1>11. ASSUME NEW g \in Gateways, CommitBlock(g) PROVE CopiesBounded(e)'
  <2>1. gateway[g].pc = "endorsed" /\ UNCHANGED <<log, adrift, faults, proofs>>
    BY <1>11 DEF CommitBlock
  <2>2. CASE AlreadyExists(Root(g))
    BY <1>7, <1>11, <2>1, <2>2 DEF CommitBlock, Block
  <2>3. CASE ~AlreadyExists(Root(g))
    <3>1. chain' = Append(chain, Root(g)) /\ Committed(g, <<"tx", Len(chain) + 1>>)
      BY <1>11, <2>3 DEF CommitBlock, Block
    <3> QED BY <1>1, <1>8, <1>t, <2>1, <3>1, CopiesBlock
  <2> QED BY <2>2, <2>3
<1>12. ASSUME NEW g \in Gateways, WriteProofs(g) PROVE CopiesBounded(e)'
  <2>1. /\ gateway[g].pc = "write" /\ gateway' = [gateway EXCEPT ![g] = Idle]
        /\ proofs' = Proven(g, Len(anchors) + 1) /\ UNCHANGED <<log, chain, adrift, faults>>
    BY <1>12 DEF WriteProofs
  <2>2. CASE e \in Range(Root(g)) /\ proofs[e] = NoProof
    <3>1. proofs'[e] # NoProof
      BY <2>1, <2>2, <1>1, AnchoringAssumption DEF Proven, TypeOK
    <3>2. \A h \in Gateways : Writing(gateway[h], e) => h \in Deployed /\ ~Waiting(gateway'[h], e)
      BY <1>1, <1>t, <1>i, <2>1 DEF Busy, Deployed, Writing, Waiting
    <3>3. Accounting(e) \subseteq Accounting(e)'
      BY <1>1, <2>2, <3>1, <3>2 DEF Accounting
    <3> QED BY <1>2, <2>1, <3>3, CopiesKept
  <2>3. CASE ~ (e \in Range(Root(g)) /\ proofs[e] = NoProof)
    <3>1. proofs'[e] = proofs[e]
      BY <2>1, <2>3 DEF Proven
    <3>2. proofs[e] = NoProof => ~Writing(gateway[g], e)
      BY <1>t, <2>3 DEF Writing
    <3>3. Accounting(e) \subseteq Accounting(e)'
      BY <1>1, <1>i, <2>1, <3>1, <3>2, AccountingStays
    <3> QED BY <1>2, <2>1, <3>3, CopiesKept
  <2> QED BY <2>2, <2>3
<1>13. ASSUME NEW g \in Gateways, Fault(g) PROVE CopiesBounded(e)'
  <2>1. /\ gateway' = [gateway EXCEPT ![g] = Idle] /\ faults' = faults + 1
        /\ UNCHANGED <<log, chain, proofs>>
        /\ adrift' = adrift \/ (gateway[g].pc = "endorsed" /\ adrift' = adrift \cup {Root(g)})
    BY <1>13 DEF Fault, GiveUp
  <2>2. Anchorings(e)' = Anchorings(e)
    BY <2>1 DEF Anchorings
  <2>3. CASE gateway[g].pc = "write"
    <3>1. Copies(e)' \subseteq Copies(e)
      BY <2>1, <2>2, <2>3 DEF Copies
    <3>2. \A h \in Gateways \ {g} : gateway'[h] = gateway[h]
      BY <1>t, <2>1
    <3>3. Accounting(e) \subseteq Accounting(e)' \cup {g}
      BY <1>1, <2>1, <3>2 DEF Accounting, Deployed
    <3> QED BY <2>1, <3>1, <3>3, CopiesFaulted
  <2>4. CASE gateway[g].pc # "write"
    <3>1. Copies(e)' \subseteq Copies(e) \cup {<<"late", Root(g)>>}
      BY <2>1, <2>2 DEF Copies
    <3>2. ~Writing(gateway[g], e)
      BY <2>4 DEF Writing
    <3>3. Accounting(e) \subseteq Accounting(e)'
      BY <1>1, <1>i, <2>1, <3>2, AccountingStays
    <3> QED BY <2>1, <3>1, <3>3, CopiesFaulted
  <2> QED BY <2>3, <2>4
<1>14. ASSUME NEW root \in adrift, LateBlock(root) PROVE CopiesBounded(e)'
  <2>1. /\ adrift' = adrift \ {root} /\ UNCHANGED <<log, faults, proofs, gateway>>
        /\ chain' = IF AlreadyExists(root) THEN chain ELSE Append(chain, root)
    BY <1>14 DEF LateBlock, Block
  <2>2. Accounting(e)' = Accounting(e)
    BY <1>1, <2>1 DEF Accounting
  <2>3. Anchorings(e)' \subseteq
            Anchorings(e) \cup {x \in {<<"fabric", Len(chain) + 1>>} : e \in Range(root)}
    <3>1. CASE AlreadyExists(root)
      BY <2>1, <3>1 DEF Anchorings
    <3>2. CASE ~AlreadyExists(root)
      BY <1>1, <1>t, <2>1, <3>2, CopiesBlock
    <3> QED BY <3>1, <3>2
  <2>4. CASE e \notin Range(root)
    <3>1. Copies(e)' \subseteq Copies(e)
      BY <2>1, <2>3, <2>4 DEF Copies
    <3> QED BY <2>1, <2>2, <3>1, CopiesKept
  <2>5. CASE e \in Range(root)
    <3>1. "log" # "late" /\ "fabric" # "late"
      OBVIOUS
    <3>2. <<"late", root>> \notin Anchorings(e)
      BY <3>1 DEF Anchorings
    <3>3. Copies(e)' \subseteq (Copies(e) \ {<<"late", root>>}) \cup {<<"fabric", Len(chain) + 1>>}
      BY <2>1, <2>3, <3>2 DEF Copies
    <3>4. <<"late", root>> \in Copies(e)
      BY <2>5 DEF Copies
    <3>5. AtMost(Copies(e), faults + Cardinality(Accounting(e)))
      BY DEF CopiesInv, CopiesBounded
    <3>6. AtMost(Copies(e)', faults + Cardinality(Accounting(e)))
      BY <3>3, <3>4, <3>5, BoundExchanged
    <3> QED BY <2>1, <2>2, <3>6 DEF CopiesBounded
  <2> QED BY <2>4, <2>5
<1>15. CASE \E d \in Entries : BeginPosting(d) \/ CommitPosting(d)
  BY <1>3, <1>15 DEF BeginPosting, CommitPosting
<1>16. CASE UNCHANGED vars
  BY <1>3, <1>16 DEF vars
<1> QED
  BY <1>5, <1>6, <1>9, <1>10, <1>11, <1>12, <1>13, <1>14, <1>15, <1>16 DEF Next, AnchorPending

\* An entry is anchored at most once for each gateway and each fault, on whatever
\* backend, however the gateways overlap and however late a block is committed.
THEOREM DoubleAnchoringIsBounded == Spec => []DoubleAnchoringBounded
<1>1. Init => CopiesInv
  <2> SUFFICES ASSUME Init PROVE CopiesInv
    OBVIOUS
  <2>1. Busy
    BY DEF Init, Busy, Idle
  <2>2. ASSUME NEW e \in Entries PROVE CopiesBounded(e)
    <3>1. Copies(e) = {} /\ faults = 0
      BY DEF Init, Copies, Anchorings
    <3> DEFINE n == Cardinality(Accounting(e))
    <3>2. n \in Nat
      BY AccountingFinite
    <3> HIDE DEF n
    <3>3. AtMost(Copies(e), faults + n)
      BY <3>1, <3>2, FS_EmptySet DEF AtMost
    <3> QED BY <3>3 DEF CopiesBounded, n
  <2> QED BY <2>1, <2>2, AnchoringTypeInit DEF CopiesInv
<1>2. CopiesInv /\ [Next]_vars => CopiesInv'
  <2> SUFFICES ASSUME CopiesInv, [Next]_vars PROVE CopiesInv'
    OBVIOUS
  <2>1. TypeOK' /\ Busy'
    BY AnchoringTypeStep, BusyStep DEF CopiesInv
  <2> QED BY <2>1, CopiesStep DEF CopiesInv
<1>3. CopiesInv => DoubleAnchoringBounded
  <2> SUFFICES ASSUME CopiesInv, NEW e \in Entries
               PROVE  Cardinality(Anchorings(e)) <= Cardinality(Deployed) + faults
    BY DEF DoubleAnchoringBounded
  <2> DEFINE n == Cardinality(Accounting(e))
  <2> DEFINE d == Cardinality(Deployed)
  <2> DEFINE c == Cardinality(Anchorings(e))
  <2>1. AtMost(Anchorings(e), faults + n)
    <3>1. AtMost(Copies(e), faults + n) /\ Anchorings(e) \subseteq Copies(e)
      BY DEF CopiesInv, CopiesBounded, Copies
    <3> HIDE DEF n
    <3>2. faults + n \in Nat
      BY <3>1 DEF AtMost
    <3> QED BY <3>1, <3>2, BoundStays
  <2>2. IsFiniteSet(Deployed) /\ Accounting(e) \subseteq Deployed
    <3>1. IsFiniteSet(Gateways) /\ Deployed \subseteq Gateways
      BY AnchoringAssumption DEF Deployed
    <3>2. Accounting(e) \subseteq Deployed
      BY DEF CopiesInv, Busy, Accounting, Deployed, Writing
    <3> QED BY <3>1, <3>2, FS_Subset
  <2>3. n \in Nat /\ d \in Nat /\ n <= d
    BY <2>2, AccountingFinite, FS_Subset, FS_CardinalityType
  <2>4. c \in Nat /\ c <= faults + n
    BY <2>1, FS_CardinalityType DEF AtMost
  <2>5. faults \in Nat
    BY AnchoringAssumption DEF CopiesInv, TypeOK
  <2> HIDE DEF n, d, c
  <2>6. c <= d + faults
    BY <2>3, <2>4, <2>5
  <2> QED BY <2>6 DEF c, d
<1> QED BY <1>1, <1>2, <1>3, PTL DEF Spec

=============================================================================
