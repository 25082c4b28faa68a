------------------------------ MODULE MCMerkle ------------------------------
(***************************************************************************)
(* Merkle on bounded inputs.  A behaviour loads one batch, or two, and the *)
(* properties are evaluated for the trees over them.                       *)
(***************************************************************************)
EXTENDS Merkle

CONSTANTS
    Headers,     \* ids of the entries of two batches
    LineTexts,
    MaxLines,
    MaxBatch     \* the longest single batch

ASSUME HeadersAssumption == IsFiniteSet(Headers)
ASSUME LineTextsAssumption == LineTexts \subseteq Int /\ 1 \in LineTexts
ASSUME BoundsAssumption == MaxLines \in Nat /\ MaxBatch \in Nat

Plain(h) == [header |-> h, lines |-> <<1>>]

\* A batch holds an entry once: the query is over the primary key.
Short  == {s \in UNION {[1..n -> {Plain(h) : h \in Headers}] : n \in 1..Cardinality(Headers)} :
               IsInjective(s)}
Varied == [header : {1, 2}, lines : UNION {[1..n -> LineTexts] : n \in 1..MaxLines}]

VARIABLES batch, other
vars == <<batch, other>>

Init == batch = <<>> /\ other = <<>>

Start == batch = <<>> /\ other = <<>>

\* One long batch.
LoadLong ==
    /\ Start
    /\ \E n \in 1..MaxBatch : batch' = [i \in 1..n |-> Plain(i)]
    /\ UNCHANGED other

\* Any two batches over a few entries.
LoadShort == Start /\ batch' \in Short /\ other' \in Short

\* Two entries with any lines.
LoadVaried ==
    /\ Start
    /\ \E d, e \in Varied : batch' = <<d>> /\ other' = <<e>>

Next == LoadLong \/ LoadShort \/ LoadVaried
Spec == Init /\ [][Next]_vars

Leaves(b) == [i \in DOMAIN b |-> CanonicalHash(b[i])]
Tree(b) == NewTree(Leaves(b))

SameEntry(d, e) ==
    /\ d.header = e.header
    /\ \A l \in LineTexts :
        Cardinality({i \in DOMAIN d.lines : d.lines[i] = l})
          = Cardinality({i \in DOMAIN e.lines : e.lines[i] = l})

\* The proof of every entry of a batch verifies against the root, also at the
\* odd end of each level.
Complete ==
    \A i \in DOMAIN batch :
        Verify(CanonicalHash(batch[i]), Proof(Tree(batch), i - 1), Root(Tree(batch)))

\* The three verifiers give one verdict ("the same check as the web and the
\* standalone CLI verifier"), and it is right: they accept an entry exactly when
\* it is, with its lines in any order, the one at the anchored position, whatever
\* mix of entry, leaf, proof and root they are given.  The web client verifies the
\* proofs it makes up in demo mode, and takes an entry without a proof neither for
\* verified nor for changed.
VerifiersAgree ==
    batch # <<>> /\ other # <<>> =>
        \A i, k \in DOMAIN batch, j \in DOMAIN other :
            LET response == [entry    |-> other[j],
                             leafHash |-> CanonicalHash(batch[i]),
                             proof    |-> Proof(Tree(batch), k - 1),
                             root     |-> Root(Tree(batch))]
                right    == SameEntry(other[j], batch[i]) /\ i = k
            IN  /\ CliVerify(response) <=> right
                /\ VerifyEntry(Fetched(response)) = (IF right THEN "Verified" ELSE "Verification failed")
                /\ EntryDetail(Fetched(response)) = (IF right THEN "VERIFIED" ELSE "FAILED")
                /\ VerifyEntry(DemoProof(other[j])) = "Verified"
                /\ VerifyEntry(NotFetched(404)) = "not anchored yet"

\* The root determines the batch: its entries, their order and their number.
RootBinds ==
    batch # <<>> /\ other # <<>> /\ Root(Tree(batch)) = Root(Tree(other))
      => /\ Len(batch) = Len(other)
         /\ \A i \in DOMAIN batch : SameEntry(batch[i], other[i])

\* Whoever recomputes the leaf of an entry gets the hash that was anchored,
\* in whatever order the lines are read, and no other content has it.
HashIsContent ==
    \A i \in DOMAIN batch, j \in DOMAIN other :
        CanonicalHash(batch[i]) = CanonicalHash(other[j]) <=> SameEntry(batch[i], other[j])
=============================================================================
