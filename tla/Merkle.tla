------------------------------- MODULE Merkle -------------------------------
(***************************************************************************)
(* Canonical hash, Merkle tree, inclusion proof and verification: the pure *)
(* functions of the ledger gateway, and the verifiers that repeat them in  *)
(* the command line, the web client and the mobile app.                    *)
(*                                                                         *)
(* SHA-256 is modelled as injective: the hash of an entry is <<entry>>,    *)
(* the hash of two concatenated hashes <<"pair", left, right>>.  (Hex      *)
(* hashes have one length, so their concatenation can be taken apart.)     *)
(***************************************************************************)
EXTENDS Integers, Sequences, FiniteSets, SequencesExt, Sorting

\* An entry is a header and a sequence of lines; a line is the number its text
\* has in the order of strings.

\* (mutant) Lines are hashed in the order they are stored.
UnsortedHash(entry) == <<<<"v1", entry.header, entry.lines>>>>

\* sort.Strings
SortLines(lines) == Sorted(lines, {pair \in Range(lines) \X Range(lines) : pair[1] < pair[2]})

\* Lines are sorted, so that the order of storage does not matter.
CanonicalHash(entry) == <<<<"v1", entry.header, SortLines(entry.lines)>>>>

\* (mutant) The order of the two hashes does not matter.
HashUnordered(left, right) == <<"pair", {left, right}>>

HashPair(left, right) == <<"pair", left, right>>

\* (mutant) The odd node is dropped.
FloorLevel(level) ==
    [i \in 1..IF Len(level) = 1 THEN 1 ELSE Len(level) \div 2 |->
        HashPair(level[2*i - 1], level[Min({2*i, Len(level)})])]

\* The level above: neighbours are paired, an odd last node with itself.
NextLevel(level) ==
    [i \in 1..(Len(level) + 1) \div 2 |->
        HashPair(level[2*i - 1], level[Min({2*i, Len(level)})])]

Grow(levels) ==
    IF Len(Last(levels)) > 1 THEN Append(levels, NextLevel(Last(levels))) ELSE levels

\* The levels from the leaves to the first of one node, the root.
NewTree(leaves) ==
    LET levels[k \in 0..Len(leaves)] == IF k = 0 THEN <<leaves>> ELSE Grow(levels[k - 1])
    IN  levels[Len(leaves)]

Root(tree) == Last(tree)[1]

Step(hash, left) == [hash |-> hash, left |-> left]

\* The sibling of the node at a (zero-based) position of a level.
Sibling(level, position) ==
    IF position % 2 = 0
    THEN Step(level[Min({position + 2, Len(level)})], FALSE)
    ELSE Step(level[position], TRUE)

\* Proof(index): the siblings on the way from a leaf to the root.
Proof(tree, index) ==
    LET position[k \in 1..Len(tree)] == IF k = 1 THEN index ELSE position[k - 1] \div 2
    IN  [k \in 1..Len(tree) - 1 |-> Sibling(tree[k], position[k])]

Combine(running, step) ==
    IF step.left THEN HashPair(step.hash, running) ELSE HashPair(running, step.hash)

Verify(leaf, proof, root) ==
    LET running[k \in 0..Len(proof)] ==
            IF k = 0 THEN leaf ELSE Combine(running[k - 1], proof[k])
    IN  running[Len(proof)] = root
-----------------------------------------------------------------------------
(* The verifiers.  What they get for an entry (ProofResponse): the entry,   *)
(* the hash of its leaf, the root and the proof.                            *)

\* cmd/verify, with the functions of the gateway.
CliVerify(response) ==
    LET recomputed == CanonicalHash(response.entry)
    IN  /\ recomputed = response.leafHash
        /\ Verify(recomputed, response.proof, response.root)

\* A request for a proof: the response, or an error.
Fetched(response)  == [ok |-> TRUE, proof |-> response]
NotFetched(status) == [ok |-> FALSE, status |-> status]

\* The demo mode of the web client makes up a tree of one leaf, which it hashes
\* with a copy of the function that verifies.
DemoLeafHash(entry) ==
    LET lines == SortLines(entry.lines)
    IN  <<<<"v1", entry.header, lines>>>>

DemoProof(entry) ==
    LET leaf == DemoLeafHash(entry)
    IN  Fetched([entry |-> entry, leafHash |-> leaf, root |-> leaf, proof |-> <<>>])

\* The web client hashes lines and pairs by itself.
WebCanonicalHash(entry) ==
    LET lines == SortLines(entry.lines)
    IN  <<<<"v1", entry.header, lines>>>>

WebHashPair(left, right) == <<"pair", left, right>>

WebWalk(leaf, proof) ==
    LET running[k \in 0..Len(proof)] ==
            IF k = 0 THEN leaf
            ELSE IF proof[k].left THEN WebHashPair(proof[k].hash, running[k - 1])
            ELSE WebHashPair(running[k - 1], proof[k].hash)
    IN  running[Len(proof)]

\* (mutant) The path is walked, and the leaf is taken from the response.
WebVerifyLeaf(result) ==
    IF ~result.ok THEN "unanchored"
    ELSE IF WebWalk(result.proof.leafHash, result.proof.proof) = result.proof.root
    THEN "verified" ELSE "failed"

\* The verdict of the dialog; without a response it tells what is missing.
WebVerify(result) ==
    IF ~result.ok THEN IF result.status = 404 THEN "unanchored" ELSE "failed"
    ELSE LET recomputed == WebCanonicalHash(result.proof.entry)
         IN  IF recomputed # result.proof.leafHash THEN "failed"
             ELSE IF WebWalk(recomputed, result.proof.proof) # result.proof.root THEN "failed"
             ELSE "verified"

VerifyEntry(result) ==
    CASE WebVerify(result) = "verified"   -> "Verified"
      [] WebVerify(result) = "unanchored" -> "not anchored yet"
      [] WebVerify(result) = "failed"     -> "Verification failed"

\* The mobile app: the canonical text and its hash are two functions.
CanonicalEntryString(entry) ==
    <<"v1", entry.header, SortLines(entry.lines)>>

VerifyProof(response) ==
    LET sha256Hex(text) == <<text>>
        leaf == sha256Hex(CanonicalEntryString(response.entry))
        running[k \in 0..Len(response.proof)] ==
            LET step == response.proof[k]
            IN  IF k = 0 THEN leaf
                ELSE IF step.left THEN <<"pair", step.hash, running[k - 1]>>
                ELSE <<"pair", running[k - 1], step.hash>>
        root == running[Len(response.proof)]
    IN  [verified |-> leaf = response.leafHash /\ root = response.root,
         recomputedLeaf |-> leaf, recomputedRoot |-> root]

\* The screen of an entry, after a tap on "Verify on this device".
EntryDetail(result) ==
    IF ~result.ok THEN "no proof"
    ELSE IF VerifyProof(result.proof).verified THEN "VERIFIED" ELSE "FAILED"
=============================================================================
