---------------------------- MODULE MerkleProofs ----------------------------
(***************************************************************************)
(* Proofs about Merkle, for batches of any length over entries of any      *)
(* lines: every proof verifies, a verifier accepts nothing else, a root    *)
(* has one batch, a leaf one entry.                                        *)
(***************************************************************************)
EXTENDS MCMerkle, CollectionProofs

-----------------------------------------------------------------------------
(* Levels. *)

\* A sequence of at least one node.
IsLevel(level) == (\E T : level \in Seq(T)) /\ Len(level) > 0

\* Its places.
LEMMA LevelPlaces ==
    ASSUME NEW level, IsLevel(level)
    PROVE  /\ Len(level) \in Nat /\ Len(level) > 0
           /\ DOMAIN level = 1..Len(level)
BY DEF IsLevel

\* Half of a number, rounded up.
LEMMA HalfUp ==
    ASSUME NEW n \in Nat, n > 0
    PROVE  /\ (n + 1) \div 2 \in Nat /\ (n + 1) \div 2 > 0
           /\ n > 1 => (n + 1) \div 2 < n
           /\ \A i \in 1..(n + 1) \div 2 : 2*i - 1 \in 1..n
           /\ \A i \in 1..(n + 1) \div 2 : 2*i \in Nat /\ (2*i > n => 2*i = n + 1)
OBVIOUS

\* The right node of a pair is the left one at the odd end.
Right(level, i) == level[IF 2*i <= Len(level) THEN 2*i ELSE Len(level)]

\* The level above.
LEMMA NextLevelIs ==
    ASSUME NEW level, IsLevel(level)
    PROVE  /\ IsLevel(NextLevel(level))
           /\ Len(NextLevel(level)) = (Len(level) + 1) \div 2
           /\ DOMAIN NextLevel(level) = 1..(Len(level) + 1) \div 2
           /\ \A i \in 1..(Len(level) + 1) \div 2 :
                NextLevel(level)[i] = HashPair(level[2*i - 1], Right(level, i))
<1> DEFINE n == Len(level)
           m == (n + 1) \div 2
           up == NextLevel(level)
<1>1. n \in Nat /\ n > 0
  BY LevelPlaces
<1>2. m \in Nat /\ m > 0 /\ \A i \in 1..m : 2*i \in Nat
  BY <1>1, HalfUp
<1>3. ASSUME NEW i \in 1..m
      PROVE  Min({2*i, n}) = IF 2*i <= n THEN 2*i ELSE n
  <2>1. 2*i \in Nat
    BY <1>2
  <2>2. /\ Min({2*i, n}) <= 2*i /\ Min({2*i, n}) <= n
        /\ Min({2*i, n}) = 2*i \/ Min({2*i, n}) = n
    BY <1>1, <2>1, MinOfTwo
  <2> QED BY <1>1, <2>1, <2>2
<1>4. up = [i \in 1..m |-> HashPair(level[2*i - 1], level[Min({2*i, n})])]
  BY DEF NextLevel
<1> DEFINE T == {up[i] : i \in 1..m}
<1> HIDE DEF n, m, up
<1>5. DOMAIN up = 1..m /\ up \in [1..m -> T]
  BY <1>4 DEF T
<1>6. up \in Seq(T) /\ Len(up) = m
  BY <1>2, <1>5
<1>7. \A i \in 1..m : up[i] = HashPair(level[2*i - 1], Right(level, i))
  BY <1>3, <1>4 DEF Right, n
<1> QED BY <1>2, <1>5, <1>6, <1>7 DEF IsLevel, n, m, up

-----------------------------------------------------------------------------
(* Trees. *)

\* A sequence of levels from the leaves on, each above the one before.
IsTower(levels, leaves) ==
    /\ IsLevel(levels)
    /\ levels[1] = leaves
    /\ \A k \in 1..Len(levels) : IsLevel(levels[k])
    /\ \A k \in 1..Len(levels) - 1 :
        Len(levels[k]) > 1 /\ levels[k + 1] = NextLevel(levels[k])

\* It goes up to a level of one node.
IsTree(levels, leaves) == IsTower(levels, leaves) /\ Len(levels[Len(levels)]) = 1

\* The loop of NewTree adds a smaller level, or ends.
LEMMA GrowStep ==
    ASSUME NEW leaves, NEW levels, IsTower(levels, leaves)
    PROVE  /\ IsTower(Grow(levels), leaves)
           /\ Len(Last(levels)) \in Nat
           /\ Len(Last(levels)) > 1 => Len(Last(Grow(levels))) < Len(Last(levels))
           /\ ~ Len(Last(levels)) > 1 => Len(Last(Grow(levels))) = 1
<1> DEFINE n == Len(levels)
           top == levels[n]
           up == NextLevel(top)
<1>1. n \in Nat /\ n > 0 /\ Last(levels) = top /\ IsLevel(top)
  BY LevelPlaces DEF IsTower, Last
<1>2. Len(top) \in Nat /\ Len(top) > 0
  BY <1>1, LevelPlaces
<1>3. CASE Len(top) > 1
  <2>1. IsLevel(up) /\ Len(up) < Len(top)
    BY <1>1, <1>2, <1>3, NextLevelIs, HalfUp
  <2>2. PICK T : levels \in Seq(T)
    BY DEF IsTower, IsLevel
  <2> DEFINE more == Append(levels, up)
  <2>3. levels \in Seq(T \cup {up}) /\ up \in T \cup {up}
    BY <2>2
  <2> HIDE DEF up
  <2>4. /\ more \in Seq(T \cup {up}) /\ Len(more) = n + 1
        /\ more[n + 1] = up /\ \A k \in 1..n : more[k] = levels[k]
    BY <2>3, Appended DEF n
  <2>5. IsLevel(more)
    BY <1>1, <2>4 DEF IsLevel
  <2> HIDE DEF more, n
  <2>6. \A k \in 1..n + 1 : IsLevel(more[k])
    BY <1>1, <2>1, <2>4 DEF IsTower, n
  <2>7. \A k \in 1..n : Len(more[k]) > 1 /\ more[k + 1] = NextLevel(more[k])
    <3> TAKE k \in 1..n
    <3>1. CASE k = n
      BY <1>1, <1>3, <2>4, <3>1 DEF up
    <3>2. CASE k # n
      <4>1. k \in 1..n - 1 /\ k + 1 \in 1..n
        BY <1>1, <3>2
      <4> QED BY <2>4, <4>1 DEF IsTower, n
    <3> QED BY <3>1, <3>2
  <2>8. more[1] = leaves /\ Last(more) = up
    BY <1>1, <2>4 DEF IsTower, Last
  <2>9. IsTower(more, leaves)
    BY <1>1, <2>4, <2>5, <2>6, <2>7, <2>8 DEF IsTower
  <2>10. Grow(levels) = more
    BY <1>1, <1>3 DEF Grow, more, up
  <2> QED BY <1>1, <1>2, <1>3, <2>1, <2>8, <2>9, <2>10
<1>4. CASE ~ Len(top) > 1
  <2>1. Grow(levels) = levels
    BY <1>1, <1>4 DEF Grow
  <2> HIDE DEF top
  <2>2. Len(top) = 1
    <3>1. PICK a \in Nat : a = Len(top) /\ a > 0 /\ ~ a > 1
      BY <1>2, <1>4
    <3>2. a = 1
      BY <3>1
    <3> QED BY <3>1, <3>2
  <2> QED BY <1>1, <2>1, <2>2
<1> QED BY <1>3, <1>4

\* f is the recursive function of NewTree up to m.
IsGrowth(leaves, m, f) ==
    f = [k \in 0..m |-> IF k = 0 THEN <<leaves>> ELSE Grow(f[k - 1])]

\* There is such a function.
LEMMA GrowthExists ==
    ASSUME NEW leaves, NEW n \in Nat
    PROVE  \E f : IsGrowth(leaves, n, f)
<1> DEFINE good == {m \in 0..n : \E f : IsGrowth(leaves, m, f)}
<1>1. 0 \in good
  <2>1. IsGrowth(leaves, 0, [k \in 0..0 |-> <<leaves>>])
    BY DEF IsGrowth
  <2> QED BY <2>1
<1>2. ASSUME NEW m \in 1..n, m - 1 \in good PROVE m \in good
  <2>1. PICK f : IsGrowth(leaves, m - 1, f)
    BY <1>2
  <2> DEFINE g == [k \in 0..m |-> IF k < m THEN f[k] ELSE Grow(f[m - 1])]
  <2>2. \A k \in 0..m : g[k] = IF k = 0 THEN <<leaves>> ELSE Grow(g[k - 1])
    <3> TAKE k \in 0..m
    <3>1. CASE k < m
      BY <2>1, <3>1 DEF IsGrowth
    <3>2. CASE k = m
      BY <3>2
    <3> QED BY <3>1, <3>2
  <2>3. IsGrowth(leaves, m, g)
    BY <2>2, Zenon DEF IsGrowth
  <2> QED BY <2>3
<1> HIDE DEF good
<1>3. n \in good
  BY <1>1, <1>2, CountUp
<1> QED BY <1>3 DEF good

\* NewTree builds the tree over its leaves.
LEMMA NewTreeIsTree ==
    ASSUME NEW leaves, IsLevel(leaves)
    PROVE  IsTree(NewTree(leaves), leaves)
<1> DEFINE n == Len(leaves)
           f == CHOOSE f : IsGrowth(leaves, n, f)
<1>1. n \in Nat /\ n > 0
  BY LevelPlaces
<1>2. IsGrowth(leaves, n, f)
  BY <1>1, GrowthExists
<1>3. NewTree(leaves) = f[n]
  BY DEF NewTree, IsGrowth
<1> HIDE DEF f, n
<1>4. f[0] = <<leaves>> /\ \A k \in 1..n : f[k] = Grow(f[k - 1])
  BY <1>1, <1>2 DEF IsGrowth
<1> DEFINE good == {k \in 0..n : /\ IsTower(f[k], leaves)
                                 /\ Len(Last(f[k])) = 1 \/ Len(Last(f[k])) <= n - k}
<1>5. 0 \in good
  <2>1. IsLevel(<<leaves>>)
    <3>1. <<leaves>> \in Seq({leaves})
      OBVIOUS
    <3> QED BY <3>1 DEF IsLevel
  <2>2. IsTower(f[0], leaves)
    BY <1>4, <2>1 DEF IsTower
  <2>3. Last(f[0]) = leaves
    BY <1>4 DEF Last
  <2> QED BY <1>1, <2>2, <2>3 DEF n
<1>6. ASSUME NEW k \in 1..n, k - 1 \in good PROVE k \in good
  <2>1. /\ IsTower(f[k - 1], leaves) /\ f[k] = Grow(f[k - 1])
        /\ Len(Last(f[k - 1])) = 1 \/ Len(Last(f[k - 1])) <= n - (k - 1)
    BY <1>4, <1>6
  <2>2. /\ IsTower(f[k], leaves) /\ Len(Last(f[k - 1])) \in Nat
        /\ Len(Last(f[k - 1])) > 1 => Len(Last(f[k])) < Len(Last(f[k - 1]))
        /\ ~ Len(Last(f[k - 1])) > 1 => Len(Last(f[k])) = 1
    BY <2>1, GrowStep
  <2>3. Len(Last(f[k])) \in Nat
    BY <2>2, GrowStep
  <2>4. Len(Last(f[k])) = 1 \/ Len(Last(f[k])) <= n - k
    <3> DEFINE a == Len(Last(f[k - 1]))
               b == Len(Last(f[k]))
    <3>1. /\ a \in Nat /\ b \in Nat /\ (a = 1 \/ a <= n - (k - 1))
          /\ a > 1 => b < a
          /\ ~ a > 1 => b = 1
      BY <2>1, <2>2, <2>3
    <3> HIDE DEF a, b
    <3>2. b = 1 \/ b <= n - k
      BY <1>1, <3>1
    <3> QED BY <3>2 DEF b
  <2> QED BY <2>2, <2>4
<1> HIDE DEF good
<1>7. n \in good
  <2>1. \A k \in 1..n : k - 1 \in good => k \in good
    BY <1>6
  <2>2. 0..n \subseteq good
    BY <1>1, <1>5, <2>1, CountUp
  <2>3. n \in 0..n
    BY <1>1
  <2> QED BY <2>2, <2>3
<1>8. IsTower(f[n], leaves) /\ (Len(Last(f[n])) = 1 \/ Len(Last(f[n])) <= n - n)
  BY <1>7 DEF good
<1>9. IsLevel(Last(f[n])) /\ Last(f[n]) = f[n][Len(f[n])]
  <2>1. Len(f[n]) \in 1..Len(f[n])
    BY <1>8, LevelPlaces DEF IsTower
  <2> QED BY <1>8, <2>1 DEF IsTower, Last
<1>10. Len(Last(f[n])) = 1
  <2>1. PICK a \in Nat : a = Len(Last(f[n])) /\ a > 0
    BY <1>9, LevelPlaces
  <2>2. a = 1
    BY <1>1, <1>8, <2>1
  <2> QED BY <2>1, <2>2
<1> QED BY <1>3, <1>8, <1>9, <1>10 DEF IsTree

-----------------------------------------------------------------------------
(* Walks. *)

\* f is the recursive function of a walk up to m.
IsWalk(leaf, proof, m, f) ==
    f = [k \in 0..m |-> IF k = 0 THEN leaf ELSE Combine(f[k - 1], proof[k])]

\* Where a walk ends.
Walk(leaf, proof) == (CHOOSE f : IsWalk(leaf, proof, Len(proof), f))[Len(proof)]

\* The gateway, the web client and the mobile app take one walk.
LEMMA OneWalk ==
    /\ \A leaf, proof, root : Verify(leaf, proof, root) <=> Walk(leaf, proof) = root
    /\ \A leaf, proof : WebWalk(leaf, proof) = Walk(leaf, proof)
    /\ \A response : VerifyProof(response).recomputedRoot
                       = Walk(<<CanonicalEntryString(response.entry)>>, response.proof)
<1>1. \A leaf, proof, root : Verify(leaf, proof, root) <=> Walk(leaf, proof) = root
  BY DEF Verify, Walk, IsWalk
<1>2. \A leaf, proof : WebWalk(leaf, proof) = Walk(leaf, proof)
  BY DEF WebWalk, WebHashPair, Walk, IsWalk, Combine, HashPair
<1>3. \A response : VerifyProof(response).recomputedRoot
                      = Walk(<<CanonicalEntryString(response.entry)>>, response.proof)
  BY DEF VerifyProof, Walk, IsWalk, Combine, HashPair
<1> QED BY <1>1, <1>2, <1>3

\* There is a recursive function.
LEMMA WalkExists ==
    ASSUME NEW leaf, NEW proof, NEW n \in Nat
    PROVE  \E f : IsWalk(leaf, proof, n, f)
<1> DEFINE good == {m \in 0..n : \E f : IsWalk(leaf, proof, m, f)}
<1>1. 0 \in good
  <2>1. IsWalk(leaf, proof, 0, [k \in 0..0 |-> leaf])
    BY DEF IsWalk
  <2> QED BY <2>1
<1>2. ASSUME NEW m \in 1..n, m - 1 \in good PROVE m \in good
  <2>1. PICK f : IsWalk(leaf, proof, m - 1, f)
    BY <1>2
  <2> DEFINE g == [k \in 0..m |-> IF k < m THEN f[k] ELSE Combine(f[m - 1], proof[m])]
  <2>2. \A k \in 0..m : g[k] = IF k = 0 THEN leaf ELSE Combine(g[k - 1], proof[k])
    <3> TAKE k \in 0..m
    <3>1. CASE k < m
      BY <2>1, <3>1 DEF IsWalk
    <3>2. CASE k = m
      BY <3>2
    <3> QED BY <3>1, <3>2
  <2>3. IsWalk(leaf, proof, m, g)
    BY <2>2, Zenon DEF IsWalk
  <2> QED BY <2>3
<1> HIDE DEF good
<1>3. n \in good
  BY <1>1, <1>2, CountUp
<1> QED BY <1>3 DEF good

\* The hashes on the way.
Walks(leaf, proof, f) ==
    /\ f[0] = leaf
    /\ \A k \in 1..Len(proof) : f[k] = Combine(f[k - 1], proof[k])
    /\ Walk(leaf, proof) = f[Len(proof)]

\* The steps of a walk.
LEMMA WalkSteps ==
    ASSUME NEW leaf, NEW proof, Len(proof) \in Nat
    PROVE  \E f : Walks(leaf, proof, f)
<1> DEFINE f == CHOOSE f : IsWalk(leaf, proof, Len(proof), f)
<1>1. IsWalk(leaf, proof, Len(proof), f)
  BY WalkExists
<1>2. Walk(leaf, proof) = f[Len(proof)]
  BY DEF Walk
<1> HIDE DEF f
<1>3. f[0] = leaf /\ \A k \in 1..Len(proof) : f[k] = Combine(f[k - 1], proof[k])
  BY <1>1 DEF IsWalk
<1> QED BY <1>2, <1>3 DEF Walks

\* Two leaves do not walk to one root: the hashes that are paired can be told.
LEMMA WalkInjective ==
    ASSUME NEW a, NEW b, NEW proof, Len(proof) \in Nat, Walk(a, proof) = Walk(b, proof)
    PROVE  a = b
<1> DEFINE n == Len(proof)
<1> PICK f : Walks(a, proof, f)
  BY WalkSteps
<1>1. /\ f[0] = a /\ Walk(a, proof) = f[n]
      /\ \A k \in 1..n : f[k] = Combine(f[k - 1], proof[k])
  BY DEF Walks
<1> PICK g : Walks(b, proof, g)
  BY WalkSteps
<1>2. /\ g[0] = b /\ Walk(b, proof) = g[n]
      /\ \A k \in 1..n : g[k] = Combine(g[k - 1], proof[k])
  BY DEF Walks
<1> DEFINE good == {k \in 0..n : f[k] = g[k] => a = b}
<1>3. 0 \in good
  BY <1>1, <1>2
<1>4. ASSUME NEW k \in 1..n, k - 1 \in good PROVE k \in good
  <2>1. \A x, y : Combine(x, proof[k]) = Combine(y, proof[k]) => x = y
    BY DEF Combine, HashPair
  <2>2. f[k] = g[k] => f[k - 1] = g[k - 1]
    BY <1>1, <1>2, <2>1
  <2> QED BY <1>4, <2>2
<1>5. n \in Nat
  OBVIOUS
<1> HIDE DEF good, n
<1>6. n \in good
  BY <1>3, <1>4, <1>5, CountUp
<1>7. f[n] = g[n]
  BY <1>1, <1>2
<1> QED BY <1>6, <1>7 DEF good

-----------------------------------------------------------------------------
(* Proofs. *)

\* f is the recursive function of the positions up to level m.
IsPath(index, m, f) == f = [k \in 1..m |-> IF k = 1 THEN index ELSE f[k - 1] \div 2]

\* There is such a function.
LEMMA PathExists ==
    ASSUME NEW index, NEW n \in Nat
    PROVE  \E f : IsPath(index, n, f)
<1> DEFINE good == {m \in 0..n : \E f : IsPath(index, m, f)}
<1>1. 0 \in good
  <2>1. IsPath(index, 0, [k \in 1..0 |-> index])
    BY DEF IsPath
  <2> QED BY <2>1
<1>2. ASSUME NEW m \in 1..n, m - 1 \in good PROVE m \in good
  <2>1. PICK f : IsPath(index, m - 1, f)
    BY <1>2
  <2> DEFINE g == [k \in 1..m |->
                    IF k < m THEN f[k] ELSE IF m = 1 THEN index ELSE f[m - 1] \div 2]
  <2>2. \A k \in 1..m : g[k] = IF k = 1 THEN index ELSE g[k - 1] \div 2
    <3> TAKE k \in 1..m
    <3>1. CASE k < m
      BY <2>1, <3>1 DEF IsPath
    <3>2. CASE k = m
      BY <3>2
    <3> QED BY <3>1, <3>2
  <2>3. IsPath(index, m, g)
    BY <2>2, Zenon DEF IsPath
  <2> QED BY <2>3
<1> HIDE DEF good
<1>3. n \in good
  BY <1>1, <1>2, CountUp
<1> QED BY <1>3 DEF good

\* A node and its sibling make the node above.
LEMMA SiblingStep ==
    ASSUME NEW level, IsLevel(level), NEW p \in 0..Len(level) - 1
    PROVE  /\ p \div 2 \in 0..Len(NextLevel(level)) - 1
           /\ Combine(level[p + 1], Sibling(level, p)) = NextLevel(level)[p \div 2 + 1]
<1> DEFINE n == Len(level)
           i == p \div 2 + 1
<1>1. n \in Nat /\ n > 0 /\ p \in Nat /\ p + 1 <= n
  BY LevelPlaces
<1>2. i \in 1..(n + 1) \div 2 /\ Len(NextLevel(level)) = (n + 1) \div 2
  <2>1. Len(NextLevel(level)) = (n + 1) \div 2
    BY NextLevelIs
  <2> HIDE DEF n
  <2> QED BY <1>1, <2>1
<1>3. NextLevel(level)[i] = HashPair(level[2*i - 1], Right(level, i))
  <2> HIDE DEF i
  <2> QED BY <1>2, NextLevelIs
<1>4. CASE p % 2 = 0
  <2>1. p + 1 = 2*i - 1 /\ p + 2 = 2*i
    BY <1>1, <1>4
  <2>2. Min({p + 2, n}) = IF 2*i <= n THEN 2*i ELSE n
    <3>1. /\ Min({p + 2, n}) <= p + 2 /\ Min({p + 2, n}) <= n
          /\ Min({p + 2, n}) = p + 2 \/ Min({p + 2, n}) = n
      BY <1>1, MinOfTwo
    <3> HIDE DEF n, i
    <3> QED BY <1>1, <2>1, <3>1
  <2>3. Combine(level[p + 1], Sibling(level, p)) = HashPair(level[p + 1], level[Min({p + 2, n})])
    BY <1>4 DEF Combine, Sibling, Step
  <2> HIDE DEF i
  <2> QED BY <1>2, <1>3, <2>1, <2>2, <2>3 DEF Right, i
<1>5. CASE p % 2 # 0
  <2>1. p = 2*i - 1 /\ p + 1 = 2*i
    BY <1>1, <1>5
  <2>2. Right(level, i) = level[p + 1]
    BY <1>1, <2>1 DEF Right
  <2>3. Combine(level[p + 1], Sibling(level, p)) = HashPair(level[p], level[p + 1])
    BY <1>5 DEF Combine, Sibling, Step
  <2> QED BY <1>2, <1>3, <2>1, <2>2, <2>3
<1> QED BY <1>4, <1>5

\* The positions above a leaf, and the proof with the siblings there.
IsProof(tree, index, pos, proof) ==
    /\ pos[1] = index
    /\ \A k \in 1..Len(tree) : pos[k] \in 0..Len(tree[k]) - 1
    /\ \A k \in 1..Len(tree) - 1 : pos[k + 1] = pos[k] \div 2
    /\ proof = [k \in 1..Len(tree) - 1 |-> Sibling(tree[k], pos[k])]

\* The proof of a leaf: the siblings of the nodes above it.
LEMMA ProofSteps ==
    ASSUME NEW leaves, NEW tree, IsTree(tree, leaves), NEW i \in 1..Len(leaves)
    PROVE  \E pos : IsProof(tree, i - 1, pos, Proof(tree, i - 1))
<1> DEFINE n == Len(tree)
           pos == CHOOSE f : IsPath(i - 1, n, f)
<1>1. n \in Nat /\ n > 0
  BY LevelPlaces DEF IsTree, IsTower
<1>2. IsPath(i - 1, n, pos)
  BY <1>1, PathExists
<1>3. Proof(tree, i - 1) = [k \in 1..n - 1 |-> Sibling(tree[k], pos[k])]
  BY DEF Proof, IsPath
<1> HIDE DEF pos, n
<1>4. pos[1] = i - 1 /\ \A k \in 1..n - 1 : pos[k + 1] = pos[k] \div 2
  <2>1. pos[1] = i - 1
    BY <1>1, <1>2 DEF IsPath
  <2>2. ASSUME NEW k \in 1..n - 1 PROVE pos[k + 1] = pos[k] \div 2
    <3>1. k + 1 \in 1..n /\ k + 1 # 1 /\ (k + 1) - 1 = k
      BY <1>1
    <3> QED BY <1>2, <3>1 DEF IsPath
  <2> QED BY <2>1, <2>2
<1> DEFINE good == {m \in 0..n : m > 0 => pos[m] \in 0..Len(tree[m]) - 1}
<1>5. 0 \in good
  BY <1>1
<1>6. ASSUME NEW m \in 1..n, m - 1 \in good PROVE m \in good
  <2>1. CASE m = 1
    <3>1. tree[1] = leaves
      BY DEF IsTree, IsTower
    <3>2. Len(leaves) \in Nat
      BY <1>1, <3>1, LevelPlaces DEF IsTree, IsTower, n
    <3> QED BY <1>4, <2>1, <3>1, <3>2
  <2>2. CASE m # 1
    <3> DEFINE k == m - 1
    <3>1. k \in 1..n - 1 /\ k \in 1..n /\ k > 0 /\ k + 1 = m
      BY <1>1, <2>2
    <3>2. pos[k] \in 0..Len(tree[k]) - 1
      BY <1>6, <3>1
    <3> HIDE DEF k
    <3>3. IsLevel(tree[k]) /\ tree[m] = NextLevel(tree[k])
      BY <3>1 DEF IsTree, IsTower, n
    <3>4. pos[m] = pos[k] \div 2
      BY <1>4, <3>1
    <3>5. pos[m] \in 0..Len(tree[m]) - 1
      BY <3>2, <3>3, <3>4, SiblingStep
    <3> QED BY <3>5
  <2> QED BY <2>1, <2>2
<1> HIDE DEF good
<1>7. 0..n \subseteq good
  BY <1>1, <1>5, <1>6, CountUp
<1>8. \A k \in 1..n : pos[k] \in 0..Len(tree[k]) - 1
  BY <1>1, <1>7 DEF good
<1> QED BY <1>3, <1>4, <1>8 DEF n, IsProof

\* The length of a proof is the height of the tree.
LEMMA ProofLength ==
    ASSUME NEW leaves, NEW tree, IsTree(tree, leaves), NEW i \in 1..Len(leaves)
    PROVE  Len(Proof(tree, i - 1)) = Len(tree) - 1 /\ Len(Proof(tree, i - 1)) \in Nat
<1>1. Len(tree) \in Nat /\ Len(tree) > 0
  BY LevelPlaces DEF IsTree, IsTower
<1>2. PICK pos : Proof(tree, i - 1) = [k \in 1..Len(tree) - 1 |-> Sibling(tree[k], pos[k])]
  BY ProofSteps DEF IsProof
<1> DEFINE S == {Sibling(tree[k], pos[k]) : k \in 1..Len(tree) - 1}
           n == Len(tree) - 1
<1>3. n \in Nat /\ Proof(tree, i - 1) \in [1..n -> S]
  BY <1>1, <1>2
<1> HIDE DEF S, n
<1>4. Len(Proof(tree, i - 1)) = n
  BY <1>3
<1> QED BY <1>3, <1>4 DEF n

\* The walk from a leaf along its proof passes the nodes above it, up to the root.
LEMMA WalkToRoot ==
    ASSUME NEW leaves, NEW tree, IsTree(tree, leaves), NEW i \in 1..Len(leaves)
    PROVE  Walk(leaves[i], Proof(tree, i - 1)) = Root(tree)
<1> DEFINE proof == Proof(tree, i - 1)
<1>1. PICK n \in Nat : Len(proof) = n /\ n = Len(tree) - 1 /\ Len(tree) \in Nat
  BY ProofLength, LevelPlaces DEF IsTree, IsTower
<1> PICK pos : IsProof(tree, i - 1, pos, proof)
  BY ProofSteps
<1>2. /\ pos[1] = i - 1
      /\ \A k \in 1..Len(tree) : pos[k] \in 0..Len(tree[k]) - 1
      /\ \A k \in 1..Len(tree) - 1 : pos[k + 1] = pos[k] \div 2
      /\ proof = [k \in 1..Len(tree) - 1 |-> Sibling(tree[k], pos[k])]
  BY DEF IsProof
<1> PICK f : Walks(leaves[i], proof, f)
  BY <1>1, WalkSteps
<1>3. /\ f[0] = leaves[i] /\ Walk(leaves[i], proof) = f[Len(proof)]
      /\ \A k \in 1..Len(proof) : f[k] = Combine(f[k - 1], proof[k])
  BY DEF Walks
<1>4. \A k \in 1..n : proof[k] = Sibling(tree[k], pos[k])
  BY <1>1, <1>2
<1> HIDE DEF proof
<1> DEFINE good == {k \in 0..n : f[k] = tree[k + 1][pos[k + 1] + 1]}
<1>5. 0 \in good
  <2>1. tree[1] = leaves /\ pos[1] + 1 = i
    <3>1. i \in Int
      OBVIOUS
    <3> QED BY <1>2, <3>1 DEF IsTree, IsTower
  <2>2. 0 + 1 = 1 /\ 0 \in 0..n
    OBVIOUS
  <2> QED BY <1>3, <2>1, <2>2
<1>6. ASSUME NEW k \in 1..n, k - 1 \in good PROVE k \in good
  <2>1. (k - 1) + 1 = k /\ k \in 1..Len(tree) /\ k \in 1..Len(tree) - 1
    BY <1>1
  <2>2. IsLevel(tree[k]) /\ tree[k + 1] = NextLevel(tree[k])
    BY <2>1 DEF IsTree, IsTower
  <2>3. pos[k] \in 0..Len(tree[k]) - 1 /\ pos[k + 1] = pos[k] \div 2
    BY <1>2, <2>1
  <2>4. f[k - 1] = tree[k][pos[k] + 1]
    BY <1>6, <2>1
  <2>5. f[k] = Combine(tree[k][pos[k] + 1], Sibling(tree[k], pos[k]))
    BY <1>1, <1>3, <1>4, <2>4
  <2>6. f[k] = NextLevel(tree[k])[pos[k] \div 2 + 1]
    BY <2>2, <2>3, <2>5, SiblingStep
  <2> QED BY <2>2, <2>3, <2>6
<1> HIDE DEF good
<1>7. n \in good
  <2>1. \A k \in 1..n : k - 1 \in good => k \in good
    BY <1>6
  <2>2. 0..n \subseteq good
    BY <1>1, <1>5, <2>1, CountUp
  <2>3. n \in 0..n
    BY <1>1
  <2> QED BY <2>2, <2>3
<1>8. f[n] = tree[n + 1][pos[n + 1] + 1] /\ n + 1 = Len(tree) /\ n + 1 \in 1..Len(tree)
  BY <1>1, <1>7 DEF good
<1>9. Len(tree[n + 1]) = 1 /\ pos[n + 1] \in 0..Len(tree[n + 1]) - 1
  BY <1>2, <1>8 DEF IsTree
<1>10. pos[n + 1] + 1 = 1
  BY <1>9
<1> QED BY <1>1, <1>3, <1>8, <1>10 DEF Root, Last, proof

-----------------------------------------------------------------------------
(* Roots. *)

\* No node twice.
Distinct(level) == \A i, j \in DOMAIN level : level[i] = level[j] => i = j

\* Nodes that differ make pairs that differ.
LEMMA NextLevelDistinct ==
    ASSUME NEW level, IsLevel(level), Distinct(level)
    PROVE  Distinct(NextLevel(level))
<1> DEFINE m == (Len(level) + 1) \div 2
           up == NextLevel(level)
<1>1. /\ DOMAIN up = 1..m /\ m \in Nat
      /\ \A i \in 1..m : /\ up[i] = HashPair(level[2*i - 1], Right(level, i))
                         /\ 2*i - 1 \in DOMAIN level
  BY NextLevelIs, LevelPlaces, HalfUp
<1> HIDE DEF m, up
<1>2. ASSUME NEW i \in 1..m, NEW j \in 1..m, up[i] = up[j]
      PROVE  i = j
  <2>1. level[2*i - 1] = level[2*j - 1]
    BY <1>1, <1>2 DEF HashPair
  <2>2. 2*i - 1 = 2*j - 1
    BY <1>1, <2>1 DEF Distinct
  <2> QED BY <1>1, <2>2
<1> QED BY <1>1, <1>2 DEF Distinct, up

\* Two levels with one level above are not of lengths 2m - 1 and 2m: an odd node
\* is paired with itself, and the two last nodes of the longer level differ.
LEMMA NotOneLonger ==
    ASSUME NEW a, IsLevel(a), NEW b, IsLevel(b), Distinct(b),
           NextLevel(a) = NextLevel(b), NEW m \in Nat, m > 0, Len(a) = 2*m - 1, Len(b) = 2*m
    PROVE  FALSE
<1>1. m \in 1..(Len(a) + 1) \div 2 /\ m \in 1..(Len(b) + 1) \div 2
  OBVIOUS
<1>2. HashPair(a[2*m - 1], Right(a, m)) = HashPair(b[2*m - 1], Right(b, m))
  BY <1>1, NextLevelIs
<1>3. Right(a, m) = a[2*m - 1] /\ Right(b, m) = b[2*m]
  BY DEF Right
<1>4. b[2*m - 1] = b[2*m]
  BY <1>2, <1>3 DEF HashPair
<1>5. 2*m - 1 \in DOMAIN b /\ 2*m \in DOMAIN b /\ 2*m - 1 # 2*m
  BY LevelPlaces
<1> QED BY <1>4, <1>5 DEF Distinct

\* The level above has one level below it.
LEMMA NextLevelInjective ==
    ASSUME NEW a, IsLevel(a), Distinct(a), NEW b, IsLevel(b), Distinct(b),
           NextLevel(a) = NextLevel(b)
    PROVE  a = b
<1>1. PICK n \in Nat : n > 0 /\ Len(a) = n /\ DOMAIN a = 1..n
  BY LevelPlaces
<1>2. PICK l \in Nat : l > 0 /\ Len(b) = l /\ DOMAIN b = 1..l
  BY LevelPlaces
<1>3. (n + 1) \div 2 = (l + 1) \div 2
  BY <1>1, <1>2, NextLevelIs
<1>4. n = l
  <2>1. ASSUME NEW m \in Nat, m > 0, n = 2*m - 1, l = 2*m PROVE FALSE
    BY <1>1, <1>2, <2>1, NotOneLonger
  <2>2. ASSUME NEW m \in Nat, m > 0, n = 2*m, l = 2*m - 1 PROVE FALSE
    BY <1>1, <1>2, <2>2, NotOneLonger
  <2> DEFINE m == (n + 1) \div 2
  <2>3. /\ m \in Nat /\ m > 0
        /\ n = 2*m - 1 \/ n = 2*m
        /\ l = 2*m - 1 \/ l = 2*m
    BY <1>1, <1>2, <1>3
  <2> HIDE DEF m
  <2> QED BY <2>1, <2>2, <2>3
<1>5. ASSUME NEW i \in 1..n PROVE a[i] = b[i]
  <2> DEFINE j == (i + 1) \div 2
  <2>1. /\ j \in 1..(n + 1) \div 2 /\ j \in Nat
        /\ i = 2*j - 1 \/ (i = 2*j /\ 2*j <= n)
    BY <1>1
  <2> HIDE DEF j
  <2>2. HashPair(a[2*j - 1], Right(a, j)) = HashPair(b[2*j - 1], Right(b, j))
    BY <1>1, <1>2, <1>4, <2>1, NextLevelIs
  <2>3. a[2*j - 1] = b[2*j - 1] /\ Right(a, j) = Right(b, j)
    BY <2>2 DEF HashPair
  <2>4. CASE i = 2*j - 1
    BY <2>3, <2>4
  <2>5. CASE i = 2*j /\ 2*j <= n
    BY <1>1, <1>2, <1>4, <2>3, <2>5 DEF Right
  <2> QED BY <2>1, <2>4, <2>5
<1> QED BY <1>1, <1>2, <1>4, <1>5 DEF IsLevel

\* Over leaves that differ, no level of a tree has a node twice.
LEMMA TreeDistinct ==
    ASSUME NEW leaves, NEW tree, IsTree(tree, leaves), Distinct(leaves)
    PROVE  \A k \in 1..Len(tree) : Distinct(tree[k])
<1>1. PICK n \in Nat : n = Len(tree)
  BY LevelPlaces DEF IsTree, IsTower
<1> DEFINE good == {k \in 0..n : k > 0 => Distinct(tree[k])}
<1>2. 0 \in good
  BY <1>1
<1>3. ASSUME NEW k \in 1..n, k - 1 \in good PROVE k \in good
  <2>1. CASE k = 1
    BY <2>1 DEF IsTree, IsTower
  <2>2. CASE k # 1
    <3>1. k - 1 \in 1..Len(tree) /\ k - 1 \in 1..Len(tree) - 1 /\ (k - 1) + 1 = k /\ k - 1 > 0
      BY <1>1, <2>2
    <3>2. IsLevel(tree[k - 1]) /\ tree[k] = NextLevel(tree[k - 1])
      BY <3>1 DEF IsTree, IsTower
    <3>3. Distinct(tree[k - 1])
      BY <1>3, <3>1
    <3> QED BY <3>2, <3>3, NextLevelDistinct
  <2> QED BY <2>1, <2>2
<1> HIDE DEF good
<1>4. 0..n \subseteq good
  BY <1>1, <1>2, <1>3, CountUp
<1> QED BY <1>1, <1>4 DEF good

\* Two trees with one root agree from the top down.
LEMMA SameLevels ==
    ASSUME NEW l, NEW t, IsTree(t, l), Distinct(l),
           NEW m, NEW u, IsTree(u, m), Distinct(m), Root(t) = Root(u),
           NEW n \in Nat, n < Len(t), n < Len(u)
    PROVE  t[Len(t) - n] = u[Len(u) - n]
<1>1. PICK h \in Nat : h = Len(t) /\ h > 0
  BY LevelPlaces DEF IsTree, IsTower
<1>2. PICK g \in Nat : g = Len(u) /\ g > 0
  BY LevelPlaces DEF IsTree, IsTower
<1> DEFINE good == {k \in 0..n : t[h - k] = u[g - k]}
<1>3. 0 \in good
  <2>1. IsLevel(t[h]) /\ Len(t[h]) = 1 /\ IsLevel(u[g]) /\ Len(u[g]) = 1
    BY <1>1, <1>2 DEF IsTree, IsTower
  <2>2. t[h][1] = u[g][1]
    BY <1>1, <1>2 DEF Root, Last
  <2>3. t[h] = u[g]
    <3>1. DOMAIN t[h] = 1..1 /\ DOMAIN u[g] = 1..1
      BY <2>1, LevelPlaces
    <3> QED BY <2>1, <2>2, <3>1 DEF IsLevel
  <2>4. h - 0 = h /\ g - 0 = g
    BY <1>1, <1>2
  <2> QED BY <2>3, <2>4
<1>4. ASSUME NEW k \in 1..n, k - 1 \in good PROVE k \in good
  <2>1. /\ h - k \in 1..h /\ h - k \in 1..h - 1 /\ (h - k) + 1 = h - (k - 1)
        /\ g - k \in 1..g /\ g - k \in 1..g - 1 /\ (g - k) + 1 = g - (k - 1)
    BY <1>1, <1>2
  <2>2. /\ IsLevel(t[h - k]) /\ t[h - (k - 1)] = NextLevel(t[h - k])
        /\ IsLevel(u[g - k]) /\ u[g - (k - 1)] = NextLevel(u[g - k])
    BY <1>1, <1>2, <2>1 DEF IsTree, IsTower
  <2>3. Distinct(t[h - k]) /\ Distinct(u[g - k])
    BY <1>1, <1>2, <2>1, TreeDistinct
  <2>4. NextLevel(t[h - k]) = NextLevel(u[g - k])
    BY <1>4, <2>2
  <2> QED BY <2>2, <2>3, <2>4, NextLevelInjective
<1> HIDE DEF good
<1>5. 0..n \subseteq good
  <2>1. n \in Nat /\ \A k \in 1..n : k - 1 \in good => k \in good
    BY <1>4
  <2> QED BY <1>3, <2>1, CountUp
<1>6. n \in 0..n
  OBVIOUS
<1> QED BY <1>1, <1>2, <1>5, <1>6 DEF good

\* The hash of an entry is not the hash of a pair.
IsLeaf(hash) == \E text : hash = <<text>>

\* The first node of a level above is a pair.
LEMMA FirstIsPair ==
    ASSUME NEW level, IsLevel(level)
    PROVE  \E a, b : NextLevel(level)[1] = HashPair(a, b)
<1>1. PICK n \in Nat : n > 0 /\ Len(level) = n
  BY LevelPlaces
<1>2. 1 \in 1..(Len(level) + 1) \div 2
  BY <1>1
<1> QED BY <1>2, NextLevelIs

\* Two trees with one root are of one height: a leaf is not a pair.
LEMMA NotHigher ==
    ASSUME NEW l, NEW t, IsTree(t, l), Distinct(l), \A i \in DOMAIN l : IsLeaf(l[i]),
           NEW m, NEW u, IsTree(u, m), Distinct(m), Root(t) = Root(u)
    PROVE  ~ Len(t) < Len(u)
<1>1. SUFFICES ASSUME Len(t) < Len(u) PROVE FALSE
  OBVIOUS
<1>2. PICK h \in Nat : h = Len(t) /\ h > 0
  BY LevelPlaces DEF IsTree, IsTower
<1>3. PICK g \in Nat : g = Len(u) /\ g > h
  BY <1>1, <1>2, LevelPlaces DEF IsTree, IsTower
<1>4. t[1] = u[g - h + 1]
  <2>1. h - 1 \in Nat /\ h - 1 < Len(t) /\ h - 1 < Len(u) /\ h - (h - 1) = 1 /\ g - (h - 1) = g - h + 1
    BY <1>2, <1>3
  <2>2. t[h - (h - 1)] = u[g - (h - 1)]
    BY <1>2, <1>3, <2>1, SameLevels
  <2> QED BY <2>1, <2>2
<1>5. g - h \in 1..Len(u) /\ g - h \in 1..Len(u) - 1
  BY <1>2, <1>3
<1>6. IsLevel(u[g - h]) /\ t[1] = NextLevel(u[g - h])
  BY <1>4, <1>5 DEF IsTree, IsTower
<1>7. IsLeaf(t[1][1])
  <2>1. t[1] = l /\ IsLevel(l)
    BY <1>2 DEF IsTree, IsTower
  <2>2. 1 \in DOMAIN l
    BY <2>1, LevelPlaces
  <2> QED BY <2>1, <2>2
<1>8. \E a, b : t[1][1] = HashPair(a, b)
  BY <1>6, FirstIsPair
<1>9. \A a, b, text : <<text>> # HashPair(a, b)
  BY DEF HashPair
<1> QED BY <1>7, <1>8, <1>9 DEF IsLeaf

\* A root has one sequence of leaves.
LEMMA SameLeaves ==
    ASSUME NEW l, NEW t, IsTree(t, l), Distinct(l), \A i \in DOMAIN l : IsLeaf(l[i]),
           NEW m, NEW u, IsTree(u, m), Distinct(m), \A i \in DOMAIN m : IsLeaf(m[i]),
           Root(t) = Root(u)
    PROVE  l = m
<1>1. PICK h \in Nat : h = Len(t) /\ h > 0
  BY LevelPlaces DEF IsTree, IsTower
<1>2. PICK g \in Nat : g = Len(u) /\ g > 0
  BY LevelPlaces DEF IsTree, IsTower
<1>3. ~ Len(t) < Len(u) /\ ~ Len(u) < Len(t)
  BY NotHigher
<1>4. h = g
  BY <1>1, <1>2, <1>3
<1>5. h - 1 \in Nat /\ h - 1 < Len(t) /\ h - 1 < Len(u) /\ h - (h - 1) = 1
  BY <1>1, <1>2, <1>4
<1>6. t[h - (h - 1)] = u[g - (h - 1)]
  BY <1>1, <1>2, <1>5, SameLevels
<1> QED BY <1>4, <1>5, <1>6 DEF IsTree, IsTower

-----------------------------------------------------------------------------
(* Canonical hashes. *)

\* Sorted lines are the lines, in the order of their texts.
LEMMA SortLinesIs ==
    ASSUME NEW lines \in Seq(LineTexts)
    PROVE  /\ SortLines(lines) \in Seq(Int) /\ NoStepDown(SortLines(lines))
           /\ \A x : Cardinality(Places(SortLines(lines), x)) = Cardinality(Places(lines, x))
<1> DEFINE T == Range(lines)
           less == {pair \in T \X T : pair[1] < pair[2]}
           sorted == Sorted(lines, less)
<1>1. T \subseteq Int /\ lines \in Seq(T)
  <2>1. lines \in Seq(Int)
    BY SeqWider, LineTextsAssumption
  <2>2. \A i \in DOMAIN lines : lines[i] \in Int
    BY <2>1, ElementOfSeq
  <2>3. lines \in [1..Len(lines) -> T] /\ Len(lines) \in Nat
    BY DEF Range
  <2> QED BY <2>2, <2>3 DEF Range
<1>2. \A a, b \in T : a \in Int /\ b \in Int /\ (<<a, b>> \in less <=> a < b)
  BY <1>1
<1> HIDE DEF less, T
<1>3. WeakOrder(less, T)
  BY <1>2 DEF WeakOrder
<1>4. /\ sorted \in Seq(T)
      /\ \A x : Cardinality(Places(sorted, x)) = Cardinality(Places(lines, x))
  BY <1>1, <1>3, SortedCounts
<1>5. sorted \in Seq(Int)
  BY <1>1, <1>4, SeqWider
<1>6. NoStepDown(sorted)
  <2>1. PICK p \in Bijection(DOMAIN lines, DOMAIN lines) :
          /\ sorted = [k \in DOMAIN lines |-> lines[p[k]]]
          /\ \A k, j \in DOMAIN lines : k < j => p[k] \in Ahead(lines, less, p[j])
    BY <1>1, <1>3, SortedPlaces
  <2>2. p \in [DOMAIN lines -> DOMAIN lines] /\ \A k \in DOMAIN lines : lines[p[k]] \in T
    BY <2>1, Fun_BijectionProperties DEF T, Range
  <2> SUFFICES ASSUME NEW k \in DOMAIN sorted, NEW j \in DOMAIN sorted, k < j
               PROVE  sorted[k] <= sorted[j]
    BY DEF NoStepDown
  <2>3. k \in DOMAIN lines /\ j \in DOMAIN lines /\ p[k] \in Ahead(lines, less, p[j])
    BY <2>1
  <2>4. sorted[k] = lines[p[k]] /\ sorted[j] = lines[p[j]]
    BY <2>1, <2>3
  <2>5. <<lines[p[k]], lines[p[j]]>> \in less \/ <<lines[p[j]], lines[p[k]]>> \notin less
    BY <2>3 DEF Ahead
  <2> HIDE DEF sorted
  <2> QED BY <1>2, <2>2, <2>3, <2>4, <2>5
<1>7. SortLines(lines) = sorted
  BY DEF SortLines, less, T
<1> HIDE DEF sorted
<1> QED BY <1>4, <1>5, <1>6, <1>7

\* The hash of an entry identifies its header and the bag of its lines.
LEMMA HashIdentifies ==
    ASSUME NEW d, d.lines \in Seq(LineTexts), NEW e, e.lines \in Seq(LineTexts)
    PROVE  CanonicalHash(d) = CanonicalHash(e) <=> SameEntry(d, e)
<1> DEFINE s == SortLines(d.lines)
           t == SortLines(e.lines)
<1>1. /\ s \in Seq(Int) /\ NoStepDown(s) /\ t \in Seq(Int) /\ NoStepDown(t)
      /\ \A x : /\ Cardinality(Places(s, x)) = Cardinality(Places(d.lines, x))
                /\ Cardinality(Places(t, x)) = Cardinality(Places(e.lines, x))
  BY SortLinesIs
<1>2. CanonicalHash(d) = CanonicalHash(e) <=> d.header = e.header /\ s = t
  BY DEF CanonicalHash
<1>3. SameEntry(d, e) <=> d.header = e.header /\ SameCounts(d.lines, e.lines, LineTexts)
  BY DEF SameEntry, SameCounts, Places
<1>4. s = t => SameCounts(d.lines, e.lines, LineTexts)
  BY <1>1 DEF SameCounts
<1>5. ASSUME SameCounts(d.lines, e.lines, LineTexts) PROVE s = t
  <2>1. \A x \in Int : Cardinality(Places(d.lines, x)) = Cardinality(Places(e.lines, x))
    <3> TAKE x \in Int
    <3>1. CASE x \in LineTexts
      BY <1>5, <3>1 DEF SameCounts
    <3>2. CASE x \notin LineTexts
      <4>1. Places(d.lines, x) = {} /\ Places(e.lines, x) = {}
        BY <3>2, ElementOfSeq DEF Places
      <4> QED BY <4>1
    <3> QED BY <3>1, <3>2
  <2>2. SameCounts(s, t, Int)
    BY <1>1, <2>1 DEF SameCounts
  <2> HIDE DEF s, t
  <2> QED BY <1>1, <2>2, CountsDetermine
<1> QED BY <1>2, <1>3, <1>4, <1>5

-----------------------------------------------------------------------------
(* Batches. *)

\* A sequence of entries, each once: the headers hold the primary key.
IsBatch(b) ==
    /\ IsLevel(b)
    /\ \A i \in DOMAIN b : b[i].lines \in Seq(LineTexts)
    /\ \A i, k \in DOMAIN b : b[i].header = b[k].header => i = k

\* The leaves over a batch.
LEMMA LeavesOfBatch ==
    ASSUME NEW b, IsBatch(b)
    PROVE  /\ IsLevel(Leaves(b)) /\ Distinct(Leaves(b)) /\ Len(Leaves(b)) = Len(b)
           /\ DOMAIN b = 1..Len(b) /\ DOMAIN Leaves(b) = 1..Len(b)
           /\ \A i \in DOMAIN b : Leaves(b)[i] = CanonicalHash(b[i])
           /\ \A i \in DOMAIN Leaves(b) : IsLeaf(Leaves(b)[i])
           /\ IsTree(Tree(b), Leaves(b))
<1> DEFINE T == {CanonicalHash(b[i]) : i \in DOMAIN b}
           l == Leaves(b)
<1>1. PICK n \in Nat : n > 0 /\ Len(b) = n /\ DOMAIN b = 1..n
  BY LevelPlaces DEF IsBatch
<1>2. DOMAIN l = 1..n /\ \A i \in 1..n : l[i] = CanonicalHash(b[i])
  BY <1>1 DEF Leaves
<1>3. l \in Seq(T) /\ Len(l) = n
  <2>1. l \in [1..n -> T]
    BY <1>1 DEF Leaves
  <2> HIDE DEF T, l
  <2> QED BY <2>1
<1> HIDE DEF T, l
<1>4. IsLevel(l)
  BY <1>1, <1>3 DEF IsLevel
<1>5. Distinct(l)
  <2>1. \A i, k \in 1..n : l[i] = l[k] => b[i].header = b[k].header
    BY <1>2 DEF CanonicalHash
  <2> QED BY <1>1, <1>2, <2>1 DEF Distinct, IsBatch
<1>6. \A i \in DOMAIN l : IsLeaf(l[i])
  BY <1>2 DEF CanonicalHash, IsLeaf
<1>7. IsTree(Tree(b), l)
  BY <1>4, NewTreeIsTree DEF Tree, l
<1> QED BY <1>1, <1>2, <1>3, <1>4, <1>5, <1>6, <1>7 DEF l

\* The proof of every entry of a batch leads to its root, however long the batch is
\* and wherever its levels have an odd end.
THEOREM EveryEntryHasProof ==
    ASSUME NEW b, IsBatch(b), NEW i \in DOMAIN b
    PROVE  Verify(CanonicalHash(b[i]), Proof(Tree(b), i - 1), Root(Tree(b)))
<1>1. /\ IsTree(Tree(b), Leaves(b)) /\ i \in 1..Len(Leaves(b))
      /\ Leaves(b)[i] = CanonicalHash(b[i])
  BY LeavesOfBatch
<1>2. Walk(Leaves(b)[i], Proof(Tree(b), i - 1)) = Root(Tree(b))
  BY <1>1, WalkToRoot
<1> QED BY <1>1, <1>2, OneWalk

\* A hash walks along the proof of an entry to the root only if it is that entry's.
LEMMA OnlyItsLeaf ==
    ASSUME NEW b, IsBatch(b), NEW k \in DOMAIN b, NEW hash
    PROVE  Walk(hash, Proof(Tree(b), k - 1)) = Root(Tree(b)) <=> hash = CanonicalHash(b[k])
<1>1. /\ IsTree(Tree(b), Leaves(b)) /\ k \in 1..Len(Leaves(b))
      /\ Leaves(b)[k] = CanonicalHash(b[k])
  BY LeavesOfBatch
<1>2. Walk(CanonicalHash(b[k]), Proof(Tree(b), k - 1)) = Root(Tree(b))
  BY <1>1, WalkToRoot
<1>3. Len(Proof(Tree(b), k - 1)) \in Nat
  BY <1>1, ProofLength
<1> QED BY <1>2, <1>3, WalkInjective

\* What a verifier gets for an entry e, a leaf at i and a proof of k.
Response(b, e, i, k) ==
    [entry    |-> e,
     leafHash |-> CanonicalHash(b[i]),
     proof    |-> Proof(Tree(b), k - 1),
     root     |-> Root(Tree(b))]

\* The verdicts of three programs on it.
RightVerdicts(b, e, i, k) ==
    LET response == Response(b, e, i, k)
        right    == SameEntry(e, b[i]) /\ i = k
    IN  /\ CliVerify(response) <=> right
        /\ VerifyEntry(Fetched(response)) = (IF right THEN "Verified" ELSE "Verification failed")
        /\ EntryDetail(Fetched(response)) = (IF right THEN "VERIFIED" ELSE "FAILED")

\* Verifiers of three programs accept an entry with a leaf and a proof exactly when it
\* is, with its lines in any order, the entry of that leaf and of that proof.
THEOREM OneVerdict ==
    ASSUME NEW b, IsBatch(b), NEW i \in DOMAIN b, NEW k \in DOMAIN b,
           NEW e, e.lines \in Seq(LineTexts)
    PROVE  RightVerdicts(b, e, i, k)
<1> DEFINE response == Response(b, e, i, k)
           right == SameEntry(e, b[i]) /\ i = k
           leaf == CanonicalHash(e)
           same == leaf = CanonicalHash(b[i])
           reached == Walk(leaf, response.proof) = response.root
<1>1. reached <=> leaf = CanonicalHash(b[k])
  BY OnlyItsLeaf DEF Response
<1>2. CanonicalHash(b[i]) = CanonicalHash(b[k]) <=> i = k
  <2>1. /\ Leaves(b)[i] = CanonicalHash(b[i]) /\ Leaves(b)[k] = CanonicalHash(b[k])
        /\ Distinct(Leaves(b)) /\ i \in DOMAIN Leaves(b) /\ k \in DOMAIN Leaves(b)
    BY LeavesOfBatch
  <2> QED BY <2>1 DEF Distinct
<1>3. same <=> SameEntry(e, b[i])
  BY HashIdentifies DEF IsBatch
<1>4. same /\ reached <=> right
  BY <1>1, <1>2, <1>3
<1>5. /\ response.entry = e /\ response.leafHash = CanonicalHash(b[i])
  BY DEF Response
<1> HIDE DEF response, right
<1>6. CliVerify(response) <=> same /\ reached
  BY <1>5, OneWalk DEF CliVerify
<1>7. WebVerify(Fetched(response)) = IF same /\ reached THEN "verified" ELSE "failed"
  <2>1. WebCanonicalHash(e) = leaf
    BY DEF WebCanonicalHash, CanonicalHash
  <2>2. Fetched(response).ok /\ Fetched(response).proof = response
    BY DEF Fetched
  <2>3. WebWalk(leaf, response.proof) = Walk(leaf, response.proof)
    BY OneWalk
  <2> QED BY <1>5, <2>1, <2>2, <2>3 DEF WebVerify
<1>8. VerifyEntry(Fetched(response)) = IF right THEN "Verified" ELSE "Verification failed"
  BY <1>4, <1>7 DEF VerifyEntry
<1>9. EntryDetail(Fetched(response)) = IF right THEN "VERIFIED" ELSE "FAILED"
  <2>1. <<CanonicalEntryString(e)>> = leaf
    BY DEF CanonicalEntryString, CanonicalHash
  <2>2. Fetched(response).ok /\ Fetched(response).proof = response
    BY DEF Fetched
  <2>3. VerifyProof(response).recomputedRoot = Walk(leaf, response.proof)
    BY <1>5, <2>1, OneWalk
  <2>4. VerifyProof(response).verified
          <=> /\ <<CanonicalEntryString(e)>> = CanonicalHash(b[i])
              /\ VerifyProof(response).recomputedRoot = response.root
    BY <1>5 DEF VerifyProof
  <2> QED BY <1>4, <2>1, <2>2, <2>3, <2>4 DEF EntryDetail
<1> QED BY <1>4, <1>6, <1>8, <1>9 DEF RightVerdicts, response, right

\* The web client accepts the proofs it makes up in demo mode.
LEMMA DemoVerifies ==
    ASSUME NEW e
    PROVE  VerifyEntry(DemoProof(e)) = "Verified"
<1> DEFINE leaf == DemoLeafHash(e)
<1>1. WebCanonicalHash(e) = leaf
  BY DEF WebCanonicalHash, DemoLeafHash
<1>2. Walk(leaf, <<>>) = leaf
  <2>1. Len(<<>>) = 0 /\ Len(<<>>) \in Nat
    OBVIOUS
  <2> HIDE DEF leaf
  <2> QED BY <2>1, WalkSteps DEF Walks
<1>3. /\ DemoProof(e).ok /\ DemoProof(e).proof.entry = e /\ DemoProof(e).proof.leafHash = leaf
      /\ DemoProof(e).proof.root = leaf /\ DemoProof(e).proof.proof = <<>>
  BY DEF DemoProof, Fetched
<1> HIDE DEF leaf
<1>4. WebWalk(leaf, <<>>) = leaf
  BY <1>2, OneWalk
<1>5. WebVerify(DemoProof(e)) = "verified"
  BY <1>1, <1>3, <1>4 DEF WebVerify
<1> QED BY <1>5 DEF VerifyEntry

\* Two batches with one root have the same entries, in one order.
THEOREM RootIdentifiesBatch ==
    ASSUME NEW b, IsBatch(b), NEW c, IsBatch(c), Root(Tree(b)) = Root(Tree(c))
    PROVE  Len(b) = Len(c) /\ \A i \in DOMAIN b : SameEntry(b[i], c[i])
<1>1. Leaves(b) = Leaves(c)
  BY LeavesOfBatch, SameLeaves
<1>2. Len(b) = Len(c) /\ DOMAIN b = DOMAIN c
  BY <1>1, LeavesOfBatch
<1>3. ASSUME NEW i \in DOMAIN b PROVE SameEntry(b[i], c[i])
  <2>1. CanonicalHash(b[i]) = CanonicalHash(c[i])
    BY <1>1, <1>2, LeavesOfBatch
  <2> QED BY <1>2, <2>1, HashIdentifies DEF IsBatch
<1> QED BY <1>2, <1>3

-----------------------------------------------------------------------------
(* What is loaded are batches, so that the properties are the above. *)

Loaded == \A b \in {batch, other} : b = <<>> \/ IsBatch(b)

\* One line is enough for an entry.
LEMMA PlainBatch ==
    ASSUME NEW n \in Nat, n > 0, NEW H, NEW b \in [1..n -> {Plain(h) : h \in H}],
           \A i, k \in 1..n : b[i] = b[k] => i = k
    PROVE  IsBatch(b)
<1>1. b \in Seq({Plain(h) : h \in H}) /\ Len(b) = n
  OBVIOUS
<1>2. <<1>> \in Seq(LineTexts)
  BY LineTextsAssumption
<1>3. \A i \in 1..n : \E h \in H : b[i] = Plain(h)
  OBVIOUS
<1>4. \A i \in 1..n : b[i].lines = <<1>> /\ b[i] = Plain(b[i].header)
  BY <1>3 DEF Plain
<1>5. DOMAIN b = 1..n
  OBVIOUS
<1>6. IsLevel(b)
  BY <1>1 DEF IsLevel
<1>7. \A i, k \in 1..n : b[i].header = b[k].header => i = k
  BY <1>4
<1> QED BY <1>2, <1>4, <1>5, <1>6, <1>7 DEF IsBatch

\* A batch of one entry.
LEMMA VariedBatch ==
    ASSUME NEW d \in Varied
    PROVE  IsBatch(<<d>>)
<1>1. <<d>> \in Seq({d}) /\ Len(<<d>>) = 1 /\ DOMAIN <<d>> = 1..1 /\ <<d>>[1] = d
  OBVIOUS
<1>2. d.lines \in Seq(LineTexts)
  BY BoundsAssumption DEF Varied
<1> QED BY <1>1, <1>2 DEF IsBatch, IsLevel

\* Every behaviour loads batches.
LEMMA AlwaysLoaded == Spec => []Loaded
<1>1. Init => Loaded
  BY DEF Init, Loaded
<1>2. Loaded /\ [Next]_vars => Loaded'
  <2> SUFFICES ASSUME Loaded, [Next]_vars PROVE Loaded'
    OBVIOUS
  <2>1. CASE LoadLong
    <3>1. PICK n \in 1..MaxBatch : batch' = [i \in 1..n |-> Plain(i)]
      BY <2>1 DEF LoadLong
    <3>2. n \in Nat /\ n > 0 /\ batch' \in [1..n -> {Plain(h) : h \in 1..n}]
      BY <3>1, BoundsAssumption
    <3>3. \A i, k \in 1..n : batch'[i] = batch'[k] => i = k
      BY <3>1 DEF Plain
    <3>4. IsBatch(batch')
      BY <3>2, <3>3, PlainBatch
    <3> QED BY <2>1, <3>4 DEF LoadLong, Loaded
  <2>2. CASE LoadShort
    <3>1. ASSUME NEW b \in Short PROVE IsBatch(b)
      <4>1. Cardinality(Headers) \in Nat
        BY HeadersAssumption, FS_CardinalityType
      <4>2. PICK n \in 1..Cardinality(Headers) : b \in [1..n -> {Plain(h) : h \in Headers}]
        BY DEF Short
      <4>3. n \in Nat /\ n > 0
        BY <4>1, <4>2
      <4>4. \A i, k \in 1..n : b[i] = b[k] => i = k
        BY <4>2 DEF Short, IsInjective
      <4> QED BY <4>2, <4>3, <4>4, PlainBatch
    <3> QED BY <2>2, <3>1 DEF LoadShort, Loaded
  <2>3. CASE LoadVaried
    <3>1. PICK d \in Varied, e \in Varied : batch' = <<d>> /\ other' = <<e>>
      BY <2>3 DEF LoadVaried
    <3>2. IsBatch(batch') /\ IsBatch(other')
      BY <3>1, VariedBatch
    <3> QED BY <3>2 DEF Loaded
  <2>4. CASE UNCHANGED vars
    BY <2>4 DEF vars, Loaded
  <2> QED BY <2>1, <2>2, <2>3, <2>4 DEF Next
<1> QED BY <1>1, <1>2, PTL DEF Spec

\* Every entry of a batch that is anchored has a proof that verifies.
THEOREM ProofsComplete == Spec => []Complete
<1>1. Loaded => Complete
  <2> SUFFICES ASSUME Loaded, NEW i \in DOMAIN batch
               PROVE  Verify(CanonicalHash(batch[i]), Proof(Tree(batch), i - 1), Root(Tree(batch)))
    BY DEF Complete
  <2>1. IsBatch(batch)
    BY DEF Loaded
  <2> QED BY <2>1, EveryEntryHasProof
<1> QED BY <1>1, AlwaysLoaded, PTL

\* The verifiers of three programs give one verdict, and the right one.
THEOREM VerifiersGiveOneVerdict == Spec => []VerifiersAgree
<1>1. Loaded => VerifiersAgree
  <2> SUFFICES ASSUME Loaded, batch # <<>>, other # <<>>,
                      NEW i \in DOMAIN batch, NEW k \in DOMAIN batch, NEW j \in DOMAIN other
               PROVE  LET response == Response(batch, other[j], i, k)
                          right    == SameEntry(other[j], batch[i]) /\ i = k
                      IN  /\ CliVerify(response) <=> right
                          /\ VerifyEntry(Fetched(response))
                               = (IF right THEN "Verified" ELSE "Verification failed")
                          /\ EntryDetail(Fetched(response)) = (IF right THEN "VERIFIED" ELSE "FAILED")
                          /\ VerifyEntry(DemoProof(other[j])) = "Verified"
                          /\ VerifyEntry(NotFetched(404)) = "not anchored yet"
    BY Zenon DEF VerifiersAgree, Response
  <2>1. IsBatch(batch) /\ other[j].lines \in Seq(LineTexts)
    BY DEF Loaded, IsBatch
  <2>2. VerifyEntry(NotFetched(404)) = "not anchored yet"
    BY DEF VerifyEntry, WebVerify, NotFetched
  <2>3. VerifyEntry(DemoProof(other[j])) = "Verified"
    BY DemoVerifies
  <2>4. RightVerdicts(batch, other[j], i, k)
    BY <2>1, OneVerdict
  <2> QED BY <2>2, <2>3, <2>4, Zenon DEF RightVerdicts
<1> QED BY <1>1, AlwaysLoaded, PTL

\* A root on the chain determines the batch that was anchored.
THEOREM RootsBind == Spec => []RootBinds
<1>1. Loaded => RootBinds
  <2> SUFFICES ASSUME Loaded, batch # <<>>, other # <<>>, Root(Tree(batch)) = Root(Tree(other))
               PROVE  Len(batch) = Len(other) /\ \A i \in DOMAIN batch : SameEntry(batch[i], other[i])
    BY DEF RootBinds
  <2>1. IsBatch(batch) /\ IsBatch(other)
    BY DEF Loaded
  <2> QED BY <2>1, RootIdentifiesBatch
<1> QED BY <1>1, AlwaysLoaded, PTL

\* The hash of an entry stands for its header and its lines in any order, for nothing else.
THEOREM HashesAreContent == Spec => []HashIsContent
<1>1. Loaded => HashIsContent
  <2> SUFFICES ASSUME Loaded, NEW i \in DOMAIN batch, NEW j \in DOMAIN other
               PROVE  CanonicalHash(batch[i]) = CanonicalHash(other[j])
                        <=> SameEntry(batch[i], other[j])
    BY DEF HashIsContent
  <2>1. batch[i].lines \in Seq(LineTexts) /\ other[j].lines \in Seq(LineTexts)
    BY DEF Loaded, IsBatch
  <2> QED BY <2>1, HashIdentifies
<1> QED BY <1>1, AlwaysLoaded, PTL
=============================================================================
