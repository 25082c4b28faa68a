---------------------------- MODULE LedgerProofs ----------------------------
(***************************************************************************)
(* What Journal adds up, for any number of sessions, entries and rows:     *)
(* balances are the sums of the posted lines, every institution balances,  *)
(* commitments are settled by what was paid on them; and that Journal      *)
(* implements Ledger: the statements of a posting transaction are          *)
(* invisible until COMMIT, which is the one step that posts.               *)
(***************************************************************************)
EXTENDS JournalProofs, CollectionProofs

USE EntriesAssumption, FormsAssumption, SentinelAssumption

-----------------------------------------------------------------------------
(* Amounts as sums of functions. *)

\* The signed amounts of the lines of an entry.
Amounts(e) == [i \in DOMAIN e.lines |-> SignedAmount(e.lines[i])]

\* Its lines on a balance row, and what they move it by.
LinesOn(e, r) == {i \in DOMAIN e.lines : RowOf(e, e.lines[i]) = r}
Flow(e, r) == Signed(e, LinesOn(e, r))

\* Flow and DebitsIn by entry.
Flows(r) == [e \in Entries |-> Flow(e, r)]
Paid(currency) == [e \in Entries |-> DebitsIn(e, currency)]

\* The lines of an entry are finitely many and have integer amounts.
LEMMA AmountsType ==
    ASSUME NEW e \in Entries
    PROVE  /\ DOMAIN e.lines = 1..Len(e.lines) /\ Len(e.lines) \in Nat
           /\ IsFiniteSet(DOMAIN e.lines)
           /\ \A i \in DOMAIN e.lines : Amounts(e)[i] \in Int
<1>1. e.lines \in Seq(Lines)
  OBVIOUS
<1>2. DOMAIN e.lines = 1..Len(e.lines) /\ Len(e.lines) \in Nat
  BY <1>1
<1>3. IsFiniteSet(1..Len(e.lines))
  BY <1>2, FS_Interval
<1> QED BY <1>2, <1>3, LineFacts DEF Amounts

\* Signed is a sum of Amounts.
LEMMA SignedIsSum ==
    ASSUME NEW e, NEW I \in SUBSET DOMAIN e.lines
    PROVE  Signed(e, I) = SumOver(Amounts(e), I)
<1> DEFINE P(g) == g = [T \in SUBSET I |->
                          IF T = {} THEN 0
                          ELSE SignedAmount(e.lines[Chosen(T)]) + g[T \ {Chosen(T)}]]
<1>1. \A T \in SUBSET I : T # {} => Amounts(e)[Chosen(T)] = SignedAmount(e.lines[Chosen(T)])
  BY ChosenIn DEF Amounts
<1>2. \A g : IsSum(Amounts(e), I, g) <=> P(g)
  BY <1>1 DEF IsSum
<1>3. Summing(Amounts(e), I) = CHOOSE g : P(g)
  BY <1>2 DEF Summing
<1>4. Signed(e, I) = (CHOOSE g : P(g))[I]
  BY DEF Signed, MapThenSumSet, MapThenFoldSet, Chosen
<1> QED BY <1>3, <1>4, SumDef

\* The balance that the posted entries give a row is a sum of Flows.
LEMMA StockIsSum ==
    ASSUME NEW r, NEW S \in SUBSET Entries
    PROVE  MapThenSumSet(
               LAMBDA e : Signed(e, {i \in DOMAIN e.lines : RowOf(e, e.lines[i]) = r}), S)
           = SumOver(Flows(r), S)
<1> DEFINE P(g) == g = [T \in SUBSET S |->
                          IF T = {} THEN 0 ELSE Flow(Chosen(T), r) + g[T \ {Chosen(T)}]]
<1>1. \A T \in SUBSET S : T # {} => Flows(r)[Chosen(T)] = Flow(Chosen(T), r)
  BY ChosenIn DEF Flows
<1>2. \A g : IsSum(Flows(r), S, g) <=> P(g)
  BY <1>1 DEF IsSum
<1>3. Summing(Flows(r), S) = CHOOSE g : P(g)
  BY <1>2 DEF Summing
<1>4. MapThenSumSet(
          LAMBDA e : Signed(e, {i \in DOMAIN e.lines : RowOf(e, e.lines[i]) = r}), S)
      = (CHOOSE g : P(g))[S]
  BY DEF Flow, LinesOn, MapThenSumSet, MapThenFoldSet, Chosen
<1> QED BY <1>3, <1>4, SumDef

\* Total is a sum of Paid.
LEMMA TotalIsSum ==
    ASSUME NEW currency, NEW S \in SUBSET Entries
    PROVE  Total(S, currency) = SumOver(Paid(currency), S)
<1> DEFINE P(g) == g = [T \in SUBSET S |->
                          IF T = {} THEN 0
                          ELSE DebitsIn(Chosen(T), currency) + g[T \ {Chosen(T)}]]
<1>1. \A T \in SUBSET S : T # {} => Paid(currency)[Chosen(T)] = DebitsIn(Chosen(T), currency)
  BY ChosenIn DEF Paid
<1>2. \A g : IsSum(Paid(currency), S, g) <=> P(g)
  BY <1>1 DEF IsSum
<1>3. Summing(Paid(currency), S) = CHOOSE g : P(g)
  BY <1>2 DEF Summing
<1>4. Total(S, currency) = (CHOOSE g : P(g))[S]
  BY DEF Total, MapThenSumSet, MapThenFoldSet, Chosen
<1> QED BY <1>3, <1>4, SumDef

\* Sums over the lines of an entry are integers.
LEMMA SignedType ==
    ASSUME NEW e \in Entries, NEW I \in SUBSET DOMAIN e.lines
    PROVE  Signed(e, I) \in Int /\ IsFiniteSet(I)
<1>1. IsFiniteSet(I)
  BY AmountsType, FS_Subset
<1> QED BY <1>1, AmountsType, SignedIsSum, SumType

\* Flow and DebitsIn are integers.
LEMMA FlowType ==
    ASSUME NEW e \in Entries, NEW r
    PROVE  Flow(e, r) \in Int /\ DebitsIn(e, r) \in Int
BY SignedType DEF Flow, LinesOn, DebitsIn, DebitLines, LinesIn

-----------------------------------------------------------------------------
(* Stocks match flows. *)

\* The lines an entry's session has written.
LinesBefore(e, n, r) == {i \in LinesOn(e, r) : i < n}

\* A session past its INSERT holds the rows of the lines it has written, with the
\* committed balance and what those lines move it by.
Written ==
    \A s \in Sessions :
        /\ pc[s] = "idle" => DOMAIN pending[s] = {}
        /\ pc[s] \in {"settle", "locking", "commit"} => line[s] = Len(entry[s].lines) + 1
        /\ pc[s] # "idle" =>
            /\ \A i \in DOMAIN entry[s].lines :
                   i < line[s] => RowOf(entry[s], entry[s].lines[i]) \in DOMAIN pending[s]
            /\ \A r \in DOMAIN pending[s] :
                   pending[s][r] = balance[r] + Signed(entry[s], LinesBefore(entry[s], line[s], r))

\* StocksMatchFlows by Flow.
Stocks == \A r \in Rows : balance[r] = SumOver(Flows(r), posted)

\* StocksMatchFlows and what makes it inductive: a balance is only written at
\* COMMIT, from values computed line by line before.
StockInv == JournalInv /\ IsFiniteSet(posted) /\ Stocks /\ Written

\* StocksMatchFlows is Stocks.
LEMMA StocksFacts == TypeOK => (Stocks <=> StocksMatchFlows)
BY StockIsSum DEF TypeOK, Stocks, StocksMatchFlows

\* A session that finishes keeps nothing.
LEMMA FinishWritten ==
    ASSUME StockInv, NEW s \in Sessions, NEW answer, Finish(s, answer),
           \A t \in Sessions \ {s} : \A r \in DOMAIN pending[t] : balance'[r] = balance[r]
    PROVE  Written'
<1>1. /\ pc'[s] = "idle" /\ DOMAIN pending'[s] = {}
      /\ \A t \in Sessions \ {s} : /\ pc'[t] = pc[t] /\ pending'[t] = pending[t]
                                  /\ line'[t] = line[t]
      /\ entry' = entry
  BY DEF Finish, StockInv, JournalInv, TypeOK, EmptyRows
<1>2. ASSUME NEW t \in Sessions, t # s
      PROVE  /\ pc'[t] = "idle" => DOMAIN pending'[t] = {}
             /\ pc'[t] \in {"settle", "locking", "commit"} => line'[t] = Len(entry'[t].lines) + 1
             /\ pc'[t] # "idle" =>
                 /\ \A i \in DOMAIN entry'[t].lines :
                      i < line'[t] => RowOf(entry'[t], entry'[t].lines[i]) \in DOMAIN pending'[t]
                 /\ \A r \in DOMAIN pending'[t] :
                      pending'[t][r]
                      = balance'[r] + Signed(entry'[t], LinesBefore(entry'[t], line'[t], r))
  BY <1>1, <1>2 DEF StockInv, Written
<1> QED BY <1>1, <1>2 DEF Written

\* A session that is refused keeps nothing and changes no table.
LEMMA RejectStock ==
    ASSUME StockInv, JournalInv', NEW s \in Sessions, NEW answer, Reject(s, answer)
    PROVE  StockInv'
<1>1. Written'
  BY FinishWritten DEF Reject, tables
<1> QED BY <1>1 DEF StockInv, Stocks, Reject, tables

\* A step of a session that writes no line and no table.
LEMMA QuietStock ==
    ASSUME StockInv, JournalInv', UNCHANGED <<posted, balance, line, pending>>,
           NEW s \in Sessions,
           \/ pc[s] = "idle" /\ pc'[s] \in {"idle", "insert"}
           \/ pc[s] # "idle" /\ pc'[s] # "idle" /\ entry'[s] = entry[s],
           pc'[s] \in {"settle", "locking", "commit"} => pc[s] \in {"settle", "locking"},
           \A t \in Sessions \ {s} : pc'[t] = pc[t] /\ entry'[t] = entry[t]
    PROVE  StockInv'
<1>1. ASSUME NEW t \in Sessions
      PROVE  /\ pc'[t] = "idle" => DOMAIN pending'[t] = {}
             /\ pc'[t] \in {"settle", "locking", "commit"} => line'[t] = Len(entry'[t].lines) + 1
             /\ pc'[t] # "idle" =>
                 /\ \A i \in DOMAIN entry'[t].lines :
                      i < line'[t] => RowOf(entry'[t], entry'[t].lines[i]) \in DOMAIN pending'[t]
                 /\ \A r \in DOMAIN pending'[t] :
                      pending'[t][r]
                      = balance'[r] + Signed(entry'[t], LinesBefore(entry'[t], line'[t], r))
  <2>1. CASE pc[t] # "idle" /\ entry'[t] = entry[t]
    BY <2>1 DEF StockInv, Written
  <2>2. CASE pc[t] = "idle" /\ pc'[t] = "idle"
    BY <2>2 DEF StockInv, Written
  <2>3. CASE pc[t] = "idle" /\ pc'[t] = "insert"
    <3>1. line'[t] = 1 /\ DOMAIN pending'[t] = {}
      BY <2>3 DEF StockInv, Written, JournalInv, TypeOK
    <3>2. entry'[t] \in Entries
      BY <2>3 DEF JournalInv, TypeOK
    <3>3. \A i \in DOMAIN entry'[t].lines : ~ (i < 1)
      BY <3>2, AmountsType
    <3> QED BY <2>3, <3>1, <3>3
  <2>4. CASE t # s
    BY <2>4 DEF StockInv, Written
  <2> QED BY <2>1, <2>2, <2>3, <2>4
<1>2. Written'
  BY <1>1 DEF Written
<1> QED BY <1>2 DEF StockInv, Stocks

\* The upsert of a line adds its amount to what the session has of the row.
LEMMA WriteLineStock ==
    ASSUME StockInv, JournalInv', NEW s \in Sessions, WriteLine(s)
    PROVE  StockInv'
<1> DEFINE e == entry[s]
           n == line[s]
           row == RowOf(e, e.lines[n])
           v == CurrentBalance(s, row) + SignedAmount(e.lines[n])
<1>1. /\ pc[s] = "lines" /\ e \in Entries /\ n \in 1..Len(e.lines) /\ n \in DOMAIN e.lines
      /\ row \in Rows
  BY AmountsType, LineFacts DEF StockInv, JournalInv, TypeOK, WriteLine
<1>2. /\ pending'[s] = [x \in DOMAIN pending[s] \cup {row} |->
                          IF x = row THEN v ELSE pending[s][x]]
      /\ line'[s] = n + 1 /\ UNCHANGED <<posted, balance, entry>>
      /\ pc'[s] \in {"lines", "settle", "commit"}
      /\ pc'[s] # "lines" => ~ (n < Len(e.lines))
      /\ \A t \in Sessions \ {s} : /\ pc'[t] = pc[t] /\ pending'[t] = pending[t]
                                  /\ line'[t] = line[t]
  BY DEF WriteLine, NextRow, MoreLines, AfterLines, tables, StockInv, JournalInv, TypeOK
<1>3. ASSUME NEW r
      PROVE  /\ IsFiniteSet(LinesBefore(e, n, r)) /\ LinesBefore(e, n, r) \subseteq DOMAIN e.lines
             /\ LinesBefore(e, n + 1, r) = IF r = row THEN LinesBefore(e, n, r) \cup {n}
                                           ELSE LinesBefore(e, n, r)
  <2>1. LinesBefore(e, n, r) \subseteq DOMAIN e.lines
    BY DEF LinesBefore, LinesOn
  <2>2. \A i \in DOMAIN e.lines : i \in Nat /\ (i < n + 1 <=> i < n \/ i = n)
    BY <1>1, AmountsType
  <2> HIDE DEF e, n
  <2> QED BY <1>1, <2>1, <2>2, SignedType DEF LinesBefore, LinesOn
<1> HIDE DEF e, n, row
<1>4. Signed(e, LinesBefore(e, n + 1, row))
      = Signed(e, LinesBefore(e, n, row)) + SignedAmount(e.lines[n])
  <2> DEFINE L == LinesBefore(e, n, row)
  <2>1. /\ IsFiniteSet(L) /\ L \in SUBSET DOMAIN e.lines /\ n \notin L
        /\ L \cup {n} \in SUBSET DOMAIN e.lines /\ LinesBefore(e, n + 1, row) = L \cup {n}
    BY <1>1, <1>3 DEF LinesBefore
  <2> HIDE DEF L
  <2>2. \A i \in L \cup {n} : Amounts(e)[i] \in Int
    BY <1>1, <2>1, AmountsType
  <2>3. SumOver(Amounts(e), L \cup {n}) = SumOver(Amounts(e), L) + Amounts(e)[n]
    BY <2>1, <2>2, SumAdd
  <2>4. Amounts(e)[n] = SignedAmount(e.lines[n])
    BY <1>1 DEF Amounts
  <2> QED BY <2>1, <2>3, <2>4, SignedIsSum DEF L
<1>5. CurrentBalance(s, row) = balance[row] + Signed(e, LinesBefore(e, n, row))
  <2>1. CASE row \in DOMAIN pending[s]
    BY <1>1, <2>1 DEF CurrentBalance, StockInv, Written, e, n
  <2>2. CASE row \notin DOMAIN pending[s]
    <3>1. LinesBefore(e, n, row) = {}
      BY <1>1, <2>2 DEF StockInv, Written, e, n, LinesBefore, LinesOn
    <3>2. Signed(e, LinesBefore(e, n, row)) = 0
      BY <3>1, SignedIsSum, SumEmpty
    <3>3. balance[row] \in Int
      BY <1>1 DEF StockInv, JournalInv, TypeOK
    <3> QED BY <2>2, <3>2, <3>3 DEF CurrentBalance
  <2> QED BY <2>1, <2>2
<1>6. v = balance[row] + Signed(e, LinesBefore(e, n + 1, row))
  <2>1. /\ balance[row] \in Int /\ SignedAmount(e.lines[n]) \in Int
        /\ Signed(e, LinesBefore(e, n, row)) \in Int
    BY <1>1, <1>3, LineFacts, SignedType DEF StockInv, JournalInv, TypeOK
  <2> QED BY <1>4, <1>5, <2>1
<1> HIDE DEF v
<1>7. \A r \in DOMAIN pending'[s] :
          pending'[s][r] = balance'[r] + Signed(e, LinesBefore(e, n + 1, r))
  <2> SUFFICES ASSUME NEW r \in DOMAIN pending'[s]
               PROVE  pending'[s][r] = balance[r] + Signed(e, LinesBefore(e, n + 1, r))
    BY <1>2
  <2>1. CASE r = row
    BY <1>2, <1>6, <2>1
  <2>2. CASE r # row
    <3>1. r \in DOMAIN pending[s] /\ pending'[s][r] = pending[s][r]
      BY <1>2, <2>2
    <3>2. pending[s][r] = balance[r] + Signed(e, LinesBefore(e, n, r))
      BY <1>1, <3>1 DEF StockInv, Written, e, n
    <3>3. LinesBefore(e, n + 1, r) = LinesBefore(e, n, r)
      BY <1>3, <2>2
    <3> QED BY <3>1, <3>2, <3>3
  <2> QED BY <2>1, <2>2
<1>8. \A i \in DOMAIN e.lines : i < n + 1 => RowOf(e, e.lines[i]) \in DOMAIN pending'[s]
  <2>1. \A i \in DOMAIN e.lines : i \in Nat /\ (i < n + 1 <=> i < n \/ i = n)
    BY <1>1, AmountsType
  <2> QED BY <1>1, <1>2, <2>1 DEF StockInv, Written, e, n, row
<1>9. pc'[s] # "lines" => n + 1 = Len(e.lines) + 1
  BY <1>1, <1>2, AmountsType
<1>10. ASSUME NEW t \in Sessions
       PROVE  /\ pc'[t] = "idle" => DOMAIN pending'[t] = {}
              /\ pc'[t] \in {"settle", "locking", "commit"} => line'[t] = Len(entry'[t].lines) + 1
              /\ pc'[t] # "idle" =>
                  /\ \A i \in DOMAIN entry'[t].lines :
                       i < line'[t] => RowOf(entry'[t], entry'[t].lines[i]) \in DOMAIN pending'[t]
                  /\ \A r \in DOMAIN pending'[t] :
                       pending'[t][r]
                       = balance'[r] + Signed(entry'[t], LinesBefore(entry'[t], line'[t], r))
  <2>1. CASE t = s
    BY <1>2, <1>7, <1>8, <1>9, <2>1 DEF e
  <2>2. CASE t # s
    BY <1>2, <2>2 DEF StockInv, Written
  <2> QED BY <2>1, <2>2
<1>11. Written'
  BY <1>10 DEF Written
<1> QED BY <1>2, <1>11 DEF StockInv, Stocks

\* At COMMIT the values a session has written are the balances and its flows.
LEMMA CommitBalance ==
    ASSUME StockInv, NEW s \in Sessions, pc[s] = "commit", NEW r \in Rows
    PROVE  CurrentBalance(s, r) = balance[r] + Flow(entry[s], r)
<1>1. /\ entry[s] \in Entries /\ line[s] = Len(entry[s].lines) + 1 /\ balance[r] \in Int
  BY DEF StockInv, JournalInv, TypeOK, Written
<1>2. \A i \in DOMAIN entry[s].lines : i < line[s]
  BY <1>1, AmountsType
<1>3. LinesBefore(entry[s], line[s], r) = LinesOn(entry[s], r)
  BY <1>2 DEF LinesBefore, LinesOn
<1>4. CASE r \in DOMAIN pending[s]
  BY <1>3, <1>4 DEF StockInv, Written, CurrentBalance, Flow
<1>5. CASE r \notin DOMAIN pending[s]
  <2>1. LinesOn(entry[s], r) = {}
    BY <1>2, <1>5 DEF StockInv, Written, LinesOn
  <2>2. Flow(entry[s], r) = 0
    BY <2>1, SignedIsSum, SumEmpty DEF Flow
  <2> QED BY <1>1, <1>5, <2>2 DEF CurrentBalance
<1> QED BY <1>4, <1>5

\* An entry about to be committed is not among the posted ones.
LEMMA EntryIsNew ==
    ASSUME JournalInv, NEW s \in Sessions, pc[s] = "commit"
    PROVE  entry[s] \notin posted /\ entry[s] \in Entries
BY DEF JournalInv, TypeOK, Fresh, Inserted, KeyTaken, SameKey

\* COMMIT posts the entry and moves the balances by its flows.
LEMMA CommitStock ==
    ASSUME StockInv, JournalInv', NEW s \in Sessions, Commit(s)
    PROVE  StockInv'
<1>1. /\ pc[s] = "commit" /\ posted' = posted \cup {entry[s]}
      /\ balance' = [r \in Rows |-> CurrentBalance(s, r)]
  BY DEF Commit
<1>2. entry[s] \notin posted /\ entry[s] \in Entries /\ posted \subseteq Entries
  BY <1>1, EntryIsNew DEF StockInv, JournalInv, TypeOK
<1>3. IsFiniteSet(posted) /\ IsFiniteSet(posted')
  BY <1>1, FS_AddElement DEF StockInv
<1>4. Stocks'
  <2> SUFFICES ASSUME NEW r \in Rows PROVE balance'[r] = SumOver(Flows(r), posted')
    BY DEF Stocks
  <2>1. balance'[r] = SumOver(Flows(r), posted) + Flow(entry[s], r)
    BY <1>1, CommitBalance DEF StockInv, Stocks
  <2>2. \A e \in posted \cup {entry[s]} : Flows(r)[e] \in Int
    BY <1>2, FlowType DEF Flows
  <2>3. SumOver(Flows(r), posted \cup {entry[s]}) = SumOver(Flows(r), posted) + Flows(r)[entry[s]]
    BY <1>2, <1>3, <2>2, SumAdd
  <2> QED BY <1>1, <1>2, <2>1, <2>3 DEF Flows
<1>5. Written'
  <2>1. PICK answer \in {"created", "error"} : Finish(s, answer)
    BY DEF Commit
  <2>2. ASSUME NEW t \in Sessions, t # s, NEW r \in DOMAIN pending[t]
        PROVE  balance'[r] = balance[r]
    <3>1. r \in Rows /\ r \notin DOMAIN pending[s]
      BY <2>2 DEF StockInv, JournalInv, TypeOK, LockExclusion
    <3> QED BY <1>1, <3>1 DEF CurrentBalance
  <2> QED BY <2>1, <2>2, FinishWritten
<1> QED BY <1>3, <1>4, <1>5 DEF StockInv

\* Every step keeps StockInv.
LEMMA StockStep == StockInv /\ [Next]_vars => StockInv'
<1> SUFFICES ASSUME StockInv, [Next]_vars
             PROVE  StockInv'
  OBVIOUS
<1>j. JournalInv'
  BY JournalInvStep DEF StockInv
<1>t. TypeOK
  BY DEF StockInv, JournalInv
<1>1. ASSUME NEW s \in Sessions, NEW e \in Entries, Begin(s, e) PROVE StockInv'
  <2>1. /\ pc[s] = "idle" /\ pc'[s] \in {"idle", "insert"}
        /\ UNCHANGED <<posted, balance, line, pending>>
        /\ \A t \in Sessions \ {s} : pc'[t] = pc[t] /\ entry'[t] = entry[t]
    BY <1>1, <1>t DEF Begin, TypeOK, tables
  <2> QED BY <1>j, <2>1, QuietStock
<1>2. ASSUME NEW s \in Sessions, InsertEntry(s) PROVE StockInv'
  <2>1. /\ pc[s] = "insert" /\ pc'[s] = "lines"
        /\ UNCHANGED <<posted, balance, line, pending, entry>>
        /\ \A t \in Sessions \ {s} : pc'[t] = pc[t]
    BY <1>2, <1>t DEF InsertEntry, TypeOK, tables
  <2> QED BY <1>j, <2>1, QuietStock
<1>3. ASSUME NEW s \in Sessions, InsertFails(s) \/ Abort(s) \/ DeadlockVictim(s) PROVE StockInv'
  BY <1>3, <1>j, RejectStock DEF InsertFails, Abort, DeadlockVictim
<1>4. ASSUME NEW s \in Sessions, WriteLine(s) PROVE StockInv'
  BY <1>4, <1>j, WriteLineStock
<1>5. ASSUME NEW s \in Sessions, ReadCommitment(s) PROVE StockInv'
  <2>1. CASE Reject(s, "unknownCommitment")
    BY <1>j, <2>1, RejectStock
  <2>2. CASE ~ Reject(s, "unknownCommitment")
    <3>1. /\ pc[s] = "settle" /\ pc'[s] = "locking"
          /\ UNCHANGED <<posted, balance, line, pending, entry>>
          /\ \A t \in Sessions \ {s} : pc'[t] = pc[t]
      BY <1>5, <1>t, <2>2 DEF ReadCommitment, TypeOK, tables
    <3> QED BY <1>j, <3>1, QuietStock
  <2> QED BY <2>1, <2>2
<1>6. ASSUME NEW s \in Sessions, LockCommitment(s) PROVE StockInv'
  <2>1. ASSUME NEW answer, Reject(s, answer) PROVE StockInv'
    BY <1>j, <2>1, RejectStock
  <2>2. CASE /\ pc' = [pc EXCEPT ![s] = "commit"]
             /\ UNCHANGED <<tables, entry, line, pending, seen, reply>>
    <3>1. /\ pc[s] = "locking" /\ pc'[s] = "commit"
          /\ UNCHANGED <<posted, balance, line, pending, entry>>
          /\ \A t \in Sessions \ {s} : pc'[t] = pc[t]
      BY <1>6, <1>t, <2>2 DEF LockCommitment, TypeOK, tables
    <3> QED BY <1>j, <3>1, QuietStock
  <2> QED BY <1>6, <2>1, <2>2 DEF LockCommitment
<1>7. ASSUME NEW s \in Sessions, Commit(s) PROVE StockInv'
  BY <1>7, <1>j, CommitStock
<1>8. ASSUME UNCHANGED <<posted, balance, pc, line, entry, pending>> PROVE StockInv'
  BY <1>8, <1>j DEF StockInv, Stocks, Written
<1>9. ASSUME NEW f \in CommitmentForms, CreateCommitment(f) PROVE StockInv'
  BY <1>8, <1>9 DEF CreateCommitment, sessions
<1> QED
  BY <1>1, <1>2, <1>3, <1>4, <1>5, <1>6, <1>7, <1>8, <1>9
     DEF Next, Statement, vars, tables, sessions

\* StockInv holds at first.
LEMMA StockInit == Init => StockInv
<1> SUFFICES ASSUME Init PROVE StockInv
  OBVIOUS
<1>1. JournalInv
  BY JournalInvInit
<1>2. Stocks /\ IsFiniteSet(posted)
  BY SumEmpty, FS_EmptySet DEF Init, Stocks
<1>3. Written
  BY DEF Init, Written, EmptyRows
<1> QED BY <1>1, <1>2, <1>3 DEF StockInv

\* Every balance is the signed sum of the posted lines of its account, whatever
\* postings ran concurrently, failed or were rolled back.
THEOREM StocksAreFlows == Spec => []StocksMatchFlows
<1>1. StockInv => StocksMatchFlows
  BY StocksFacts DEF StockInv, JournalInv
<1> QED BY <1>1, StockInit, StockStep, PTL DEF Spec

\* StockInv holds always.
LEMMA StockAlways == Spec => []StockInv
BY StockInit, StockStep, PTL DEF Spec

-----------------------------------------------------------------------------
(* Every institution balances. *)

\* The rows of an institution in a currency.
Group(x) == {r \in Rows : r[1] = x[1] /\ r[3] = x[3]}

\* TrialBalance by SumOver.
Balanced == \A x \in Rows : SumOver(balance, Group(x)) = 0

\* TrialBalance is Balanced.
LEMMA BalancedFacts == Balanced <=> TrialBalance
BY DEF Balanced, TrialBalance, Group, SumOver

\* A validated entry moves no group of rows.
LEMMA FlowsBalance ==
    ASSUME NEW e \in Entries, ValidateJournalEntry(e), NEW x \in Rows
    PROVE  SumOver([r \in Rows |-> Flow(e, r)], Group(x)) = 0
<1> DEFINE I == DOMAIN e.lines
           class == [i \in I |-> RowOf(e, e.lines[i])]
           F == [r \in Rows |-> Flow(e, r)]
           J == InClasses(I, class, Group(x))
<1>1. IsFiniteSet(I) /\ \A i \in I : Amounts(e)[i] \in Int /\ class[i] \in Rows
  BY AmountsType, LineFacts
<1>2. IsFiniteSet(Group(x)) /\ Group(x) \subseteq Rows
  BY RowsAssumption, FS_Subset DEF Group
<1>3. \A r \in Group(x) : F[r] = SumOver(Amounts(e), InClass(I, class, r))
  <2> TAKE r \in Group(x)
  <2>1. InClass(I, class, r) = LinesOn(e, r) /\ LinesOn(e, r) \in SUBSET I
    BY DEF LinesOn, InClass
  <2> QED BY <1>2, <2>1, SignedIsSum DEF Flow
<1>4. SumOver(F, Group(x)) = SumOver(Amounts(e), J)
  <2>1. IsFiniteSet(I) /\ IsFiniteSet(Group(x))
    BY <1>1, <1>2
  <2>2. \A i \in I : Amounts(e)[i] \in Int
    BY <1>1
  <2> HIDE DEF I, class, F
  <2> QED BY ONLY <2>1, <2>2, <1>3, SumByClass
<1>5. \A i \in I : class[i][1] = e.institution /\ class[i][3] = e.lines[i].currency
  BY DEF RowOf
<1>6. CASE e.institution = x[1]
  <2>1. J = LinesIn(e, x[3]) /\ J \in SUBSET I
    BY <1>1, <1>5, <1>6 DEF Group, LinesIn, InClasses
  <2>2. CASE J = {}
    BY <1>4, <2>2, SumEmpty
  <2>3. CASE J # {}
    <3>1. PICK i \in I : e.lines[i].currency = x[3]
      BY <2>1, <2>3 DEF LinesIn
    <3>2. NetIn(e, x[3]) = 0
      BY <3>1 DEF ValidateJournalEntry
    <3> QED BY <1>4, <2>1, <3>2, SignedIsSum DEF NetIn
  <2> QED BY <2>2, <2>3
<1>7. CASE e.institution # x[1]
  <2>1. J = {}
    BY <1>1, <1>5, <1>7 DEF Group, InClasses
  <2> QED BY <1>4, <2>1, SumEmpty
<1> QED BY <1>6, <1>7

\* Only COMMIT moves balances.
LEMMA OnlyCommitMoves ==
    [Next]_vars => UNCHANGED <<posted, balance>> \/ \E s \in Sessions : Commit(s)
BY DEF Next, Statement, Begin, InsertEntry, InsertFails, WriteLine, ReadCommitment,
       LockCommitment, Abort, DeadlockVictim, CreateCommitment, Reject, vars, tables

\* Debits are credits in every institution and currency after each step.
LEMMA BalancedStep == StockInv /\ Balanced /\ [Next]_vars => Balanced'
<1> SUFFICES ASSUME StockInv, Balanced, [Next]_vars
             PROVE  Balanced'
  OBVIOUS
<1>1. CASE UNCHANGED <<posted, balance>>
  BY <1>1 DEF Balanced
<1>2. ASSUME NEW s \in Sessions, Commit(s) PROVE Balanced'
  <2> SUFFICES ASSUME NEW x \in Rows PROVE SumOver(balance', Group(x)) = 0
    BY DEF Balanced
  <2> DEFINE F == [r \in Rows |-> Flow(entry[s], r)]
  <2>1. entry[s] \in Entries /\ ValidateJournalEntry(entry[s]) /\ pc[s] = "commit"
    BY <1>2 DEF Commit, StockInv, JournalInv, TypeOK
  <2>2. IsFiniteSet(Group(x)) /\ Group(x) \subseteq Rows
    BY RowsAssumption, FS_Subset DEF Group
  <2>3. \A r \in Group(x) :
            balance[r] \in Int /\ F[r] \in Int /\ balance'[r] = balance[r] + F[r]
    BY <1>2, <2>1, <2>2, CommitBalance, FlowType DEF Commit, StockInv, JournalInv, TypeOK
  <2>4. SumOver(F, Group(x)) = 0
    BY <2>1, FlowsBalance
  <2>5. SumOver(balance', Group(x)) = SumOver(balance, Group(x)) + SumOver(F, Group(x))
    <3> HIDE DEF F
    <3> QED BY <2>2, <2>3, SumPlus
  <2> QED BY <2>4, <2>5 DEF Balanced
<1> QED BY <1>1, <1>2, OnlyCommitMoves

\* The trial balance of every institution is zero in every currency.
THEOREM TrialBalances == Spec => []TrialBalance
<1>1. Init => Balanced
  <2> SUFFICES ASSUME Init, NEW x \in Rows PROVE SumOver(balance, Group(x)) = 0
    BY DEF Balanced
  <2>1. /\ IsFiniteSet(Group(x))
        /\ \A r \in Group(x) : balance[r] \in Int
        /\ \A r \in Group(x) : balance[r] = IF r \in {} THEN balance[r] ELSE 0
    BY RowsAssumption, FS_Subset DEF Group, Init
  <2>2. SumOver(balance, Group(x)) = SumOver(balance, Group(x) \cap {})
    BY ONLY <2>1, SumRestrict
  <2> QED BY <2>2, SumEmpty
<1> QED BY <1>1, BalancedStep, BalancedFacts, StockAlways, PTL DEF Spec

-----------------------------------------------------------------------------
(* Commitments and what settles them. *)

\* A session past the read of its commitment.
Settling(s) == pc[s] \in {"locking", "commit"} /\ entry[s].commitment # NoCommitment

UniqueForms == \A f, g \in opened : f.id = g.id => f = g
PositiveForms == \A f \in opened : f.amount > 0
SettledOpened == \A c \in settled : \E f \in opened : f.id = c
PostedValid == \A e \in posted : ValidateJournalEntry(e)
SeenPosted == \A s \in Sessions : seen[s] \subseteq posted

\* It has found its commitment, and past the lock what it saw of it leaves room.
Known == \A s \in Sessions : Settling(s) => \E f \in opened : f.id = entry[s].commitment
Covered ==
    \A s \in Sessions : Settling(s) /\ pc[s] = "commit" =>
        \A f \in opened : f.id = entry[s].commitment =>
            Total(seen[s] \cup {entry[s]}, f.currency) <= f.amount

FormInv ==
    /\ StockInv
    /\ UniqueForms /\ PositiveForms /\ SettledOpened
    /\ PostedValid /\ SeenPosted /\ Known /\ Covered

\* An entry that could settle a commitment.
Settles(e, f) ==
    e.commitment = f.id /\ e.institution = f.institution /\ DebitsIn(e, f.currency) # 0

\* What the payments on a commitment have in common: a row, such as the account
\* they are paid from.
OnePayer ==
    \A f \in CommitmentForms : \A d, e \in Entries :
        Settles(d, f) /\ Settles(e, f) =>
            \E i \in DOMAIN d.lines, j \in DOMAIN e.lines :
                RowOf(d, d.lines[i]) = RowOf(e, e.lines[j])

\* The settlements a session has seen are all there are.
SeenAll ==
    \A s \in Sessions : Settling(s) =>
        \A f \in opened : Settles(entry[s], f) => seen[s] = SettlersOf(f.id)

SettleInv == FormInv /\ (OnePayer => SeenAll /\ NeverOverSettled /\ SettledWhenReached)

\* A step that changes no table and brings no session past the read of its
\* commitment.
LEMMA FormQuiet ==
    ASSUME SettleInv, StockInv', UNCHANGED tables,
           \A s \in Sessions : Settling(s)' =>
               Settling(s) /\ pc'[s] = pc[s] /\ entry'[s] = entry[s] /\ seen'[s] = seen[s],
           \A s \in Sessions : seen'[s] \in {seen[s], {}}
    PROVE  SettleInv'
<1>1. UNCHANGED <<posted, opened, settled, settlements>>
  BY DEF tables
<1>2. UniqueForms' /\ PositiveForms' /\ SettledOpened' /\ PostedValid'
  BY <1>1 DEF SettleInv, FormInv, UniqueForms, PositiveForms, SettledOpened, PostedValid
<1>3. SeenPosted'
  BY <1>1 DEF SettleInv, FormInv, SeenPosted
<1>4. Known'
  <2> SUFFICES ASSUME NEW s \in Sessions, Settling(s)'
               PROVE  \E f \in opened' : f.id = entry'[s].commitment
    BY DEF Known
  <2> QED BY <1>1 DEF SettleInv, FormInv, Known
<1>5. Covered'
  <2> SUFFICES ASSUME NEW s \in Sessions, Settling(s)', pc'[s] = "commit",
                      NEW f \in opened', f.id = entry'[s].commitment
               PROVE  Total(seen'[s] \cup {entry'[s]}, f.currency) <= f.amount
    BY DEF Covered
  <2> QED BY <1>1 DEF SettleInv, FormInv, Covered
<1>6. ASSUME OnePayer PROVE SeenAll' /\ NeverOverSettled' /\ SettledWhenReached'
  <2>1. SeenAll'
    <3> SUFFICES ASSUME NEW s \in Sessions, Settling(s)',
                        NEW f \in opened', Settles(entry'[s], f)
                 PROVE  seen'[s] = SettlersOf(f.id)'
      BY DEF SeenAll
    <3> QED BY <1>1, <1>6 DEF SettleInv, SeenAll, SettlersOf
  <2> QED
    BY <1>1, <1>6, <2>1 DEF SettleInv, NeverOverSettled, SettledWhenReached, SettlersOf
<1> QED BY <1>2, <1>3, <1>4, <1>5, <1>6 DEF SettleInv, FormInv

\* So is a refusal, or an abort.
LEMMA FormReject ==
    ASSUME SettleInv, StockInv', NEW s \in Sessions, NEW answer, Reject(s, answer)
    PROVE  SettleInv'
<1>1. /\ UNCHANGED tables /\ pc'[s] = "idle" /\ seen'[s] = {} /\ UNCHANGED entry
      /\ \A t \in Sessions \ {s} : pc'[t] = pc[t] /\ seen'[t] = seen[t]
  BY DEF Reject, Finish, SettleInv, FormInv, StockInv, JournalInv, TypeOK
<1>2. \A t \in Sessions : Settling(t)' =>
          Settling(t) /\ pc'[t] = pc[t] /\ entry'[t] = entry[t] /\ seen'[t] = seen[t]
  BY <1>1 DEF Settling
<1>3. \A t \in Sessions : seen'[t] \in {seen[t], {}}
  BY <1>1
<1> QED BY <1>1, <1>2, <1>3, FormQuiet

\* The snapshot of a session has all settlements there are.
LEMMA FormRead ==
    ASSUME SettleInv, StockInv', NEW s \in Sessions, ReadCommitment(s)
    PROVE  SettleInv'
<1>1. CASE Reject(s, "unknownCommitment")
  BY <1>1, FormReject
<1>2. CASE ~ Reject(s, "unknownCommitment")
  <2>1. /\ UNCHANGED <<posted, opened, settled, settlements, entry>>
        /\ pc'[s] = "locking" /\ seen'[s] = SettlersOf(entry[s].commitment)
        /\ \A t \in Sessions \ {s} : pc'[t] = pc[t] /\ seen'[t] = seen[t]
        /\ \E f \in opened : f.id = entry[s].commitment
    BY <1>2 DEF ReadCommitment, tables, SettleInv, FormInv, StockInv, JournalInv, TypeOK
  <2>2. UniqueForms' /\ PositiveForms' /\ SettledOpened' /\ PostedValid'
    BY <2>1 DEF SettleInv, FormInv, UniqueForms, PositiveForms, SettledOpened, PostedValid
  <2>3. SeenPosted'
    BY <2>1 DEF SettleInv, FormInv, SeenPosted, StockInv, JournalInv, SettlementsOwned, SettlersOf
  <2>4. Known'
    BY <2>1 DEF SettleInv, FormInv, Known, Settling
  <2>5. Covered'
    BY <2>1 DEF SettleInv, FormInv, Covered, Settling
  <2>6. ASSUME OnePayer PROVE SeenAll' /\ NeverOverSettled' /\ SettledWhenReached'
    <3>1. SeenAll'
      <4> SUFFICES ASSUME NEW t \in Sessions, Settling(t)',
                          NEW f \in opened', Settles(entry'[t], f)
                   PROVE  seen'[t] = SettlersOf(f.id)'
        BY DEF SeenAll
      <4>1. CASE t = s
        BY <2>1, <4>1 DEF Settles, SettlersOf
      <4>2. CASE t # s
        BY <2>1, <2>6, <4>2 DEF SettleInv, SeenAll, SettlersOf, Settling
      <4> QED BY <4>1, <4>2
    <3> QED
      BY <2>1, <2>6, <3>1 DEF SettleInv, NeverOverSettled, SettledWhenReached, SettlersOf
  <2> QED BY <2>2, <2>3, <2>4, <2>5, <2>6 DEF SettleInv, FormInv
<1> QED BY <1>1, <1>2

\* With the lock the sum that was seen is checked.
LEMMA FormLock ==
    ASSUME SettleInv, StockInv', NEW s \in Sessions, LockCommitment(s)
    PROVE  SettleInv'
<1>1. ASSUME NEW answer, Reject(s, answer) PROVE SettleInv'
  BY <1>1, FormReject
<1>2. ASSUME NEW f \in opened, f.id = entry[s].commitment,
             Refusal(entry[s], f, f.id \in settled, seen[s]) = "none",
             pc' = [pc EXCEPT ![s] = "commit"],
             UNCHANGED <<tables, entry, line, pending, seen, reply>>
      PROVE  SettleInv'
  <2>1. /\ UNCHANGED <<posted, opened, settled, settlements, entry, seen>>
        /\ pc[s] = "locking" /\ pc'[s] = "commit"
        /\ \A t \in Sessions \ {s} : pc'[t] = pc[t]
    BY <1>2 DEF LockCommitment, tables, SettleInv, FormInv, StockInv, JournalInv, TypeOK
  <2>2. UniqueForms' /\ PositiveForms' /\ SettledOpened' /\ PostedValid' /\ SeenPosted'
    BY <2>1 DEF SettleInv, FormInv, UniqueForms, PositiveForms, SettledOpened, PostedValid,
                SeenPosted
  <2>3. \A t \in Sessions : Settling(t)' => Settling(t)
    BY <2>1 DEF Settling
  <2>4. Known'
    BY <2>1, <2>3 DEF SettleInv, FormInv, Known
  <2>5. ~ (Total(seen[s] \cup {entry[s]}, f.currency) > f.amount)
    BY <1>2 DEF Refusal
  <2>6. Total(seen[s] \cup {entry[s]}, f.currency) <= f.amount
    <3>1. seen[s] \cup {entry[s]} \in SUBSET Entries /\ IsFiniteSet(seen[s] \cup {entry[s]})
      <4>1. /\ seen[s] \subseteq posted /\ posted \subseteq Entries /\ IsFiniteSet(posted)
            /\ entry[s] \in Entries
        BY <2>1 DEF SettleInv, FormInv, SeenPosted, StockInv, JournalInv, TypeOK
      <4> QED BY <4>1, FS_Subset, FS_AddElement
    <3>2. Total(seen[s] \cup {entry[s]}, f.currency) \in Int
      <4>1. \A e \in seen[s] \cup {entry[s]} : Paid(f.currency)[e] \in Int
        BY <3>1, FlowType DEF Paid
      <4> QED BY <3>1, <4>1, TotalIsSum, SumType
    <3>3. f.amount \in Int
      BY <1>2 DEF SettleInv, FormInv, StockInv, JournalInv, TypeOK
    <3> QED BY <2>5, <3>2, <3>3
  <2>7. Covered'
    <3> SUFFICES ASSUME NEW t \in Sessions, Settling(t)', pc'[t] = "commit",
                        NEW g \in opened', g.id = entry'[t].commitment
                 PROVE  Total(seen'[t] \cup {entry'[t]}, g.currency) <= g.amount
      BY DEF Covered
    <3>1. CASE t = s
      BY <1>2, <2>1, <2>6, <3>1 DEF SettleInv, FormInv, UniqueForms
    <3>2. CASE t # s
      BY <2>1, <2>3, <3>2 DEF SettleInv, FormInv, Covered
    <3> QED BY <3>1, <3>2
  <2>8. ASSUME OnePayer PROVE SeenAll' /\ NeverOverSettled' /\ SettledWhenReached'
    <3>1. SeenAll'
      BY <2>1, <2>3, <2>8 DEF SettleInv, SeenAll, SettlersOf
    <3> QED
      BY <2>1, <2>8, <3>1 DEF SettleInv, NeverOverSettled, SettledWhenReached, SettlersOf
  <2> QED BY <2>2, <2>4, <2>7, <2>8 DEF SettleInv, FormInv
<1> QED BY <1>1, <1>2 DEF LockCommitment

\* Two sessions that settle one commitment hold rows in common: there is one.
LEMMA OneSettles ==
    ASSUME StockInv, OnePayer, NEW s \in Sessions, NEW t \in Sessions, s # t,
           NEW f \in opened, Settles(entry[s], f), Settles(entry[t], f),
           pc[s] \in {"locking", "commit"}, pc[t] \in {"locking", "commit"}
    PROVE  FALSE
<1>1. /\ f \in CommitmentForms /\ entry[s] \in Entries /\ entry[t] \in Entries
      /\ DOMAIN pending[s] \cap DOMAIN pending[t] = {}
      /\ line[s] = Len(entry[s].lines) + 1 /\ line[t] = Len(entry[t].lines) + 1
  BY DEF StockInv, JournalInv, TypeOK, LockExclusion, Written
<1>2. PICK i \in DOMAIN entry[s].lines, j \in DOMAIN entry[t].lines :
          RowOf(entry[s], entry[s].lines[i]) = RowOf(entry[t], entry[t].lines[j])
  BY <1>1 DEF OnePayer
<1>3. i < line[s] /\ j < line[t]
  BY <1>1, AmountsType
<1>4. /\ RowOf(entry[s], entry[s].lines[i]) \in DOMAIN pending[s]
      /\ RowOf(entry[t], entry[t].lines[j]) \in DOMAIN pending[t]
  BY <1>3 DEF StockInv, Written
<1> QED BY <1>1, <1>2, <1>4

\* A session that commits a settlement has one commitment, which it closes when
\* what it saw and its own payment use it up.
LEMMA CommitSettles ==
    ASSUME FormInv, NEW s \in Sessions, Commit(s), entry[s].commitment # NoCommitment
    PROVE  \E f \in opened :
             /\ Settles(entry[s], f) /\ f.id \notin settled
             /\ Total(seen[s] \cup {entry[s]}, f.currency) <= f.amount
             /\ settled' = IF Total(seen[s] \cup {entry[s]}, f.currency) = f.amount
                           THEN settled \cup {f.id} ELSE settled
<1>1. pc[s] = "commit" /\ Settling(s)
  BY DEF Commit, Settling
<1>2. PICK f \in opened : Settles(entry[s], f) /\ f.id \notin settled
  BY <1>1 DEF FormInv, StockInv, JournalInv, HeldOpen, Settles
<1>3. Total(seen[s] \cup {entry[s]}, f.currency) <= f.amount
  BY <1>1, <1>2 DEF FormInv, Covered, Settles
<1>4. \A g \in opened : g.id = entry[s].commitment <=> g = f
  BY <1>2 DEF FormInv, UniqueForms, Settles
<1>5. Closes(s) = IF Total(seen[s] \cup {entry[s]}, f.currency) = f.amount THEN {f.id} ELSE {}
  BY <1>4 DEF Closes
<1>6. settled' = settled \cup Closes(s)
  BY DEF Commit
<1> QED BY <1>2, <1>3, <1>5, <1>6

\* An entry without a commitment closes none.
LEMMA CommitSettlesNone ==
    ASSUME FormInv, NEW s \in Sessions, Commit(s), entry[s].commitment = NoCommitment
    PROVE  settled' = settled /\ settlements' = settlements
<1>1. \A f \in opened : f.id # NoCommitment
  BY DEF FormInv, StockInv, JournalInv, TypeOK
<1>2. Closes(s) = {}
  BY <1>1 DEF Closes
<1> QED BY <1>2 DEF Commit

\* What COMMIT does to the sessions.
LEMMA CommitSessions ==
    ASSUME FormInv, NEW s \in Sessions, Commit(s)
    PROVE  /\ pc[s] = "commit" /\ pc'[s] = "idle" /\ seen'[s] = {} /\ entry' = entry
           /\ opened' = opened /\ posted' = posted \cup {entry[s]} /\ entry[s] \in Entries
           /\ settlements' = IF entry[s].commitment = NoCommitment
                             THEN settlements ELSE settlements \cup {entry[s]}
           /\ \A t \in Sessions \ {s} : pc'[t] = pc[t] /\ seen'[t] = seen[t]
           /\ ValidateJournalEntry(entry[s])
<1>1. PICK answer \in {"created", "error"} : Finish(s, answer)
  BY DEF Commit
<1> QED BY <1>1 DEF Commit, Finish, FormInv, StockInv, JournalInv, TypeOK

\* COMMIT keeps what is known of commitments.
LEMMA FormCommit ==
    ASSUME SettleInv, StockInv', NEW s \in Sessions, Commit(s)
    PROVE  FormInv'
<1>1. FormInv
  BY DEF SettleInv
<1>2. UniqueForms' /\ PositiveForms'
  BY <1>1, CommitSessions DEF FormInv, UniqueForms, PositiveForms
<1>3. SettledOpened'
  <2>1. CASE entry[s].commitment = NoCommitment
    BY <1>1, <2>1, CommitSessions, CommitSettlesNone DEF FormInv, SettledOpened
  <2>2. CASE entry[s].commitment # NoCommitment
    <3>1. PICK f \in opened : settled' \in {settled, settled \cup {f.id}}
      BY <1>1, <2>2, CommitSettles
    <3> QED BY <1>1, <3>1, CommitSessions DEF FormInv, SettledOpened
  <2> QED BY <2>1, <2>2
<1>4. PostedValid'
  BY <1>1, CommitSessions DEF FormInv, PostedValid
<1>5. SeenPosted'
  <2>1. \A t \in Sessions : seen'[t] \in {seen[t], {}}
    BY <1>1, CommitSessions
  <2> QED BY <1>1, <2>1, CommitSessions DEF FormInv, SeenPosted
<1>6. \A t \in Sessions : Settling(t)' => /\ t # s /\ Settling(t) /\ pc'[t] = pc[t]
                                         /\ entry'[t] = entry[t] /\ seen'[t] = seen[t]
  BY <1>1, CommitSessions DEF Settling
<1>7. Known'
  BY <1>1, <1>6, CommitSessions DEF FormInv, Known
<1>8. Covered'
  <2> SUFFICES ASSUME NEW t \in Sessions, Settling(t)', pc'[t] = "commit",
                      NEW f \in opened', f.id = entry'[t].commitment
               PROVE  Total(seen'[t] \cup {entry'[t]}, f.currency) <= f.amount
    BY DEF Covered
  <2> QED BY <1>1, <1>6, CommitSessions DEF FormInv, Covered
<1> QED BY <1>2, <1>3, <1>4, <1>5, <1>7, <1>8 DEF FormInv

\* The settlements after a COMMIT, by commitment.
LEMMA CommitSettlers ==
    ASSUME FormInv, NEW s \in Sessions, Commit(s), entry[s].commitment # NoCommitment,
           NEW c
    PROVE  SettlersOf(c)' = IF c = entry[s].commitment THEN SettlersOf(c) \cup {entry[s]}
                            ELSE SettlersOf(c)
<1>1. settlements' = settlements \cup {entry[s]}
  BY CommitSessions
<1> QED BY <1>1 DEF SettlersOf

\* With one payer COMMIT keeps to the amount, and closes when it is reached.
LEMMA SettleCommit ==
    ASSUME SettleInv, StockInv', NEW s \in Sessions, Commit(s), OnePayer
    PROVE  SeenAll' /\ NeverOverSettled' /\ SettledWhenReached'
<1>1. FormInv /\ SeenAll /\ NeverOverSettled /\ SettledWhenReached
  BY DEF SettleInv
<1>2. \A t \in Sessions : Settling(t)' => /\ t # s /\ Settling(t) /\ pc'[t] = pc[t]
                                         /\ entry'[t] = entry[t] /\ seen'[t] = seen[t]
  BY <1>1, CommitSessions DEF Settling
<1>3. opened' = opened
  BY <1>1, CommitSessions
<1>4. CASE entry[s].commitment = NoCommitment
  <2>1. settled' = settled /\ settlements' = settlements
    BY <1>1, <1>4, CommitSettlesNone
  <2>2. SeenAll'
    BY <1>1, <1>2, <1>3, <2>1 DEF SeenAll, SettlersOf
  <2> QED
    BY <1>1, <1>3, <2>1, <2>2 DEF NeverOverSettled, SettledWhenReached, SettlersOf
<1>5. CASE entry[s].commitment # NoCommitment
  <2>1. PICK f \in opened :
           /\ Settles(entry[s], f) /\ f.id \notin settled
           /\ Total(seen[s] \cup {entry[s]}, f.currency) <= f.amount
           /\ settled' = IF Total(seen[s] \cup {entry[s]}, f.currency) = f.amount
                         THEN settled \cup {f.id} ELSE settled
    BY <1>1, <1>5, CommitSettles
  <2>2. f.id = entry[s].commitment /\ \A g \in opened : g.id = f.id => g = f
    BY <1>1, <2>1 DEF FormInv, UniqueForms, Settles
  <2>3. seen[s] = SettlersOf(f.id)
    BY <1>1, <1>5, <2>1, CommitSessions DEF SeenAll, Settling
  <2>4. /\ SettlersOf(f.id)' = seen[s] \cup {entry[s]}
        /\ \A g \in opened : g # f => SettlersOf(g.id)' = SettlersOf(g.id)
    BY <1>1, <1>5, <2>2, <2>3, CommitSettlers
  <2>5. SeenAll'
    <3> SUFFICES ASSUME NEW t \in Sessions, Settling(t)',
                        NEW g \in opened', Settles(entry'[t], g)
                 PROVE  seen'[t] = SettlersOf(g.id)'
      BY DEF SeenAll
    <3>1. /\ t # s /\ Settling(t) /\ g \in opened /\ Settles(entry[t], g)
          /\ seen'[t] = seen[t] /\ pc[s] = "commit"
      BY <1>1, <1>2, <1>3, CommitSessions
    <3>2. CASE g = f
      BY <1>1, <2>1, <3>1, <3>2, OneSettles DEF FormInv, Settling
    <3>3. CASE g # f
      BY <1>1, <2>4, <3>1, <3>3 DEF SeenAll
    <3> QED BY <3>2, <3>3
  <2>6. NeverOverSettled'
    <3> SUFFICES ASSUME NEW g \in opened
                 PROVE  Total(SettlersOf(g.id)', g.currency) <= g.amount
      BY <1>3 DEF NeverOverSettled
    <3> QED BY <1>1, <2>1, <2>4 DEF NeverOverSettled
  <2>7. SettledWhenReached'
    <3> SUFFICES ASSUME NEW g \in opened
                 PROVE  g.id \in settled' <=> Total(SettlersOf(g.id)', g.currency) = g.amount
      BY <1>3 DEF SettledWhenReached
    <3>1. CASE g = f
      BY <2>1, <2>4, <3>1
    <3>2. CASE g # f
      <4>1. g.id \in settled' <=> g.id \in settled
        BY <2>1, <2>2, <3>2
      <4> QED BY <1>1, <2>4, <3>2, <4>1 DEF SettledWhenReached
    <3> QED BY <3>1, <3>2
  <2> QED BY <2>5, <2>6, <2>7
<1> QED BY <1>4, <1>5

\* Nothing has been paid on a new commitment.
LEMMA FormCreate ==
    ASSUME SettleInv, StockInv', NEW f \in CommitmentForms, CreateCommitment(f)
    PROVE  SettleInv'
<1>1. /\ UNCHANGED <<posted, settled, settlements, pc, entry, seen>>
      /\ opened' = opened \cup {f} /\ f.amount > 0
      /\ \A g \in opened : g.id # f.id
  BY DEF CreateCommitment, sessions
<1>2. UniqueForms' /\ PositiveForms' /\ SettledOpened' /\ PostedValid' /\ SeenPosted'
  BY <1>1 DEF SettleInv, FormInv, UniqueForms, PositiveForms, SettledOpened, PostedValid,
              SeenPosted
<1>3. Known'
  BY <1>1 DEF SettleInv, FormInv, Known, Settling
<1>4. \A s \in Sessions : Settling(s) => entry[s].commitment # f.id
  BY <1>1 DEF SettleInv, FormInv, Known
<1>5. Covered'
  BY <1>1, <1>4 DEF SettleInv, FormInv, Covered, Settling
<1>6. ASSUME OnePayer PROVE SeenAll' /\ NeverOverSettled' /\ SettledWhenReached'
  <2>1. SeenAll'
    BY <1>1, <1>4, <1>6 DEF SettleInv, SeenAll, SettlersOf, Settles, Settling
  <2>2. SettlersOf(f.id) = {}
    BY <1>1 DEF SettlersOf, SettleInv, FormInv, StockInv, JournalInv, SettlementsOwned
  <2>3. Total(SettlersOf(f.id), f.currency) = 0
    BY <2>2, TotalIsSum, SumEmpty
  <2>4. f.id \notin settled
    BY <1>1 DEF SettleInv, FormInv, SettledOpened
  <2>5. f.amount \in Nat
    OBVIOUS
  <2>6. /\ Total(SettlersOf(f.id), f.currency) <= f.amount
        /\ f.id \in settled <=> Total(SettlersOf(f.id), f.currency) = f.amount
    BY <1>1, <2>3, <2>4, <2>5
  <2>7. NeverOverSettled'
    <3> SUFFICES ASSUME NEW g \in opened'
                 PROVE  Total(SettlersOf(g.id)', g.currency) <= g.amount
      BY DEF NeverOverSettled
    <3>1. SettlersOf(g.id)' = SettlersOf(g.id) /\ (g \in opened \/ g = f)
      BY <1>1 DEF SettlersOf
    <3>2. CASE g = f
      BY <2>6, <3>1, <3>2
    <3>3. CASE g \in opened
      BY <1>6, <3>1, <3>3 DEF SettleInv, NeverOverSettled
    <3> QED BY <3>1, <3>2, <3>3
  <2>8. SettledWhenReached'
    <3> SUFFICES ASSUME NEW g \in opened'
                 PROVE  g.id \in settled' <=> Total(SettlersOf(g.id)', g.currency) = g.amount
      BY DEF SettledWhenReached
    <3>1. SettlersOf(g.id)' = SettlersOf(g.id) /\ (g \in opened \/ g = f)
      BY <1>1 DEF SettlersOf
    <3>2. CASE g = f
      BY <1>1, <2>6, <3>1, <3>2
    <3>3. CASE g \in opened
      BY <1>1, <1>6, <3>1, <3>3 DEF SettleInv, SettledWhenReached
    <3> QED BY <3>1, <3>2, <3>3
  <2> QED BY <2>1, <2>7, <2>8
<1> QED BY <1>2, <1>3, <1>5, <1>6 DEF SettleInv, FormInv

\* Every step keeps SettleInv.
LEMMA SettleStep == SettleInv /\ [Next]_vars => SettleInv'
<1> SUFFICES ASSUME SettleInv, [Next]_vars
             PROVE  SettleInv'
  OBVIOUS
<1>s. StockInv'
  BY StockStep DEF SettleInv, FormInv
<1>t. TypeOK
  BY DEF SettleInv, FormInv, StockInv, JournalInv
<1>q. ASSUME UNCHANGED <<tables, seen>>, NEW s \in Sessions, ~ Settling(s)',
             \A t \in Sessions \ {s} : pc'[t] = pc[t] /\ entry'[t] = entry[t]
      PROVE  SettleInv'
  <2>1. \A t \in Sessions : Settling(t)' =>
            Settling(t) /\ pc'[t] = pc[t] /\ entry'[t] = entry[t] /\ seen'[t] = seen[t]
    BY <1>q DEF Settling
  <2> QED BY <1>s, <1>q, <2>1, FormQuiet
<1>1. ASSUME NEW s \in Sessions, NEW e \in Entries, Begin(s, e) PROVE SettleInv'
  <2>1. /\ UNCHANGED <<tables, seen>> /\ pc'[s] \in {"idle", "insert"}
        /\ \A t \in Sessions \ {s} : pc'[t] = pc[t] /\ entry'[t] = entry[t]
    BY <1>1, <1>t DEF Begin, TypeOK
  <2>2. ~ Settling(s)'
    BY <2>1 DEF Settling
  <2> QED BY <1>q, <2>1, <2>2
<1>2. ASSUME NEW s \in Sessions, InsertEntry(s) PROVE SettleInv'
  <2>1. /\ UNCHANGED <<tables, seen>> /\ pc'[s] = "lines"
        /\ \A t \in Sessions \ {s} : pc'[t] = pc[t] /\ entry'[t] = entry[t]
    BY <1>2, <1>t DEF InsertEntry, TypeOK
  <2>2. ~ Settling(s)'
    BY <2>1 DEF Settling
  <2> QED BY <1>q, <2>1, <2>2
<1>3. ASSUME NEW s \in Sessions, InsertFails(s) \/ Abort(s) \/ DeadlockVictim(s) PROVE SettleInv'
  BY <1>3, <1>s, FormReject DEF InsertFails, Abort, DeadlockVictim
<1>4. ASSUME NEW s \in Sessions, WriteLine(s) PROVE SettleInv'
  <2>1. /\ UNCHANGED <<tables, seen, entry>>
        /\ pc'[s] \in {"lines", "settle"} \/ entry'[s].commitment = NoCommitment
        /\ \A t \in Sessions \ {s} : pc'[t] = pc[t] /\ entry'[t] = entry[t]
    BY <1>4, <1>t DEF WriteLine, AfterLines, TypeOK
  <2>2. ~ Settling(s)'
    BY <2>1 DEF Settling
  <2> QED BY <1>q, <2>1, <2>2
<1>5. ASSUME NEW s \in Sessions, ReadCommitment(s) PROVE SettleInv'
  BY <1>5, <1>s, FormRead
<1>6. ASSUME NEW s \in Sessions, LockCommitment(s) PROVE SettleInv'
  BY <1>6, <1>s, FormLock
<1>7. ASSUME NEW s \in Sessions, Commit(s) PROVE SettleInv'
  BY <1>7, <1>s, FormCommit, SettleCommit DEF SettleInv
<1>8. ASSUME NEW f \in CommitmentForms, CreateCommitment(f) PROVE SettleInv'
  BY <1>8, <1>s, FormCreate
<1>9. CASE UNCHANGED vars
  <2>1. UNCHANGED <<tables, pc, entry, seen>>
    BY <1>9 DEF vars, sessions
  <2>2. \A t \in Sessions : Settling(t)' =>
            Settling(t) /\ pc'[t] = pc[t] /\ entry'[t] = entry[t] /\ seen'[t] = seen[t]
    BY <2>1 DEF Settling
  <2> QED BY <1>s, <2>1, <2>2, FormQuiet
<1> QED
  BY <1>1, <1>2, <1>3, <1>4, <1>5, <1>6, <1>7, <1>8, <1>9 DEF Next, Statement

\* SettleInv holds always.
LEMMA SettleAlways == Spec => []SettleInv
<1>1. Init => SettleInv
  <2> SUFFICES ASSUME Init PROVE SettleInv
    OBVIOUS
  <2>1. \A s \in Sessions : ~ Settling(s) /\ seen[s] = {}
    BY DEF Init, Settling
  <2>2. opened = {} /\ settled = {} /\ posted = {}
    BY DEF Init
  <2> QED
    BY <2>1, <2>2, StockInit
       DEF SettleInv, FormInv, UniqueForms, PositiveForms, SettledOpened, PostedValid, SeenPosted,
           Known, Covered, SeenAll, NeverOverSettled, SettledWhenReached
<1> QED BY <1>1, SettleStep, PTL DEF Spec

\* Settlements never exceed the committed amount when what is paid on a commitment
\* moves a common row, which makes the payments wait for each other.
THEOREM OnePayerKeepsAmount == Spec => [](OnePayer => NeverOverSettled)
<1>1. SettleInv => (OnePayer => NeverOverSettled)
  BY DEF SettleInv
<1> QED BY <1>1, SettleAlways, PTL

\* And then a commitment is SETTLED exactly when the amount is reached.
THEOREM OnePayerCloses == Spec => [](OnePayer => SettledWhenReached)
<1>1. SettleInv => (OnePayer => SettledWhenReached)
  BY DEF SettleInv
<1> QED BY <1>1, SettleAlways, PTL

-----------------------------------------------------------------------------
(* The sums of Ledger range over all lines of an entry, with 0 for those    *)
(* that do not count; those of Journal range over the lines that count.     *)

\* The amounts of the lines in A, 0 for the others.
Part(e, A) == [i \in DOMAIN e.lines |-> IF i \in A THEN Amounts(e)[i] ELSE 0]

\* Both ways of summing agree.
LEMMA PartSum ==
    ASSUME NEW e \in Entries, NEW A \in SUBSET DOMAIN e.lines
    PROVE  SumOver(Part(e, A), DOMAIN e.lines) = Signed(e, A)
<1>1. (DOMAIN e.lines) \cap A = A
  OBVIOUS
<1>2. \A i \in DOMAIN e.lines : Part(e, A)[i] = IF i \in A THEN Amounts(e)[i] ELSE 0
  BY DEF Part
<1>3. SumOver(Part(e, A), DOMAIN e.lines) = SumOver(Amounts(e), (DOMAIN e.lines) \cap A)
  BY <1>2, AmountsType, SumRestrict
<1> QED BY <1>1, <1>3, SignedIsSum

\* A posting moves a balance row by its flow.
LEMMA MovementIsFlow ==
    ASSUME NEW e \in Entries, NEW r
    PROVE  AtomicLedger!Movement(e, r) = Flow(e, r)
<1> DEFINE D == DOMAIN e.lines
           F == Part(e, LinesOn(e, r))
           Move(i) == IF r = <<e.institution, e.lines[i].account, e.lines[i].currency>>
                      THEN AtomicLedger!SignedAmount(e.lines[i]) ELSE 0
           P(g) == g = [T \in SUBSET D |->
                          IF T = {} THEN 0 ELSE Move(Chosen(T)) + g[T \ {Chosen(T)}]]
<1>1. \A i \in D : F[i] = Move(i)
  BY DEF Part, LinesOn, RowOf, Amounts, SignedAmount, AtomicLedger!SignedAmount
<1>2. \A T \in SUBSET D : T # {} => F[Chosen(T)] = Move(Chosen(T))
  BY <1>1, ChosenIn
<1>3. \A g : IsSum(F, D, g) <=> P(g)
  BY <1>2 DEF IsSum
<1>4. Summing(F, D) = CHOOSE g : P(g)
  BY <1>3 DEF Summing
<1>5. AtomicLedger!Movement(e, r) = (CHOOSE g : P(g))[D]
  BY DEF AtomicLedger!Movement, AtomicLedger!MapThenSumSet, AtomicLedger!MapThenFoldSet, Chosen
<1>6. LinesOn(e, r) \in SUBSET D
  BY DEF LinesOn
<1> QED BY <1>4, <1>5, <1>6, SumDef, PartSum DEF Flow

\* The net of an entry is the one ValidateJournalEntry computes.
LEMMA NetIsNetIn ==
    ASSUME NEW e \in Entries, NEW currency
    PROVE  AtomicLedger!Net(e, currency) = NetIn(e, currency)
<1> DEFINE D == DOMAIN e.lines
           F == Part(e, LinesIn(e, currency))
           Move(i) == IF e.lines[i].currency = currency
                      THEN AtomicLedger!SignedAmount(e.lines[i]) ELSE 0
           P(g) == g = [T \in SUBSET D |->
                          IF T = {} THEN 0 ELSE Move(Chosen(T)) + g[T \ {Chosen(T)}]]
<1>1. \A i \in D : F[i] = Move(i)
  BY DEF Part, LinesIn, Amounts, SignedAmount, AtomicLedger!SignedAmount
<1>2. \A T \in SUBSET D : T # {} => F[Chosen(T)] = Move(Chosen(T))
  BY <1>1, ChosenIn
<1>3. \A g : IsSum(F, D, g) <=> P(g)
  BY <1>2 DEF IsSum
<1>4. Summing(F, D) = CHOOSE g : P(g)
  BY <1>3 DEF Summing
<1>5. AtomicLedger!Net(e, currency) = (CHOOSE g : P(g))[D]
  BY DEF AtomicLedger!Net, AtomicLedger!MapThenSumSet, AtomicLedger!MapThenFoldSet, Chosen
<1>6. LinesIn(e, currency) \in SUBSET D
  BY DEF LinesIn
<1> QED BY <1>4, <1>5, <1>6, SumDef, PartSum DEF NetIn

\* What an entry debits is what settleCommitment settles.
LEMMA DebitsIsDebitsIn ==
    ASSUME NEW e \in Entries, NEW currency
    PROVE  AtomicLedger!Debits(e, currency) = DebitsIn(e, currency)
<1> DEFINE D == DOMAIN e.lines
           A == DebitLines(e) \cap LinesIn(e, currency)
           F == Part(e, A)
           Move(i) == IF e.lines[i].currency = currency /\ e.lines[i].direction = "DEBIT"
                      THEN e.lines[i].amount ELSE 0
           P(g) == g = [T \in SUBSET D |->
                          IF T = {} THEN 0 ELSE Move(Chosen(T)) + g[T \ {Chosen(T)}]]
<1>1. \A i \in D : F[i] = Move(i)
  BY DEF Part, LinesIn, DebitLines, Amounts, SignedAmount
<1>2. \A T \in SUBSET D : T # {} => F[Chosen(T)] = Move(Chosen(T))
  BY <1>1, ChosenIn
<1>3. \A g : IsSum(F, D, g) <=> P(g)
  BY <1>2 DEF IsSum
<1>4. Summing(F, D) = CHOOSE g : P(g)
  BY <1>3 DEF Summing
<1>5. AtomicLedger!Debits(e, currency) = (CHOOSE g : P(g))[D]
  BY DEF AtomicLedger!Debits, AtomicLedger!MapThenSumSet, AtomicLedger!MapThenFoldSet, Chosen
<1>6. A \in SUBSET D
  BY DEF LinesIn, DebitLines
<1> QED BY <1>4, <1>5, <1>6, SumDef, PartSum DEF DebitsIn

\* The debits of a valid entry are not negative.
LEMMA DebitsNat ==
    ASSUME NEW e \in Entries, ValidateJournalEntry(e), NEW currency
    PROVE  DebitsIn(e, currency) \in Nat
<1> DEFINE A == DebitLines(e) \cap LinesIn(e, currency)
<1>1. A \in SUBSET DOMAIN e.lines /\ IsFiniteSet(A)
  BY SignedType DEF DebitLines, LinesIn
<1>2. \A i \in A : Amounts(e)[i] \in Nat
  <2> SUFFICES ASSUME NEW i \in A PROVE Amounts(e)[i] \in Nat
    OBVIOUS
  <2>1. e.lines[i].amount > 0 /\ e.lines[i].direction = "DEBIT" /\ i \in DOMAIN e.lines
    BY DEF ValidateJournalEntry, DebitLines
  <2>2. Amounts(e)[i] = e.lines[i].amount /\ Amounts(e)[i] \in Int
    BY <2>1, AmountsType DEF Amounts, SignedAmount
  <2> QED BY <2>1, <2>2
<1>3. DebitsIn(e, currency) = SumOver(Amounts(e), A)
  BY <1>1, SignedIsSum DEF DebitsIn
<1> QED BY <1>1, <1>2, <1>3, SumNat

\* A payment is part of the total it is counted in.
LEMMA PaymentWithinTotal ==
    ASSUME NEW S \in SUBSET Entries, IsFiniteSet(S), NEW e \in S, NEW currency,
           \A d \in S : ValidateJournalEntry(d)
    PROVE  /\ DebitsIn(e, currency) \in Nat /\ Total(S, currency) \in Nat
           /\ DebitsIn(e, currency) <= Total(S, currency)
<1>1. \A d \in S : Paid(currency)[d] = DebitsIn(d, currency) /\ Paid(currency)[d] \in Nat
  BY DebitsNat DEF Paid
<1> QED BY <1>1, SumNat, TotalIsSum

-----------------------------------------------------------------------------
(* The steps. *)

\* A session past its INSERT posts an entry of a registered institution: the
\* foreign key has been checked.
Registered == \A s \in Sessions : Inserted(s) => entry[s].institution \in Institutions

RefineInv == SettleInv /\ Registered

\* Only INSERT gets a session past the INSERT, and only Begin changes an entry.
LEMMA RegisteredStep == TypeOK /\ Registered /\ [Next]_vars => Registered'
<1> SUFFICES ASSUME TypeOK, Registered, [Next]_vars, NEW t \in Sessions, Inserted(t)'
             PROVE  entry'[t].institution \in Institutions
  BY DEF Registered
<1>0. /\ pc \in [Sessions -> Statements \cup {"idle"}]
      /\ entry \in [Sessions -> Entries \cup {NoEntry}]
  BY DEF TypeOK
<1>1. CASE UNCHANGED vars
  BY <1>1 DEF vars, sessions, Registered, Inserted
<1>2. ASSUME NEW s \in Sessions, NEW e \in Entries, Begin(s, e)
      PROVE  entry'[t].institution \in Institutions
  <2>1. t # s /\ pc'[t] = pc[t] /\ entry'[t] = entry[t]
    BY <1>0, <1>2 DEF Begin, Inserted
  <2> QED BY <2>1 DEF Registered, Inserted
<1>3. ASSUME NEW s \in Sessions, entry' = entry,
             \A u \in Sessions \ {s} : pc'[u] = pc[u],
             Inserted(s)' => entry[s].institution \in Institutions
      PROVE  entry'[t].institution \in Institutions
  <2>1. CASE t = s
    BY <1>3, <2>1
  <2>2. CASE t # s
    BY <1>3, <2>2 DEF Registered, Inserted
  <2> QED BY <2>1, <2>2
<1>4. ASSUME NEW s \in Sessions, NEW answer, Finish(s, answer)
      PROVE  entry'[t].institution \in Institutions
  <2>1. pc'[s] = "idle" /\ entry' = entry /\ \A u \in Sessions \ {s} : pc'[u] = pc[u]
    BY <1>0, <1>4 DEF Finish
  <2> QED BY <1>3, <2>1 DEF Inserted
<1>5. ASSUME NEW s \in Sessions, Statement(s)
      PROVE  entry'[t].institution \in Institutions
  <2>1. CASE InsertEntry(s)
    BY <1>0, <1>3, <2>1 DEF InsertEntry
  <2>2. CASE InsertFails(s)
    BY <1>4, <2>2 DEF InsertFails, Reject
  <2>3. CASE WriteLine(s)
    BY <1>0, <1>3, <2>3 DEF WriteLine, Registered, Inserted
  <2>4. CASE ReadCommitment(s)
    BY <1>0, <1>3, <1>4, <2>4 DEF ReadCommitment, Reject, Registered, Inserted
  <2>5. CASE LockCommitment(s)
    BY <1>0, <1>3, <1>4, <2>5 DEF LockCommitment, Reject, Registered, Inserted
  <2>6. CASE Commit(s)
    BY <1>4, <2>6 DEF Commit
  <2> QED BY <1>5, <2>1, <2>2, <2>3, <2>4, <2>5, <2>6 DEF Statement
<1>6. ASSUME NEW s \in Sessions, Abort(s) \/ DeadlockVictim(s)
      PROVE  entry'[t].institution \in Institutions
  BY <1>4, <1>6 DEF Abort, DeadlockVictim, Reject
<1>7. ASSUME NEW f \in CommitmentForms, CreateCommitment(f)
      PROVE  entry'[t].institution \in Institutions
  BY <1>7 DEF CreateCommitment, sessions, Registered, Inserted
<1> QED BY <1>1, <1>2, <1>5, <1>6, <1>7 DEF Next

\* What COMMIT posts is postable.
LEMMA CommitIsPostable ==
    ASSUME RefineInv, NEW s \in Sessions, Commit(s)
    PROVE  AtomicLedger!Postable(entry[s])
<1>1. /\ pc[s] = "commit" /\ Inserted(s) /\ entry[s] \in Entries
      /\ ValidateJournalEntry(entry[s])
  BY CommitSessions DEF RefineInv, SettleInv, Inserted
<1>2. \A p \in posted : p.id # entry[s].id /\ (p.key # entry[s].key \/ entry[s].key = NoKey)
  BY <1>1 DEF RefineInv, SettleInv, FormInv, StockInv, JournalInv, Fresh, KeyTaken, SameKey
<1>3. entry[s].institution \in Institutions
  BY <1>1 DEF RefineInv, Registered
<1>4. ASSUME NEW i \in DOMAIN entry[s].lines
      PROVE  AtomicLedger!Net(entry[s], entry[s].lines[i].currency) = 0
  BY <1>1, NetIsNetIn DEF ValidateJournalEntry
<1> QED BY <1>2, <1>3, <1>4 DEF AtomicLedger!Postable

\* What COMMIT settles is an open commitment that covers the payment.
LEMMA CommitIsSettle ==
    ASSUME RefineInv, NEW s \in Sessions, Commit(s), entry[s].commitment # NoCommitment
    PROVE  AtomicLedger!Settle(entry[s])
<1>1. FormInv /\ entry[s] \in Entries /\ ValidateJournalEntry(entry[s])
  BY CommitSessions DEF RefineInv, SettleInv
<1>2. PICK f \in opened :
        /\ Settles(entry[s], f) /\ f.id \notin settled
        /\ Total(seen[s] \cup {entry[s]}, f.currency) <= f.amount
        /\ settled' = IF Total(seen[s] \cup {entry[s]}, f.currency) = f.amount
                      THEN settled \cup {f.id} ELSE settled
  BY <1>1, CommitSettles
<1>3. f.amount \in Nat
  BY <1>1, FormsAssumption DEF FormInv, StockInv, JournalInv, TypeOK
<1> DEFINE S == seen[s] \cup {entry[s]}
<1>4. S \subseteq Entries /\ IsFiniteSet(S) /\ \A d \in S : ValidateJournalEntry(d)
  <2>1. /\ seen[s] \subseteq posted /\ IsFiniteSet(posted) /\ posted \subseteq Entries
        /\ \A d \in posted : ValidateJournalEntry(d)
    BY <1>1 DEF FormInv, SeenPosted, PostedValid, StockInv, JournalInv, TypeOK
  <2> QED BY <1>1, <2>1, FS_Subset, FS_AddElement
<1>5. /\ DebitsIn(entry[s], f.currency) \in Nat /\ Total(S, f.currency) \in Nat
      /\ DebitsIn(entry[s], f.currency) <= Total(S, f.currency)
  BY <1>4, PaymentWithinTotal
<1>6. AtomicLedger!Debits(entry[s], f.currency) = DebitsIn(entry[s], f.currency)
  BY <1>1, DebitsIsDebitsIn
<1>7. AtomicLedger!Debits(entry[s], f.currency) \in 1..f.amount
  BY <1>2, <1>3, <1>5, <1>6 DEF Settles
<1> QED BY <1>2, <1>7 DEF AtomicLedger!Settle, Settles

\* COMMIT is Post.
LEMMA CommitIsPost ==
    ASSUME RefineInv, NEW s \in Sessions, Commit(s)
    PROVE  AtomicLedger!Next
<1>1. FormInv /\ entry[s] \in Entries /\ pc[s] = "commit" /\ opened' = opened
  BY CommitSessions DEF RefineInv, SettleInv
<1>2. balance' = [r \in Rows |-> balance[r] + AtomicLedger!Movement(entry[s], r)]
  <2>1. balance' = [r \in Rows |-> CurrentBalance(s, r)]
    BY DEF Commit
  <2>2. ASSUME NEW r \in Rows
        PROVE  CurrentBalance(s, r) = balance[r] + AtomicLedger!Movement(entry[s], r)
    BY <1>1, <2>2, CommitBalance, MovementIsFlow DEF FormInv
  <2> QED BY <2>1, <2>2
<1>3. \/ /\ entry[s].commitment = NoCommitment
         /\ settled' = settled /\ settlements' = settlements
      \/ /\ entry[s].commitment # NoCommitment
         /\ AtomicLedger!Settle(entry[s])
         /\ settlements' = settlements \cup {entry[s]}
  BY <1>1, CommitSettlesNone, CommitIsSettle DEF Commit
<1>4. /\ posted' = posted \cup {entry[s]}
      /\ audit' = [audit EXCEPT ![<<"ENTRY_POSTED", entry[s].id>>] = @ + 1]
  BY DEF Commit, Event
<1>5. AtomicLedger!Post(entry[s])
  BY <1>1, <1>2, <1>3, <1>4, CommitIsPostable DEF AtomicLedger!Post
<1> QED BY <1>1, <1>5 DEF AtomicLedger!Next

\* Every other statement of a posting leaves the committed tables alone.
LEMMA OnlyTwoChangeTables ==
    [Next]_vars => \/ UNCHANGED tables
                   \/ \E s \in Sessions : Commit(s)
                   \/ \E f \in CommitmentForms : CreateCommitment(f)
BY DEF Next, Statement, Begin, InsertEntry, InsertFails, WriteLine, ReadCommitment,
       LockCommitment, Abort, DeadlockVictim, Reject, vars

\* Every step is a step of Ledger or leaves it alone.
LEMMA StepIsLedgerStep ==
    RefineInv /\ [Next]_vars => [AtomicLedger!Next]_(AtomicLedger!ledger)
<1> SUFFICES ASSUME RefineInv, [Next]_vars
             PROVE  [AtomicLedger!Next]_(AtomicLedger!ledger)
  OBVIOUS
<1>1. CASE UNCHANGED tables
  BY <1>1 DEF tables, AtomicLedger!ledger
<1>2. ASSUME NEW s \in Sessions, Commit(s) PROVE AtomicLedger!Next
  BY <1>2, CommitIsPost
<1>3. ASSUME NEW f \in CommitmentForms, CreateCommitment(f) PROVE AtomicLedger!Next
  BY <1>3 DEF CreateCommitment, AtomicLedger!Next, AtomicLedger!Create
<1> QED BY <1>1, <1>2, <1>3, OnlyTwoChangeTables

\* Initial states map to initial states.
LEMMA InitIsLedgerInit == Init => AtomicLedger!Init /\ Registered
BY DEF Init, AtomicLedger!Init, AuditEvents, EntryIds, Registered, Inserted

\* The posting transactions, statement by statement and interleaved in any way,
\* with failures and deadlocks, implement the ledger in which an entry is
\* posted in one indivisible step: whoever reads the committed tables cannot
\* tell PostEntry from an atomic operation.
THEOREM PostingIsAtomic == Spec => ImplementsLedger
<1>1. Spec => []RefineInv
  <2>1. Init => Registered
    BY InitIsLedgerInit
  <2>2. TypeOK /\ Registered /\ [Next]_vars => Registered'
    BY RegisteredStep
  <2>3. Spec => []Registered
    BY <2>1, <2>2, JournalTypeCorrect, PTL DEF Spec
  <2> QED BY <2>3, SettleAlways, PTL DEF RefineInv
<1>2. Init => AtomicLedger!Init
  BY InitIsLedgerInit
<1>3. RefineInv /\ [Next]_vars => [AtomicLedger!Next]_(AtomicLedger!ledger)
  BY StepIsLedgerStep
<1> QED BY <1>1, <1>2, <1>3, PTL DEF Spec, ImplementsLedger, AtomicLedger!Spec
=============================================================================
