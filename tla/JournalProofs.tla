---------------------------- MODULE JournalProofs ----------------------------
(***************************************************************************)
(* What holds of Journal for any number of sessions, entries, commitments  *)
(* and balance rows.                                                       *)
(***************************************************************************)
EXTENDS Journal, TLAPS

USE EntriesAssumption, FormsAssumption, SentinelAssumption

\* SignedAmount of a line of an entry is an integer, and its row is a row.
LEMMA LineFacts ==
    ASSUME NEW e \in Entries, NEW i \in 1..Len(e.lines)
    PROVE  /\ SignedAmount(e.lines[i]) \in Int
           /\ RowOf(e, e.lines[i]) \in Rows
<1>1. e.lines \in Seq(Lines)
  OBVIOUS
<1>2. e.lines[i] \in Lines
  BY <1>1
<1>3. e.lines[i].amount \in Int
  BY <1>2 DEF Lines
<1> QED
  BY <1>3 DEF SignedAmount

\* Finish keeps the session variables in their types.
LEMMA FinishType ==
    ASSUME TypeOK, NEW s \in Sessions, NEW answer \in Replies, Finish(s, answer)
    PROVE  /\ pc' \in [Sessions -> Statements \cup {"idle"}]
           /\ entry' \in [Sessions -> Entries \cup {NoEntry}]
           /\ line' \in [Sessions -> Nat]
           /\ DOMAIN pending' = Sessions
           /\ \A t \in Sessions : /\ DOMAIN pending'[t] \subseteq Rows
                                  /\ pending'[t] \in [DOMAIN pending'[t] -> Int]
           /\ seen' \in [Sessions -> SUBSET Entries]
           /\ reply' \in [Sessions -> Replies]
           /\ \A t \in Sessions :
                pc'[t] # "idle" => entry'[t] \in Entries /\ ValidateJournalEntry(entry'[t])
           /\ \A t \in Sessions : pc'[t] \in {"idle", "insert"} => line'[t] = 1
           /\ \A t \in Sessions : pc'[t] = "lines" => line'[t] \in 1..Len(entry'[t].lines)
<1>1. EmptyRows \in [{} -> Int] /\ DOMAIN EmptyRows = {}
  BY DEF EmptyRows
<1> QED
  BY <1>1 DEF TypeOK, Finish

LEMMA RejectType ==
    ASSUME TypeOK, NEW s \in Sessions, NEW answer \in Replies, Reject(s, answer)
    PROVE  TypeOK'
BY FinishType DEF Reject, TypeOK, tables

-----------------------------------------------------------------------------
(* Type correctness *)

LEMMA CommitType ==
    ASSUME TypeOK, NEW s \in Sessions, Commit(s)
    PROVE  TypeOK'
<1>1. PICK answer \in {"created", "error"} : Finish(s, answer)
  BY DEF Commit
<1>2. entry[s] \in Entries
  BY DEF TypeOK, Commit
<1>3. posted' \subseteq Entries /\ settlements' \subseteq Entries
  BY <1>2 DEF TypeOK, Commit
<1>4. balance' \in [Rows -> Int]
  BY DEF TypeOK, Commit, CurrentBalance
<1>5. settled' \subseteq CommitmentIds
  BY DEF TypeOK, Commit, Closes
<1>6. Event(entry[s]) \in AuditEvents
  BY <1>2 DEF Event, AuditEvents, EntryIds
<1>7. audit' \in [AuditEvents -> Nat]
  BY <1>6 DEF TypeOK, Commit
<1>8. opened' \subseteq CommitmentForms
  BY DEF TypeOK, Commit
<1>9. answer \in Replies
  BY DEF Replies
<1> QED
  BY <1>1, <1>3, <1>4, <1>5, <1>7, <1>8, <1>9, FinishType DEF TypeOK

LEMMA WriteLineType ==
    ASSUME TypeOK, NEW s \in Sessions, WriteLine(s)
    PROVE  TypeOK'
<1> DEFINE l == entry[s].lines[line[s]]
           r == NextRow(s)
           v == CurrentBalance(s, r) + SignedAmount(l)
<1>1. /\ pc[s] = "lines"
      /\ entry[s] \in Entries
      /\ line[s] \in 1..Len(entry[s].lines)
  BY DEF WriteLine, TypeOK
<1>2. r \in Rows /\ SignedAmount(l) \in Int
  BY <1>1, LineFacts DEF NextRow
<1>3. CurrentBalance(s, r) \in Int
  BY <1>2 DEF CurrentBalance, TypeOK
<1>4. v \in Int
  BY <1>2, <1>3
<1> HIDE DEF l, r, v
<1>5. pending' = [pending EXCEPT ![s] =
                    [x \in DOMAIN pending[s] \cup {r} |->
                       IF x = r THEN v ELSE pending[s][x]]]
  BY DEF WriteLine, l, r, v
<1>6. /\ DOMAIN pending' = Sessions
      /\ \A t \in Sessions : /\ DOMAIN pending'[t] \subseteq Rows
                             /\ pending'[t] \in [DOMAIN pending'[t] -> Int]
  BY <1>2, <1>4, <1>5 DEF TypeOK
<1>7. /\ line' \in [Sessions -> Nat]
      /\ pc' \in [Sessions -> Statements \cup {"idle"}]
  BY <1>1 DEF WriteLine, TypeOK, Statements, AfterLines
<1>8. ASSUME NEW t \in Sessions
      PROVE  /\ pc'[t] # "idle" =>
                   entry'[t] \in Entries /\ ValidateJournalEntry(entry'[t])
             /\ pc'[t] \in {"idle", "insert"} => line'[t] = 1
             /\ pc'[t] = "lines" => line'[t] \in 1..Len(entry'[t].lines)
  <2>1. CASE t # s
    BY <2>1 DEF WriteLine, TypeOK
  <2>2. CASE t = s
    <3>1. entry'[t] = entry[s] /\ line'[t] = line[s] + 1
      BY <2>2 DEF WriteLine, TypeOK
    <3>2. Len(entry[s].lines) \in Nat
      BY <1>1
    <3>3. pc'[t] = "lines" => line[s] < Len(entry[s].lines)
      BY <2>2 DEF WriteLine, TypeOK, MoreLines, AfterLines
    <3>4. pc'[t] \notin {"idle", "insert"}
      BY <2>2 DEF WriteLine, TypeOK, AfterLines
    <3>5. ValidateJournalEntry(entry[s])
      BY <1>1 DEF TypeOK
    <3> QED
      BY <1>1, <3>1, <3>2, <3>3, <3>4, <3>5
  <2> QED
    BY <2>1, <2>2
<1> QED
  BY <1>6, <1>7, <1>8 DEF TypeOK, WriteLine, tables

LEMMA TypeStep == TypeOK /\ [Next]_vars => TypeOK'
<1> SUFFICES ASSUME TypeOK, [Next]_vars
             PROVE  TypeOK'
  OBVIOUS
<1>1. ASSUME NEW s \in Sessions, NEW e \in Entries, Begin(s, e)
      PROVE  TypeOK'
  BY <1>1 DEF TypeOK, Begin, tables, Statements, Replies, Rejections
<1>2. ASSUME NEW s \in Sessions, InsertEntry(s)
      PROVE  TypeOK'
  <2>1. entry[s] \in Entries
    BY <1>2 DEF InsertEntry, TypeOK
  <2>2. ASSUME NEW t \in Sessions
        PROVE  pc'[t] = "lines" => line'[t] \in 1..Len(entry'[t].lines)
    <3>1. CASE t = s
      <4>1. line'[t] = 1 /\ entry'[t] = entry[s]
        BY <1>2, <3>1 DEF InsertEntry, TypeOK
      <4>2. Len(entry[s].lines) \in Nat /\ Len(entry[s].lines) >= 2
        BY <1>2, <2>1 DEF InsertEntry, TypeOK, ValidateJournalEntry
      <4> QED
        BY <4>1, <4>2
    <3>2. CASE t # s
      BY <1>2, <3>2 DEF InsertEntry, TypeOK
    <3> QED
      BY <3>1, <3>2
  <2> QED
    BY <1>2, <2>2 DEF TypeOK, InsertEntry, tables, Statements
<1>3. ASSUME NEW s \in Sessions, InsertFails(s)
      PROVE  TypeOK'
  BY <1>3, RejectType DEF InsertFails, Replies, Rejections
<1>4. ASSUME NEW s \in Sessions, WriteLine(s)
      PROVE  TypeOK'
  BY <1>4, WriteLineType
<1>5. ASSUME NEW s \in Sessions, ReadCommitment(s)
      PROVE  TypeOK'
  <2>1. CASE Reject(s, "unknownCommitment")
    BY <2>1, RejectType DEF Replies, Rejections
  <2>2. CASE ~Reject(s, "unknownCommitment")
    <3>1. SettlersOf(entry[s].commitment) \subseteq Entries
      BY DEF SettlersOf, TypeOK
    <3>2. /\ pc[s] = "settle"
          /\ pc' = [pc EXCEPT ![s] = "locking"]
          /\ seen' = [seen EXCEPT ![s] = SettlersOf(entry[s].commitment)]
          /\ UNCHANGED <<tables, entry, line, pending, reply>>
      BY <1>5, <2>2 DEF ReadCommitment
    <3>3. seen' \in [Sessions -> SUBSET Entries]
      BY <3>1, <3>2 DEF TypeOK
    <3> QED
      BY <3>2, <3>3 DEF TypeOK, tables, Statements
  <2> QED
    BY <2>1, <2>2
<1>6. ASSUME NEW s \in Sessions, LockCommitment(s)
      PROVE  TypeOK'
  <2>1. PICK f \in opened :
          LET refusal == Refusal(entry[s], f, f.id \in settled, seen[s])
          IN  IF refusal = "none"
              THEN /\ pc' = [pc EXCEPT ![s] = "commit"]
                   /\ UNCHANGED <<tables, entry, line, pending, seen, reply>>
              ELSE Reject(s, refusal)
    BY <1>6 DEF LockCommitment
  <2> DEFINE refusal == Refusal(entry[s], f, f.id \in settled, seen[s])
  <2>2. refusal \in Replies
    BY DEF Refusal, Replies, Rejections
  <2> HIDE DEF refusal
  <2>3. CASE refusal = "none"
    BY <1>6, <2>1, <2>3 DEF TypeOK, LockCommitment, tables, Statements, refusal
  <2>4. CASE refusal # "none"
    BY <2>1, <2>2, <2>4, RejectType DEF refusal
  <2> QED
    BY <2>3, <2>4
<1>7. ASSUME NEW s \in Sessions, Commit(s)
      PROVE  TypeOK'
  BY <1>7, CommitType
<1>8. ASSUME NEW s \in Sessions, Abort(s) \/ DeadlockVictim(s)
      PROVE  TypeOK'
  BY <1>8, RejectType DEF Abort, DeadlockVictim, Replies
<1>9. ASSUME NEW f \in CommitmentForms, CreateCommitment(f)
      PROVE  TypeOK'
  <2>1. <<"COMMITMENT_CREATED", f.id>> \in AuditEvents
    BY DEF AuditEvents
  <2> QED
    BY <1>9, <2>1 DEF TypeOK, CreateCommitment, sessions
<1>10. CASE UNCHANGED vars
  BY <1>10 DEF TypeOK, vars, tables, sessions
<1> QED
  BY <1>1, <1>2, <1>3, <1>4, <1>5, <1>6, <1>7, <1>8, <1>9, <1>10 DEF Next, Statement

\* The variables of Journal keep their types.
THEOREM JournalTypeCorrect == Spec => []TypeOK
<1>1. Init => TypeOK
  BY DEF Init, TypeOK, EmptyRows, Replies, AuditEvents
<1> QED
  BY <1>1, TypeStep, PTL DEF Spec

-----------------------------------------------------------------------------
(* The inductive invariant.  LockExclusion is what the waiting achieves, and
   it is not enough alone: an entry past its INSERT is new (Fresh), and a
   settlement about to be committed is on an open commitment (HeldOpen). *)

\* A posting past its INSERT has a key no posted entry has.
Fresh == \A s \in Sessions : Inserted(s) => ~KeyTaken(entry[s])

\* A posting past the commitment checks settles an open commitment of its
\* institution.
HeldOpen ==
    \A s \in Sessions :
        pc[s] = "commit" /\ entry[s].commitment # NoCommitment =>
            /\ entry[s].commitment \notin settled
            /\ \E f \in opened : /\ f.id = entry[s].commitment
                                /\ f.institution = entry[s].institution
                                /\ DebitsIn(entry[s], f.currency) # 0

\* What those checks leave behind on every settlement.
SettlementsOwned ==
    /\ settlements = {e \in posted : e.commitment # NoCommitment}
    /\ \A e \in settlements :
        \E f \in opened : /\ f.id = e.commitment
                         /\ f.institution = e.institution
                         /\ DebitsIn(e, f.currency) # 0

JournalInv ==
    /\ TypeOK
    /\ LockExclusion
    /\ Fresh
    /\ HeldOpen
    /\ PostedOnce
    /\ AuditComplete
    /\ SettlementsOwned
    /\ TruthfulAnswers

LEMMA SameKeyFacts ==
    \A a, b : /\ SameKey(a, b) => SameKey(b, a)
             /\ a.id = b.id => SameKey(a, b)
BY DEF SameKey

\* A session that finishes without touching the tables keeps everything.
LEMMA RejectInv ==
    ASSUME JournalInv, NEW s \in Sessions, NEW answer \in Replies, Reject(s, answer),
           answer \in {"created"} => entry[s] \in posted,
           answer = "duplicate" => \E p \in posted : SameKey(p, entry[s]),
           answer = "closed" => entry[s].commitment \in settled
    PROVE  JournalInv'
<1>1. TypeOK'
  BY RejectType DEF JournalInv
<1>2. /\ UNCHANGED <<posted, balance, opened, settled, settlements, audit, entry>>
      /\ pc' = [pc EXCEPT ![s] = "idle"]
      /\ pending' = [pending EXCEPT ![s] = EmptyRows]
      /\ reply' = [reply EXCEPT ![s] = answer]
  BY DEF Reject, Finish, tables
<1>3. DOMAIN EmptyRows = {}
  BY DEF EmptyRows
<1>4. LockExclusion'
  BY <1>2, <1>3 DEF JournalInv, LockExclusion, Inserted, TypeOK
<1>5. Fresh'
  BY <1>2 DEF JournalInv, Fresh, Inserted, KeyTaken, TypeOK
<1>6. HeldOpen'
  BY <1>2 DEF JournalInv, HeldOpen, TypeOK
<1>7. PostedOnce' /\ AuditComplete' /\ SettlementsOwned'
  BY <1>2 DEF JournalInv, PostedOnce, AuditComplete, SettlementsOwned
<1>8. TruthfulAnswers'
  BY <1>2 DEF JournalInv, TruthfulAnswers, TypeOK
<1> QED
  BY <1>1, <1>4, <1>5, <1>6, <1>7, <1>8 DEF JournalInv

\* COMMIT: the new entry is new, so its audit event is its first and its keys
\* are its own; the other sessions hold other keys and other commitments.
LEMMA CommitInv ==
    ASSUME JournalInv, NEW s \in Sessions, Commit(s)
    PROVE  JournalInv'
<1> DEFINE e == entry[s]
<1>1. PICK answer \in {"created", "error"} : Finish(s, answer)
  BY DEF Commit
<1>2. /\ pc[s] = "commit"
      /\ e \in Entries
      /\ Inserted(s)
      /\ ~KeyTaken(e)
  BY DEF Commit, JournalInv, TypeOK, Fresh, Inserted
<1>3. /\ posted' = posted \cup {e}
      /\ settlements' = IF e.commitment = NoCommitment
                        THEN settlements ELSE settlements \cup {e}
      /\ settled' = settled \cup Closes(s)
      /\ audit' = [audit EXCEPT ![Event(e)] = @ + 1]
      /\ opened' = opened
  BY DEF Commit
<1>4. /\ pc' = [pc EXCEPT ![s] = "idle"]
      /\ pending' = [pending EXCEPT ![s] = EmptyRows]
      /\ reply' = [reply EXCEPT ![s] = answer]
      /\ entry' = entry
  BY <1>1 DEF Finish
<1>5. DOMAIN EmptyRows = {}
  BY DEF EmptyRows
<1>6. TypeOK'
  BY CommitType DEF JournalInv
<1>7. LockExclusion'
  BY <1>4, <1>5 DEF JournalInv, LockExclusion, Inserted, TypeOK
<1>8. Fresh'
  <2> SUFFICES ASSUME NEW t \in Sessions, Inserted(t)'
               PROVE  ~KeyTaken(entry[t])'
    BY DEF Fresh
  <2>1. t # s /\ Inserted(t)
    BY <1>4 DEF Inserted, JournalInv, TypeOK
  <2>2. ~KeyTaken(entry[t]) /\ ~SameKey(e, entry[t])
    BY <1>2, <2>1 DEF JournalInv, Fresh, LockExclusion
  <2> QED
    BY <1>3, <1>4, <2>2 DEF KeyTaken
<1>9. HeldOpen'
  <2> SUFFICES ASSUME NEW t \in Sessions, pc'[t] = "commit",
                      entry'[t].commitment # NoCommitment
               PROVE  /\ entry'[t].commitment \notin settled'
                      /\ \E f \in opened' : /\ f.id = entry'[t].commitment
                                          /\ f.institution = entry'[t].institution
                                          /\ DebitsIn(entry'[t], f.currency) # 0
    BY DEF HeldOpen
  <2>1. t # s /\ pc[t] = "commit" /\ entry'[t] = entry[t]
    BY <1>4 DEF JournalInv, TypeOK
  <2>2. entry[t].commitment # e.commitment
    BY <1>2, <1>4, <2>1 DEF JournalInv, LockExclusion
  <2>3. entry[t].commitment \notin Closes(s)
    BY <2>2 DEF Closes
  <2> QED
    BY <1>3, <1>4, <2>1, <2>3 DEF JournalInv, HeldOpen
<1>10. PostedOnce'
  <2>1. \A p \in posted : ~SameKey(p, e) /\ ~SameKey(e, p)
    BY <1>2 DEF KeyTaken, SameKey
  <2>2. \A a, b \in posted : SameKey(a, b) => a = b
    BY DEF JournalInv, PostedOnce
  <2>3. \A a, b \in posted \cup {e} : SameKey(a, b) => a = b
    BY <2>1, <2>2
  <2> QED
    BY <1>3, <2>3 DEF PostedOnce
<1>11. AuditComplete'
  <2>1. \A p \in posted : p.id # e.id
    BY <1>2, SameKeyFacts DEF KeyTaken
  <2>2. Event(e) = <<"ENTRY_POSTED", e.id>> /\ e.id \in EntryIds
    BY <1>2 DEF Event, EntryIds
  <2>3. \A x \in AuditEvents :
          audit'[x] = IF x = Event(e) THEN audit[x] + 1 ELSE audit[x]
    BY <1>3 DEF JournalInv, TypeOK
  <2>4. ASSUME NEW id \in EntryIds
        PROVE  audit'[<<"ENTRY_POSTED", id>>] =
                 IF \E p \in posted' : p.id = id THEN 1 ELSE 0
    <3>1. /\ <<"ENTRY_POSTED", id>> \in AuditEvents
          /\ <<"ENTRY_POSTED", id>> = Event(e) <=> id = e.id
      BY <2>2 DEF AuditEvents
    <3>2. audit[<<"ENTRY_POSTED", id>>] = IF \E p \in posted : p.id = id THEN 1 ELSE 0
      BY DEF JournalInv, AuditComplete
    <3>3. (\E p \in posted' : p.id = id) <=> (\E p \in posted : p.id = id) \/ id = e.id
      BY <1>3
    <3>4. CASE id = e.id
      <4>1. audit[<<"ENTRY_POSTED", id>>] = 0
        BY <2>1, <3>2, <3>4
      <4>2. audit'[<<"ENTRY_POSTED", id>>] = 1
        BY <2>3, <3>1, <3>4, <4>1
      <4> QED
        BY <3>3, <3>4, <4>2
    <3>5. CASE id # e.id
      <4>1. audit'[<<"ENTRY_POSTED", id>>] = audit[<<"ENTRY_POSTED", id>>]
        BY <2>3, <3>1, <3>5
      <4> QED
        BY <3>2, <3>3, <3>5, <4>1
    <3> QED
      BY <3>4, <3>5
  <2>5. ASSUME NEW c \in CommitmentIds
        PROVE  audit'[<<"COMMITMENT_CREATED", c>>] =
                 IF \E f \in opened' : f.id = c THEN 1 ELSE 0
    <3>1. /\ <<"COMMITMENT_CREATED", c>> \in AuditEvents
          /\ <<"COMMITMENT_CREATED", c>> # Event(e)
      BY <2>2 DEF AuditEvents
    <3>2. audit'[<<"COMMITMENT_CREATED", c>>] = audit[<<"COMMITMENT_CREATED", c>>]
      BY <2>3, <3>1
    <3> QED
      BY <1>3, <3>2 DEF JournalInv, AuditComplete
  <2> QED
    BY <2>4, <2>5 DEF AuditComplete
<1>12. SettlementsOwned'
  BY <1>2, <1>3 DEF JournalInv, SettlementsOwned, HeldOpen
<1>13. TruthfulAnswers'
  BY <1>1, <1>2, <1>3, <1>4 DEF JournalInv, TruthfulAnswers, TypeOK
<1> QED
  BY <1>6, <1>7, <1>8, <1>9, <1>10, <1>11, <1>12, <1>13 DEF JournalInv

\* Steps that only move one session on, without reaching "commit" or changing
\* a table, and without taking a key or a row another session holds.
LEMMA SessionStepInv ==
    ASSUME JournalInv, TypeOK', UNCHANGED tables, NEW s \in Sessions,
           \A t \in Sessions \ {s} :
               /\ pc'[t] = pc[t]
               /\ entry'[t] = entry[t]
               /\ pending'[t] = pending[t]
               /\ reply'[t] = reply[t],
           Inserted(s)' =>
               /\ entry'[s] = entry[s]
               /\ ~KeyTaken(entry[s])
               /\ \A t \in Sessions \ {s} : Inserted(t) => ~SameKey(entry[s], entry[t]),
           pc'[s] # "commit" \/ entry'[s].commitment = NoCommitment,
           \A t \in Sessions \ {s} : DOMAIN pending'[s] \cap DOMAIN pending[t] = {},
           reply'[s] \in {"none", "invalid"} \/ (reply'[s] = reply[s] /\ entry'[s] = entry[s])
    PROVE  JournalInv'
<1>1. UNCHANGED <<posted, balance, opened, settled, settlements, audit>>
  BY DEF tables
<1>2. LockExclusion'
  <2> SUFFICES ASSUME NEW x \in Sessions, NEW y \in Sessions, x # y
               PROVE  /\ DOMAIN pending'[x] \cap DOMAIN pending'[y] = {}
                      /\ Inserted(x)' /\ Inserted(y)' => ~SameKey(entry'[x], entry'[y])
                      /\ pc'[x] = "commit" /\ pc'[y] = "commit"
                         /\ entry'[x].commitment # NoCommitment
                            => entry'[x].commitment # entry'[y].commitment
    BY DEF LockExclusion
  <2>1. CASE x # s /\ y # s
    BY <2>1 DEF JournalInv, LockExclusion, Inserted
  <2>2. CASE x = s
    BY <2>2 DEF Inserted
  <2>3. CASE y = s
    <3>1. DOMAIN pending'[x] \cap DOMAIN pending'[y] = {}
      BY <2>3
    <3>2. Inserted(x)' /\ Inserted(y)' => ~SameKey(entry'[y], entry'[x])
      BY <2>3 DEF Inserted
    <3>3. Inserted(x)' /\ Inserted(y)' => ~SameKey(entry'[x], entry'[y])
      BY <3>2 DEF SameKey
    <3>4. pc'[y] = "commit" => entry'[y].commitment = NoCommitment
      BY <2>3
    <3> QED
      BY <3>1, <3>3, <3>4
  <2> QED
    BY <2>1, <2>2, <2>3
<1>3. Fresh'
  BY <1>1 DEF JournalInv, Fresh, Inserted, KeyTaken
<1>4. HeldOpen'
  BY <1>1 DEF JournalInv, HeldOpen
<1>5. PostedOnce' /\ AuditComplete' /\ SettlementsOwned'
  BY <1>1 DEF JournalInv, PostedOnce, AuditComplete, SettlementsOwned
<1>6. TruthfulAnswers'
  BY <1>1 DEF JournalInv, TruthfulAnswers
<1> QED
  BY <1>2, <1>3, <1>4, <1>5, <1>6 DEF JournalInv

LEMMA BeginInv ==
    ASSUME JournalInv, NEW s \in Sessions, NEW e \in Entries, Begin(s, e)
    PROVE  JournalInv'
<1>1. TypeOK'
  BY TypeStep DEF JournalInv, Next
<1>2. /\ pc'[s] \in {"idle", "insert"}
      /\ reply'[s] \in {"none", "invalid"}
      /\ UNCHANGED <<tables, pending>>
      /\ \A t \in Sessions \ {s} : /\ pc'[t] = pc[t]
                                  /\ entry'[t] = entry[t]
                                  /\ reply'[t] = reply[t]
  BY DEF Begin, JournalInv, TypeOK
<1>3. ~Inserted(s)' /\ pc'[s] # "commit"
  BY <1>2 DEF Inserted
<1>4. \A t \in Sessions \ {s} : DOMAIN pending'[s] \cap DOMAIN pending[t] = {}
  BY <1>2 DEF JournalInv, LockExclusion
<1> QED
  BY <1>1, <1>2, <1>3, <1>4, SessionStepInv

\* INSERT waits until no other posting holds one of the keys, and fails if a
\* posted entry has one.
LEMMA InsertEntryInv ==
    ASSUME JournalInv, NEW s \in Sessions, InsertEntry(s)
    PROVE  JournalInv'
<1>1. TypeOK'
  BY TypeStep DEF JournalInv, Next, Statement
<1>2. /\ pc[s] = "insert" /\ pc'[s] = "lines"
      /\ UNCHANGED <<tables, entry, pending, reply>>
      /\ \A t \in Sessions \ {s} : pc'[t] = pc[t]
      /\ ~KeyTaken(entry[s])
  BY DEF InsertEntry, JournalInv, TypeOK
<1>3. \A t \in Sessions \ {s} : Inserted(t) => ~SameKey(entry[s], entry[t])
  BY <1>2 DEF InsertEntry, Unblocked, WaitsFor, WaitsForKey
<1>4. \A t \in Sessions \ {s} : DOMAIN pending'[s] \cap DOMAIN pending[t] = {}
  BY <1>2 DEF JournalInv, LockExclusion
<1> QED
  BY <1>1, <1>2, <1>3, <1>4, SessionStepInv

\* The UPSERT waits until no other posting has written the row.
LEMMA WriteLineInv ==
    ASSUME JournalInv, NEW s \in Sessions, WriteLine(s)
    PROVE  JournalInv'
<1>1. TypeOK'
  BY WriteLineType DEF JournalInv
<1>2. /\ pc[s] = "lines"
      /\ UNCHANGED <<tables, entry, reply>>
      /\ \A t \in Sessions \ {s} : pc'[t] = pc[t] /\ pending'[t] = pending[t]
      /\ DOMAIN pending'[s] = DOMAIN pending[s] \cup {NextRow(s)}
      /\ pc'[s] # "commit" \/ entry[s].commitment = NoCommitment
  BY DEF WriteLine, JournalInv, TypeOK, AfterLines
<1>3. \A t \in Sessions \ {s} : NextRow(s) \notin DOMAIN pending[t]
  BY <1>2 DEF WriteLine, Unblocked, WaitsFor, WaitsForRow
<1>4. \A t \in Sessions \ {s} : DOMAIN pending'[s] \cap DOMAIN pending[t] = {}
  BY <1>2, <1>3 DEF JournalInv, LockExclusion
<1>5. /\ ~KeyTaken(entry[s])
      /\ \A t \in Sessions \ {s} : Inserted(t) => ~SameKey(entry[s], entry[t])
  BY <1>2 DEF JournalInv, Fresh, LockExclusion, Inserted
<1> QED
  BY <1>1, <1>2, <1>4, <1>5, SessionStepInv

LEMMA ReadCommitmentInv ==
    ASSUME JournalInv, NEW s \in Sessions, ReadCommitment(s)
    PROVE  JournalInv'
<1>1. CASE Reject(s, "unknownCommitment")
  BY <1>1, RejectInv DEF Replies, Rejections
<1>2. CASE ~Reject(s, "unknownCommitment")
  <2>1. TypeOK'
    BY TypeStep DEF JournalInv, Next, Statement
  <2>2. /\ pc[s] = "settle" /\ pc'[s] = "locking"
        /\ UNCHANGED <<tables, entry, pending, reply>>
        /\ \A t \in Sessions \ {s} : pc'[t] = pc[t]
    BY <1>2 DEF ReadCommitment, JournalInv, TypeOK
  <2>3. /\ ~KeyTaken(entry[s])
        /\ \A t \in Sessions \ {s} : Inserted(t) => ~SameKey(entry[s], entry[t])
    BY <2>2 DEF JournalInv, Fresh, LockExclusion, Inserted
  <2>4. \A t \in Sessions \ {s} : DOMAIN pending'[s] \cap DOMAIN pending[t] = {}
    BY <2>2 DEF JournalInv, LockExclusion
  <2> QED
    BY <2>1, <2>2, <2>3, <2>4, SessionStepInv
<1> QED
  BY <1>1, <1>2

\* SELECT ... FOR UPDATE waits until no other posting holds the commitment,
\* and looks at its status only then.
LEMMA LockCommitmentInv ==
    ASSUME JournalInv, NEW s \in Sessions, LockCommitment(s)
    PROVE  JournalInv'
<1>1. PICK f \in opened :
        LET refusal == Refusal(entry[s], f, f.id \in settled, seen[s])
        IN  /\ f.id = entry[s].commitment
            /\ IF refusal = "none"
               THEN /\ pc' = [pc EXCEPT ![s] = "commit"]
                    /\ UNCHANGED <<tables, entry, line, pending, seen, reply>>
               ELSE Reject(s, refusal)
  BY DEF LockCommitment
<1> DEFINE refusal == Refusal(entry[s], f, f.id \in settled, seen[s])
<1>2. /\ refusal \in {"none"} \cup Rejections
      /\ refusal \notin {"created", "duplicate"}
      /\ refusal = "closed" => f.id \in settled
      /\ refusal = "none" => /\ f.id \notin settled
                             /\ f.institution = entry[s].institution
                             /\ DebitsIn(entry[s], f.currency) # 0
  BY DEF Refusal, Rejections
<1> HIDE DEF refusal
<1>3. CASE refusal # "none"
  <2>1. Reject(s, refusal) /\ f.id = entry[s].commitment
    BY <1>1, <1>3 DEF refusal
  <2> QED
    BY <1>2, <2>1, RejectInv DEF Replies
<1>4. CASE refusal = "none"
  <2>1. TypeOK'
    BY TypeStep DEF JournalInv, Next, Statement
  <2>2. /\ f.id = entry[s].commitment
        /\ pc' = [pc EXCEPT ![s] = "commit"]
        /\ UNCHANGED <<tables, entry, line, pending, seen, reply>>
    BY <1>1, <1>4 DEF refusal
  <2>3. UNCHANGED <<posted, balance, opened, settled, settlements, audit>>
    BY <2>2 DEF tables
  <2>4. pc[s] = "locking"
    BY DEF LockCommitment
  <2>5. \A t \in Sessions \ {s} :
          pc[t] = "commit" => entry[t].commitment # entry[s].commitment
    BY <2>4 DEF LockCommitment, Unblocked, WaitsFor, WaitsForCommitment
  <2>6. \A t \in Sessions : Inserted(t)' <=> Inserted(t)
    BY <2>2, <2>4 DEF Inserted, JournalInv, TypeOK
  <2>7. LockExclusion'
    BY <2>2, <2>5, <2>6 DEF JournalInv, LockExclusion, TypeOK
  <2>8. Fresh'
    BY <2>2, <2>3, <2>6 DEF JournalInv, Fresh, KeyTaken
  <2>9. HeldOpen'
    <3>1. ASSUME NEW t \in Sessions, t # s
          PROVE  pc'[t] = pc[t] /\ entry'[t] = entry[t]
      BY <2>2, <3>1 DEF JournalInv, TypeOK
    <3> QED
      BY <1>2, <1>4, <2>2, <2>3, <3>1 DEF JournalInv, HeldOpen
  <2>10. PostedOnce' /\ AuditComplete' /\ SettlementsOwned'
    BY <2>3 DEF JournalInv, PostedOnce, AuditComplete, SettlementsOwned
  <2>11. TruthfulAnswers'
    BY <2>2, <2>3 DEF JournalInv, TruthfulAnswers
  <2> QED
    BY <2>1, <2>7, <2>8, <2>9, <2>10, <2>11 DEF JournalInv
<1> QED
  BY <1>3, <1>4

LEMMA CreateCommitmentInv ==
    ASSUME JournalInv, NEW f \in CommitmentForms, CreateCommitment(f)
    PROVE  JournalInv'
<1>1. TypeOK'
  BY TypeStep DEF JournalInv, Next
<1>2. /\ UNCHANGED <<posted, balance, settled, settlements, pc, entry, pending, reply>>
      /\ opened' = opened \cup {f}
      /\ \A g \in opened : g.id # f.id
  BY DEF CreateCommitment, sessions
<1>3. LockExclusion' /\ Fresh' /\ PostedOnce' /\ TruthfulAnswers'
  BY <1>2 DEF JournalInv, LockExclusion, Fresh, PostedOnce, TruthfulAnswers, Inserted, KeyTaken
<1>4. HeldOpen' /\ SettlementsOwned'
  BY <1>2 DEF JournalInv, HeldOpen, SettlementsOwned
<1>5. AuditComplete'
  <2>1. \A x \in AuditEvents :
          audit'[x] = IF x = <<"COMMITMENT_CREATED", f.id>> THEN audit[x] + 1 ELSE audit[x]
    BY DEF CreateCommitment, JournalInv, TypeOK
  <2>2. ASSUME NEW id \in EntryIds
        PROVE  audit'[<<"ENTRY_POSTED", id>>] = audit[<<"ENTRY_POSTED", id>>]
    BY <2>1 DEF AuditEvents
  <2>3. ASSUME NEW c \in CommitmentIds
        PROVE  audit'[<<"COMMITMENT_CREATED", c>>] =
                 IF \E g \in opened' : g.id = c THEN 1 ELSE 0
    <3>1. audit[<<"COMMITMENT_CREATED", c>>] = IF \E g \in opened : g.id = c THEN 1 ELSE 0
      BY DEF JournalInv, AuditComplete
    <3>2. /\ <<"COMMITMENT_CREATED", c>> \in AuditEvents
          /\ <<"COMMITMENT_CREATED", c>> = <<"COMMITMENT_CREATED", f.id>> <=> c = f.id
      BY DEF AuditEvents
    <3>3. CASE c = f.id
      <4>1. audit[<<"COMMITMENT_CREATED", c>>] = 0
        BY <1>2, <3>1, <3>3
      <4>2. audit'[<<"COMMITMENT_CREATED", c>>] = 1
        BY <2>1, <3>2, <3>3, <4>1
      <4> QED
        BY <1>2, <3>3, <4>2
    <3>4. CASE c # f.id
      <4>1. audit'[<<"COMMITMENT_CREATED", c>>] = audit[<<"COMMITMENT_CREATED", c>>]
        BY <2>1, <3>2, <3>4
      <4> QED
        BY <1>2, <3>1, <3>4, <4>1
    <3> QED
      BY <3>3, <3>4
  <2> QED
    BY <1>2, <2>2, <2>3 DEF JournalInv, AuditComplete
<1> QED
  BY <1>1, <1>3, <1>4, <1>5 DEF JournalInv

-----------------------------------------------------------------------------
(* The theorems *)

LEMMA JournalInvInit == Init => JournalInv
<1> SUFFICES ASSUME Init
             PROVE  JournalInv
  OBVIOUS
<1>1. TypeOK
  BY DEF Init, TypeOK, EmptyRows, Replies, AuditEvents
<1>2. AuditComplete
  BY DEF Init, AuditComplete, AuditEvents
<1>3. DOMAIN EmptyRows = {}
  BY DEF EmptyRows
<1>4. LockExclusion
  BY <1>3 DEF Init, LockExclusion, Inserted
<1> QED
  BY <1>1, <1>2, <1>4
  DEF Init, JournalInv, Fresh, HeldOpen, PostedOnce, SettlementsOwned, TruthfulAnswers, Inserted

LEMMA JournalInvStep == JournalInv /\ [Next]_vars => JournalInv'
<1> SUFFICES ASSUME JournalInv, [Next]_vars
             PROVE  JournalInv'
  OBVIOUS
<1>1. ASSUME NEW s \in Sessions, NEW e \in Entries, Begin(s, e)
      PROVE  JournalInv'
  BY <1>1, BeginInv
<1>2. ASSUME NEW s \in Sessions, InsertEntry(s)
      PROVE  JournalInv'
  BY <1>2, InsertEntryInv
<1>3. ASSUME NEW s \in Sessions, InsertFails(s)
      PROVE  JournalInv'
  <2>1. CASE KeyTaken(entry[s]) /\ Reject(s, "duplicate")
    BY <2>1, RejectInv DEF KeyTaken, Replies, Rejections
  <2>2. CASE Reject(s, "unknownInstitution")
    BY <2>2, RejectInv DEF Replies, Rejections
  <2> QED
    BY <1>3, <2>1, <2>2 DEF InsertFails
<1>4. ASSUME NEW s \in Sessions, WriteLine(s)
      PROVE  JournalInv'
  BY <1>4, WriteLineInv
<1>5. ASSUME NEW s \in Sessions, ReadCommitment(s)
      PROVE  JournalInv'
  BY <1>5, ReadCommitmentInv
<1>6. ASSUME NEW s \in Sessions, LockCommitment(s)
      PROVE  JournalInv'
  BY <1>6, LockCommitmentInv
<1>7. ASSUME NEW s \in Sessions, Commit(s)
      PROVE  JournalInv'
  BY <1>7, CommitInv
<1>8. ASSUME NEW s \in Sessions, Abort(s) \/ DeadlockVictim(s)
      PROVE  JournalInv'
  BY <1>8, RejectInv DEF Abort, DeadlockVictim, Replies
<1>9. ASSUME NEW f \in CommitmentForms, CreateCommitment(f)
      PROVE  JournalInv'
  BY <1>9, CreateCommitmentInv
<1>10. CASE UNCHANGED vars
  BY <1>10, TypeStep
  DEF JournalInv, LockExclusion, Fresh, HeldOpen, PostedOnce, AuditComplete,
      SettlementsOwned, TruthfulAnswers, Inserted, KeyTaken, vars, tables, sessions
<1> QED
  BY <1>1, <1>2, <1>3, <1>4, <1>5, <1>6, <1>7, <1>8, <1>9, <1>10 DEF Next, Statement

LEMMA JournalInvariant == Spec => []JournalInv
BY JournalInvInit, JournalInvStep, PTL DEF Spec

\* However many postings run at once, a submission is posted at most once: no
\* two posted entries share an id or an idempotency key.
THEOREM NothingPostedTwice == Spec => []PostedOnce
BY JournalInvariant, PTL DEF JournalInv

\* No two postings in flight hold the same balance row, key or commitment.
THEOREM LocksExclude == Spec => []LockExclusion
BY JournalInvariant, PTL DEF JournalInv

\* Every posted entry and every commitment has exactly one audit event, and
\* nothing else has one.
THEOREM AuditTrailComplete == Spec => []AuditComplete
BY JournalInvariant, PTL DEF JournalInv

\* A client is told "created" or "duplicate" or "closed" only when it is so.
THEOREM AnswersAreTrue == Spec => []TruthfulAnswers
BY JournalInvariant, PTL DEF JournalInv

\* Exactly the posted entries that name a commitment settle one, and it is an
\* existing commitment of their institution in a currency they debit.
THEOREM SettlementsAreOwned == Spec => []SettlementsOwned
BY JournalInvariant, PTL DEF JournalInv

\* A commitment that is SETTLED stays SETTLED and takes no more settlements,
\* whatever was waiting for its row: the status, unlike the settled sum, is
\* read after the wait.
THEOREM SettledIsFinal == Spec => ClosedStaysClosed
<1>1. ASSUME JournalInv, [Next]_vars, NEW c \in settled
      PROVE  c \in settled' /\ SettlersOf(c)' = SettlersOf(c)
  <2>1. CASE UNCHANGED <<settled, settlements>>
    BY <2>1 DEF SettlersOf
  <2>2. ASSUME NEW s \in Sessions, Commit(s)
        PROVE  c \in settled' /\ SettlersOf(c)' = SettlersOf(c)
    <3>1. /\ settled \subseteq settled'
          /\ settlements' = IF entry[s].commitment = NoCommitment
                            THEN settlements ELSE settlements \cup {entry[s]}
      BY <2>2 DEF Commit
    <3>2. entry[s].commitment # NoCommitment => entry[s].commitment # c
      BY <1>1, <2>2 DEF JournalInv, HeldOpen, Commit
    <3> QED
      BY <3>1, <3>2 DEF SettlersOf
  <2>3. Next => UNCHANGED <<settled, settlements>> \/ \E s \in Sessions : Commit(s)
    BY DEF Next, Statement, Begin, InsertEntry, InsertFails, WriteLine, ReadCommitment,
           LockCommitment, Abort, DeadlockVictim, CreateCommitment, Reject, tables
  <2>4. CASE UNCHANGED vars
    BY <2>1, <2>4 DEF vars, tables
  <2> QED
    BY <1>1, <2>1, <2>2, <2>3, <2>4
<1>2. JournalInv /\ [Next]_vars =>
        [\A c \in settled : c \in settled' /\ SettlersOf(c)' = SettlersOf(c)]_vars
  BY <1>1
<1> QED
  BY <1>2, JournalInvariant, PTL DEF Spec, ClosedStaysClosed

\* From its UPSERT to its COMMIT a posting builds on the committed balance: no
\* other posting can commit a change to the row in between.
THEOREM BalancesNotLost == Spec => NoLostUpdate
<1>1. ASSUME JournalInv, [Next]_vars, NEW s \in Sessions,
             NEW r \in DOMAIN pending[s] \cap DOMAIN pending'[s]
      PROVE  balance'[r] = balance[r]
  <2>1. ASSUME NEW t \in Sessions, Commit(t)
        PROVE  balance'[r] = balance[r]
    <3>1. PICK answer \in {"created", "error"} : Finish(t, answer)
      BY <2>1 DEF Commit
    <3>2. pending' = [pending EXCEPT ![t] = EmptyRows] /\ DOMAIN EmptyRows = {}
      BY <3>1 DEF Finish, EmptyRows
    <3>3. t # s
      BY <1>1, <3>2 DEF JournalInv, TypeOK
    <3>4. r \in Rows /\ r \notin DOMAIN pending[t]
      BY <1>1, <3>3 DEF JournalInv, TypeOK, LockExclusion
    <3> QED
      BY <2>1, <3>4 DEF Commit, CurrentBalance
  <2>2. Next => UNCHANGED balance \/ \E t \in Sessions : Commit(t)
    BY DEF Next, Statement, Begin, InsertEntry, InsertFails, WriteLine, ReadCommitment,
           LockCommitment, Abort, DeadlockVictim, CreateCommitment, Reject, tables
  <2>3. CASE UNCHANGED vars
    BY <2>3 DEF vars, tables
  <2> QED
    BY <1>1, <2>1, <2>2, <2>3
<1>2. JournalInv /\ [Next]_vars =>
        [\A s \in Sessions : \A r \in DOMAIN pending[s] \cap DOMAIN pending'[s] :
           balance'[r] = balance[r]]_vars
  BY <1>1
<1> QED
  BY <1>2, JournalInvariant, PTL DEF Spec, NoLostUpdate
=============================================================================
