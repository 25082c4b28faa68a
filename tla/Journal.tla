------------------------------- MODULE Journal -------------------------------
(***************************************************************************)
(* The posting path of core-api: PostEntry and settleCommitment, statement *)
(* by statement, for any number of requests in flight at once against one  *)
(* PostgreSQL database, and CreateCommitment beside them.                  *)
(*                                                                         *)
(* Every request runs in its own READ COMMITTED transaction: a statement   *)
(* sees what was committed when the statement started, a row that another  *)
(* transaction has written or locked makes the statement wait, and nothing *)
(* a transaction wrote is visible to the others before COMMIT.  A unique   *)
(* index makes an INSERT wait for an uncommitted row with the same key.    *)
(***************************************************************************)
EXTENDS Integers, Sequences, FiniteSets, FiniteSetsExt

CONSTANTS
    Sessions,           \* database sessions, one per posting in flight
    Entries,            \* the journal entries clients may submit
    CommitmentForms,    \* the commitments clients may create
    CommitmentIds,      \* ids of commitments
    Institutions,       \* the registered institutions (treasury_institutions)
    Rows,               \* keys of account_balances: <<institution, account, currency>>
    NoEntry,            \* a session that has served no request yet
    NoKey,              \* an entry without an idempotency key
    NoCommitment        \* an entry that settles no commitment

Lines == [account : STRING, direction : {"DEBIT", "CREDIT"},
          amount : Int, currency : STRING]

RowOf(e, line) == <<e.institution, line.account, line.currency>>

ASSUME EntriesAssumption ==
    \A e \in Entries :
        /\ e.commitment \in CommitmentIds \cup {NoCommitment}
        /\ e.lines \in Seq(Lines)
        /\ \A i \in 1..Len(e.lines) : RowOf(e, e.lines[i]) \in Rows

ASSUME FormsAssumption ==
    \A f \in CommitmentForms : f.id \in CommitmentIds /\ f.amount \in Nat

ASSUME RowsAssumption == IsFiniteSet(Rows)

ASSUME SentinelAssumption ==
    NoEntry \notin Entries /\ NoCommitment \notin CommitmentIds

VARIABLES
    \* the committed contents of the database
    posted,         \* journal_entries with their journal_lines
    balance,        \* account_balances.balance_minor; an absent row counts 0
    opened,         \* commitments
    settled,        \* the commitments whose status is SETTLED
    settlements,    \* the entries with a row in commitment_settlements
    audit,          \* how many audit_events of a type name a subject
    \* one posting transaction per session
    pc,             \* the statement the session runs next
    entry,          \* the entry it posts, or posted last
    line,           \* the line it writes next
    pending,        \* the balance rows it has written, with their new values
    seen,           \* settlements its SELECT ... FOR UPDATE statement can see
    reply           \* what the last request was answered

tables   == <<posted, balance, opened, settled, settlements, audit>>
sessions == <<pc, entry, line, pending, seen, reply>>
vars     == <<tables, sessions>>

EntryIds     == {e.id : e \in Entries}
AuditEvents  == ({"ENTRY_POSTED"} \X EntryIds) \cup ({"COMMITMENT_CREATED"} \X CommitmentIds)
Rejections   == {"invalid", "duplicate", "unknownInstitution", "unknownCommitment",
                 "closed", "mismatch", "exceeded"}
Replies      == {"none", "created", "error"} \cup Rejections
Statements   == {"insert", "lines", "settle", "locking", "commit"}
EmptyRows    == [r \in {} |-> 0]

-----------------------------------------------------------------------------
(* Amounts *)

\* The balance contribution of a line: debits add, credits subtract.
SignedAmount(l) == IF l.direction = "DEBIT" THEN l.amount ELSE -l.amount

Signed(e, I) == MapThenSumSet(LAMBDA i : SignedAmount(e.lines[i]), I)

\* The lines of an entry with a currency, and the debits among them.
LinesIn(e, currency) == {i \in DOMAIN e.lines : e.lines[i].currency = currency}
DebitLines(e) == {i \in DOMAIN e.lines : e.lines[i].direction = "DEBIT"}

NetIn(e, currency) == Signed(e, LinesIn(e, currency))

\* (mutant) Debits of every currency count.
DebitsOfAny(e, currency) == Signed(e, DebitLines(e))

\* What an entry settles of a commitment: its debits in the commitment's currency.
DebitsIn(e, currency) == Signed(e, DebitLines(e) \cap LinesIn(e, currency))

Total(S, currency) == MapThenSumSet(LAMBDA e : DebitsIn(e, currency), S)

\* (mutant) Balance is not required.
ValidateWithoutNet(e) ==
    Len(e.lines) >= 2 /\ \A i \in DOMAIN e.lines : e.lines[i].amount > 0

\* ValidateJournalEntry: two lines or more, positive amounts, and debits equal
\* to credits within every currency.
ValidateJournalEntry(e) ==
    /\ Len(e.lines) >= 2
    /\ \A i \in DOMAIN e.lines :
        /\ e.lines[i].amount > 0
        /\ NetIn(e, e.lines[i].currency) = 0

-----------------------------------------------------------------------------
(* Locks.  They are implied by how far each session has come. *)

\* Past its INSERT INTO journal_entries.
Inserted(s) == pc[s] \in {"lines", "settle", "locking", "commit"}

\* The primary key, or the unique index on non-null idempotency keys.
SameKey(a, b) == a.id = b.id \/ (a.key = b.key /\ a.key # NoKey)

\* (mutant) The index on the idempotency key is missing.
KeyTakenById(e) == \E p \in posted : p.id = e.id

KeyTaken(e) == \E p \in posted : SameKey(p, e)

\* (mutant) The row is looked up before it is inserted, without an index to
\* make the insert wait.
KeyNeverWaits(s, t) == FALSE

\* An uncommitted row of another session has one of the keys of s's entry.
WaitsForKey(s, t) ==
    s # t /\ pc[s] = "insert" /\ Inserted(t) /\ SameKey(entry[s], entry[t])

NextRow(s) == RowOf(entry[s], entry[s].lines[line[s]])

\* (mutant) The balance is read and written back without locking its row.
RowNeverWaits(s, t) == FALSE

\* Another session has written the balance row of s's next line.
WaitsForRow(s, t) ==
    s # t /\ pc[s] = "lines" /\ NextRow(s) \in DOMAIN pending[t]

\* (mutant) The SELECT has no FOR UPDATE.
CommitmentNeverWaits(s, t) == FALSE

\* Another session holds the row of s's commitment, locked FOR UPDATE.
WaitsForCommitment(s, t) ==
    /\ s # t
    /\ pc[s] = "locking"
    /\ pc[t] = "commit"
    /\ entry[t].commitment = entry[s].commitment

WaitsFor(s, t) == WaitsForKey(s, t) \/ WaitsForRow(s, t) \/ WaitsForCommitment(s, t)

Unblocked(s) == \A t \in Sessions : ~WaitsFor(s, t)

\* Sessions that all wait for one another: what the deadlock detector finds.
Deadlocked(s) ==
    \E S \in SUBSET Sessions :
        /\ s \in S
        /\ \A x \in S : \E y \in S : WaitsFor(x, y)

-----------------------------------------------------------------------------
Init ==
    /\ posted = {}
    /\ balance = [r \in Rows |-> 0]
    /\ opened = {}
    /\ settled = {}
    /\ settlements = {}
    /\ audit = [a \in AuditEvents |-> 0]
    /\ pc = [s \in Sessions |-> "idle"]
    /\ entry = [s \in Sessions |-> NoEntry]
    /\ line = [s \in Sessions |-> 1]
    /\ pending = [s \in Sessions |-> EmptyRows]
    /\ seen = [s \in Sessions |-> {}]
    /\ reply = [s \in Sessions |-> "none"]

\* (mutant) The deferred Rollback is forgotten.
FinishWithoutRollback(s, answer) ==
    /\ pc' = [pc EXCEPT ![s] = "idle"]
    /\ line' = [line EXCEPT ![s] = 1]
    /\ seen' = [seen EXCEPT ![s] = {}]
    /\ reply' = [reply EXCEPT ![s] = answer]
    /\ UNCHANGED <<entry, pending>>

\* PostEntry returns: the deferred Rollback (a no-op after Commit) drops what
\* the session still holds, and the handler answers.
Finish(s, answer) ==
    /\ pc' = [pc EXCEPT ![s] = "idle"]
    /\ line' = [line EXCEPT ![s] = 1]
    /\ pending' = [pending EXCEPT ![s] = EmptyRows]
    /\ seen' = [seen EXCEPT ![s] = {}]
    /\ reply' = [reply EXCEPT ![s] = answer]
    /\ UNCHANGED entry

Event(e) == <<"ENTRY_POSTED", e.id>>

\* (mutant) The audit event is written outside the posting transaction.
RejectButAudit(s, answer) ==
    /\ Finish(s, answer)
    /\ audit' = [audit EXCEPT ![Event(entry[s])] = @ + 1]
    /\ UNCHANGED <<posted, balance, opened, settled, settlements>>

Reject(s, answer) == Finish(s, answer) /\ UNCHANGED tables

\* A request arrives; an entry that does not validate opens no transaction.
Begin(s, e) ==
    /\ pc[s] = "idle"
    /\ entry' = [entry EXCEPT ![s] = e]
    /\ IF ValidateJournalEntry(e)
       THEN /\ pc' = [pc EXCEPT ![s] = "insert"]
            /\ reply' = [reply EXCEPT ![s] = "none"]
       ELSE /\ reply' = [reply EXCEPT ![s] = "invalid"]
            /\ UNCHANGED pc
    /\ UNCHANGED <<tables, line, pending, seen>>

\* INSERT INTO journal_entries.
InsertEntry(s) ==
    /\ pc[s] = "insert"
    /\ Unblocked(s)
    /\ ~KeyTaken(entry[s])
    /\ entry[s].institution \in Institutions
    /\ pc' = [pc EXCEPT ![s] = "lines"]
    /\ UNCHANGED <<tables, entry, line, pending, seen, reply>>

\* The unique violation and, checked at the end of the statement, the foreign
\* key violation: mapEntryError.
InsertFails(s) ==
    /\ pc[s] = "insert"
    /\ Unblocked(s)
    /\ \/ /\ KeyTaken(entry[s])
          /\ Reject(s, "duplicate")
       \/ /\ ~KeyTaken(entry[s])
          /\ entry[s].institution \notin Institutions
          /\ Reject(s, "unknownInstitution")

\* (mutant) Every line starts from the committed balance.
CommittedBalance(s, r) == balance[r]

\* The value the UPSERT finds in the row: its own earlier write, or what is
\* committed now that the row is free.
CurrentBalance(s, r) ==
    IF r \in DOMAIN pending[s] THEN pending[s][r] ELSE balance[r]

\* (mutant) Off by one.
OneLineTooMany(s) == line[s] <= Len(entry[s].lines)

MoreLines(s) == line[s] < Len(entry[s].lines)

AfterLines(e) == IF e.commitment = NoCommitment THEN "commit" ELSE "settle"

\* INSERT INTO journal_lines and the UPSERT of account_balances for one line.
WriteLine(s) ==
    LET l == entry[s].lines[line[s]]
        r == NextRow(s)
    IN  /\ pc[s] = "lines"
        /\ Unblocked(s)
        /\ pending' = [pending EXCEPT ![s] =
                         [x \in DOMAIN pending[s] \cup {r} |->
                            IF x = r THEN CurrentBalance(s, r) + SignedAmount(l)
                                     ELSE pending[s][x]]]
        /\ line' = [line EXCEPT ![s] = @ + 1]
        /\ pc' = [pc EXCEPT ![s] = IF MoreLines(s) THEN "lines" ELSE AfterLines(entry[s])]
        /\ UNCHANGED <<tables, entry, seen, reply>>

-----------------------------------------------------------------------------
(* settleCommitment *)

SettlersOf(c) == {e \in settlements : e.commitment = c}

\* SELECT ... FOR UPDATE starts: its snapshot, and with it the settled SUM, is
\* taken before the statement waits for the row.
ReadCommitment(s) ==
    /\ pc[s] = "settle"
    /\ IF \E f \in opened : f.id = entry[s].commitment
       THEN /\ pc' = [pc EXCEPT ![s] = "locking"]
            /\ seen' = [seen EXCEPT ![s] = SettlersOf(entry[s].commitment)]
            /\ UNCHANGED <<tables, entry, line, pending, reply>>
       ELSE Reject(s, "unknownCommitment")

\* (mutant) Earlier settlements are not added up.
RefusalAlone(e, f, isSettled, known) ==
    IF isSettled THEN "closed"
    ELSE IF f.institution # e.institution \/ DebitsIn(e, f.currency) = 0 THEN "mismatch"
    ELSE IF DebitsIn(e, f.currency) > f.amount THEN "exceeded"
    ELSE "none"

\* Why settleCommitment refuses e, given the locked row f, its status now, and
\* the settlements its snapshot showed; "none" when it does not.
Refusal(e, f, isSettled, known) ==
    IF isSettled THEN "closed"
    ELSE IF f.institution # e.institution \/ DebitsIn(e, f.currency) = 0 THEN "mismatch"
    ELSE IF Total(known \cup {e}, f.currency) > f.amount THEN "exceeded"
    ELSE "none"

\* The row is locked and re-read (a status another transaction changed while
\* this one waited is seen), the checks are made on it and on the old SUM, and
\* the settlement is written, with the status when the sum reaches the amount.
LockCommitment(s) ==
    /\ pc[s] = "locking"
    /\ Unblocked(s)
    /\ \E f \in opened :
        LET refusal == Refusal(entry[s], f, f.id \in settled, seen[s])
        IN  /\ f.id = entry[s].commitment
            /\ IF refusal = "none"
               THEN /\ pc' = [pc EXCEPT ![s] = "commit"]
                    /\ UNCHANGED <<tables, entry, line, pending, seen, reply>>
               ELSE Reject(s, refusal)

\* (mutant) Only a payment of the whole amount closes the commitment.
ClosesAlone(s) ==
    {f.id : f \in {g \in opened :
        g.id = entry[s].commitment /\ DebitsIn(entry[s], g.currency) = g.amount}}

\* The commitments whose status s changes to SETTLED.
Closes(s) ==
    {f.id : f \in {g \in opened :
        /\ g.id = entry[s].commitment
        /\ Total(seen[s] \cup {entry[s]}, g.currency) = g.amount}}

-----------------------------------------------------------------------------
\* INSERT INTO audit_events and COMMIT: everything becomes visible at once.
\* The connection may be lost before the acknowledgement arrives.
Commit(s) ==
    /\ pc[s] = "commit"
    /\ posted' = posted \cup {entry[s]}
    /\ balance' = [r \in Rows |-> CurrentBalance(s, r)]
    /\ settlements' = IF entry[s].commitment = NoCommitment
                      THEN settlements ELSE settlements \cup {entry[s]}
    /\ settled' = settled \cup Closes(s)
    /\ audit' = [audit EXCEPT ![Event(entry[s])] = @ + 1]
    /\ \E answer \in {"created", "error"} : Finish(s, answer)
    /\ UNCHANGED opened

\* (mutant) The error of COMMIT is ignored.
AbortUnnoticed(s) ==
    /\ pc[s] # "idle"
    /\ Reject(s, IF pc[s] = "commit" THEN "created" ELSE "error")

\* A statement fails, the request is cancelled, the connection is lost or the
\* process dies: the transaction rolls back.
Abort(s) ==
    /\ pc[s] # "idle"
    /\ Reject(s, "error")

\* PostgreSQL aborts one of the sessions that wait for one another.
DeadlockVictim(s) ==
    /\ Deadlocked(s)
    /\ Reject(s, "error")

\* CreateCommitment: one INSERT, its audit event, COMMIT.  An id that is taken
\* and an unknown institution change nothing.
CreateCommitment(f) ==
    /\ f.amount > 0
    /\ \A g \in opened : g.id # f.id
    /\ f.institution \in Institutions
    /\ opened' = opened \cup {f}
    /\ audit' = [audit EXCEPT ![<<"COMMITMENT_CREATED", f.id>>] = @ + 1]
    /\ UNCHANGED <<posted, balance, settled, settlements, sessions>>

Statement(s) ==
    \/ InsertEntry(s) \/ InsertFails(s) \/ WriteLine(s)
    \/ ReadCommitment(s) \/ LockCommitment(s) \/ Commit(s)

Next ==
    \/ \E s \in Sessions :
        \/ \E e \in Entries : Begin(s, e)
        \/ Statement(s)
        \/ Abort(s)
        \/ DeadlockVictim(s)
    \/ \E f \in CommitmentForms : CreateCommitment(f)

Spec == Init /\ [][Next]_vars
\* core-api keeps serving a transaction that can run, and PostgreSQL grants a
\* row in the order it was asked for and breaks every deadlock.
Fairness ==
    /\ \A s \in Sessions : SF_vars(Statement(s))
    /\ WF_vars(\E s \in Sessions : DeadlockVictim(s))

FairSpec == Spec /\ Fairness

-----------------------------------------------------------------------------
(* Properties *)

\* The variables stay in the sets the schema and the code give them.
TypeOK ==
    /\ posted \subseteq Entries
    /\ balance \in [Rows -> Int]
    /\ opened \subseteq CommitmentForms
    /\ settled \subseteq CommitmentIds
    /\ settlements \subseteq Entries
    /\ audit \in [AuditEvents -> Nat]
    /\ pc \in [Sessions -> Statements \cup {"idle"}]
    /\ entry \in [Sessions -> Entries \cup {NoEntry}]
    /\ line \in [Sessions -> Nat]
    /\ DOMAIN pending = Sessions
    /\ \A s \in Sessions : /\ DOMAIN pending[s] \subseteq Rows
                          /\ pending[s] \in [DOMAIN pending[s] -> Int]
    /\ seen \in [Sessions -> SUBSET Entries]
    /\ reply \in [Sessions -> Replies]
    /\ \A s \in Sessions :
        pc[s] # "idle" => entry[s] \in Entries /\ ValidateJournalEntry(entry[s])
    /\ \A s \in Sessions : pc[s] \in {"idle", "insert"} => line[s] = 1
    /\ \A s \in Sessions : pc[s] = "lines" => line[s] \in 1..Len(entry[s].lines)

\* "Stocks stay consistent with flows": every balance is the signed sum of the
\* posted lines of its account, whatever postings ran concurrently, failed or
\* were rolled back.
StocksMatchFlows ==
    \A r \in Rows :
        balance[r] = MapThenSumSet(
            LAMBDA e : Signed(e, {i \in DOMAIN e.lines : RowOf(e, e.lines[i]) = r}), posted)

\* The trial balance of an institution is zero in every currency.
TrialBalance ==
    \A x \in Rows :
        MapThenSumSet(LAMBDA r : balance[r],
                      {r \in Rows : r[1] = x[1] /\ r[3] = x[3]}) = 0

\* A retried or concurrent submission is posted once: no two posted entries
\* share an id or an idempotency key.
PostedOnce ==
    \A a, b \in posted : SameKey(a, b) => a = b

\* Every posted entry and every commitment has exactly one audit event, and no
\* audit event names an entry that was rolled back.
AuditComplete ==
    /\ \A id \in EntryIds :
        audit[<<"ENTRY_POSTED", id>>] = IF \E e \in posted : e.id = id THEN 1 ELSE 0
    /\ \A c \in CommitmentIds :
        audit[<<"COMMITMENT_CREATED", c>>] = IF \E f \in opened : f.id = c THEN 1 ELSE 0

\* Two transactions in flight never hold the same balance row, the same key or
\* the same commitment.
LockExclusion ==
    \A s, t \in Sessions :
        s # t =>
            /\ DOMAIN pending[s] \cap DOMAIN pending[t] = {}
            /\ Inserted(s) /\ Inserted(t) => ~SameKey(entry[s], entry[t])
            /\ pc[s] = "commit" /\ pc[t] = "commit" /\ entry[s].commitment # NoCommitment
                  => entry[s].commitment # entry[t].commitment

\* No lost update: while a posting holds a balance row, from its UPSERT to its
\* COMMIT, the committed value it built on does not move.
NoLostUpdate ==
    [][\A s \in Sessions : \A r \in DOMAIN pending[s] \cap DOMAIN pending'[s] :
        balance'[r] = balance[r]]_vars

\* A SETTLED commitment takes no further settlement and never reopens, even
\* when the posting that would settle it was waiting for its row.
ClosedStaysClosed ==
    [][\A c \in settled : c \in settled' /\ SettlersOf(c)' = SettlersOf(c)]_vars

\* An answer tells the truth: 201 only for an entry that is durably posted, 409
\* only when an entry with its id or key is (never on account of a posting in
\* flight that may still roll back).
TruthfulAnswers ==
    \A s \in Sessions :
        /\ reply[s] = "created" => entry[s] \in posted
        /\ reply[s] = "duplicate" => \E p \in posted : SameKey(p, entry[s])
        /\ reply[s] = "closed" => entry[s].commitment \in settled

\* settleCommitment's own comment and the schema's: settlements never exceed
\* the committed amount.
NeverOverSettled ==
    \A f \in opened : Total(SettlersOf(f.id), f.currency) <= f.amount

\* "Flipped to SETTLED exactly when the committed amount is reached."
SettledWhenReached ==
    \A f \in opened : f.id \in settled <=> Total(SettlersOf(f.id), f.currency) = f.amount

\* Every request is answered: no posting waits forever for a row or a key.
EveryRequestAnswered ==
    \A s \in Sessions : pc[s] # "idle" ~> pc[s] = "idle"

\* The statement-level transactions implement the atomic ledger.
AtomicLedger ==
    INSTANCE Ledger WITH posted <- posted, balance <- balance, opened <- opened,
                         settled <- settled, settlements <- settlements, audit <- audit
ImplementsLedger == AtomicLedger!Spec
=============================================================================
