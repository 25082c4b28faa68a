------------------------------- MODULE Console -------------------------------
(***************************************************************************)
(* One tab of the web client that writes: the forms that post journal      *)
(* entries, commitments and transactions, the lists kept by the query      *)
(* cache, and the session.  Others write to the server meanwhile.          *)
(*                                                                         *)
(* An operation is what a form submits, known by its id.  The cache is     *)
(* TanStack Query as main.tsx and use-treasury.ts use it: an answer is     *)
(* fresh for 15 seconds; a page that is opened fetches what is missing or  *)
(* not fresh; an invalidated list is not fresh, and fetched again at once  *)
(* when it is on display.  An error is an answer like any other, so that   *)
(* nothing is ever retried.                                                *)
(***************************************************************************)
EXTENDS Integers, FiniteSets

CONSTANTS
    Ops,
    Kind,            \* Kind[op]: "entry", "commitment" or "transaction"
    Others,          \* operations somebody else may store first
    Pages,           \* the pages that are opened
    NoOp,
    MaxTurns         \* bound: how often a page is opened or loaded, a form submitted,
                     \* a request lost, or time passes

ASSUME ConsoleAssumption ==
    /\ Kind \in [Ops -> {"entry", "commitment", "transaction"}]
    /\ Pages \subseteq {"overview", "journal", "balances", "audit", "commitments",
                        "transactions", "validation"}
    /\ Others \subseteq Ops
    /\ NoOp \notin Ops
    /\ MaxTurns \in Nat

VARIABLES
    stored,      \* operations the server has accepted
    session,     \* the server accepts the token of the tab
    page,        \* the page that is open
    form,        \* its form: open, what is typed, what is submitted and not answered
    calls,       \* calls[op]: where the submission of an operation is
    adrift,      \* submissions nobody waits for that may still reach the server
    cache,       \* cache[key]: a list as the tab has it
    confirmed,   \* operations the tab has reported as done
    due,         \* due[key]: what the list must hold once it is at rest
    turns

vars == <<stored, session, page, form, calls, adrift, cache, confirmed, due, turns>>

-----------------------------------------------------------------------------
(* Lists and pages. *)

Keys == {"overview-entries", "overview-balances", "journal", "balances", "audit",
         "commitments", "transactions"}

ListOf(key) ==
    CASE key \in {"overview-entries", "journal"}   -> "journal-entries"
      [] key \in {"overview-balances", "balances"} -> "balances"
      [] key = "audit"                             -> "audit-events"
      [] OTHER                                     -> key

\* The queries of a page.
Observed(p) ==
    CASE p = "overview"   -> {"overview-entries", "overview-balances"}
      [] p = "validation" -> {}
      [] OTHER            -> {p}

\* The forms: what they submit, and whether they are a dialog that is opened and
\* closed.  (Which of the fields are filled in is left out.)
PostEntryDialog     == [kind |-> "entry", dialog |-> TRUE]
NewCommitmentDialog == [kind |-> "commitment", dialog |-> TRUE]
Workbench           == [kind |-> "transaction", dialog |-> FALSE]

FormOf(p) ==
    CASE p = "journal"     -> PostEntryDialog
      [] p = "commitments" -> NewCommitmentDialog
      [] p = "validation"  -> Workbench
      [] OTHER             -> [kind |-> "none", dialog |-> FALSE]

\* What the core API writes with an operation.
Writes(kind) ==
    CASE kind = "entry"       -> {"journal-entries", "balances", "audit-events"}
      [] kind = "commitment"  -> {"commitments", "audit-events"}
      [] kind = "transaction" -> {"transactions", "audit-events"}

Contents(list) == {op \in stored : list \in Writes(Kind[op])}

\* (mutant) Posting an entry does not refresh the balances.
UsePostJournalEntryOnly == {"journal-entries", "audit-events"}

\* What the hooks invalidate when an answer comes.
UsePostJournalEntry  == {"journal-entries", "balances", "audit-events"}
UseCreateCommitment  == {"commitments"}
UseCreateTransaction == {"transactions", "audit-events"}

Invalidated(kind) ==
    CASE kind = "entry"       -> UsePostJournalEntry
      [] kind = "commitment"  -> UseCreateCommitment
      [] kind = "transaction" -> UseCreateTransaction

-----------------------------------------------------------------------------
(* The query cache. *)

Missing  == [kind |-> "none", rows |-> {}]
Rows(s)  == [kind |-> "rows", rows |-> s]
Error    == [kind |-> "error", rows |-> {}]

\* fetch: none, sent, or read by the server and on its way back with got.
Unused   == [data |-> Missing, fresh |-> FALSE, fetch |-> "none", got |-> Missing]

Send(entry) == [entry EXCEPT !.fetch = "sent", !.got = Missing]

\* A page is opened, or the window is looked at again: what is missing or not
\* fresh is fetched, unless it is on its way.
Mount(entry) == IF entry.fetch = "none" /\ ~entry.fresh THEN Send(entry) ELSE entry

\* On display, a list is fetched anew: what is on its way is cancelled, unless it
\* is the first fetch.  Otherwise it is only marked.
Invalidate(entry, observed) ==
    LET marked == [entry EXCEPT !.fresh = FALSE]
    IN  IF ~observed THEN marked
        ELSE IF entry.data.kind = "none" THEN Mount(marked)
        ELSE Send(marked)

\* An answer makes no list read again when it is on its way for the first time,
\* or is fetched for a page that has been left.
ReadAgain(entry, observed) ==
    entry.fetch = "none" \/ (observed /\ entry.data.kind # "none")

-----------------------------------------------------------------------------
Blank == [open |-> FALSE, draft |-> NoOp, sent |-> NoOp]

\* The tab is loaded: nothing is cached, the queries of its page are sent.
Loaded(p) == [key \in Keys |-> IF key \in Observed(p) THEN Send(Unused) ELSE Unused]

Init ==
    /\ stored = {}
    /\ session = TRUE
    /\ page \in Pages
    /\ form = Blank
    /\ calls = [op \in Ops |-> "none"]
    /\ adrift = {}
    /\ cache = Loaded(page)
    /\ confirmed = {}
    /\ due = [key \in Keys |-> {}]
    /\ turns = 0

Turn == turns < MaxTurns /\ turns' = turns + 1

\* Another page: the form is gone, what it has submitted is not.
Visit(p) ==
    /\ p # page
    /\ page' = p
    /\ form' = Blank
    /\ cache' = [key \in Keys |-> IF key \in Observed(p) THEN Mount(cache[key]) ELSE cache[key]]
    /\ Turn
    /\ UNCHANGED <<stored, session, calls, adrift, confirmed, due>>

\* Submissions that have not reached the server; it refuses them once the token
\* they were sent with is no longer accepted.
OnTheWay(ops) == IF session THEN {op \in ops : calls[op] = "sent"} ELSE {}

\* The tab is loaded again, the user has signed in again if need be.  What was
\* submitted may still reach the server, but nobody waits for the answer.
Reload ==
    /\ session' = TRUE
    /\ form' = Blank
    /\ cache' = Loaded(page)
    /\ due' = [key \in Keys |-> {}]
    /\ adrift' = adrift \cup OnTheWay(Ops)
    /\ calls' = [op \in Ops |-> "none"]
    /\ Turn
    /\ UNCHANGED <<stored, page, confirmed>>

\* The token the tab has kept since the login is no longer accepted.
Expire ==
    /\ session
    /\ session' = FALSE
    /\ adrift' = {}
    /\ Turn
    /\ UNCHANGED <<stored, page, form, calls, cache, confirmed, due>>

-----------------------------------------------------------------------------
(* The forms. *)

UnchangedServer == UNCHANGED <<stored, session, page, adrift, confirmed, due>>

Open ==
    /\ FormOf(page).dialog
    /\ ~form.open
    /\ form' = [form EXCEPT !.open = TRUE]
    /\ UnchangedServer /\ UNCHANGED <<calls, cache, turns>>

\* Cancel, Escape or a click outside; what is typed is kept.
Close ==
    /\ form.open
    /\ form' = [form EXCEPT !.open = FALSE]
    /\ UnchangedServer /\ UNCHANGED <<calls, cache, turns>>

InReach == form.open \/ ~FormOf(page).dialog

\* The inputs can be edited at any time, also while an answer is due.
Type(op) ==
    /\ InReach
    /\ Kind[op] = FormOf(page).kind
    /\ form' = [form EXCEPT !.draft = op]
    /\ UnchangedServer /\ UNCHANGED <<calls, cache, turns>>

\* The button is disabled while an answer is due.  (Bound: an operation is on its
\* way once at a time.)
Submit(op) ==
    /\ InReach
    /\ form.draft = op
    /\ form.sent = NoOp
    /\ calls[op] = "none"
    /\ Turn
    /\ form' = [form EXCEPT !.sent = op]
    /\ calls' = [calls EXCEPT ![op] = "sent"]
    /\ UnchangedServer /\ UNCHANGED cache

-----------------------------------------------------------------------------
(* The server. *)

\* The operation is stored, unless its id is taken.
Accept(op) ==
    /\ calls[op] = "sent"
    /\ session
    /\ op \notin stored
    /\ stored' = stored \cup {op}
    /\ calls' = [calls EXCEPT ![op] = "accepted"]
    /\ UNCHANGED <<session, page, form, adrift, cache, confirmed, due, turns>>

\* A submission that nobody waits for any more is stored, unless its id is taken.
LateArrives(op) ==
    /\ op \in adrift
    /\ adrift' = adrift \ {op}
    /\ stored' = stored \cup {op}
    /\ UNCHANGED <<session, page, form, calls, cache, confirmed, due, turns>>

\* No session, not valid, not allowed, or a taken id.
Refuse(op) ==
    /\ calls[op] = "sent"
    /\ calls' = [calls EXCEPT ![op] = "refused"]
    /\ UNCHANGED <<stored, session, page, form, adrift, cache, confirmed, due, turns>>

\* Somebody else stores an operation.
OtherStores(op) ==
    /\ op \in Others \ stored
    /\ stored' = stored \cup {op}
    /\ UNCHANGED <<session, page, form, calls, adrift, cache, confirmed, due, turns>>

-----------------------------------------------------------------------------
(* Answers. *)

\* The hook invalidates its lists after every answer, a refusal and an
\* unreachable server included: they do not reject the promise.  From then on
\* each of its lists is due all that is stored.  (A commitment also writes an
\* audit event, but its hook does not touch the audit list.)
Settle(op) ==
    LET hit(key) == ListOf(key) \in Invalidated(Kind[op])
        promised == Writes(Kind[op]) \ (IF Kind[op] = "commitment" THEN {"audit-events"} ELSE {})
    IN  /\ calls' = [calls EXCEPT ![op] = "none"]
        /\ cache' = [key \in Keys |-> IF hit(key) THEN Invalidate(cache[key], key \in Observed(page))
                                      ELSE cache[key]]
        /\ due' = [key \in Keys |->
                      IF ListOf(key) \in promised /\ ReadAgain(cache[key], key \in Observed(page))
                      THEN Contents(ListOf(key)) ELSE due[key]]
        /\ UNCHANGED <<stored, session, page, turns>>

\* (mutant) The report names what is typed, not what was submitted.
ConfirmDraft(op) ==
    /\ calls[op] = "accepted"
    /\ confirmed' = confirmed \cup (IF form.draft = NoOp THEN {op} ELSE {form.draft})
    /\ form' = IF form.sent = op THEN Blank ELSE form
    /\ UNCHANGED adrift
    /\ Settle(op)

\* The operation is reported as done.  If the form that sent it is still there it
\* is closed and emptied, whatever is typed in it by then; the workbench keeps
\* its input.
Confirm(op) ==
    /\ calls[op] = "accepted"
    /\ confirmed' = confirmed \cup {op}
    /\ form' = IF form.sent # op THEN form
               ELSE IF FormOf(page).dialog THEN Blank
               ELSE [form EXCEPT !.sent = NoOp]
    /\ UNCHANGED adrift
    /\ Settle(op)

\* (mutant) Only the success ends the wait of the form.
DenyKeepsWaiting(op) ==
    /\ calls[op] # "none"
    /\ adrift' = adrift \cup OnTheWay({op})
    /\ UNCHANGED <<form, confirmed>>
    /\ Settle(op)

\* The operation is refused, or call or answer are lost: the error is reported,
\* the form keeps what is typed.  A call that is given up may arrive afterwards.
Deny(op) ==
    /\ calls[op] # "none"
    /\ form' = IF form.sent = op THEN [form EXCEPT !.sent = NoOp] ELSE form
    /\ adrift' = adrift \cup OnTheWay({op})
    /\ UNCHANGED confirmed
    /\ Settle(op)

-----------------------------------------------------------------------------
(* Fetches. *)

UnchangedButCache == UNCHANGED <<stored, session, page, form, calls, adrift, confirmed, due>>

Read(key) ==
    /\ cache[key].fetch = "sent"
    /\ cache' = [cache EXCEPT ![key] = [@ EXCEPT
                    !.fetch = "read",
                    !.got = IF session THEN Rows(Contents(ListOf(key))) ELSE Error]]
    /\ UnchangedButCache /\ UNCHANGED turns

Unreachable(key) ==
    /\ cache[key].fetch # "none"
    /\ cache' = [cache EXCEPT ![key] = [@ EXCEPT !.fetch = "read", !.got = Error]]
    /\ Turn /\ UnchangedButCache

\* The list is replaced, and fresh, also when it was marked in the meantime.
Land(key) ==
    /\ cache[key].fetch = "read"
    /\ cache' = [cache EXCEPT ![key] =
                    [data |-> @.got, fresh |-> TRUE, fetch |-> "none", got |-> Missing]]
    /\ UnchangedButCache /\ UNCHANGED turns

\* Fifteen seconds have passed.
Age(key) ==
    /\ cache[key].fresh
    /\ cache' = [cache EXCEPT ![key].fresh = FALSE]
    /\ Turn /\ UnchangedButCache

\* The window is looked at again.
Focus ==
    /\ cache' = [key \in Keys |-> IF key \in Observed(page) THEN Mount(cache[key]) ELSE cache[key]]
    /\ cache' # cache
    /\ UnchangedButCache /\ UNCHANGED turns

Next ==
    \/ \E p \in Pages : Visit(p)
    \/ Reload \/ Expire \/ Open \/ Close \/ Focus
    \/ \E op \in Ops : \/ Type(op) \/ Submit(op) \/ Accept(op) \/ Refuse(op)
                       \/ LateArrives(op) \/ OtherStores(op) \/ Confirm(op) \/ Deny(op)
    \/ \E key \in Keys : Read(key) \/ Unreachable(key) \/ Land(key) \/ Age(key)

Spec == Init /\ [][Next]_vars

-----------------------------------------------------------------------------
(* Properties. *)

CacheEntries ==
    [data : {Missing, Error} \cup {Rows(s) : s \in SUBSET Ops}, fresh : BOOLEAN,
     fetch : {"none", "sent", "read"}, got : {Missing, Error} \cup {Rows(s) : s \in SUBSET Ops}]

\* The values of the variables; and a form that waits has a submission to wait
\* for, so that its button comes back to life (isPending of the hooks).
TypeOK ==
    /\ stored \in SUBSET Ops
    /\ session \in BOOLEAN
    /\ page \in Pages
    /\ form \in [open : BOOLEAN, draft : Ops \cup {NoOp}, sent : Ops \cup {NoOp}]
    /\ calls \in [Ops -> {"none", "sent", "accepted", "refused"}]
    /\ adrift \in SUBSET Ops
    /\ cache \in [Keys -> CacheEntries]
    /\ confirmed \in SUBSET Ops
    /\ due \in [Keys -> SUBSET Ops]
    /\ turns \in 0..MaxTurns
    /\ form.sent # NoOp => calls[form.sent] # "none"

\* What is reported as done is done: the report is about the operation that was
\* submitted, also when the form has been edited, closed or left since.
ConfirmedIsStored == confirmed \subseteq stored

\* A list at rest (nothing on its way; on display, or fresh and shown as it is
\* when its page is opened) holds everything that was stored when an answer of
\* this tab last touched it: the user finds what was posted, also when the answer
\* was lost and the form reported an error.  (A call that reaches the server after
\* it was given up is found when the list is fetched next.)
ReadYourWrites ==
    \A key \in Keys :
        /\ cache[key].fetch = "none"
        /\ key \in Observed(page) \/ cache[key].fresh
        /\ cache[key].data.kind = "rows"
        => due[key] \subseteq cache[key].data.rows

=============================================================================
