# OpenTreasury in TLA+

A verification project for the OpenTreasury code base: TLA+ models of the
components that move and prove public money, TLC instances that check them, and
TLAPS proofs of the safety properties of posting, import, anchoring, verification,
the tables and the client that posts. `PROJECT.json` maps every definition to the lines it models and lists the runs, the mutants (plausible bugs that each property
must notice), the hazards and the disagreements with the documentation.

## 1. The system

| Component | State | Operations | Talks to |
| --- | --- | --- | --- |
| core-api journal (`postgres_journal_repository.go`, `journal.go`) | `journal_entries`, `journal_lines`, `account_balances`, `audit_events` | `PostEntry`, reads | PostgreSQL (READ COMMITTED transactions) |
| core-api commitments | `commitments`, `commitment_settlements` | `CreateCommitment`, `settleCommitment` (inside `PostEntry`) | journal |
| core-api staging | `staging_records` | `Ingest`, `submitStagingRecords` | journal; called by connectors over HTTP |
| generic-file connector | the drop directory | sweep, `MapCSV`, `Deliver`, move | staging API |
| ledger gateway | `anchors`, `journal_entry_anchors` | `AnchorPending` every 10 s | journal tables, a backend |
| transparency log | `transparency_log` | `Commit` | ledger gateway |
| Fabric backend and chaincode | world state | `CommitAnchor`, `GetAnchor`, `VerifyRoot` | ledger gateway |
| Merkle library, `cmd/verify`, mobile verifier | none | hash, tree, proof, verify | gateway, public |
| legacy transactions, reconciliation, receipts, insights, accounts, institutions | tables that are inserted into or only read | one insert, or paged lists | web and mobile apps, MCP server |
| public tier | token buckets per client | `allow`, redaction, lists with `Cache-Control` | anonymous clients |
| authorization, authentication | none (policy data) | `Allow`, `Redact`, `Verify` | every route |
| web client: lists (`api.ts`, `history.ts`, `audit.ts`, `institutions.ts`, `components/data-table`, `routes`) | the URL, answers by query | filters, pages, links | list routes, or the demo data |
| web client: forms (`hooks/use-treasury.ts`, `routes/journal.tsx`, `commitments.tsx`, `validation.tsx`, `stores/auth.ts`) | drafts, submissions, the query cache, the session | type, submit, report, invalidate | posting routes |
| mobile explorer (`explorer.tsx`, `entry/[id].tsx`) | pages per institution | scroll, select, refetch, verify | public tier |
| MCP server, deployment | configuration | | core-api |

What is hard in it, and what makes each part correct:

* **Posting.** Concurrent transactions touch the same balance rows in any order,
  reuse ids and idempotency keys, wait for and deadlock with each other, and settle
  one commitment together. Balances must equal the journal, nothing may be posted
  twice, everything must be audited, no commitment may be exceeded.
* **Import.** Posting an entry and storing its staging row are two transactions; the
  client may time out and send again while the first request is still working. No row may
  disappear, be posted twice, or be reported other than it is.
* **Anchoring.** Committing a root and recording its proofs are two transactions on two
  systems; gateways crash and overlap; entries become visible out of order. Every receipt
  must lead to its root and every entry must be anchored.
* **Verification.** Pure functions that three implementations have to agree on.
* **Lists.** A filter passes through a control, the URL, a query key, a path and SQL, and
  exists once more in the demo data; answers come late, and pages are cut by number while
  the list grows. The rows on display must be those the reader asked for.
* **Forms.** While an answer is due the user edits, closes and leaves the form, calls and
  answers are lost, the session ends, and cached lists are fetched, cancelled and
  invalidated. A report must be true, and what was posted must be found.

## 2. Plan

Written in this order.

1. `Ledger`, `Journal` (posting and commitments), with `JournalProofs`.
2. `Staging` (connector and ingestion). `PostEntry` is one step in it, which the
   refinement `Journal => Ledger` justifies.
3. `Anchoring` (gateway, both backends). It sees postings as begin and commit.
4. `Merkle` (pure functions, three verifiers), which justifies that `Anchoring` models a
   root by the batch.
5. `ListApi` (how a list is asked for and answered, by the API and by the demo data), used by
   `WebTables` (the table pages) and `Explorer` (the phone); `Clients` composes the two with
   the server they read: `Explorer` is instantiated with `published <- List`.
6. `Console` (forms, query cache, session), with `ConsoleProofs`. An operation is one step
   of the server in it, which again `Journal => Ledger` justifies.
7. `CollectionProofs` (filters, sums, orders), on which `StagingProofs`, `AnchoringProofs`,
   `LedgerProofs` (stocks match flows, and `Journal => Ledger` itself), `MerkleProofs` and
   `ClientsProofs` (the tables and the endless list) rest.

Open, by what it would add: the state of a dialog in its row (the verdict that slides to another
entry, see the hazards); liveness, which stays with TLC (section 5).

## 3. The modules

### Journal and Ledger

`Journal` has one session per concurrent request. `pc` says at which statement of
`PostEntry` it is; `entry`, `line`, `seen` and `pending` are its arguments, the index of
the loop over lines, what it read of the commitment, and the balance changes it has
written but not committed. `posted`, `balance`, `opened`, `settled`, `settlements` and
`audit` are what is committed.

| Code | Action |
| --- | --- |
| `postJournalEntry`, `ValidateJournalEntry` | `Begin` (an invalid entry is refused at once) |
| `INSERT INTO journal_entries` | `InsertEntry`, waiting while a session in flight holds the same key (`WaitsForKey`); `InsertFails` on a taken key or unknown institution |
| loop over lines with the upsert of `account_balances` | `WriteLine`, waiting for the row (`WaitsForRow`) |
| `SELECT SUM(...) ... FOR UPDATE OF c` | `ReadCommitment` takes the snapshot, `LockCommitment` waits for the row and decides on the status read again after the wait and on the *old* sum, as READ COMMITTED does |
| audit row and commit | `Commit` |
| errors | `Reject`, `Abort`, `DeadlockVictim` |
| `CreateCommitment` | `CreateCommitment` |

The locks of PostgreSQL are derived from `pc`, `line` and `entry`, not stored. The
authorization of the request precedes `Begin` and is left out. No code path posts a
`REVERSAL` or sets a commitment to `CANCELLED`, so neither is a step.

`Ledger` is the promise: a posting happens at once, and completely. `Journal` implements
it with `posted`, `balance`, ... as they are (property `ImplementsLedger`, theorem
`PostingIsAtomic`): the statements before `Commit` are stutters of `Ledger`. `Settle` of `Ledger` bounds each payment by the
amount; whether all payments together stay within it, and when the commitment closes, is left to `NeverOverSettled` and `SettledWhenReached`.

### Staging

`location` and `todo` are the directory and the listing a sweep works through, `watcher`
is `processFile` and `Deliver`; `handler` is one execution of `submitStagingRecords` per
element, with the record it is at, and `client` says who still waits for it. `journal` and
`staged` are the tables.

| Code | Action |
| --- | --- |
| `sweep`, `processFile`, `MapCSV` | `Sweep`, `Open` (also when the file cannot be opened, or not be moved to `failed/`) |
| `Deliver`, `deliverBatch` | `Send`, `Timeout`; `GiveUp` after any error |
| `move` | `MoveProcessed` (a failed rename is only logged) |
| process restart | `Restart` |
| the loop of the handler | `SkipUnidentified`, `Respond` |
| `Ingest`: lookup | `FindDuplicate`, `FindNew` |
| `Ingest`: `PostEntry` and its three outcomes | `PostNew`, `PostDuplicate`, `PostRejected`, `PostFails` (rolled back, or committed unnoticed) |
| `Ingest`: insert | `Store`, `StoreRefused` (the value does not fit the column) |
| any other error | `HandlerFails` |

`MapCSV`, the choice of the entries without a proof in `Anchoring` and the conditions of a list in
`ListApi` are `Filter` of `Filtering`, a loop over a sequence that keeps what passes a test, written as a recursive function
so that it can be proved about. `Sorted` of `Sorting` is a stable sort by a relation that is given as
a set of pairs: the lines of an entry in `Merkle`, the rows of a list (`Order`) in `WebTables`.

A record stands for its own hash. What can be wrong with it is its `fault`. `Submit` and
`Leave` are other clients of the same API, which submit each batch of `offered` once; the
connector is the one that repeats itself.

### Anchoring

`started` is the journal by `created_at` and `posted` the part of it that has committed:
`now()` is the begin of a transaction, so an older entry may appear late. `backendOf` is the
choice `main` makes from `OPENTREASURY_ANCHOR_BACKEND`, or "none" for a gateway that is not
deployed; `gateway[g]` is `AnchorPending`. `log` is the transparency log (the hash of a row is its number), `chain` the anchors
of the chaincode in the order of their transactions, `adrift` the transactions whose gateway no longer waits for
them, `anchors` and `proofs` the receipts.

| Code | Action |
| --- | --- |
| `loadUnanchored` | `LoadUnanchored` |
| `TransparencyLog.Commit` | `ReadPrev`, `ReadSequence`, `InsertRow` |
| `FabricBackend.Commit`, `CommitAnchor` | `Endorse` (simulation), `CommitBlock` (validation of the read set), `LateBlock` (after the gateway gave up) |
| the receipts' transaction | `WriteProofs` |
| crash, restart, any error | `Fault`: after it the transaction of an endorsed anchor may be lost, or set `adrift` |

The two queries of `loadUnanchored` are one step: the lines of a posted entry never change. Only
transactions of Fabric are modelled as arriving late: a COMMIT of the log that was sent before its gateway
crashed is decided by PostgreSQL before that gateway's next attempt reads the table.

### Merkle

The operators follow `merkle.go` function by function; `MCMerkle` enumerates batches. A
line is represented by the rank of its text, a hash by the term it is the hash of. That two
different entries have different canonical *texts* is assumed here (see hazards).

The three verifiers repeat these functions in their own code and are modelled from it:
`CliVerify` (`cmd/verify`), `WebVerify` and `VerifyEntry` (`verify-entry.tsx`, with the receipt the
demo mode makes up), `VerifyProof` and `EntryDetail` (the mobile app).

### ListApi, WebTables, Explorer and Clients

A filter, a path and the parameters of a URL are functions from names to values, a row is
a record of columns. `ListApi` has the path builders and the list functions of the web client,
the filters of its demo data, and `ServerList`, the answer of the core API.

| Code | Definition |
| --- | --- |
| `if (filter.x) params.set(...)` | `Given`, `Path` (an empty string and 0 are no filter) |
| `parsePagination`, `parseDateRange`, the conditions, `LIMIT`/`OFFSET`, `COUNT(*) OVER()` | `Refused`, `Hits`, `Window`, `ServerList` |
| the comparison of a date with a column | `Test` (SQL: a timestamp against two midnights), `DemoTest` (its first ten characters), `KeptPeriods` (the beginning of a period) |
| `paginate`, `simulate...List` | `Paginate`, `Kept`, `Simulate...` |
| `useTableUrlState` | `SetFilter`, `SetPage`, `SetPageSize`; `SetTwoFilters` for two calls in one handler |
| `routes/*.tsx` | `JournalPage`, ...: list, parameters handed on, controls |
| `SelectFilter`, `DateRangeFilter`, `AmountFilter` | `SelectOption`, `PickRange`, `ClearRange`, `ApplyAmount`, `ClearAmount` |
| `DataTable` | `PageCount`, `PreviousPage`, `NextPage`, `ChoosePageSize` |
| `useQuery` under `[list, filter]` | `Show`, `Refetch`, `AnswerArrives`, `Unreachable` |
| opening, linking, reloading | `Visit`, `Reload` |

`url` is the state of a page, `asked` the queries on their way, `answers` the last answer of
the query on display; `current` in an answer says that the server has not changed since. The
handlers of the date range and of the amounts call `setFilter` twice. React Router, which is external here, documents that
functional updates of the search parameters are not queued: the second navigation replaces the first.
`SetTwoFilters` is therefore its second call alone. `Written` are the parameters that the controls of a page
write, `Displayed` those that they show: without a first day the range control says "Any time" even if there is a last one.
`TableAnswersUrl` is about the way from the URL to the rows and says nothing of the way from a control to the URL;
that is `TableAnswersControls`, which the code does not keep (run `range_lost`). What is typed but not applied to the amount
filter, and the back button, are left out: a page that is opened may start from any link.

Dates are days; a row of the audit page has an `hour` as well, since its date is a timestamp that the server compares with midnights.

`Explorer` is `useInfiniteQuery` as `explorer.tsx` uses it: `pages[chip]` is what the app has,
`fetch[chip]` what is on its way, and `cached` what a shared cache may answer for the 30 seconds
the public tier allows. `asOf` in a page is the list it was cut from, for the property only.

### Console

`form` is the form of the open page, `calls` the submissions, `cache` the lists of the query
cache (`fetch` is where a fetch is, `got` what it brings), `stored` the server, `adrift` the submissions that
may still reach it although nobody waits for them. `confirmed` and `due`
are what the tab has reported and what its answers have made due, for the properties.

| Code | Action |
| --- | --- |
| routing, F5, the token of `currentAccessToken` no longer accepted | `Visit`, `Reload`, `Expire` |
| `PostEntryDialog`, `NewCommitmentDialog`, the workbench | `Open`, `Close`, `Type`, `Submit` |
| the core API | `Accept`, `Refuse`, `OtherStores`; `LateArrives` for a submission that a reload or the report of a lost call (`Deny`) left on its way |
| the code after `mutateAsync`, `onSuccess` of the hooks | `Confirm`, `Deny`, both with `Settle` |
| `useQuery` with the `staleTime` of `main.tsx` | `Mount` (on `Visit` and `Focus`), `Read`, `Unreachable`, `Land`, `Age`; `Invalidate` |

The functions of `api.ts` return an error instead of throwing one. Two consequences are
modelled: `onSuccess` also runs after a refusal and after a lost answer (`Settle` in `Deny`), and a list
that fails is cached like one that is answered (`Error` lands as data) and is not retried.

## 4. The runs

Each passing run names its mutants in `PROJECT.json`: every property is shown to fail when
the code has a bug it is about.

| Run | Instance | Shows |
| --- | --- | --- |
| `journal` | 3 sessions, 5 entries: crossed lock order, one key for two entries, one id for two, a row written twice, a shared commitment | `StocksMatchFlows`, `PostedOnce`, `AuditComplete`, `LockExclusion`, `TruthfulAnswers`, `NoLostUpdate`, `ClosedStaysClosed` |
| `journal_odd` | 2 sessions that can deadlock, 8 entries: unbalanced, foreign currency, unknown institution, another institution's commitment, three settlements out of one account | `TrialBalance`, `NeverOverSettled` and `SettledWhenReached` (for one paying account), `EveryRequestAnswered`, `ImplementsLedger` |
| `staging` | an export in two batches and an unreadable file; another client's batch with a row without identity, one of a colliding id and one that cannot be stored; 1 timeout or restart, 1 error in core-api | `ProcessedIsStaged`, `PostedIsInJournal`, `QuarantineIsExplained`, `UnreportedExplained`, `RowRecordsOutcome`, `EveryFileMoved` |
| `anchoring` | one or two gateways, on the same backend or on both, 2 faults, blocks that come late, two entries begun and committed in any order | `LinkedByOne`, `DoubleAnchoringBounded`, `LostRootsExplained`, `ReceiptsHold`, `EveryEntryAnchored` |
| `merkle` | single batches up to 17, pairs of batches up to 4, pairs of entries with up to 3 lines | `Complete`, `VerifiersAgree`, `RootBinds`, `HashIsContent` |
| `clients` | a tab on each of ten pages, or a phone with two chips and a shared cache; 3 rows in pages of 1 or 2; links to a refused range, to a page 0, to a size the bar does not offer, to an amount of 0, to a first day, to a least amount and to the first digits of a year; a commitment that closes | `TableAnswersUrl`, `NeverPastEnd`, `DemoAgrees`, `ScrollShowsTheList` |
| `console` | two entries, a commitment and a transaction, five pages, somebody else storing one of the entries | `ConfirmedIsStored`, `ReadYourWrites` |

The type invariant of a module is checked by its first run.

**Where the code and its documentation disagree** (each a run that TLC ends with a
counterexample, and a finding with the quoted line):

* `commitment_exceeded`: the settled sum is read before the wait for the row lock, so two
  payments from disjoint accounts exceed a commitment. (With payments of 3 and 2 they use
  it up and leave it OPEN, by the same reading.)
* `staging_poison_row`: a date that is none cannot be stored even in quarantine; the file is retried for ever.
* `log_forks`: two gateways make a log row that chains the row before the last.
* `anchored_twice`: an entry posted between a crash and the retry changes the batch, and the
  entries of the first root are anchored again.
* `range_lost`: a picked range leaves only its last day in the URL; the table is cut at that day while the control
  shows no range. (Clearing a range and a lower bound of an amount are lost the same way. The premise is the documented behaviour of the router.)

The pairs (`journal_odd`, `commitment_exceeded`), (`staging`, `staging_poison_row`),
(`anchoring`, `log_forks`), (`anchoring`, `anchored_twice`) and (`clients`, `range_lost`) show the promise with and
without the condition it depends on: one paying account, dates that are dates, one gateway on the log, as many roots of an entry as
faults and gateways account for, a table that is compared with its URL instead of its controls.

**Conditions in the properties.** These are what the code does not promise, and each is
reachable:

* `QuarantineIsExplained` counts the errors of core-api: a deadlock or a lost connection
  while an entry is posted is stored as a permanent outcome, and quarantines a valid row for good.
* `UnreportedExplained` counts too: an entry whose staging row is missing or says QUARANTINED has an error of core-api,
  a fault of the connector or a batch of another client of its own.
* `DoubleAnchoringBounded` and `LostRootsExplained` count gateways and faults; `LinkedByOne` is about one gateway on the log.
  That no entry is anchored twice, and no row chains another than the last, are the claims the code does not keep.
* `RowRecordsOutcome` is about rows whose entry id no other row has: ids are derived from
  system and reference, so that a corrected row is reported POSTED under the entry of the old one.
* `TableAnswersUrl` and `DemoAgrees` exclude pages past the end, where the API answers a
  total of 0 and the demo data do not; `NeverPastEnd` shows that clicks do not lead there, but a
  link may, and so may a commitment that leaves the status that is filtered (when it closes).
* `DemoAgrees` excludes the anomalies, of which the demo mode has one whatever is asked, and a year of a reconciliation
  that has not four digits: the demo mode compares the beginning of the period (the run has such a link). Days are those of UTC.
* `ScrollShowsTheList` needs `InOrder`: when a shared cache answers a page that is older than
  the page above it, an entry that moved down between the two is on neither, until the next refetch.
* `ReadYourWrites` leaves out the audit list after a commitment, which its hook does not invalidate.
* An amount filter of 0 is dropped by the path builders (`if (filter.amountLte)`): typed or
  linked it stays in the URL and changes nothing. `NoZero` takes it out of `TableAnswersUrl` and `NeverPastEnd`;
  the run contains such a link.
* `FirstPageLinks` is the condition of the theorem about `NeverPastEnd`: a link may name any page. The links
  of the run satisfy it.

**Bounds.** Sessions (3), handlers (2) and gateways (2): every race above is between two
actors, with a third in `journal` for waiting chains. Fault bounds (`MaxErrors`, `MaxTimeouts`,
`MaxFaults`, one or two): an error followed by a retry that fails as well. Batches of one or two
rows stand for 200 (connector), 500 (API and gateway): the cases are a file of one batch,
of several, and of none. `anchoring` has two entries: with three, two gateways and liveness TLC does not end in
minutes; what exceeds a batch there is only covered by the theorems, which hold for any number of entries. Amounts are below 10 and chosen so that
two settlements fit, exceed or exactly use up a commitment. Lists have 3 rows: one at the start,
one that enters at the end, one at the top, in pages of one (so that there are first, middle and
last pages) or two; a page size of 15 only makes such lists longer. `MaxAsked` (two queries on
their way) is a late answer and the one that overtakes it; `MaxFilters` (two) is what the controls set in one
handler. `OthersRead` leaves the first page to the app itself. `MaxTurns` (3) limits what happens
without an answer: visits, reloads, submissions, losses and the passing of time, between them; a
longer chain than submit, leave and lose is not needed for the races of one answer, and the proofs of
section 5 hold for every bound. The sessions of `journal` are symmetric
(no liveness is checked there); no other run uses symmetry.

**Deadlock.** `CHECK_DEADLOCK FALSE` is set where the instance has a finite amount of work
(all requests answered, all files moved, all entries anchored) and then really stops.

**Fairness.** `Journal`: strong fairness of each session's statements, since PostgreSQL
grants a free lock to a waiter that others may overtake, and weak fairness of the deadlock
detector. `Staging`: weak fairness of the watcher loop (a ticker) and of each handler (a
goroutine); none of `Drop`, `Timeout`, `Restart`, errors, or other clients. `Anchoring`: weak fairness of
`AnchorPending` of each gateway (run at start and at each tick); none of postings and faults.
`Clients` and `Console` state none: users and networks may stop, and only safety is claimed.

## 5. What is proved

Every safety property that a passing run checks is a theorem for all values of the constants, under the assumptions that each module states on them
(and TLC evaluates in every run); three of them carry the condition under which the
code keeps them. The temporal theorems follow by PTL from an inductive invariant.

### Posting

`JournalProofs`, for any sessions, entries, commitments and rows:

| Theorem | Statement |
| --- | --- |
| `JournalTypeCorrect` | `Spec => []TypeOK` |
| `NothingPostedTwice` | `Spec => []PostedOnce` |
| `LocksExclude` | `Spec => []LockExclusion` |
| `AuditTrailComplete` | `Spec => []AuditComplete` |
| `AnswersAreTrue` | `Spec => []TruthfulAnswers` |
| `SettlementsAreOwned` | every settlement is that of a posted entry, of its own institution's commitment |
| `SettledIsFinal` | `Spec => ClosedStaysClosed` |
| `BalancesNotLost` | `Spec => NoLostUpdate` |

The argument is one inductive invariant, `JournalInv`. `PostedOnce` is not inductive by
itself: a session that has inserted its entry has long passed the test on the key when it
commits. Three parts carry that knowledge through the transaction. `LockExclusion`: no two
sessions in flight hold the same key, row or commitment. `Fresh`: the key of a session
past its insert is in no posted entry (kept by others' commits because of `LockExclusion`).
`HeldOpen`: a commitment that a session has locked and found OPEN is still open, which is
true because its status is read again after the wait, whereas its settled sum is not; this is why
`ClosedStaysClosed` is a theorem and `NeverOverSettled` needs a condition.

`LedgerProofs`, with finitely many rows (`RowsAssumption`):

| Theorem | Statement |
| --- | --- |
| `StocksAreFlows` | `Spec => []StocksMatchFlows` |
| `TrialBalances` | `Spec => []TrialBalance` |
| `OnePayerKeepsAmount` | `Spec => [](OnePayer => NeverOverSettled)` |
| `OnePayerCloses` | `Spec => [](OnePayer => SettledWhenReached)` |

`StockInv` adds to `JournalInv` what a transaction has written so far: each row in `pending` is
the committed balance plus the lines *before* `line` on that row (`Written`), and every row of
those lines is in `pending`. With `LockExclusion` the committed part cannot move meanwhile, so that
at COMMIT the row moves by all lines of the entry (`CommitBalance`). `TrialBalance` then
needs that the lines of a valid entry, regrouped by row, add up to nothing (`FlowsBalance`).
`OnePayer` says that any two entries that could settle the same commitment have a balance row in
common, such as the account that pays. Under it a settlement that has read its sum holds that row,
so no other can commit before it does (`OneSettles`), and what it has seen is all there is (`SeenAll`
in `SettleInv`). Without it the run `commitment_exceeded` is the counterexample.

And the refinement:

| Theorem | Statement |
| --- | --- |
| `PostingIsAtomic` | `Spec => ImplementsLedger` |

COMMIT is `Post`: what makes an entry `Postable` was checked at its INSERT, three statements earlier at
least, and `Fresh` and `Registered` (the foreign key) carry it to the commit; the movement is
`CommitBalance`; that the commitment covers the payment follows from the sum that was compared with its amount (`Covered`),
since payments are not negative. `CreateCommitment` is `Create`, and nothing else touches the tables.
`Staging`, `Anchoring` and `Console` treat a posting as one step; this theorem is why they may.

### Import

`StagingProofs`, for any files, records, handlers, size of a batch and number of faults:

| Theorem | Statement |
| --- | --- |
| `StagingTypeCorrect` | `Spec => []TypeOK` |
| `PostedRowsAreInJournal` | `Spec => []PostedIsInJournal` |
| `ProcessedFilesAreStaged` | `Spec => []ProcessedIsStaged` |
| `QuarantineExplained` | `Spec => []QuarantineIsExplained` |
| `RowsRecordOutcomes` | `Spec => []RowRecordsOutcome` |
| `UnreportedAlwaysExplained` | `Spec => []UnreportedExplained` |

All rest on `Base`: types, the position of a handler in its batch (`Sane`), and `OneRequest`, that
the connector's own request is outstanding only while it waits. `PostedIsInJournal` needs that a
handler that has decided POSTED, but not stored it, already has its entry in the journal
(`DecidedIsInJournal`). `ProcessedIsStaged` is the longest chain: the records a handler has passed are
staged (`PassedIsStaged`), the request that is answered is the batch the connector is at
(`RequestIsBatch`), hence the batches before are staged (`DeliveredIsStaged`), hence a file that is moved is.
`QuarantineIsExplained` counts: `Doomed`, the records that are quarantined or about to be
without a fault of their own, grows only by an error, by one (`QuarantineInv`). `RowRecordsOutcome` compares the stored row with
what each handler has collected (`OutcomeInv`).
`UnreportedExplained` counts losses against causes. By itself it is not inductive: a request whose client has left can end without an
error and take its entry's row with it, and a handler can be about to quarantine a row. So `ReportInv` counts what may
still be lost as well (`Losses`): each handler that has failed, and each whose client may leave or has left (`Away`),
has the error, the timeout or the foreign batch that made it so of its own.

### Anchoring

`AnchoringProofs`, for any gateways, entries, size of a batch and number of faults:

| Theorem | Statement |
| --- | --- |
| `AnchoringTypeCorrect` | `Spec => []TypeOK` |
| `ReceiptsAlwaysHold` | `Spec => []ReceiptsHold` |
| `LogStaysLinked` | `Spec => []LinkedByOne` |
| `LostRootsAlwaysExplained` | `Spec => []LostRootsExplained` |
| `DoubleAnchoringIsBounded` | `Spec => []DoubleAnchoringBounded` |

Committing a root and writing its receipts are two steps on two systems, and between them the
reference is in the memory of the gateway only: `ReceiptInv` says that such a reference leads to its batch
(`PendingLeads`), which is kept because both backends only grow, so that the receipt written from it does
(`AnchorsLead`) and covers its proofs (`ProofsCover`). `LinkedByOne` has a condition: with
one gateway on the log, the last row it has read is still the last when it inserts (`FreshReads` in `LinkInv`); a
crash forgets what it read.

The last two bound by counting (`AtMost`, with the cardinalities of finite sets) what the code does not prevent. A root
becomes lost in the step that gives its reference up, which is a fault; but a transaction that is adrift becomes a lost root
only when its block comes, after the fault. `LostInv` therefore counts both together (`Loose`), and needs
that a root is on the chain once, so that a late block of a root that is there adds none. For the roots of one entry, `CopiesInv`
compares them, and the transactions adrift, with the faults and the gateways that account for one (`Accounting`): as long as the entry has no
proof, each gateway that has committed a root and has not written its receipts; once it has a proof, `loadUnanchored` does not return it
any more, and only the gateways that loaded it before can still add a root (`Waiting`), one each.

### The client

`ConsoleProofs` proves, for any set of operations, pages, and number of turns:

| Theorem | Statement |
| --- | --- |
| `ConsoleTypeCorrect` | `Spec => []TypeOK`: in particular a form that waits has a submission to wait for |
| `ReportsAreTrue` | `Spec => []ConfirmedIsStored` |
| `WritesAreRead` | `Spec => []ReadYourWrites` |

`ConfirmedIsStored` needs that an accepted submission is stored (`AcceptedIsStored`), since
the report comes steps later. `ReadYourWrites` speaks of lists at rest only and is far from inductive: the
rows of a list at rest are those of a fetch that was answered earlier, perhaps before the operation was
stored. `ReadInv` adds `DueIsStored` (what is due of a list is in it, on the server) and `DueIsHeld`: a
fetch that has been read already carries what is due, and a list that is fresh holds it although no page
shows it. The second half is why leaving a page and coming back loses nothing (`HoldsWhenOpened`). The
crux is `SettleHolds`: an answer makes rows due only of lists it invalidates (`PromiseIsKept`), and an invalidated
list is read again, or marked and not on display (`InvalidateFacts`); the one exception, a first fetch that
is on its way and is not cancelled, is what `ReadAgain` leaves out of `due`. The hypotheses are
`ConsoleAssumption` of `Console.tla`.

### The tables

`ClientsProofs`, for any rows, links, options, page sizes, and number of queries on their way:

| Theorem | Statement |
| --- | --- |
| `TablesTyped` | `Spec => []TypeOK` of `WebTables` |
| `TablesAnswerTheirUrl` | `Spec => []TableAnswersUrl` |
| `TablesStayInside` | `Spec => [](FirstPageLinks => NeverPastEnd)` |
| `DemoIsTheApi` | `Spec => []DemoAgrees` |
| `ClientsRunTheTables` | `ClientsSpec => Spec`: the tab of the composition is the tab alone |
| `ScrollIsComplete` | `ClientsSpec => []ScrollShowsTheList`, the endless list of the phone |
| `OrderWithoutCache` | `ClientsSpec => [](~SharedCache => InOrder)` of `Explorer` |

Half of the argument is about the pages and not about steps: on each of the ten, the parameters that the controls set,
those handed on, those the path builder knows and those the demo data are filtered by are the same
(`PageKeys`, `FetchIs`), so that an answer is a page cut out of the rows that the query wants (`AnswerIs`). That server and demo data want the same rows,
although they compare differently, is `DemoIsAlike`: a moment is before the midnight after a day exactly when its day is no later
(`DayOfTime`), and the beginning of a year of four digits that has four digits is that year (`YearIsItsBeginning`). The other half is
`TableInv`. `Sound`: an answer that is kept is what the server would say now, or is marked outdated; and even
then its total does not exceed what is wanted today, as long as nothing changed that its filters ask about (`ServerAdds`).
The last part is what `NeverPastEnd` needs: the button for the next page trusts the total of an answer that may be
old (`PageTurnKeeps`). Every other control restarts at the first page (`SetFilterIs`). `ColumnsAssumption` says that the
columns of the filters exist, dates and hours are numbers and years have four digits, `LinksAssumption` that a link has parameters its page reads.

For the phone, `PhoneInv` says that wherever a page is (in the app, in a refetch that is not complete, in the shared cache),
the k-th page is the k-th cut out of a list that the server once had, in its order. No more is needed of the past, because of
`PlacesOnlyGrow`: of two lists in one order the one that has more has an entry no earlier. So an entry that all pages knew
is on the first page whose end lies behind it (`SomewhereShown`): it had not come that far down when the page before was
cut, and by the last page it has (`EndIsTheEnd`, also when that page is empty and its total 0). Pages of one
list add up to it (`CutContinues`, `WholeShown`). `ExplorerAssumption`: the page size, 15, is one the server accepts.

`ScrollShowsTheList` speaks of pages that are in order. `OrderWithoutCache` says that only a shared cache can put them out of order:
without one, the lists of successive pages only grow, in the app and in a refetch that is not complete,
and stay within what is published (`FreshInv`, `Growing`), since rows are only added (`PublishedGrows`) and an answer comes
out of all there is (`AnswerIsWhole`).

### Verification

`MerkleProofs`, for batches of any length, any headers and line texts; a batch is a sequence of entries
of which no two are the same (`IsBatch`):

| Theorem | Statement |
| --- | --- |
| `EveryEntryHasProof` | the proof of each position leads from its leaf to the root |
| `OneVerdict` | each of three verifiers accepts an entry with a leaf and a proof exactly when it is, with its lines in any order, the entry of that leaf and that proof |
| `RootIdentifiesBatch` | two batches with one root have the same entries in the same order |
| `ProofsComplete`, `VerifiersGiveOneVerdict`, `RootsBind`, `HashesAreContent` | `Spec => []Complete`, `[]VerifiersAgree`, `[]RootBinds`, `[]HashIsContent` of `MCMerkle` |

Tree, path and walk are recursive functions over natural numbers, and what holds at each level is carried from
one to the next by `CountUp`: that the tree ends in one node (`NewTreeIsTree`, since a level of more than one node
is longer than the next), that the running hash of a walk is the node above the leaf
(`WalkToRoot`), odd ends included. That a proof fits no other leaf goes the other way: along one
path different hashes stay different (`WalkInjective`), because `HashPair` can be taken apart. For `RootIdentifiesBatch` two trees
are descended side by side from their roots (`NextLevelInjective`, `SameLevels`); that they have one height
follows from the shape of the hashes, since the leaf of an entry is no pair (`NotHigher`). `HashIdentifies`
needs the sort: two sequences are sorted alike exactly when each text occurs in both equally often
(`CountsDetermine`, `SortedCounts`).

### Filters, sums and orders

These laws need induction over data, which the library's theorems state with an operator as a
parameter and the installed provers cannot instantiate. `CollectionProofs` proves them by a least counterexample
instead, with sets and functions as hypotheses, not operators: what `Filter` keeps, for a recursive function over
the positions of a sequence (`LeastElement`), all of it and in order (`FilterRange`, `FilterOrdered`); that `MapThenSumSet` over a finite set does not depend on the order in
which it takes the elements, adds up pointwise and can be regrouped by class (the smallest set
that fails, `SetInduction`); that `Sorted` permutes its sequence and puts it in order (`SortedPlaces`); what `FlattenSeq` strings together (`FlattenSteps`).

**Only model-checked.** Liveness (`EveryRequestAnswered`, `EveryFileMoved`, `EveryEntryAnchored`), which is out
of TLAPS's reach.

## 6. What is not modelled

* Rendering: the vendored shadcn/ui components, layout, theme, languages, charts, the
  overview's tiles, the other screens of the phone. They keep no state that outlives a render.
* Insights and amounts as numbers (floating point; 64-bit wrap-around; JavaScript's 2^53): TLC has
  small integers only. The hazards list where they bite.
* The rate limiter and the token cache of the connector: arithmetic on real time that no
  other module touches.
* Authorization, publication policy and token verification: rules evaluated by OPA and a
  library; a model would restate the rules. That a request is refused is an outcome in `Staging`
  and `Console`.
* The sums of the reconciliation, the reads of a receipt, the MCP server, metrics,
  deployment: queries and translations without state of their own.
* The login redirects, and what belongs to a rendered row (the dialog of a verdict).

`PROJECT.json` gives the reason for each component.

## 7. Running it

    tlc -config MCJournal.cfg MCJournal.tla      # any run: module and cfg from PROJECT.json
    for m in Collection Journal Ledger Staging Anchoring Merkle Clients Console; do
        tlapm ${m}Proofs.tla
    done
