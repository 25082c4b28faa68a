------------------------------- MODULE ListApi -------------------------------
(***************************************************************************)
(* How a client asks for one page of a list and what it is answered: the   *)
(* list functions of the web client (apps/web/src/api.ts) with the path    *)
(* they build, the data of the demo mode, and the answer of the core API.  *)
(*                                                                         *)
(* A filter, a path and the parameters of a URL are functions from         *)
(* parameter names to values: a name that is not in the domain is not set. *)
(* A row is a record of columns; amounts are numbers, and so are dates, as *)
(* days (in UTC, as the server keeps them).  The rows of a list are given  *)
(* in the order of the list.                                               *)
(***************************************************************************)
EXTENDS Integers, Sequences, FiniteSets, FiniteSetsExt, SequencesExt, Functions, Filtering

CONSTANTS
    DefaultPageSize,   \* 15 in client and server
    MaxPageSize        \* 100, the largest page the server gives

ASSUME PageSizeAssumption ==
    /\ DefaultPageSize \in Nat \ {0}
    /\ MaxPageSize \in Nat \ {0}
    /\ DefaultPageSize <= MaxPageSize

Paging == {"page", "pageSize"}

Numbers == {"fiscalYear", "amountGte", "amountLte"} \cup Paging

\* if (filter.key): undefined, the empty string and 0 are no filter.
Given(filter, key) ==
    /\ key \in DOMAIN filter
    /\ key \in Numbers => filter[key] # 0

-----------------------------------------------------------------------------
(* The core API. *)

Failed == [ok |-> FALSE, rows |-> <<>>, total |-> 0]

Bound(path, key, default) == IF key \in DOMAIN path THEN path[key] ELSE default

\* A DATE is the midnight it begins with, that is, its hour is 0.
Midnight(day) == 24 * day
Time(row)     == Midnight(row.date) + row.hour

\* (mutant) The last day ends when it begins.
TestUpToMidnight(key, value, row) ==
    CASE key = "dateFrom"  -> Time(row) >= Midnight(value)
      [] key = "dateTo"    -> Time(row) <= Midnight(value)
      [] key = "amountGte" -> row.amountMinor >= value
      [] key = "amountLte" -> row.amountMinor <= value
      [] OTHER             -> row[key] = value

\* What a parameter asks of a row: occurred_at < dateTo::date + INTERVAL '1 day'.
Test(key, value, row) ==
    CASE key = "dateFrom"  -> Time(row) >= Midnight(value)
      [] key = "dateTo"    -> Time(row) < Midnight(value + 1)
      [] key = "amountGte" -> row.amountMinor >= value
      [] key = "amountLte" -> row.amountMinor <= value
      [] OTHER             -> row[key] = value

\* parsePagination and parseDateRange: what is out of range is refused.
Refused(path) ==
    \/ Bound(path, "pageSize", DefaultPageSize) > MaxPageSize
    \/ {"dateFrom", "dateTo"} \subseteq DOMAIN path /\ path.dateFrom > path.dateTo

\* The rows that pass the conditions, one for each parameter that is no page.
Hits(path, list) ==
    Filter(list, {row \in Range(list) :
                     \A key \in DOMAIN path \ Paging : Test(key, path[key], row)})

\* LIMIT and OFFSET.
Window(path, rows) ==
    LET size == Bound(path, "pageSize", DefaultPageSize)
        from == (Bound(path, "page", 1) - 1) * size
    IN  SubSeq(rows, from + 1, Min({from + size, Len(rows)}))

\* The total is read off the rows (COUNT(*) OVER()): past the end there is no
\* row, and the total that is answered is 0.
ServerList(path, list) ==
    LET rows == Window(path, Hits(path, list))
    IN  IF Refused(path) THEN Failed
        ELSE [ok |-> TRUE, rows |-> rows,
              total |-> IF rows = <<>> THEN 0 ELSE Len(Hits(path, list))]

\* Anomalies are scored first and cut into pages then: their total is exact.
ServerAnomalies(path, list) ==
    IF Refused(path) THEN Failed
    ELSE [ok |-> TRUE, rows |-> Window(path, Hits(path, list)), total |-> Len(Hits(path, list))]

-----------------------------------------------------------------------------
(* The web client. *)

\* The parameters of a path, out of the keys a path builder knows.
Path(filter, keys) == Restrict(filter, {key \in keys : Given(filter, key)})

TransactionKeys ==
    {"institutionId", "fiscalYear", "status", "dateFrom", "dateTo", "amountGte", "amountLte"}

\* (mutant) The lower bound of the amount is forgotten.
BuildWithoutAmountGte(filter) == Path(filter, (TransactionKeys \ {"amountGte"}) \cup Paging)

BuildTransactionsPath(filter)   == Path(filter, TransactionKeys \cup Paging)
BuildAuditEventsPath(filter)    == Path(filter, {"institutionId", "dateFrom", "dateTo"} \cup Paging)
BuildInstitutionsPath(filter)   == Path(filter, {"status"} \cup Paging)
BuildAccountsPath(filter)       == Path(filter, {"accountType"} \cup Paging)
BuildBalancesPath(filter)       == Path(filter, {"institutionId", "accountCode"} \cup Paging)
BuildStagingPath(filter)        == Path(filter, {"status", "institutionId", "sourceSystem"} \cup Paging)
BuildJournalEntriesPath(filter) ==
    Path(filter, {"institutionId", "fiscalYear", "status", "dateFrom", "dateTo"} \cup Paging)

PageWindow(filter) ==
    [page     |-> IF Given(filter, "page") THEN filter.page ELSE 1,
     pageSize |-> Bound(filter, "pageSize", DefaultPageSize)]

Paginate(rows, window) ==
    LET start == (window.page - 1) * window.pageSize
    IN  [ok |-> TRUE, total |-> Len(rows),
         rows |-> SubSeq(rows, start + 1, Min({start + window.pageSize, Len(rows)}))]

\* What the demo mode asks of a row: of a timestamp, its first ten characters.
DemoTest(key, value, row) ==
    CASE key = "dateFrom"  -> row.date >= value
      [] key = "dateTo"    -> row.date <= value
      [] key = "amountGte" -> row.amountMinor >= value
      [] key = "amountLte" -> row.amountMinor <= value
      [] OTHER             -> row[key] = value

\* .filter((row) => !filter.key || row passes) for each of some keys.
Kept(rows, filter, keys) ==
    Filter(rows, {row \in Range(rows) :
                     \A key \in keys : Given(filter, key) => DemoTest(key, filter[key], row)})

Years == {year \in Nat : 1000 <= year /\ year <= 9999}

\* period.startsWith(String(digits)), of a period in one of these years.
StartsWith(year, digits) == \E k \in {1, 10, 100, 1000} : year \div k = digits

KeptPeriods(rows, filter) ==
    Filter(rows, {row \in Range(rows) :
                     /\ Given(filter, "sourceSystem") => row.sourceSystem = filter.sourceSystem
                     /\ Given(filter, "fiscalYear") => StartsWith(row.fiscalYear, filter.fiscalYear)})

SimulateTransactionList(filter, rows) ==
    Paginate(Kept(rows, filter, TransactionKeys), PageWindow(filter))

SimulateAuditEventList(filter, rows) ==
    Paginate(Kept(rows, filter, {"institutionId", "dateFrom", "dateTo"}), PageWindow(filter))

SimulateInstitutionList(filter, rows) ==
    Paginate(Kept(rows, filter, {"status"}), PageWindow(filter))

\* The list functions: with an API the request goes out, without one (demo mode)
\* the data of the bundle are filtered.  A refusal is an answer, not an exception.
ListTransactions(api, filter, rows) ==
    IF api THEN ServerList(BuildTransactionsPath(filter), rows)
    ELSE SimulateTransactionList(filter, rows)

ListAuditEvents(api, filter, rows) ==
    IF api THEN ServerList(BuildAuditEventsPath(filter), rows)
    ELSE SimulateAuditEventList(filter, rows)

ListInstitutions(api, filter, rows) ==
    IF api THEN ServerList(BuildInstitutionsPath(filter), rows)
    ELSE SimulateInstitutionList(filter, rows)

ListAccounts(api, filter, rows) ==
    IF api THEN ServerList(BuildAccountsPath(filter), rows)
    ELSE Paginate(Kept(rows, filter, {"accountType"}), PageWindow(filter))

ListJournalEntries(api, filter, rows) ==
    IF api THEN ServerList(BuildJournalEntriesPath(filter), rows)
    ELSE Paginate(Kept(rows, filter, {"institutionId", "fiscalYear", "status", "dateFrom", "dateTo"}),
                  PageWindow(filter))

ListBalances(api, filter, rows) ==
    IF api THEN ServerList(BuildBalancesPath(filter), rows)
    ELSE Paginate(Kept(rows, filter, {"institutionId", "accountCode"}), PageWindow(filter))

ListStagingRecords(api, filter, rows) ==
    IF api THEN ServerList(BuildStagingPath(filter), rows)
    ELSE Paginate(Kept(rows, filter, {"status", "institutionId", "sourceSystem"}), PageWindow(filter))

\* Commitments, reconciliation and anomalies always send a page, 1 and 15 when none
\* is given.
PagedPath(filter, keys) ==
    LET path == Path(filter, keys)
    IN  [key \in DOMAIN path \cup Paging |->
            IF key \in Paging THEN PageWindow(filter)[key] ELSE path[key]]

ListCommitments(api, filter, rows) ==
    LET keys == {"institutionId", "fiscalYear", "status"}
    IN  IF api THEN ServerList(PagedPath(filter, keys), rows)
        ELSE Paginate(Kept(rows, filter, keys), PageWindow(filter))

ListReconciliation(api, filter, rows) ==
    IF api THEN ServerList(PagedPath(filter, {"sourceSystem", "fiscalYear"}), rows)
    ELSE Paginate(KeptPeriods(rows, filter), PageWindow(filter))

\* The demo mode has one anomaly, on every page and for every institution.
GetAnomalies(api, filter, rows) ==
    IF api THEN ServerAnomalies(PagedPath(filter, {"institutionId"}), rows)
    ELSE LET demo == SubSeq(rows, 1, 1)
         IN  [ok |-> TRUE, rows |-> demo, total |-> Len(demo)]
=============================================================================
