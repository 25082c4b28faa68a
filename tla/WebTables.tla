------------------------------ MODULE WebTables ------------------------------
(***************************************************************************)
(* The table pages of the web client (apps/web/src/routes): their state is *)
(* in the URL, their rows come from the core API one page at a time.       *)
(*                                                                         *)
(* One browser tab shows one page.  Toolbar and pagination write the URL;  *)
(* the URL determines the query; the answer of a query is kept under that  *)
(* query.  Meanwhile the server stores more rows and closes commitments.   *)
(***************************************************************************)
EXTENDS ListApi, Sorting

CONSTANTS
    Columns,           \* Columns[i]: the columns of the i-th row that is stored, of id i
    Closing,           \* rows whose status is set to SETTLED at some point
    Routes,            \* the table pages, one of which is visited
    Links,             \* Links[route]: parameters of URLs that are shared or bookmarked
    Typed,             \* what is typed into the amount filter, in minor units
    PageSizeOptions,   \* the page sizes DataTable offers
    Picks,             \* Picks[key]: what a filter control can be set to
    MaxAsked,          \* bound: queries on their way at one time
    MaxFilters,        \* bound: filters that are set at one time
    Unset              \* no value

ASSUME ColumnsAssumption ==
    /\ Len(Columns) \in Nat
    /\ \A i \in 1..Len(Columns) :
        /\ DOMAIN Columns[i] = {"id", "institutionId", "fiscalYear", "status", "date", "hour",
                                "amountMinor", "accountType", "sourceSystem"}
        /\ Columns[i].id = i
        /\ Columns[i].date \in Int
        /\ Columns[i].hour \in 0..23
        /\ Columns[i].fiscalYear \in Years

\* Rows of one day are numbered as they occur.
ASSUME HoursAssumption ==
    \A i, j \in 1..Len(Columns) :
        i < j /\ Columns[i].date = Columns[j].date => Columns[i].hour <= Columns[j].hour

ASSUME RoutesAssumption ==
    Routes \subseteq {"journal", "transactions", "audit", "commitments", "reconciliation",
                     "ingestion", "accounts", "balances", "institutions", "insights"}

ASSUME TableAssumption ==
    /\ DefaultPageSize \in PageSizeOptions
    /\ PageSizeOptions \subseteq 1..MaxPageSize
    /\ Picks.date \subseteq Int

VARIABLES
    stored,   \* number of rows the server has
    closed,   \* the rows it has closed
    route,    \* the page of the tab
    url,      \* its search parameters
    asked,    \* queries on their way
    answers   \* queries and their answers

vars == <<stored, closed, route, url, asked, answers>>

-----------------------------------------------------------------------------
(* The server: rows are listed by date, the newest first. *)

\* Commitments that are settled in full change their status.  The date of an audit
\* event is a timestamp, that of the rows of the other lists a day.
Row(i) ==
    [Columns[i] EXCEPT
        !.status = IF i \in closed /\ route = "commitments" THEN "SETTLED" ELSE @,
        !.hour = IF route = "audit" THEN @ ELSE 0]

\* ORDER BY date DESC, created_at DESC: rows are numbered as they are stored.
Newer ==
    {pair \in (1..Len(Columns)) \X (1..Len(Columns)) :
        LET a == Columns[pair[1]].date
            b == Columns[pair[2]].date
        IN  a > b \/ (a = b /\ pair[1] > pair[2])}

Order == Sorted([i \in 1..Len(Columns) |-> i], Newer)

List ==
    LET order == Filter(Order, 1..stored)
    IN  [k \in DOMAIN order |-> Row(order[k])]

-----------------------------------------------------------------------------
(* useTableUrlState. *)

Without(params, keys) == Restrict(params, DOMAIN params \ keys)

With(params, key, value) ==
    [k \in DOMAIN params \cup {key} |-> IF k = key THEN value ELSE params[k]]

\* positiveInt(...) ?? default
PositiveInt(params, key, default) ==
    IF key \in DOMAIN params /\ params[key] > 0 THEN params[key] ELSE default

Page     == PositiveInt(url, "page", 1)
PageSize == PositiveInt(url, "pageSize", DefaultPageSize)

\* (mutant) The page is kept when a filter changes.
SetFilterOnPage(params, key, value) ==
    IF value = Unset THEN Without(params, {key}) ELSE With(params, key, value)

\* Filter changes restart at page 1.
SetFilter(params, key, value) ==
    Without(IF value = Unset THEN Without(params, {key}) ELSE With(params, key, value), {"page"})

\* setFilter(first, value1); setFilter(second, value2) in one handler.  The router
\* does not queue: it gives both functions the parameters of the last render, and
\* the second navigation replaces the first, so that what the first set is lost.
SetTwoFilters(params, first, value1, second, value2) == SetFilter(params, second, value2)

SetPage(params, page) ==
    IF page <= 1 THEN Without(params, {"page"}) ELSE With(params, "page", page)

SetPageSize(params, size) ==
    Without(IF size = DefaultPageSize THEN Without(params, {"pageSize"})
            ELSE With(params, "pageSize", size), {"page"})

-----------------------------------------------------------------------------
(* The pages: the list they show, the parameters they hand on to it, and    *)
(* their controls.  Columns and layout are left out.                        *)

JournalPage ==
    [list |-> "journal-entries", handsOn |-> {"institutionId", "status", "dateFrom", "dateTo"},
     selects |-> {"institutionId", "status"}, dates |-> TRUE, amounts |-> FALSE]

TransactionsPage ==
    [list |-> "transactions",
     handsOn |-> {"institutionId", "fiscalYear", "status", "dateFrom", "dateTo", "amountGte", "amountLte"},
     selects |-> {"institutionId", "fiscalYear", "status"}, dates |-> TRUE, amounts |-> TRUE]

\* (mutant) A date filter is in the toolbar and not in the query.
AuditPageWithoutDateTo ==
    [list |-> "audit-events", handsOn |-> {"institutionId", "dateFrom"},
     selects |-> {"institutionId"}, dates |-> TRUE, amounts |-> FALSE]

AuditPage ==
    [list |-> "audit-events", handsOn |-> {"institutionId", "dateFrom", "dateTo"},
     selects |-> {"institutionId"}, dates |-> TRUE, amounts |-> FALSE]

CommitmentsPage ==
    [list |-> "commitments", handsOn |-> {"institutionId", "fiscalYear", "status"},
     selects |-> {"institutionId", "fiscalYear", "status"}, dates |-> FALSE, amounts |-> FALSE]

ReconciliationPage ==
    [list |-> "reconciliation", handsOn |-> {"sourceSystem", "fiscalYear"},
     selects |-> {"sourceSystem", "fiscalYear"}, dates |-> FALSE, amounts |-> FALSE]

IngestionPage ==
    [list |-> "staging-records", handsOn |-> {"status", "institutionId"},
     selects |-> {"status", "institutionId"}, dates |-> FALSE, amounts |-> FALSE]

AccountsPage ==
    [list |-> "accounts", handsOn |-> {"accountType"},
     selects |-> {"accountType"}, dates |-> FALSE, amounts |-> FALSE]

BalancesPage ==
    [list |-> "balances", handsOn |-> {"institutionId"},
     selects |-> {"institutionId"}, dates |-> FALSE, amounts |-> FALSE]

InstitutionsPage ==
    [list |-> "institutions", handsOn |-> {"status"},
     selects |-> {"status"}, dates |-> FALSE, amounts |-> FALSE]

InsightsPage ==
    [list |-> "insights-anomalies", handsOn |-> {"institutionId"},
     selects |-> {"institutionId"}, dates |-> FALSE, amounts |-> FALSE]

PageOf(r) ==
    CASE r = "journal"        -> JournalPage
      [] r = "transactions"   -> TransactionsPage
      [] r = "audit"          -> AuditPage
      [] r = "commitments"    -> CommitmentsPage
      [] r = "reconciliation" -> ReconciliationPage
      [] r = "ingestion"      -> IngestionPage
      [] r = "accounts"       -> AccountsPage
      [] r = "balances"       -> BalancesPage
      [] r = "institutions"   -> InstitutionsPage
      [] r = "insights"       -> InsightsPage

Dates == {"dateFrom", "dateTo"}

\* A link has parameters that the page reads; pages, sizes and dates make sense.
ASSUME LinksAssumption ==
    \A r \in Routes : \A params \in Links[r] :
        /\ DOMAIN params \subseteq PageOf(r).handsOn \cup Paging
        /\ \A key \in DOMAIN params \cap (Paging \cup Dates) : params[key] \in Int

\* The query of a page: its list, the filters it hands on, page and page size.
Query ==
    [list |-> PageOf(route).list,
     filter |-> [key \in (PageOf(route).handsOn \cap DOMAIN url) \cup Paging |->
                    CASE key = "page" -> Page
                      [] key = "pageSize" -> PageSize
                      [] OTHER -> url[key]]]

Fetch(api, query, rows) ==
    CASE query.list = "journal-entries"    -> ListJournalEntries(api, query.filter, rows)
      [] query.list = "transactions"       -> ListTransactions(api, query.filter, rows)
      [] query.list = "audit-events"       -> ListAuditEvents(api, query.filter, rows)
      [] query.list = "commitments"        -> ListCommitments(api, query.filter, rows)
      [] query.list = "reconciliation"     -> ListReconciliation(api, query.filter, rows)
      [] query.list = "staging-records"    -> ListStagingRecords(api, query.filter, rows)
      [] query.list = "accounts"           -> ListAccounts(api, query.filter, rows)
      [] query.list = "balances"           -> ListBalances(api, query.filter, rows)
      [] query.list = "institutions"       -> ListInstitutions(api, query.filter, rows)
      [] query.list = "insights-anomalies" -> GetAnomalies(api, query.filter, rows)

-----------------------------------------------------------------------------
(* DataTable. *)

PageCount(total, size) == Max({1, (total + size - 1) \div size})

Pending == Query \notin DOMAIN answers
Answer  == answers[Query]

-----------------------------------------------------------------------------
Nothing == [q \in {} |-> Failed]

Init ==
    /\ stored \in 0..Len(Columns)
    /\ closed = {}
    /\ route \in Routes
    /\ url = Nothing
    /\ asked = {Query}
    /\ answers = Nothing

\* The page is rendered with other parameters: its query is sent unless it is
\* answered or on its way.
Show(params) ==
    /\ Cardinality(asked) < MaxAsked
    /\ Cardinality(DOMAIN params \ Paging) <= MaxFilters
    /\ UNCHANGED <<stored, closed, route>>
    /\ url' = params
    /\ answers' = Restrict(answers, DOMAIN answers \cap {Query'})
    /\ asked' = IF Query' \in DOMAIN answers THEN asked ELSE asked \cup {Query'}

\* The page is opened: from the sidebar, without parameters, or by a link.
\* (Bound: what was asked and answered before is forgotten.  Pages have nothing
\* else in common, so that a behaviour stays on one.)
Visit(params) ==
    /\ UNCHANGED <<stored, closed, route>>
    /\ url' = params
    /\ answers' = Nothing
    /\ asked' = {Query'}

\* The state is in the URL and survives a reload.
Reload == Visit(url)

\* The options of a dropdown: those of the source systems are gathered from the
\* rows on display.
Options(key) ==
    IF key # "sourceSystem" THEN Picks[key]
    ELSE (IF key \in DOMAIN url THEN {url[key]} ELSE {})
         \cup (IF Pending THEN {} ELSE {Columns[i].sourceSystem : i \in Range(Answer.rows)})

\* SelectFilter: a value, or all.
SelectOption(key) ==
    /\ key \in PageOf(route).selects
    /\ \E value \in Options(key) \cup {Unset} : Show(SetFilter(url, key, value))

\* DateRangeFilter: a range of the calendar, inclusive, or none.
PickRange ==
    /\ PageOf(route).dates
    /\ \E from, to \in Picks.date :
        /\ from <= to
        /\ Show(SetTwoFilters(url, "dateFrom", from, "dateTo", to))

ClearRange ==
    /\ PageOf(route).dates
    /\ "dateFrom" \in DOMAIN url
    /\ Show(SetTwoFilters(url, "dateFrom", Unset, "dateTo", Unset))

\* Empty and negative input is no bound.
ToMinor(typed) == IF typed = Unset \/ typed < 0 THEN Unset ELSE typed

\* AmountFilter.apply.  (Operator and inputs are drafts that only it reads:
\* they are chosen when it is applied.)
ApplyAmount ==
    /\ PageOf(route).amounts
    /\ \E primary, secondary \in Typed :
        LET value == ToMinor(primary)
            upper == ToMinor(secondary)
        IN  \E bounds \in {<<value, Unset>>, <<Unset, value>>, <<value, value>>, <<value, upper>>} :
              Show(SetTwoFilters(url, "amountGte", bounds[1], "amountLte", bounds[2]))

ClearAmount ==
    /\ PageOf(route).amounts
    /\ {"amountGte", "amountLte"} \cap DOMAIN url # {}
    /\ Show(SetTwoFilters(url, "amountGte", Unset, "amountLte", Unset))

PreviousPage == ~Pending /\ Page > 1 /\ Show(SetPage(url, Page - 1))

NextPage ==
    /\ ~Pending
    /\ Page < PageCount(Answer.total, PageSize)
    /\ Show(SetPage(url, Page + 1))

ChoosePageSize == \E size \in PageSizeOptions : Show(SetPageSize(url, size))

\* The page is looked at again after a while: its answer is stale.
Refetch ==
    /\ ~Pending
    /\ Query \notin asked
    /\ Cardinality(asked) < MaxAsked
    /\ asked' = asked \cup {Query}
    /\ UNCHANGED <<stored, closed, route, url, answers>>

\* An answer is kept under its query, whatever is on display by then.  (Bound:
\* it is forgotten unless its query is on display.)
Receive(query, answer) ==
    /\ asked' = asked \ {query}
    /\ answers' = IF query = Query THEN [q \in {query} |-> answer] ELSE answers
    /\ UNCHANGED <<stored, closed, route, url>>

\* The answer; current until the server changes.
Answered(query) ==
    LET result == Fetch(TRUE, query, List)
    IN  [ok |-> result.ok, total |-> result.total, current |-> TRUE,
         rows |-> [k \in DOMAIN result.rows |-> result.rows[k].id]]

AnswerArrives(query) == Receive(query, Answered(query))

Unreachable(query) ==
    Receive(query, [ok |-> FALSE, total |-> 0, current |-> TRUE, rows |-> <<>>])

Outdated == [q \in DOMAIN answers |-> [answers[q] EXCEPT !.current = FALSE]]

Store ==
    /\ stored < Len(Columns)
    /\ stored' = stored + 1
    /\ answers' = Outdated
    /\ UNCHANGED <<closed, route, url, asked>>

Close(i) ==
    /\ route = "commitments"     \* seen on no other page
    /\ i \in Closing \ closed
    /\ i <= stored
    /\ closed' = closed \cup {i}
    /\ answers' = Outdated
    /\ UNCHANGED <<stored, route, url, asked>>

TabNext ==
    \/ \E params \in Links[route] \cup {Nothing} : Visit(params)
    \/ Reload
    \/ \E key \in DOMAIN Picks : SelectOption(key)
    \/ PickRange \/ ClearRange
    \/ ApplyAmount \/ ClearAmount
    \/ PreviousPage \/ NextPage \/ ChoosePageSize
    \/ Refetch
    \/ \E query \in asked : AnswerArrives(query) \/ Unreachable(query)

ServerNext == Store \/ \E i \in Closing : Close(i)

Next == TabNext \/ ServerNext

Spec == Init /\ [][Next]_vars

-----------------------------------------------------------------------------
(* Properties. *)

TypeOK ==
    /\ stored \in 0..Len(Columns)
    /\ closed \subseteq Closing
    /\ route \in Routes
    /\ Page \in Nat \ {0}
    /\ PageSize \in Nat \ {0}
    /\ DOMAIN url \subseteq PageOf(route).handsOn \cup Paging
    /\ \A query \in asked \cup DOMAIN answers : query.list = PageOf(route).list
    /\ \A query \in DOMAIN answers : Range(answers[query].rows) \subseteq 1..stored

\* The parameters that the controls of the page write.
Written ==
    PageOf(route).selects
        \cup (IF PageOf(route).dates THEN {"dateFrom", "dateTo"} ELSE {})
        \cup (IF PageOf(route).amounts THEN {"amountGte", "amountLte"} ELSE {})

\* Those that they display: without a first day the range control says "Any time"
\* and has no button to clear it.
Displayed == IF "dateFrom" \in DOMAIN url THEN Written ELSE Written \ {"dateTo"}

PassingOf(keys) ==
    Filter(List, {row \in Range(List) : \A key \in keys \cap DOMAIN url : Test(key, url[key], row)})

Passing == PassingOf(Written)

\* No filter is a 0, which the path builders take for no filter.
NoZero == \A key \in DOMAIN url \ Paging : Given(url, key)

UpToDate == ~Pending /\ Answer.ok /\ Answer.current

\* An up-to-date table shows its page of these rows.
Shows(passing) ==
    LET before == (Page - 1) * PageSize
    IN  UpToDate /\ NoZero /\ Page <= PageCount(Len(passing), PageSize) =>
            /\ Answer.total = Len(passing)
            /\ Len(Answer.rows) = Min({PageSize, Len(passing) - before})
            /\ \A k \in DOMAIN Answer.rows : Answer.rows[k] = passing[before + k].id

\* From the URL to the table nothing is dropped: the rows are those that pass each
\* filter in the URL, cut at its page and page size, whatever query key, path and
\* SQL make of it, and a late answer to an earlier query is not shown for the
\* present one.  (The pages, the path builders, use-treasury.ts.)  It says nothing
\* of the way from the controls to the URL.
TableAnswersUrl == Shows(Passing)

\* The rows are those that pass what the controls display.  (The way from the
\* controls to the URL: filters.tsx, setFilter.)  This is not so: a range that is
\* picked where none was leaves its last day alone in the URL.
TableAnswersControls == Shows(PassingOf(Displayed))

\* A link may lead to any page; these lead to the first.
FirstPageLinks ==
    \A r \in Routes : \A params \in Links[r] : "page" \in DOMAIN params => params.page <= 1

\* No click leads past the last page while rows are only added, or rows change
\* that the filters do not ask about: there the core API answers a total of 0 and
\* the table says that no result matches.
NeverPastEnd ==
    NoZero /\ (closed = {} \/ "status" \notin DOMAIN url)
        => Page <= PageCount(Len(Passing), PageSize)

\* The demo mode answers a query as the API does: two implementations of every
\* filter, a timestamp cut down to its day against a comparison with midnights
\* among them.  (The demo mode has one anomaly whatever is asked, and takes the
\* year of a reconciliation for the beginning of one: 202 is any year from 2020.)
DemoAgrees ==
    LET api  == Fetch(TRUE, Query, List)
        demo == Fetch(FALSE, Query, List)
        wholeYear == "fiscalYear" \in DOMAIN url => url.fiscalYear \in Years
    IN  /\ route # "insights" /\ (route = "reconciliation" => wholeYear)
        /\ api.ok /\ Page <= PageCount(demo.total, PageSize)
        => demo = api
=============================================================================
