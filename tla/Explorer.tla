------------------------------ MODULE Explorer ------------------------------
(***************************************************************************)
(* The explorer of the mobile app (apps/mobile/src/app/(tabs)/explorer.tsx)*)
(* over the public tier: a list without end that fetches page after page,  *)
(* of all institutions or of one.                                          *)
(*                                                                         *)
(* The server is given by what it has published, a variable that only its  *)
(* environment changes.  Its answers may be used again for 30 seconds by a *)
(* shared cache in front of it (Cache-Control of the public tier).         *)
(***************************************************************************)
EXTENDS ListApi

CONSTANTS
    Institutions,    \* what the chips offer
    All,             \* the chip of all institutions: the empty id
    PAGE_SIZE,
    SharedCache      \* whether there is a cache in front of the server

Chips == Institutions \cup {All}

VARIABLES
    published,     \* the rows of the public list, in its order
    institution,   \* the chip that is selected
    pages,         \* pages[chip]: the pages the app has
    fetch,         \* fetch[chip]: nothing, the next page, or all pages anew
    cached         \* answers in the cache, by chip and page

app == <<institution, pages, fetch, cached>>

Idle        == [kind |-> "none", got |-> <<>>]
NextPage    == [kind |-> "next", got |-> <<>>]
AllPages    == [kind |-> "refetch", got |-> <<>>]

-----------------------------------------------------------------------------
\* Parameters that are empty are left out.
BuildQuery(params) == Restrict(params, {key \in DOMAIN params : params[key] # All})

\* publicApi.journalEntries, and (asOf) the list it was cut from.
JournalEntries(chip, page) ==
    LET filter == [institutionId |-> chip]
        list   == Hits(BuildQuery(filter), published)
        answer == ServerList([page |-> page, pageSize |-> PAGE_SIZE], list)
        ids(rows) == [k \in DOMAIN rows |-> rows[k].id]
    IN  [page |-> page, entries |-> ids(answer.rows), total |-> answer.total, asOf |-> ids(list)]

\* What a request for a page is answered, by the cache or by the server.
AnswerTo(chip, page) ==
    IF <<chip, page>> \in DOMAIN cached THEN cached[<<chip, page>>] ELSE JournalEntries(chip, page)

Remember(chip, page) ==
    cached' = IF ~SharedCache THEN cached
              ELSE [key \in DOMAIN cached \cup {<<chip, page>>} |->
                       IF key = <<chip, page>> THEN AnswerTo(chip, page) ELSE cached[key]]

\* (mutant) The last entry is taken for the end of its page.
HasNextPageButOne(last) == last.page * PAGE_SIZE + 1 < last.total

\* getNextPageParam.
HasNextPage(last) == last.page * PAGE_SIZE < last.total

-----------------------------------------------------------------------------
Init ==
    /\ institution = All
    /\ pages = [chip \in Chips |-> <<>>]
    /\ fetch = [chip \in Chips |-> IF chip = All THEN AllPages ELSE Idle]
    /\ cached = [key \in {} |-> Idle]

\* Another chip is another query.  What it has is on display at once; its pages
\* are read anew when there are none, or they are older than 30 seconds.
Select(chip) ==
    /\ chip # institution
    /\ institution' = chip
    /\ \/ fetch' = [fetch EXCEPT ![chip] = IF @.kind = "none" THEN AllPages ELSE @]
       \/ pages[chip] # <<>> /\ UNCHANGED fetch
    /\ UNCHANGED <<pages, cached>>

\* onEndReached: the next page, in place of a refetch that is on its way.
EndReached ==
    /\ pages[institution] # <<>>
    /\ HasNextPage(Last(pages[institution]))
    /\ fetch[institution].kind # "next"
    /\ fetch' = [fetch EXCEPT ![institution] = NextPage]
    /\ UNCHANGED <<institution, pages, cached>>

NextPageArrives(chip) ==
    LET page == Last(pages[chip]).page + 1
    IN  /\ fetch[chip].kind = "next"
        /\ pages' = [pages EXCEPT ![chip] = Append(@, AnswerTo(chip, page))]
        /\ fetch' = [fetch EXCEPT ![chip] = Idle]
        /\ Remember(chip, page)
        /\ UNCHANGED institution

\* A page of a refetch.  The next one follows while there were that many and the
\* last one says that there is more; then all of them replace what the app has.
RefetchedPageArrives(chip) ==
    LET page == Len(fetch[chip].got) + 1
        got  == Append(fetch[chip].got, AnswerTo(chip, page))
        more == page < Len(pages[chip]) /\ HasNextPage(Last(got))
    IN  /\ fetch[chip].kind = "refetch"
        /\ fetch' = [fetch EXCEPT ![chip] = IF more THEN [@ EXCEPT !.got = got] ELSE Idle]
        /\ pages' = IF more THEN pages ELSE [pages EXCEPT ![chip] = got]
        /\ Remember(chip, page)
        /\ UNCHANGED institution

\* The API is not reachable, after a retry too: what the app has stays.
FetchFails(chip) ==
    /\ fetch[chip].kind # "none"
    /\ fetch' = [fetch EXCEPT ![chip] = Idle]
    /\ UNCHANGED <<institution, pages, cached>>

\* Somebody else reads a page through the cache.  (Bound: one of the selected
\* chip, not the first, with entries, and not in the cache already.)
OthersRead(page) ==
    /\ SharedCache
    /\ JournalEntries(institution, page).entries # <<>>
    /\ <<institution, page>> \notin DOMAIN cached
    /\ Remember(institution, page)
    /\ UNCHANGED <<institution, pages, fetch>>

\* max-age has passed.
CacheExpires(key) ==
    /\ cached' = Restrict(cached, DOMAIN cached \ {key})
    /\ UNCHANGED <<institution, pages, fetch>>

Next ==
    \/ \E chip \in Chips : \/ Select(chip) \/ NextPageArrives(chip)
                           \/ RefetchedPageArrives(chip) \/ FetchFails(chip)
    \/ EndReached
    \/ \E page \in 2..Len(published) : OthersRead(page)
    \/ \E key \in DOMAIN cached : CacheExpires(key)

Spec == Init /\ [][Next]_app

-----------------------------------------------------------------------------
(* Properties. *)

Shown == FlattenSeq([k \in DOMAIN pages[institution] |-> pages[institution][k].entries])

AtEnd == pages[institution] # <<>> /\ ~HasNextPage(Last(pages[institution]))

\* What was published before the oldest of the pages was answered.
Known == LET page == pages[institution]
         IN  {id \in Range(page[1].asOf) : \A k \in DOMAIN page : id \in Range(page[k].asOf)}

\* No page is older than the one above it: always so without a cache.
InOrder ==
    LET page == pages[institution]
    IN  \A k \in 1..Len(page) - 1 : Range(page[k].asOf) \subseteq Range(page[k + 1].asOf)

\* As long as pages are answered in order nothing is skipped, although they are
\* cut by number while entries arrive anywhere in the list, fetches fail and are
\* replaced, and chips change; and when no entry arrived in between, the list is
\* shown as it is, each entry once.
ScrollShowsTheList ==
    AtEnd /\ InOrder =>
        LET page == pages[institution]
        IN  /\ Known \subseteq Range(Shown)
            /\ (\A k \in DOMAIN page : page[k].asOf = page[1].asOf) => Shown = page[1].asOf
=============================================================================
