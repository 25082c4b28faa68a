---------------------------- MODULE ConsoleProofs ----------------------------
(***************************************************************************)
(* Theorems about Console, for every set of operations, pages and others:  *)
(* types, what is reported is stored, and what was posted is found.        *)
(***************************************************************************)
EXTENDS Console, TLAPS

\* The answers a list can have.
Answers == {Missing, Error} \cup {Rows(s) : s \in SUBSET Ops}

-----------------------------------------------------------------------------
(* The operators of the cache, which no step below has to open again. *)

\* The cache entries are those records, however they are written down.
LEMMA EntryType ==
    /\ CacheEntries = [data : Answers, fresh : BOOLEAN, fetch : {"none", "sent", "read"}, got : Answers]
    /\ Missing \in Answers /\ Error \in Answers
    /\ \A s \in SUBSET Ops : Rows(s) \in Answers
    /\ Unused \in CacheEntries
BY DEF CacheEntries, Answers, Unused, Missing, Error, Rows

\* Sending a fetch keeps the type, and what was on its way is dropped.
LEMMA SendFacts ==
    ASSUME NEW e \in CacheEntries
    PROVE  /\ Send(e) \in CacheEntries
           /\ Send(e).fetch = "sent"
BY EntryType DEF Send

\* An answer on its way keeps the type.
LEMMA AnswerFacts ==
    ASSUME NEW e \in CacheEntries, NEW a \in Answers
    PROVE  /\ [e EXCEPT !.fetch = "read", !.got = a] \in CacheEntries
           /\ [e EXCEPT !.fetch = "read", !.got = a].got = a
           /\ [e EXCEPT !.fetch = "read", !.got = a].fetch = "read"
BY EntryType

\* A page that is opened leaves a list as it is or sends its fetch; it leaves it
\* as it is only if it is fresh or on its way.
LEMMA MountFacts ==
    ASSUME NEW e \in CacheEntries
    PROVE  /\ Mount(e) \in CacheEntries
           /\ Mount(e) = e \/ Mount(e).fetch = "sent"
           /\ Mount(e) = e => e.fetch # "none" \/ e.fresh
<1>1. CASE e.fetch = "none" /\ ~e.fresh
  <2>1. Mount(e) = Send(e)
    BY <1>1 DEF Mount
  <2>2. Send(e) # e
    BY <1>1, SendFacts
  <2> QED BY <2>1, <2>2, SendFacts
<1>2. CASE ~(e.fetch = "none" /\ ~e.fresh)
  BY <1>2, EntryType DEF Mount
<1> QED BY <1>1, <1>2

\* An invalidated list that is read again is on its way, or marked and not on
\* its way; one that is not read again keeps what it has and loses its freshness.
LEMMA InvalidateFacts ==
    ASSUME NEW e \in CacheEntries, NEW observed
    PROVE  LET i == Invalidate(e, observed)
           IN  /\ i \in CacheEntries
               /\ ReadAgain(e, observed) => \/ i.fetch = "sent"
                                            \/ i.fetch = "none" /\ ~observed /\ ~i.fresh
               /\ ~ReadAgain(e, observed) => i.fetch = e.fetch /\ i.fetch # "none" /\ i.got = e.got
<1> DEFINE marked == [e EXCEPT !.fresh = FALSE]
<1>1. /\ marked \in CacheEntries
      /\ marked.fetch = e.fetch /\ marked.got = e.got /\ marked.data = e.data
      /\ marked.fresh = FALSE
  BY EntryType
<1>2. CASE ~observed
  <2>1. Invalidate(e, observed) = marked
    BY <1>2 DEF Invalidate
  <2> QED BY <1>1, <1>2, <2>1 DEF ReadAgain
<1>3. CASE observed /\ e.data.kind = "none"
  <2>1. Invalidate(e, observed) = Mount(marked)
    BY <1>1, <1>3 DEF Invalidate
  <2>2. CASE e.fetch = "none"
    <3>1. Mount(marked) = Send(marked)
      BY <1>1, <2>2 DEF Mount
    <3> QED BY <1>1, <1>3, <2>1, <2>2, <3>1, SendFacts DEF ReadAgain
  <2>3. CASE e.fetch # "none"
    <3>1. Mount(marked) = marked
      BY <1>1, <2>3 DEF Mount
    <3> QED BY <1>1, <1>3, <2>1, <2>3, <3>1 DEF ReadAgain
  <2> QED BY <2>2, <2>3
<1>4. CASE observed /\ e.data.kind # "none"
  <2>1. Invalidate(e, observed) = Send(marked)
    BY <1>1, <1>4 DEF Invalidate
  <2> QED BY <1>1, <1>4, <2>1, SendFacts DEF ReadAgain
<1> QED BY <1>2, <1>3, <1>4

-----------------------------------------------------------------------------
(* Types. *)

\* What an operation does to cache, when a page is opened or looked at again.
LEMMA MountAllType ==
    ASSUME NEW c \in [Keys -> CacheEntries], NEW shown
    PROVE  [key \in Keys |-> IF key \in shown THEN Mount(c[key]) ELSE c[key]]
               \in [Keys -> CacheEntries]
BY MountFacts

\* The contents of a list are operations.
LEMMA ContentsType ==
    ASSUME stored \in SUBSET Ops
    PROVE  \A list : Contents(list) \in SUBSET Ops
BY DEF Contents

\* The tab is loaded with entries of the type.
LEMMA LoadedType == \A p : Loaded(p) \in [Keys -> CacheEntries]
BY EntryType, SendFacts DEF Loaded

\* After an answer all types are kept, but for the form, which is the caller's.
LEMMA SettleType ==
    ASSUME TypeOK, NEW op \in Ops, Settle(op)
    PROVE  /\ calls' = [calls EXCEPT ![op] = "none"]
           /\ cache' \in [Keys -> CacheEntries]
           /\ due' \in [Keys -> SUBSET Ops]
           /\ stored' = stored /\ session' = session /\ page' = page /\ turns' = turns
<1>1. cache' \in [Keys -> CacheEntries]
  <2>1. \A key \in Keys : cache[key] \in CacheEntries
    BY DEF TypeOK
  <2>2. \A key \in Keys : Invalidate(cache[key], key \in Observed(page)) \in CacheEntries
    BY <2>1, InvalidateFacts, Zenon
  <2> QED BY <2>1, <2>2 DEF Settle
<1>2. due' \in [Keys -> SUBSET Ops]
  BY ContentsType DEF Settle, TypeOK
<1> QED BY <1>1, <1>2 DEF Settle

\* Every step keeps the types, and a form that waits keeps its submission.
LEMMA TypeStep == TypeOK /\ [Next]_vars => TypeOK'
<1> SUFFICES ASSUME TypeOK, [Next]_vars
             PROVE  TypeOK'
  OBVIOUS
<1> USE ConsoleAssumption
<1>1. ASSUME NEW p \in Pages, Visit(p) PROVE TypeOK'
  BY <1>1, MountAllType DEF TypeOK, Visit, Turn, Blank
<1>2. CASE Reload
  BY <1>2, LoadedType DEF TypeOK, Reload, OnTheWay, Turn, Blank
<1>3. CASE Expire
  <2>1. session' \in BOOLEAN
    BY <1>3, Zenon DEF Expire
  <2>2. turns' \in 0..MaxTurns
    BY <1>3 DEF TypeOK, Expire, Turn
  <2> QED BY <1>3, <2>1, <2>2, Zenon DEF TypeOK, Expire
<1>4. CASE Open
  BY <1>4 DEF TypeOK, Open, UnchangedServer
<1>5. CASE Close
  BY <1>5 DEF TypeOK, Close, UnchangedServer
<1>6. CASE Focus
  BY <1>6, MountAllType DEF TypeOK, Focus, UnchangedButCache
<1>7. ASSUME NEW op \in Ops, Type(op) PROVE TypeOK'
  BY <1>7 DEF TypeOK, Type, UnchangedServer
<1>8. ASSUME NEW op \in Ops, Submit(op) PROVE TypeOK'
  BY <1>8 DEF TypeOK, Submit, UnchangedServer, Turn
<1>9. ASSUME NEW op \in Ops, Accept(op) PROVE TypeOK'
  BY <1>9 DEF TypeOK, Accept
<1>10. ASSUME NEW op \in Ops, Refuse(op) PROVE TypeOK'
  BY <1>10 DEF TypeOK, Refuse
<1>11. ASSUME NEW op \in Ops, OtherStores(op) PROVE TypeOK'
  BY <1>11 DEF TypeOK, OtherStores
<1>12. ASSUME NEW op \in Ops, Confirm(op) PROVE TypeOK'
  <2>1. Settle(op)
    BY <1>12 DEF Confirm
  <2>2. /\ form' \in [open : BOOLEAN, draft : Ops \cup {NoOp}, sent : Ops \cup {NoOp}]
        /\ form'.sent # NoOp => form'.sent = form.sent /\ form.sent # op
        /\ confirmed' \in SUBSET Ops /\ adrift' \in SUBSET Ops
    BY <1>12 DEF TypeOK, Confirm, Blank
  <2> QED BY <2>1, <2>2, SettleType DEF TypeOK
<1>13. ASSUME NEW op \in Ops, Deny(op) PROVE TypeOK'
  <2>1. Settle(op)
    BY <1>13 DEF Deny
  <2>2. /\ form' \in [open : BOOLEAN, draft : Ops \cup {NoOp}, sent : Ops \cup {NoOp}]
        /\ form'.sent # NoOp => form'.sent = form.sent /\ form.sent # op
        /\ confirmed' = confirmed /\ adrift' \in SUBSET Ops
    BY <1>13 DEF TypeOK, Deny, OnTheWay
  <2> QED BY <2>1, <2>2, SettleType DEF TypeOK
<1>14. ASSUME NEW key \in Keys, Read(key) PROVE TypeOK'
  <2>1. (IF session THEN Rows(Contents(ListOf(key))) ELSE Error) \in Answers
    BY ContentsType, EntryType DEF TypeOK
  <2>2. PICK a \in Answers : cache' = [cache EXCEPT ![key] = [@ EXCEPT !.fetch = "read", !.got = a]]
    BY <1>14, <2>1, Zenon DEF Read
  <2>3. [cache[key] EXCEPT !.fetch = "read", !.got = a] \in CacheEntries
    BY AnswerFacts DEF TypeOK
  <2>4. cache' \in [Keys -> CacheEntries]
    BY <2>2, <2>3 DEF TypeOK
  <2> QED BY <1>14, <2>4 DEF TypeOK, Read, UnchangedButCache
<1>15. ASSUME NEW key \in Keys, Unreachable(key) PROVE TypeOK'
  <2>1. [cache[key] EXCEPT !.fetch = "read", !.got = Error] \in CacheEntries
    BY EntryType, AnswerFacts DEF TypeOK
  <2>2. cache' \in [Keys -> CacheEntries]
    BY <1>15, <2>1 DEF TypeOK, Unreachable
  <2> QED BY <1>15, <2>2 DEF TypeOK, Unreachable, UnchangedButCache, Turn
<1>16. ASSUME NEW key \in Keys, Land(key) PROVE TypeOK'
  <2>1. [data |-> cache[key].got, fresh |-> TRUE, fetch |-> "none", got |-> Missing]
            \in CacheEntries
    BY EntryType DEF TypeOK
  <2>2. cache' \in [Keys -> CacheEntries]
    BY <1>16, <2>1 DEF TypeOK, Land
  <2>3. UNCHANGED <<stored, session, page, form, calls, adrift, confirmed, due, turns>>
    BY <1>16 DEF Land, UnchangedButCache
  <2> QED BY <2>2, <2>3 DEF TypeOK
<1>17. ASSUME NEW key \in Keys, Age(key) PROVE TypeOK'
  <2>0. cache[key] \in CacheEntries
    BY DEF TypeOK
  <2>1. [cache[key] EXCEPT !.fresh = FALSE] \in CacheEntries
    BY <2>0, EntryType
  <2>2. cache' = [cache EXCEPT ![key] = [cache[key] EXCEPT !.fresh = FALSE]]
    BY <1>17 DEF Age
  <2>3. cache' \in [Keys -> CacheEntries]
    BY <2>1, <2>2 DEF TypeOK
  <2>4. UNCHANGED <<stored, session, page, form, calls, adrift, confirmed, due>> /\ turns' \in 0..MaxTurns
    BY <1>17 DEF Age, UnchangedButCache, Turn, TypeOK
  <2> QED BY <2>3, <2>4 DEF TypeOK
<1>18. ASSUME NEW op \in Ops, LateArrives(op) PROVE TypeOK'
  BY <1>18 DEF TypeOK, LateArrives
<1>19. CASE UNCHANGED vars
  BY <1>19 DEF TypeOK, vars
<1> QED
  BY <1>1, <1>2, <1>3, <1>4, <1>5, <1>6, <1>7, <1>8, <1>9, <1>10, <1>11, <1>12, <1>13,
     <1>14, <1>15, <1>16, <1>17, <1>18, <1>19 DEF Next

\* The values of the variables; and a form that waits has a submission to wait
\* for, so that its button comes back to life.
THEOREM ConsoleTypeCorrect == Spec => []TypeOK
<1>1. Init => TypeOK
  BY ConsoleAssumption, LoadedType DEF Init, TypeOK, Blank
<1> QED BY <1>1, TypeStep, PTL DEF Spec

-----------------------------------------------------------------------------
(* What is reported is stored. *)

\* A submission that is answered with success is stored, and stays so.
AcceptedIsStored == \A op \in Ops : calls[op] = "accepted" => op \in stored

ReportInv == TypeOK /\ AcceptedIsStored /\ ConfirmedIsStored

\* No step reports, or accepts, what is not stored.
LEMMA ReportStep == ReportInv /\ [Next]_vars => ReportInv'
<1> SUFFICES ASSUME ReportInv, [Next]_vars
             PROVE  AcceptedIsStored' /\ ConfirmedIsStored'
  BY TypeStep DEF ReportInv
<1> USE DEF ReportInv, AcceptedIsStored, ConfirmedIsStored
<1>1. ASSUME NEW op \in Ops, Accept(op) PROVE AcceptedIsStored' /\ ConfirmedIsStored'
  BY <1>1 DEF Accept, TypeOK
<1>2. ASSUME NEW op \in Ops, Refuse(op) PROVE AcceptedIsStored' /\ ConfirmedIsStored'
  BY <1>2 DEF Refuse, TypeOK
<1>3. ASSUME NEW op \in Ops, Submit(op) PROVE AcceptedIsStored' /\ ConfirmedIsStored'
  BY <1>3 DEF Submit, UnchangedServer, TypeOK
<1>4. ASSUME NEW op \in Ops, OtherStores(op) PROVE AcceptedIsStored' /\ ConfirmedIsStored'
  BY <1>4 DEF OtherStores
<1>5. ASSUME NEW op \in Ops, LateArrives(op) PROVE AcceptedIsStored' /\ ConfirmedIsStored'
  BY <1>5 DEF LateArrives
<1>6. ASSUME NEW op \in Ops, Confirm(op) PROVE AcceptedIsStored' /\ ConfirmedIsStored'
  <2>1. Settle(op) /\ op \in stored /\ confirmed' = confirmed \cup {op}
    BY <1>6 DEF Confirm
  <2> QED BY <2>1, SettleType DEF TypeOK
<1>7. ASSUME NEW op \in Ops, Deny(op) PROVE AcceptedIsStored' /\ ConfirmedIsStored'
  <2>1. Settle(op) /\ confirmed' = confirmed
    BY <1>7 DEF Deny
  <2> QED BY <2>1, SettleType DEF TypeOK
<1>8. CASE Reload
  BY <1>8 DEF Reload
<1>9. CASE UNCHANGED <<stored, calls, confirmed>>
  BY <1>9
<1> QED
  BY <1>1, <1>2, <1>3, <1>4, <1>5, <1>6, <1>7, <1>8, <1>9
     DEF Next, Visit, Expire, Open, Close, Focus, Type, Read, Unreachable, Land, Age,
         UnchangedServer, UnchangedButCache, vars

\* What is reported as done is done: the report is about the operation that was
\* submitted, also when the form has been edited, closed or left since.
THEOREM ReportsAreTrue == Spec => []ConfirmedIsStored
<1>1. Init => ReportInv
  BY ConsoleAssumption, LoadedType DEF Init, ReportInv, TypeOK, Blank, AcceptedIsStored, ConfirmedIsStored
<1>2. ReportInv => ConfirmedIsStored
  BY DEF ReportInv
<1> QED BY <1>1, <1>2, ReportStep, PTL DEF Spec

-----------------------------------------------------------------------------
(* What was posted is found. *)

\* An entry of the cache holds what is due, or will when its answer lands: rows
\* on their way hold it; rows at rest hold it when they are shown.
Holds(e, d, observed) ==
    /\ e.fetch = "read" /\ e.got.kind = "rows" => d \subseteq e.got.rows
    /\ e.fetch = "none" /\ (observed \/ e.fresh) /\ e.data.kind = "rows"
           => d \subseteq e.data.rows

DueIsStored == \A key \in Keys : due[key] \subseteq Contents(ListOf(key))

DueIsHeld == \A key \in Keys : Holds(cache[key], due[key], key \in Observed(page))

ReadInv == TypeOK /\ DueIsStored /\ DueIsHeld

\* Opening a page, or leaving it, loses nothing: what is shown without a fetch is
\* fresh, and what is fresh holds what is due.
LEMMA HoldsWhenOpened ==
    ASSUME NEW e \in CacheEntries, NEW d, NEW observed, NEW anew, Holds(e, d, observed)
    PROVE  Holds(Mount(e), d, anew) /\ Holds(e, d, FALSE)
BY MountFacts DEF Holds

\* An invalidated list that is read again holds whatever is due from now on; one
\* whose first fetch is on its way holds what was due before.
LEMMA HoldsWhenInvalidated ==
    ASSUME NEW e \in CacheEntries, NEW d, NEW new, NEW observed, Holds(e, d, observed)
    PROVE  Holds(Invalidate(e, observed), IF ReadAgain(e, observed) THEN new ELSE d, observed)
<1>1. CASE ReadAgain(e, observed)
  BY <1>1, InvalidateFacts DEF Holds
<1>2. CASE ~ReadAgain(e, observed)
  BY <1>2, InvalidateFacts DEF Holds
<1> QED BY <1>1, <1>2

\* The lists the hooks promise to refresh are the lists they invalidate.
LEMMA PromiseIsKept ==
    ASSUME NEW op \in Ops
    PROVE  Writes(Kind[op]) \ (IF Kind[op] = "commitment" THEN {"audit-events"} ELSE {})
             \subseteq Invalidated(Kind[op])
BY ConsoleAssumption
   DEF Writes, Invalidated, UsePostJournalEntry, UseCreateCommitment, UseCreateTransaction

\* An answer makes more due only of lists it has read again.
LEMMA SettleHolds ==
    ASSUME ReadInv, NEW op \in Ops, Settle(op)
    PROVE  DueIsStored' /\ DueIsHeld'
<1> DEFINE hit(key) == ListOf(key) \in Invalidated(Kind[op])
<1> DEFINE promised == Writes(Kind[op]) \ (IF Kind[op] = "commitment" THEN {"audit-events"} ELSE {})
<1>1. /\ stored' = stored /\ page' = page
      /\ \A key \in Keys : Contents(ListOf(key))' = Contents(ListOf(key))
  BY DEF Settle, Contents
<1>2. ASSUME NEW key \in Keys
      PROVE  /\ due[key]' \subseteq Contents(ListOf(key))
             /\ Holds(cache[key]', due[key]', key \in Observed(page))
  <2> DEFINE e == cache[key]
  <2> DEFINE observed == key \in Observed(page)
  <2>1. e \in CacheEntries /\ Holds(e, due[key], observed) /\ due[key] \subseteq Contents(ListOf(key))
    BY DEF ReadInv, TypeOK, DueIsHeld, DueIsStored
  <2>2. cache[key]' = IF hit(key) THEN Invalidate(e, observed) ELSE e
    BY DEF Settle
  <2>3. due[key]' = IF ListOf(key) \in promised /\ ReadAgain(e, observed)
                    THEN Contents(ListOf(key)) ELSE due[key]
    BY DEF Settle
  <2>4. CASE ListOf(key) \in promised /\ ReadAgain(e, observed)
    <3>1. hit(key)
      BY <2>4, PromiseIsKept
    <3>2. Holds(Invalidate(e, observed), Contents(ListOf(key)), observed)
      BY <2>1, <2>4, HoldsWhenInvalidated
    <3> QED BY <2>2, <2>3, <2>4, <3>1, <3>2
  <2>5. CASE ~(ListOf(key) \in promised /\ ReadAgain(e, observed))
    <3>1. Holds(Invalidate(e, observed), due[key], observed)
      BY <2>1, HoldsWhenInvalidated
    <3> QED BY <2>1, <2>2, <2>3, <2>5, <3>1
  <2> QED BY <2>4, <2>5
<1> QED BY <1>1, <1>2 DEF DueIsStored, DueIsHeld

\* A step on one list that holds what is due leaves the others alone.
LEMMA OneListHolds ==
    ASSUME ReadInv, NEW key \in Keys, NEW e, Holds(e, due[key], key \in Observed(page)),
           cache' = [cache EXCEPT ![key] = e], UNCHANGED <<stored, page, due>>
    PROVE  DueIsStored' /\ DueIsHeld'
<1>1. DueIsStored'
  BY DEF ReadInv, DueIsStored, Contents
<1>2. ASSUME NEW other \in Keys
      PROVE  Holds(cache'[other], due[other], other \in Observed(page))
  <2>1. CASE other = key
    BY <2>1 DEF ReadInv, TypeOK
  <2>2. CASE other # key
    <3>1. cache'[other] = cache[other]
      BY <2>2 DEF ReadInv, TypeOK
    <3> QED BY <3>1 DEF ReadInv, DueIsHeld
  <2> QED BY <2>1, <2>2
<1> QED BY <1>1, <1>2 DEF DueIsHeld

\* What the server stores besides is no harm: a list may hold more than is due.
LEMMA StoringHolds ==
    ASSUME ReadInv, stored \subseteq stored', UNCHANGED <<page, cache, due>>
    PROVE  DueIsStored' /\ DueIsHeld'
<1>1. \A key \in Keys : Contents(ListOf(key)) \subseteq Contents(ListOf(key))'
  BY DEF Contents
<1> QED BY <1>1 DEF ReadInv, DueIsStored, DueIsHeld

\* No step gives up what is due.
LEMMA ReadStep == ReadInv /\ [Next]_vars => ReadInv'
<1> SUFFICES ASSUME ReadInv, [Next]_vars
             PROVE  DueIsStored' /\ DueIsHeld'
  BY TypeStep DEF ReadInv
<1>e. \A key \in Keys : /\ cache[key] \in CacheEntries
                        /\ Holds(cache[key], due[key], key \in Observed(page))
  BY DEF ReadInv, TypeOK, DueIsHeld
<1>1. ASSUME NEW p \in Pages, Visit(p) PROVE DueIsStored' /\ DueIsHeld'
  <2>1. UNCHANGED <<stored, due>> /\ page' = p
    BY <1>1 DEF Visit
  <2>2. ASSUME NEW key \in Keys PROVE Holds(cache'[key], due[key], key \in Observed(p))
    <3>1. cache'[key] = IF key \in Observed(p) THEN Mount(cache[key]) ELSE cache[key]
      BY <1>1 DEF Visit
    <3>2. /\ Holds(Mount(cache[key]), due[key], key \in Observed(p))
          /\ Holds(cache[key], due[key], FALSE)
      BY <1>e, HoldsWhenOpened
    <3>3. CASE key \in Observed(p)
      BY <3>1, <3>2, <3>3
    <3>4. CASE key \notin Observed(p)
      <4>1. (key \in Observed(p)) = FALSE
        BY <3>4
      <4> QED BY <3>1, <3>2, <3>4, <4>1
    <3> QED BY <3>3, <3>4
  <2> QED BY <2>1, <2>2 DEF ReadInv, DueIsStored, DueIsHeld, Contents
<1>2. CASE Reload
  <2>1. due' = [key \in Keys |-> {}] /\ cache' = Loaded(page) /\ page' = page
    BY <1>2 DEF Reload
  <2>2. ASSUME NEW key \in Keys PROVE Holds(cache'[key], {}, key \in Observed(page))
    BY DEF Holds
  <2> QED BY <2>1, <2>2 DEF DueIsStored, DueIsHeld
<1>3. CASE Focus
  <2>1. UNCHANGED <<stored, due, page>>
    BY <1>3 DEF Focus, UnchangedButCache
  <2>2. ASSUME NEW key \in Keys PROVE Holds(cache'[key], due[key], key \in Observed(page))
    <3>1. cache'[key] = IF key \in Observed(page) THEN Mount(cache[key]) ELSE cache[key]
      BY <1>3 DEF Focus
    <3>2. Holds(Mount(cache[key]), due[key], key \in Observed(page))
      BY <1>e, HoldsWhenOpened
    <3> QED BY <1>e, <3>1, <3>2
  <2> QED BY <2>1, <2>2 DEF ReadInv, DueIsStored, DueIsHeld, Contents
<1>4. ASSUME NEW op \in Ops, Accept(op) \/ OtherStores(op) \/ LateArrives(op) PROVE DueIsStored' /\ DueIsHeld'
  BY <1>4, StoringHolds DEF Accept, OtherStores, LateArrives
<1>5. ASSUME NEW op \in Ops, Confirm(op) \/ Deny(op) PROVE DueIsStored' /\ DueIsHeld'
  BY <1>5, SettleHolds DEF Confirm, Deny
<1>6. ASSUME NEW key \in Keys, Read(key) PROVE DueIsStored' /\ DueIsHeld'
  <2> DEFINE got == IF session THEN Rows(Contents(ListOf(key))) ELSE Error
  <2> DEFINE e == [cache[key] EXCEPT !.fetch = "read", !.got = got]
  <2>1. got \in Answers
    BY ContentsType, EntryType DEF ReadInv, TypeOK
  <2>2. e.fetch = "read" /\ e.got = got
    BY <1>e, <2>1, AnswerFacts
  <2>3. got.kind = "rows" => due[key] \subseteq got.rows
    BY DEF Rows, Error, ReadInv, DueIsStored
  <2>4. Holds(e, due[key], key \in Observed(page))
    BY <2>2, <2>3 DEF Holds
  <2>5. cache' = [cache EXCEPT ![key] = e] /\ UNCHANGED <<stored, page, due>>
    BY <1>6 DEF Read, UnchangedButCache
  <2> QED BY <2>4, <2>5, OneListHolds
<1>7. ASSUME NEW key \in Keys, Unreachable(key) PROVE DueIsStored' /\ DueIsHeld'
  <2> DEFINE e == [cache[key] EXCEPT !.fetch = "read", !.got = Error]
  <2>1. e.fetch = "read" /\ e.got = Error
    BY <1>e, EntryType, AnswerFacts
  <2>2. Holds(e, due[key], key \in Observed(page))
    BY <2>1 DEF Holds, Error
  <2>3. cache' = [cache EXCEPT ![key] = e] /\ UNCHANGED <<stored, page, due>>
    BY <1>7 DEF Unreachable, UnchangedButCache
  <2> QED BY <2>2, <2>3, OneListHolds
<1>8. ASSUME NEW key \in Keys, Land(key) PROVE DueIsStored' /\ DueIsHeld'
  <2> DEFINE e == [data |-> cache[key].got, fresh |-> TRUE, fetch |-> "none", got |-> Missing]
  <2>1. Holds(e, due[key], key \in Observed(page))
    BY <1>8, <1>e DEF Holds, Land
  <2>2. cache' = [cache EXCEPT ![key] = e] /\ UNCHANGED <<stored, page, due>>
    BY <1>8 DEF Land, UnchangedButCache
  <2> QED BY <2>1, <2>2, OneListHolds
<1>9. ASSUME NEW key \in Keys, Age(key) PROVE DueIsStored' /\ DueIsHeld'
  <2> DEFINE e == [cache[key] EXCEPT !.fresh = FALSE]
  <2>1. e.fresh = FALSE /\ \A field \in {"data", "fetch", "got"} : e[field] = cache[key][field]
    BY <1>e, EntryType
  <2>2. Holds(e, due[key], key \in Observed(page))
    BY <1>e, <2>1 DEF Holds
  <2>3. cache' = [cache EXCEPT ![key] = e] /\ UNCHANGED <<stored, page, due>>
    BY <1>9 DEF Age, UnchangedButCache
  <2> QED BY <2>2, <2>3, OneListHolds
<1>10. CASE UNCHANGED <<stored, page, cache, due>>
  BY <1>10, StoringHolds
<1> QED
  BY <1>1, <1>2, <1>3, <1>4, <1>5, <1>6, <1>7, <1>8, <1>9, <1>10
     DEF Next, Expire, Open, Close, Type, Submit, Refuse, UnchangedServer, vars

\* A list at rest holds everything that was stored when an answer of this tab last
\* touched it, whatever has been fetched, lost, left or posted since.
THEOREM WritesAreRead == Spec => []ReadYourWrites
<1>1. Init => ReadInv
  <2> SUFFICES ASSUME Init PROVE ReadInv
    OBVIOUS
  <2>1. TypeOK
    BY ConsoleAssumption, LoadedType DEF Init, TypeOK, Blank
  <2>2. \A key \in Keys : due[key] = {}
    BY DEF Init
  <2> QED BY <2>1, <2>2 DEF ReadInv, DueIsStored, DueIsHeld, Holds
<1>2. ReadInv => ReadYourWrites
  BY DEF ReadInv, DueIsHeld, Holds, ReadYourWrites
<1> QED BY <1>1, <1>2, ReadStep, PTL DEF Spec
=============================================================================
