---------------------------- MODULE ClientsProofs ----------------------------
(***************************************************************************)
(* Proofs about the lists of the clients: the tables of the web client     *)
(* (WebTables) and the explorer of the phone (Explorer).                   *)
(***************************************************************************)
EXTENDS Clients, CollectionProofs

-----------------------------------------------------------------------------
(* The list of the server. *)

Numbered == 1..Len(Columns)

\* The newer of two rows comes first, or the later stored of one date.
LEMMA NewerOrders ==
    /\ WeakOrder(Newer, Numbered)
    /\ \A i, j \in Numbered : i # j => <<i, j>> \in Newer \/ <<j, i>> \in Newer
    /\ \A i \in Numbered : <<i, i>> \notin Newer
    /\ \A i, j, k \in Numbered : <<i, j>> \in Newer /\ <<j, k>> \in Newer => <<i, k>> \in Newer
<1> DEFINE before(i, j) == \/ Columns[i].date > Columns[j].date
                           \/ Columns[i].date = Columns[j].date /\ i > j
<1>1. \A i, j \in Numbered : <<i, j>> \in Newer <=> before(i, j)
  BY DEF Newer, Numbered
<1>2. \A i \in Numbered : i \in Int /\ Columns[i].date \in Int
  BY ColumnsAssumption DEF Numbered
<1>3. \A i, j \in Numbered : before(i, j) => ~ before(j, i)
  BY <1>2
<1>4. \A i, j \in Numbered : i # j => before(i, j) \/ before(j, i)
  BY <1>2
<1>5. \A i, j, k \in Numbered : before(i, j) /\ before(j, k) => before(i, k)
  BY <1>2
<1> HIDE DEF before
<1>6. \A i \in Numbered : ~ before(i, i)
  BY <1>3
<1>7. \A i, j, k \in Numbered : ~ before(i, j) /\ ~ before(j, k) => ~ before(i, k)
  BY <1>3, <1>4, <1>5
<1> QED BY <1>1, <1>3, <1>4, <1>5, <1>6, <1>7 DEF WeakOrder

\* All rows, the newest first.
LEMMA OrderIs ==
    /\ Order \in Seq(Numbered)
    /\ Range(Order) = Numbered
    /\ Ordered(Order, Newer)
<1> DEFINE s == [i \in 1..Len(Columns) |-> i]
<1>1. s \in Seq(Numbered) /\ DOMAIN s = Numbered
  BY ColumnsAssumption DEF Numbered
<1>2. PICK p \in Bijection(DOMAIN s, DOMAIN s) :
         /\ Sorted(s, Newer) = [k \in DOMAIN s |-> s[p[k]]]
         /\ \A k, l \in DOMAIN s : k < l => p[k] \in Ahead(s, Newer, p[l])
  <2>1. WeakOrder(Newer, Numbered)
    BY NewerOrders
  <2> HIDE DEF s
  <2> QED BY <1>1, <2>1, SortedPlaces
<1>3. /\ p \in [Numbered -> Numbered] /\ \A k, l \in Numbered : p[k] = p[l] => k = l
      /\ \A i \in Numbered : \E k \in Numbered : p[k] = i
  BY <1>1, <1>2, Fun_BijectionProperties
<1>4. DOMAIN Order = Numbered /\ \A k \in Numbered : Order[k] = p[k]
  BY <1>1, <1>2, <1>3 DEF Order, Numbered
<1>5. Order \in Seq(Numbered)
  <2>1. Order \in [1..Len(Columns) -> Numbered] /\ Len(Columns) \in Nat
    BY <1>1, <1>2, <1>3, <1>4, ColumnsAssumption DEF Order, Numbered
  <2> QED BY <2>1
<1>6. Range(Order) = Numbered
  BY <1>3, <1>4 DEF Range
<1>7. ASSUME NEW k \in Numbered, NEW l \in Numbered, k < l
      PROVE  <<Order[k], Order[l]>> \in Newer
  <2>1. p[k] \in Numbered /\ p[l] \in Numbered /\ p[k] # p[l] /\ p[k] \in Ahead(s, Newer, p[l])
    <3>1. k # l
      BY <1>7 DEF Numbered
    <3> QED BY <1>1, <1>2, <1>3, <1>7, <3>1
  <2>2. \/ <<s[p[k]], s[p[l]]>> \in Newer
        \/ <<s[p[l]], s[p[k]]>> \notin Newer
    BY <2>1 DEF Ahead
  <2>3. s[p[k]] = p[k] /\ s[p[l]] = p[l]
    BY <2>1 DEF Numbered
  <2> QED BY <1>4, <2>1, <2>2, <2>3, NewerOrders
<1> QED BY <1>4, <1>5, <1>6, <1>7 DEF Ordered

\* The rows of the server.
Rows == {Row(i) : i \in 1..stored}

\* The ids of some rows.
Ids(rows) == [k \in DOMAIN rows |-> rows[k].id]

\* The list has the rows that are stored.
LEMMA ListIs ==
    ASSUME stored \in 0..Len(Columns)
    PROVE  /\ List \in Seq(Rows) /\ Range(List) = Rows
           /\ \A i \in 1..stored : Row(i).id = i
           /\ Ordered(Ids(List), Newer)
<1> DEFINE order == Filter(Order, 1..stored)
<1>1. 1..stored \subseteq Numbered /\ stored \in Nat
  BY ColumnsAssumption DEF Numbered
<1>2. order \in Seq(1..stored) /\ Range(order) = 1..stored /\ Ordered(order, Newer)
  <2>1. order \in Seq(Numbered \cap 1..stored)
    BY OrderIs, FilterType
  <2>2. Numbered \cap 1..stored = 1..stored
    BY <1>1
  <2>3. Range(order) = 1..stored
    <3>1. Range(order) = Numbered \cap 1..stored
      BY OrderIs, FilterRange
    <3> QED BY <2>2, <3>1
  <2>4. Ordered(order, Newer)
    BY OrderIs, FilterOrdered
  <2> HIDE DEF order
  <2> QED BY <2>1, <2>2, <2>3, <2>4
<1>3. ASSUME NEW i \in 1..stored PROVE Row(i).id = i
  <2>1. Columns[i].id = i /\ "id" \in DOMAIN Columns[i]
    BY <1>1, ColumnsAssumption DEF Numbered
  <2> QED BY <2>1 DEF Row
<1>4. List = [k \in DOMAIN order |-> Row(order[k])]
  BY DEF List
<1> HIDE DEF order
<1>5. DOMAIN order = 1..Len(order) /\ Len(order) \in Nat /\ \A k \in DOMAIN order : order[k] \in 1..stored
  BY <1>2, ElementOfSeq
<1>6. List \in Seq(Rows)
  <2>1. List \in [1..Len(order) -> Rows]
    BY <1>4, <1>5 DEF Rows
  <2> QED BY <1>5, <2>1
<1>7. Range(List) = Rows
  <2>1. DOMAIN List = DOMAIN order /\ \A k \in DOMAIN order : List[k] = Row(order[k])
    BY <1>4
  <2>2. \A i \in 1..stored : \E k \in DOMAIN order : order[k] = i
    BY <1>2 DEF Range
  <2>3. \A row \in Rows : \E k \in DOMAIN List : List[k] = row
    BY <2>1, <2>2 DEF Rows
  <2>4. \A k \in DOMAIN List : List[k] \in Rows
    BY <1>5, <2>1 DEF Rows
  <2> QED BY <2>3, <2>4 DEF Range
<1>8. Ids(List) = order
  <2>1. DOMAIN List = DOMAIN order /\ \A k \in DOMAIN order : List[k].id = order[k]
    BY <1>3, <1>4, <1>5
  <2>2. order = [k \in DOMAIN order |-> order[k]]
    BY <1>2
  <2> QED BY <2>1, <2>2 DEF Ids
<1> QED BY <1>2, <1>3, <1>6, <1>7, <1>8

\* The rows of the list that are in a set: which they are, in which order, how many.
LEMMA SomeOfList ==
    ASSUME stored \in 0..Len(Columns), NEW S
    PROVE  /\ Filter(List, S) \in Seq(Rows)
           /\ Ids(Filter(List, S)) \in Seq(1..stored)
           /\ Range(Ids(Filter(List, S))) = {i \in 1..stored : Row(i) \in S}
           /\ Ordered(Ids(Filter(List, S)), Newer)
           /\ IsFiniteSet({i \in 1..stored : Row(i) \in S})
           /\ Len(Filter(List, S)) = Cardinality({i \in 1..stored : Row(i) \in S})
<1> DEFINE some == Filter(List, S)
           R == {pair \in Rows \X Rows : <<pair[1].id, pair[2].id>> \in Newer}
<1>1. List \in Seq(Rows) /\ Range(List) = Rows /\ Ordered(Ids(List), Newer)
  BY ListIs
<1>2. \A i \in 1..stored : Row(i).id = i /\ i \in Numbered
  BY ListIs, ColumnsAssumption DEF Numbered
<1>3. Ordered(List, R)
  <2>1. \A k \in DOMAIN List : List[k] \in Rows
    BY <1>1, ElementOfSeq
  <2>2. DOMAIN Ids(List) = DOMAIN List /\ \A k \in DOMAIN List : Ids(List)[k] = List[k].id
    BY DEF Ids
  <2> QED BY <1>1, <2>1, <2>2 DEF Ordered
<1>4. some \in Seq(Rows \cap S) /\ Range(some) = Rows \cap S /\ Ordered(some, R)
  BY <1>1, <1>3, FilterType, FilterRange, FilterOrdered
<1> HIDE DEF some
<1>5. some \in Seq(Rows)
  BY <1>4, SeqWider
<1>6. /\ DOMAIN some = 1..Len(some) /\ Len(some) \in Nat
      /\ DOMAIN Ids(some) = DOMAIN some
      /\ \A k \in DOMAIN some : some[k] \in Rows \cap S /\ Ids(some)[k] = some[k].id
  BY <1>4, ElementOfSeq DEF Ids
<1>7. \A k \in DOMAIN some : Ids(some)[k] \in 1..stored /\ some[k] = Row(Ids(some)[k])
  BY <1>2, <1>6 DEF Rows
<1>8. Ids(some) \in Seq(1..stored) /\ Len(Ids(some)) = Len(some)
  <2>1. Ids(some) \in [1..Len(some) -> 1..stored]
    BY <1>6, <1>7 DEF Ids
  <2> QED BY <1>6, <2>1
<1>9. Ordered(Ids(some), Newer)
  <2> SUFFICES ASSUME NEW k \in DOMAIN some, NEW l \in DOMAIN some, k < l
               PROVE  <<some[k].id, some[l].id>> \in Newer
    BY <1>6 DEF Ordered
  <2>1. <<some[k], some[l]>> \in R
    BY <1>4 DEF Ordered
  <2> QED BY <2>1
<1>10. Range(Ids(some)) = {i \in 1..stored : Row(i) \in S}
  <2>1. ASSUME NEW i \in 1..stored, Row(i) \in S PROVE i \in Range(Ids(some))
    <3>1. Row(i) \in Range(some)
      BY <1>4, <2>1 DEF Rows
    <3>2. PICK k \in DOMAIN some : some[k] = Row(i)
      BY <3>1 DEF Range
    <3> QED BY <1>2, <1>6, <3>2 DEF Range
  <2>2. ASSUME NEW i \in Range(Ids(some)) PROVE i \in 1..stored /\ Row(i) \in S
    <3>1. PICK k \in DOMAIN some : Ids(some)[k] = i
      BY <1>6 DEF Range
    <3> QED BY <1>6, <1>7, <3>1
  <2> QED BY <2>1, <2>2
<1>11. \A k, l \in DOMAIN Ids(some) : Ids(some)[k] = Ids(some)[l] => k = l
  <2> SUFFICES ASSUME NEW k \in DOMAIN some, NEW l \in DOMAIN some, k < l
               PROVE  Ids(some)[k] # Ids(some)[l]
    BY <1>6
  <2>1. <<Ids(some)[k], Ids(some)[l]>> \in Newer
    BY <1>6, <1>9 DEF Ordered
  <2>2. Ids(some)[k] \in Numbered
    BY <1>2, <1>7
  <2> QED BY <2>1, <2>2, NewerOrders
<1>12. /\ IsFiniteSet(Range(Ids(some)))
       /\ Cardinality(Range(Ids(some))) = Len(some)
  BY <1>8, <1>11, DistinctLength
<1> QED BY <1>5, <1>8, <1>9, <1>10, <1>12 DEF some

-----------------------------------------------------------------------------
(* Pages. *)

\* A page is within the count when rows come before its end.
LEMMA PageCountIs ==
    ASSUME NEW n \in Nat, NEW size \in Nat \ {0}, NEW page \in Nat \ {0}
    PROVE  page <= PageCount(n, size) <=> page = 1 \/ (page - 1) * size < n
<1>1. PICK m \in Nat : m = n + size - 1
  OBVIOUS
<1>2. PICK x \in Nat : x = m \div size /\ x * size <= m /\ m < x * size + size
  <2>1. m \div size \in Nat /\ size * (m \div size) <= m /\ m < size * (m \div size) + size
    OBVIOUS
  <2> QED BY <2>1
<1>3. PICK p \in Nat : p = page - 1
  OBVIOUS
<1>4. PICK a \in Nat, b \in Nat : a = p * size /\ b = x * size
  BY TimesOrder
<1>5. p < x <=> a < n
  <2>1. p < x => a + size <= b
    BY <1>4, TimesOrder
  <2>2. x < p => b + size <= a
    BY <1>4, TimesOrder
  <2>3. x = p => a = b
    BY <1>4
  <2>4. b <= n + size - 1 /\ n + size - 1 < b + size
    BY <1>1, <1>2, <1>4
  <2> QED BY <2>1, <2>2, <2>3, <2>4
<1>6. PageCount(n, size) = Max({1, x})
  BY <1>1, <1>2 DEF PageCount
<1>7. Max({1, x}) \in Nat /\ 1 <= Max({1, x}) /\ x <= Max({1, x}) /\ (Max({1, x}) = 1 \/ Max({1, x}) = x)
  BY MaxOfTwo
<1>8. page <= Max({1, x}) <=> page = 1 \/ p < x
  <2> DEFINE max == Max({1, x})
  <2>1. max \in Nat /\ 1 <= max /\ x <= max /\ (max = 1 \/ max = x)
    BY <1>7
  <2> HIDE DEF max
  <2>2. page <= max <=> page = 1 \/ p < x
    BY <1>3, <2>1
  <2> QED BY <2>2 DEF max
<1> QED BY <1>3, <1>4, <1>5, <1>6, <1>8

\* The part of a sequence that makes up a page.
Cut(rows, page, size) ==
    SubSeq(rows, (page - 1) * size + 1, Min({(page - 1) * size + size, Len(rows)}))

\* Its elements are those of the whole after the first ones.
CutOf(cut, rows, from) ==
    \A k \in DOMAIN cut : from + k \in DOMAIN rows /\ cut[k] = rows[from + k]

\* Its length, and where its elements are in the whole.
LEMMA CutIs ==
    ASSUME NEW T, NEW rows \in Seq(T), NEW page \in Nat \ {0}, NEW size \in Nat \ {0},
           NEW from, from = (page - 1) * size
    PROVE  /\ from \in Nat
           /\ Cut(rows, page, size) \in Seq(T)
           /\ Len(rows) <= from => Cut(rows, page, size) = <<>>
           /\ from < Len(rows) =>
                /\ Len(Cut(rows, page, size)) = Min({size, Len(rows) - from})
                /\ Cut(rows, page, size) # <<>>
           /\ CutOf(Cut(rows, page, size), rows, from)
           /\ \A i \in DOMAIN rows : from < i /\ i <= from + size =>
                i - from \in DOMAIN Cut(rows, page, size)
<1>1. PICK n \in Nat : n = Len(rows) /\ DOMAIN rows = 1..n
  OBVIOUS
<1>2. from \in Nat
  <2>1. page - 1 \in Nat /\ size \in Nat \ {0}
    OBVIOUS
  <2> QED BY <2>1, TimesOrder
<1>3. PICK to \in Nat : to = Min({from + size, n}) /\ to <= from + size /\ to <= n
                        /\ (to = from + size \/ to = n)
  BY <1>2, MinOfTwo
<1>4. Cut(rows, page, size) = SubSeq(rows, from + 1, to)
  BY <1>1, <1>3 DEF Cut
<1> DEFINE cut == SubSeq(rows, from + 1, to)
<1>5. \A i \in from + 1..to : rows[i] \in T
  BY <1>1, <1>2, <1>3, ElementOfSeq
<1>6. /\ cut \in Seq(T)
      /\ Len(cut) = IF from + 1 <= to THEN to - (from + 1) + 1 ELSE 0
      /\ \A k \in 1..to - (from + 1) + 1 : cut[k] = rows[from + 1 + k - 1]
  <2>1. from + 1 \in Int /\ to \in Int
    BY <1>2, <1>3
  <2> QED BY <1>5, <2>1, SubSeqProperties
<1> HIDE DEF cut
<1>7. PICK len \in Nat : len = Len(cut) /\ DOMAIN cut = 1..len
  BY <1>6
<1>8. len = IF from < to THEN to - from ELSE 0
  BY <1>2, <1>3, <1>6, <1>7
<1>9. n <= from => cut = <<>>
  <2>1. n <= from => len = 0
    BY <1>2, <1>3, <1>8
  <2> QED BY <1>6, <1>7, <2>1
<1>10. from < n => len = Min({size, n - from}) /\ cut # <<>>
  <2> SUFFICES ASSUME from < n PROVE len = Min({size, n - from}) /\ cut # <<>>
    OBVIOUS
  <2>1. PICK d \in Nat : d = n - from /\ d > 0
    BY <1>2
  <2>2. PICK e \in Nat : e = Min({size, d}) /\ e <= size /\ e <= d /\ (e = size \/ e = d)
    BY MinOfTwo
  <2>3. len = e /\ len > 0
    BY <1>2, <1>3, <1>8, <2>1, <2>2
  <2>4. cut # <<>>
    BY <1>7, <2>3
  <2> QED BY <2>1, <2>2, <2>3, <2>4
<1>11. ASSUME NEW k \in 1..len
       PROVE  from + k \in 1..n /\ cut[k] = rows[from + k]
  <2>1. k \in 1..to - (from + 1) + 1 /\ from + k \in 1..n /\ from + 1 + k - 1 = from + k
    BY <1>2, <1>3, <1>8
  <2> QED BY <1>6, <2>1
<1>12. ASSUME NEW i \in 1..n, from < i, i <= from + size
       PROVE  i - from \in 1..len
  BY <1>2, <1>3, <1>8, <1>12
<1>13. Cut(rows, page, size) = cut
  BY <1>4 DEF cut
<1>14. CutOf(cut, rows, from)
  BY <1>1, <1>7, <1>11 DEF CutOf
<1> QED BY <1>1, <1>2, <1>6, <1>7, <1>9, <1>10, <1>12, <1>13, <1>14

-----------------------------------------------------------------------------
(* What a query asks and how it is answered. *)

\* The parameters of a filter that are not left out.
Asking(filter) == Restrict(filter, {key \in DOMAIN filter : Given(filter, key)})

\* A query that the page of the route may make.
WellAsked(q) ==
    /\ q.list = PageOf(route).list
    /\ Paging \subseteq DOMAIN q.filter
    /\ DOMAIN q.filter \subseteq PageOf(route).handsOn \cup Paging
    /\ q.filter.page \in Nat \ {0}
    /\ q.filter.pageSize \in Nat \ {0}

\* A path builder that knows the keys of a filter leaves out nothing else.
LEMMA PathIs ==
    ASSUME NEW filter, NEW keys, DOMAIN filter \subseteq keys \cup Paging
    PROVE  Path(filter, keys \cup Paging) = Asking(filter)
<1>1. {key \in keys \cup Paging : Given(filter, key)} = {key \in DOMAIN filter : Given(filter, key)}
  BY DEF Given
<1> QED BY <1>1 DEF Path, Asking

\* So do those that always send a page.
LEMMA PagedPathIs ==
    ASSUME NEW filter, NEW keys, DOMAIN filter \subseteq keys \cup Paging, keys \cap Paging = {},
           Paging \subseteq DOMAIN filter,
           filter.page \in Nat \ {0}, filter.pageSize \in Nat \ {0}
    PROVE  PagedPath(filter, keys) = Asking(filter)
<1> DEFINE path == Path(filter, keys)
<1>1. Given(filter, "page") /\ Given(filter, "pageSize")
  BY DEF Given, Paging
<1>2. /\ PageWindow(filter)["page"] = filter["page"]
      /\ PageWindow(filter)["pageSize"] = filter["pageSize"]
  BY <1>1 DEF PageWindow, Bound, Paging
<1>3. /\ DOMAIN path = {key \in keys : Given(filter, key)}
      /\ \A key \in DOMAIN path : path[key] = filter[key]
  BY DEF Path, Restrict
<1>4. DOMAIN path \cup Paging = {key \in DOMAIN filter : Given(filter, key)}
  BY <1>1, <1>3 DEF Given, Paging
<1>5. \A key \in DOMAIN path \cup Paging :
        (IF key \in Paging THEN PageWindow(filter)[key] ELSE path[key]) = filter[key]
  BY <1>2, <1>3 DEF Paging
<1> QED BY <1>4, <1>5 DEF PagedPath, Asking, Restrict

\* The two tests of the demo mode say of some rows what the test of the server says.
Alike(filter, rows) ==
    \A row \in Range(rows) : \A key \in DOMAIN filter \ Paging :
        /\ DemoTest(key, filter[key], row) <=> Test(key, filter[key], row)
        /\ route = "reconciliation" /\ key = "fiscalYear" =>
             (StartsWith(row.fiscalYear, filter[key]) <=> Test(key, filter[key], row))

\* The demo mode keeps the rows that the conditions of the server let through.
LEMMA KeptIs ==
    ASSUME NEW filter, NEW keys, DOMAIN filter \subseteq keys \cup Paging, keys \cap Paging = {},
           NEW rows, Alike(filter, rows)
    PROVE  Kept(rows, filter, keys) = Hits(Asking(filter), rows)
<1>1. /\ DOMAIN Asking(filter) \ Paging = {key \in keys : Given(filter, key)}
      /\ \A key \in DOMAIN Asking(filter) : Asking(filter)[key] = filter[key]
  BY DEF Asking, Restrict, Given
<1>2. \A row \in Range(rows) : \A key \in keys :
        Given(filter, key) => (DemoTest(key, filter[key], row) <=> Test(key, filter[key], row))
  BY DEF Alike, Given
<1>3. {row \in Range(rows) : \A key \in keys : Given(filter, key) => DemoTest(key, filter[key], row)}
        = {row \in Range(rows) : \A key \in DOMAIN Asking(filter) \ Paging :
                                    Test(key, Asking(filter)[key], row)}
  BY <1>1, <1>2
<1> QED BY <1>3 DEF Kept, Hits

\* So do the data of the reconciliation.
LEMMA KeptPeriodsIs ==
    ASSUME NEW filter, DOMAIN filter \subseteq {"sourceSystem", "fiscalYear"} \cup Paging,
           NEW rows, Alike(filter, rows), route = "reconciliation"
    PROVE  KeptPeriods(rows, filter) = Hits(Asking(filter), rows)
<1> DEFINE keys == {"sourceSystem", "fiscalYear"}
<1>1. /\ DOMAIN Asking(filter) \ Paging = {key \in keys : Given(filter, key)}
      /\ \A key \in DOMAIN Asking(filter) : Asking(filter)[key] = filter[key]
  BY DEF Asking, Restrict, Given, Paging
<1>2. ASSUME NEW row \in Range(rows)
      PROVE  /\ Given(filter, "sourceSystem") =>
                   (row.sourceSystem = filter.sourceSystem
                       <=> Test("sourceSystem", filter["sourceSystem"], row))
             /\ Given(filter, "fiscalYear") =>
                   (StartsWith(row.fiscalYear, filter.fiscalYear)
                       <=> Test("fiscalYear", filter["fiscalYear"], row))
  <2>1. Test("sourceSystem", filter["sourceSystem"], row) <=> row.sourceSystem = filter.sourceSystem
    BY DEF Test
  <2>2. Given(filter, "fiscalYear") => "fiscalYear" \in DOMAIN filter \ Paging
    BY DEF Given, Paging
  <2> QED BY <2>1, <2>2 DEF Alike
<1>3. {row \in Range(rows) :
          /\ Given(filter, "sourceSystem") => row.sourceSystem = filter.sourceSystem
          /\ Given(filter, "fiscalYear") => StartsWith(row.fiscalYear, filter.fiscalYear)}
        = {row \in Range(rows) : \A key \in DOMAIN Asking(filter) \ Paging :
                                    Test(key, Asking(filter)[key], row)}
  BY <1>1, <1>2
<1> QED BY <1>3 DEF KeptPeriods, Hits

\* The controls of a page are for the parameters it hands on.
LEMMA PageKeys ==
    ASSUME route \in Routes
    PROVE  /\ Written = PageOf(route).handsOn
           /\ PageOf(route).handsOn \cap Paging = {}
           /\ PageOf(route).selects \subseteq PageOf(route).handsOn \ Dates
           /\ PageOf(route).dates => {"dateFrom", "dateTo"} \subseteq PageOf(route).handsOn
           /\ PageOf(route).amounts => {"amountGte", "amountLte"} \subseteq PageOf(route).handsOn
<1> USE DEF PageOf, Written, Paging, Dates
<1>1. CASE route = "journal"
  BY <1>1 DEF JournalPage
<1>2. CASE route = "transactions"
  BY <1>2 DEF TransactionsPage
<1>3. CASE route = "audit"
  BY <1>3 DEF AuditPage
<1>4. CASE route = "commitments"
  BY <1>4 DEF CommitmentsPage
<1>5. CASE route = "reconciliation"
  BY <1>5 DEF ReconciliationPage
<1>6. CASE route = "ingestion"
  BY <1>6 DEF IngestionPage
<1>7. CASE route = "accounts"
  BY <1>7 DEF AccountsPage
<1>8. CASE route = "balances"
  BY <1>8 DEF BalancesPage
<1>9. CASE route = "institutions"
  BY <1>9 DEF InstitutionsPage
<1>10. CASE route = "insights"
  BY <1>10 DEF InsightsPage
<1> QED BY <1>1, <1>2, <1>3, <1>4, <1>5, <1>6, <1>7, <1>8, <1>9, <1>10, RoutesAssumption

\* The answers of the API and of the demo mode, whatever path they are asked by.
AnswersTo(q, rows) ==
    /\ route # "insights" =>
          /\ Fetch(TRUE, q, rows) = ServerList(Asking(q.filter), rows)
          /\ Alike(q.filter, rows) =>
               Fetch(FALSE, q, rows) = Paginate(Hits(Asking(q.filter), rows), PageWindow(q.filter))
    /\ route = "insights" => Fetch(TRUE, q, rows) = ServerAnomalies(Asking(q.filter), rows)

\* Each of ten lists has a path builder and demo data of its own.
LEMMA FetchIs ==
    ASSUME route \in Routes, NEW q, WellAsked(q), NEW rows
    PROVE  AnswersTo(q, rows)
<1> DEFINE f == q.filter
<1>1. /\ q.list = PageOf(route).list
      /\ Paging \subseteq DOMAIN f /\ f.page \in Nat \ {0} /\ f.pageSize \in Nat \ {0}
      /\ DOMAIN f \subseteq PageOf(route).handsOn \cup Paging
  BY DEF WellAsked
<1>2. ASSUME NEW keys, PageOf(route).handsOn \subseteq keys, keys \cap Paging = {}
      PROVE  /\ Path(f, keys \cup Paging) = Asking(f)
             /\ PagedPath(f, keys) = Asking(f)
             /\ Alike(f, rows) => Kept(rows, f, keys) = Hits(Asking(f), rows)
  <2>1. DOMAIN f \subseteq keys \cup Paging
    BY <1>1, <1>2
  <2> HIDE DEF f
  <2> QED BY <1>1, <1>2, <2>1, PathIs, PagedPathIs, KeptIs
<1> HIDE DEF f
<1>3. CASE route = "journal"
  <2> DEFINE keys == {"institutionId", "fiscalYear", "status", "dateFrom", "dateTo"}
  <2>1. PageOf(route) = JournalPage
    BY <1>3 DEF PageOf
  <2>2. PageOf(route).handsOn \subseteq keys /\ keys \cap Paging = {} /\ q.list = "journal-entries"
    BY <1>1, <2>1 DEF JournalPage, Paging
  <2>3. /\ Fetch(TRUE, q, rows) = ListJournalEntries(TRUE, f, rows)
        /\ Fetch(FALSE, q, rows) = ListJournalEntries(FALSE, f, rows)
    BY <2>2 DEF Fetch, f
  <2>4. /\ BuildJournalEntriesPath(f) = Asking(f) /\ (Alike(f, rows) => Kept(rows, f, keys) = Hits(Asking(f), rows))
    BY <1>2, <2>2 DEF BuildJournalEntriesPath
  <2> QED BY <1>3, <2>3, <2>4 DEF AnswersTo, ListJournalEntries, f
<1>4. CASE route = "transactions"
  <2> DEFINE keys == {"institutionId", "fiscalYear", "status", "dateFrom", "dateTo", "amountGte", "amountLte"}
  <2>1. PageOf(route) = TransactionsPage
    BY <1>4 DEF PageOf
  <2>2. PageOf(route).handsOn \subseteq keys /\ keys \cap Paging = {} /\ q.list = "transactions"
    BY <1>1, <2>1 DEF TransactionsPage, Paging
  <2>3. /\ Fetch(TRUE, q, rows) = ListTransactions(TRUE, f, rows)
        /\ Fetch(FALSE, q, rows) = ListTransactions(FALSE, f, rows)
    BY <2>2 DEF Fetch, f
  <2>4. BuildTransactionsPath(f) = Asking(f) /\ (Alike(f, rows) => Kept(rows, f, keys) = Hits(Asking(f), rows))
    BY <1>2, <2>2 DEF BuildTransactionsPath, TransactionKeys
  <2> QED BY <1>4, <2>3, <2>4 DEF AnswersTo, ListTransactions, SimulateTransactionList, TransactionKeys, f
<1>5. CASE route = "audit"
  <2> DEFINE keys == {"institutionId", "dateFrom", "dateTo"}
  <2>1. PageOf(route) = AuditPage
    BY <1>5 DEF PageOf
  <2>2. PageOf(route).handsOn \subseteq keys /\ keys \cap Paging = {} /\ q.list = "audit-events"
    BY <1>1, <2>1 DEF AuditPage, Paging
  <2>3. /\ Fetch(TRUE, q, rows) = ListAuditEvents(TRUE, f, rows)
        /\ Fetch(FALSE, q, rows) = ListAuditEvents(FALSE, f, rows)
    BY <2>2 DEF Fetch, f
  <2>4. BuildAuditEventsPath(f) = Asking(f) /\ (Alike(f, rows) => Kept(rows, f, keys) = Hits(Asking(f), rows))
    BY <1>2, <2>2 DEF BuildAuditEventsPath
  <2> QED BY <1>5, <2>3, <2>4 DEF AnswersTo, ListAuditEvents, SimulateAuditEventList, f
<1>6. CASE route = "commitments"
  <2> DEFINE keys == {"institutionId", "fiscalYear", "status"}
  <2>1. PageOf(route) = CommitmentsPage
    BY <1>6 DEF PageOf
  <2>2. PageOf(route).handsOn \subseteq keys /\ keys \cap Paging = {} /\ q.list = "commitments"
    BY <1>1, <2>1 DEF CommitmentsPage, Paging
  <2>3. /\ Fetch(TRUE, q, rows) = ListCommitments(TRUE, f, rows)
        /\ Fetch(FALSE, q, rows) = ListCommitments(FALSE, f, rows)
    BY <2>2 DEF Fetch, f
  <2>4. PagedPath(f, keys) = Asking(f) /\ (Alike(f, rows) => Kept(rows, f, keys) = Hits(Asking(f), rows))
    BY <1>2, <2>2
  <2> QED BY <1>6, <2>3, <2>4 DEF AnswersTo, ListCommitments, f
<1>7. CASE route = "reconciliation"
  <2> DEFINE keys == {"sourceSystem", "fiscalYear"}
  <2>1. PageOf(route) = ReconciliationPage
    BY <1>7 DEF PageOf
  <2>2. PageOf(route).handsOn \subseteq keys /\ keys \cap Paging = {} /\ q.list = "reconciliation"
    BY <1>1, <2>1 DEF ReconciliationPage, Paging
  <2>3. /\ Fetch(TRUE, q, rows) = ListReconciliation(TRUE, f, rows)
        /\ Fetch(FALSE, q, rows) = ListReconciliation(FALSE, f, rows)
    BY <2>2 DEF Fetch, f
  <2>4. DOMAIN f \subseteq keys \cup Paging
    BY <1>1, <2>2 DEF f
  <2>5. PagedPath(f, keys) = Asking(f) /\ (Alike(f, rows) => KeptPeriods(rows, f) = Hits(Asking(f), rows))
    BY <1>2, <1>7, <2>2, <2>4, KeptPeriodsIs
  <2> QED BY <1>7, <2>3, <2>5 DEF AnswersTo, ListReconciliation, f
<1>8. CASE route = "ingestion"
  <2> DEFINE keys == {"status", "institutionId", "sourceSystem"}
  <2>1. PageOf(route) = IngestionPage
    BY <1>8 DEF PageOf
  <2>2. PageOf(route).handsOn \subseteq keys /\ keys \cap Paging = {} /\ q.list = "staging-records"
    BY <1>1, <2>1 DEF IngestionPage, Paging
  <2>3. /\ Fetch(TRUE, q, rows) = ListStagingRecords(TRUE, f, rows)
        /\ Fetch(FALSE, q, rows) = ListStagingRecords(FALSE, f, rows)
    BY <2>2 DEF Fetch, f
  <2>4. BuildStagingPath(f) = Asking(f) /\ (Alike(f, rows) => Kept(rows, f, keys) = Hits(Asking(f), rows))
    BY <1>2, <2>2 DEF BuildStagingPath
  <2> QED BY <1>8, <2>3, <2>4 DEF AnswersTo, ListStagingRecords, f
<1>9. CASE route = "accounts"
  <2> DEFINE keys == {"accountType"}
  <2>1. PageOf(route) = AccountsPage
    BY <1>9 DEF PageOf
  <2>2. PageOf(route).handsOn \subseteq keys /\ keys \cap Paging = {} /\ q.list = "accounts"
    BY <1>1, <2>1 DEF AccountsPage, Paging
  <2>3. /\ Fetch(TRUE, q, rows) = ListAccounts(TRUE, f, rows)
        /\ Fetch(FALSE, q, rows) = ListAccounts(FALSE, f, rows)
    BY <2>2 DEF Fetch, f
  <2>4. BuildAccountsPath(f) = Asking(f) /\ (Alike(f, rows) => Kept(rows, f, keys) = Hits(Asking(f), rows))
    BY <1>2, <2>2 DEF BuildAccountsPath
  <2> QED BY <1>9, <2>3, <2>4 DEF AnswersTo, ListAccounts, f
<1>10. CASE route = "balances"
  <2> DEFINE keys == {"institutionId", "accountCode"}
  <2>1. PageOf(route) = BalancesPage
    BY <1>10 DEF PageOf
  <2>2. PageOf(route).handsOn \subseteq keys /\ keys \cap Paging = {} /\ q.list = "balances"
    BY <1>1, <2>1 DEF BalancesPage, Paging
  <2>3. /\ Fetch(TRUE, q, rows) = ListBalances(TRUE, f, rows)
        /\ Fetch(FALSE, q, rows) = ListBalances(FALSE, f, rows)
    BY <2>2 DEF Fetch, f
  <2>4. BuildBalancesPath(f) = Asking(f) /\ (Alike(f, rows) => Kept(rows, f, keys) = Hits(Asking(f), rows))
    BY <1>2, <2>2 DEF BuildBalancesPath
  <2> QED BY <1>10, <2>3, <2>4 DEF AnswersTo, ListBalances, f
<1>11. CASE route = "institutions"
  <2> DEFINE keys == {"status"}
  <2>1. PageOf(route) = InstitutionsPage
    BY <1>11 DEF PageOf
  <2>2. PageOf(route).handsOn \subseteq keys /\ keys \cap Paging = {} /\ q.list = "institutions"
    BY <1>1, <2>1 DEF InstitutionsPage, Paging
  <2>3. /\ Fetch(TRUE, q, rows) = ListInstitutions(TRUE, f, rows)
        /\ Fetch(FALSE, q, rows) = ListInstitutions(FALSE, f, rows)
    BY <2>2 DEF Fetch, f
  <2>4. BuildInstitutionsPath(f) = Asking(f) /\ (Alike(f, rows) => Kept(rows, f, keys) = Hits(Asking(f), rows))
    BY <1>2, <2>2 DEF BuildInstitutionsPath
  <2> QED BY <1>11, <2>3, <2>4 DEF AnswersTo, ListInstitutions, SimulateInstitutionList, f
<1>12. CASE route = "insights"
  <2> DEFINE keys == {"institutionId"}
  <2>1. PageOf(route) = InsightsPage
    BY <1>12 DEF PageOf
  <2>2. PageOf(route).handsOn \subseteq keys /\ keys \cap Paging = {} /\ q.list = "insights-anomalies"
    BY <1>1, <2>1 DEF InsightsPage, Paging
  <2>3. Fetch(TRUE, q, rows) = GetAnomalies(TRUE, f, rows)
    BY <2>2 DEF Fetch, f
  <2>4. PagedPath(f, keys) = Asking(f)
    BY <1>2, <2>2
  <2> QED BY <1>12, <2>3, <2>4 DEF AnswersTo, GetAnomalies, f
<1> QED BY <1>3, <1>4, <1>5, <1>6, <1>7, <1>8, <1>9, <1>10, <1>11, <1>12, RoutesAssumption

\* The rows that pass the given parameters, by id.
WantedBy(filter) ==
    {i \in 1..stored : \A key \in DOMAIN filter \ Paging :
                          Given(filter, key) => Test(key, filter[key], Row(i))}

\* What the server finds, before it cuts a page of it.
HitsOf(q) == Hits(Asking(q.filter), List)

\* It finds what is wanted.
LEMMA HitsOfIs ==
    ASSUME stored \in 0..Len(Columns), NEW q
    PROVE  /\ HitsOf(q) \in Seq(Rows)
           /\ Ids(HitsOf(q)) \in Seq(1..stored)
           /\ IsFiniteSet(WantedBy(q.filter))
           /\ Len(HitsOf(q)) = Cardinality(WantedBy(q.filter))
<1> DEFINE f == q.filter
           S == {row \in Range(List) : \A key \in DOMAIN Asking(f) \ Paging :
                                          Test(key, Asking(f)[key], row)}
<1>1. HitsOf(q) = Filter(List, S)
  BY DEF HitsOf, Hits
<1>2. Range(List) = Rows /\ \A i \in 1..stored : Row(i) \in Rows
  BY ListIs DEF Rows
<1>3. /\ DOMAIN Asking(f) = {key \in DOMAIN f : Given(f, key)}
      /\ \A key \in DOMAIN Asking(f) : Asking(f)[key] = f[key]
  BY DEF Asking, Restrict
<1>4. {i \in 1..stored : Row(i) \in S} = WantedBy(f)
  <2> HIDE DEF f
  <2> QED BY <1>2, <1>3 DEF WantedBy
<1> HIDE DEF S
<1> QED BY <1>1, <1>4, SomeOfList

\* What the server and the demo mode answer to a query.
AnswerFits(q) ==
    LET hits == HitsOf(q)
        cut  == Cut(hits, q.filter.page, q.filter.pageSize)
        api  == Fetch(TRUE, q, List)
    IN  /\ api.ok \in BOOLEAN
        /\ ~api.ok => api = Failed
        /\ api.ok => /\ api = [ok |-> TRUE, rows |-> cut, total |-> api.total]
                     /\ api.total = Len(hits) \/ (api.total = 0 /\ cut = <<>>)
        /\ route # "insights" /\ Alike(q.filter, List) =>
             Fetch(FALSE, q, List) = [ok |-> TRUE, rows |-> cut, total |-> Len(hits)]

\* An answer is a page of what is found, with the number of what is found unless it is empty.
LEMMA AnswerIs ==
    ASSUME route \in Routes, NEW q, WellAsked(q)
    PROVE  AnswerFits(q)
<1> DEFINE f == q.filter
           path == Asking(f)
           hits == HitsOf(q)
           cut == Cut(hits, f.page, f.pageSize)
<1>1. Paging \subseteq DOMAIN f /\ f.page \in Nat \ {0} /\ f.pageSize \in Nat \ {0}
  BY DEF WellAsked
<1>2. /\ Given(f, "page") /\ Given(f, "pageSize")
      /\ {"page", "pageSize"} \subseteq DOMAIN path
      /\ path["page"] = f.page /\ path["pageSize"] = f.pageSize
  BY <1>1 DEF Given, Asking, Restrict, Paging
<1>3. PageWindow(f).page = f.page /\ PageWindow(f).pageSize = f.pageSize
  BY <1>2 DEF PageWindow, Bound, Asking, Restrict
<1>4. Bound(path, "pageSize", DefaultPageSize) = f.pageSize /\ Bound(path, "page", 1) = f.page
  BY <1>2 DEF Bound
<1> HIDE DEF f, path, hits
<1>5. Window(path, hits) = cut
  BY <1>4 DEF Window, Cut
<1>6. Paginate(hits, PageWindow(f)) = [ok |-> TRUE, rows |-> cut, total |-> Len(hits)]
  BY <1>3 DEF Paginate, Cut
<1>7. AnswersTo(q, List)
  BY FetchIs
<1>8. Hits(path, List) = hits
  BY DEF path, hits, HitsOf, f
<1>9. CASE route = "insights"
  <2>1. Fetch(TRUE, q, List) = ServerAnomalies(path, List)
    BY <1>7, <1>9 DEF AnswersTo, path, f
  <2>2. Fetch(TRUE, q, List) = IF Refused(path) THEN Failed
                               ELSE [ok |-> TRUE, rows |-> cut, total |-> Len(hits)]
    BY <1>5, <1>8, <2>1 DEF ServerAnomalies
  <2> HIDE DEF cut
  <2>3. PICK api : api = Fetch(TRUE, q, List)
    OBVIOUS
  <2>4. /\ api.ok \in BOOLEAN
        /\ ~api.ok => api = Failed
        /\ api.ok => /\ api = [ok |-> TRUE, rows |-> cut, total |-> api.total]
                     /\ api.total = Len(hits) \/ (api.total = 0 /\ cut = <<>>)
    <3>1. CASE Refused(path)
      <4>1. api = Failed /\ Failed.ok = FALSE
        BY <2>2, <2>3, <3>1 DEF Failed
      <4> QED BY <4>1
    <3>2. CASE ~Refused(path)
      <4> DEFINE total == Len(hits)
      <4> HIDE DEF total
      <4>1. api = [ok |-> TRUE, rows |-> cut, total |-> total]
        BY <2>2, <2>3, <3>2 DEF total
      <4>2. api.ok = TRUE /\ api.total = total
        BY <4>1
      <4>3. total = Len(hits) \/ (total = 0 /\ cut = <<>>)
        BY DEF total
      <4> QED BY <4>1, <4>2, <4>3
    <3> QED BY <3>1, <3>2
  <2> QED BY <1>9, <2>3, <2>4 DEF AnswerFits, cut, hits, f
<1>10. CASE route # "insights"
  <2>1. /\ Fetch(TRUE, q, List) = ServerList(path, List)
        /\ Alike(f, List) => Fetch(FALSE, q, List) = Paginate(Hits(path, List), PageWindow(f))
    BY <1>7, <1>10 DEF AnswersTo, path, f
  <2>2. Fetch(TRUE, q, List) = IF Refused(path) THEN Failed
                               ELSE [ok |-> TRUE, rows |-> cut,
                                     total |-> IF cut = <<>> THEN 0 ELSE Len(hits)]
    BY <1>5, <1>8, <2>1 DEF ServerList
  <2>3. Alike(f, List) => Fetch(FALSE, q, List) = [ok |-> TRUE, rows |-> cut, total |-> Len(hits)]
    BY <1>6, <1>8, <2>1
  <2> HIDE DEF cut
  <2>4. PICK api : api = Fetch(TRUE, q, List)
    OBVIOUS
  <2>5. /\ api.ok \in BOOLEAN
        /\ ~api.ok => api = Failed
        /\ api.ok => /\ api = [ok |-> TRUE, rows |-> cut, total |-> api.total]
                     /\ api.total = Len(hits) \/ (api.total = 0 /\ cut = <<>>)
    <3>1. CASE Refused(path)
      <4>1. api = Failed /\ Failed.ok = FALSE
        BY <2>2, <2>4, <3>1 DEF Failed
      <4> QED BY <4>1
    <3>2. CASE ~Refused(path)
      <4> DEFINE total == IF cut = <<>> THEN 0 ELSE Len(hits)
      <4> HIDE DEF total
      <4>1. api = [ok |-> TRUE, rows |-> cut, total |-> total]
        BY <2>2, <2>4, <3>2 DEF total
      <4>2. api.ok = TRUE /\ api.total = total
        BY <4>1
      <4>3. total = Len(hits) \/ (total = 0 /\ cut = <<>>)
        BY DEF total
      <4> QED BY <4>1, <4>2, <4>3
    <3> QED BY <3>1, <3>2
  <2> QED BY <2>3, <2>4, <2>5 DEF AnswerFits, cut, hits, f
<1> QED BY <1>9, <1>10

-----------------------------------------------------------------------------
(* The invariant of the tab. *)

\* Parameters of a URL that the page of the route reads; pages, sizes and dates are numbers.
UrlRead(params) ==
    /\ DOMAIN params \subseteq PageOf(route).handsOn \cup Paging
    /\ \A key \in DOMAIN params \cap (Paging \cup Dates) : params[key] \in Int

\* Nothing that a filter asks about has changed since it was stored.
Steady(filter) == closed = {} \/ "status" \notin DOMAIN filter

\* An answer that is kept: it is still what the server would say, or it is outdated, and
\* then it does not promise more than there is.
Sound(q, answer) ==
    /\ answer \in [ok : BOOLEAN, total : Nat, current : BOOLEAN, rows : Seq(1..stored)]
    /\ answer.ok /\ answer.current => answer = Answered(q)
    /\ Steady(q.filter) => answer.total <= Cardinality(WantedBy(q.filter))

Base ==
    /\ stored \in 0..Len(Columns)
    /\ closed \subseteq Closing
    /\ route \in Routes
    /\ UrlRead(url)
    /\ \A q \in asked \cup DOMAIN answers : WellAsked(q)

AnswersSound == \A q \in DOMAIN answers : \A answer : answer = answers[q] => Sound(q, answer)

\* The page of the URL is not past the last one.
Inside == FirstPageLinks /\ Steady(url) => Page <= PageCount(Cardinality(WantedBy(url)), PageSize)

TableInv == Base /\ AnswersSound /\ Inside

\* Page and page size are what the URL says, when that makes sense.
LEMMA PageIs ==
    ASSUME UrlRead(url)
    PROVE  /\ Page \in Nat \ {0} /\ PageSize \in Nat \ {0}
           /\ "page" \notin DOMAIN url => Page = 1
<1>1. \A key \in DOMAIN url \cap Paging : url[key] \in Int
  BY DEF UrlRead
<1>2. DefaultPageSize \in Nat \ {0}
  BY PageSizeAssumption
<1> QED BY <1>1, <1>2 DEF Page, PageSize, PositiveInt, Paging

\* The query of the page asks what the URL says.
LEMMA QueryIs ==
    ASSUME route \in Routes, UrlRead(url)
    PROVE  /\ WellAsked(Query)
           /\ Query.filter.page = Page /\ Query.filter.pageSize = PageSize
           /\ DOMAIN Query.filter \ Paging = DOMAIN url \ Paging
           /\ \A key \in DOMAIN url \ Paging : Query.filter[key] = url[key]
           /\ WantedBy(Query.filter) = WantedBy(url)
           /\ Steady(Query.filter) <=> Steady(url)
<1> DEFINE f == Query.filter
           keys == (PageOf(route).handsOn \cap DOMAIN url) \cup Paging
<1>1. Page \in Nat \ {0} /\ PageSize \in Nat \ {0}
  BY PageIs
<1>2. PageOf(route).handsOn \cap Paging = {}
  BY PageKeys
<1>3. f = [key \in keys |-> CASE key = "page" -> Page
                              [] key = "pageSize" -> PageSize
                              [] OTHER -> url[key]]
  BY DEF Query
<1>4. Query.list = PageOf(route).list
  BY DEF Query
<1> HIDE DEF f
<1>5. /\ DOMAIN f = keys
      /\ f["page"] = Page /\ f["pageSize"] = PageSize
      /\ \A key \in keys \ Paging : f[key] = url[key]
  BY <1>3 DEF Paging
<1>6. DOMAIN f \ Paging = DOMAIN url \ Paging
  BY <1>2, <1>5 DEF UrlRead
<1>7. \A key \in DOMAIN url \ Paging : f[key] = url[key]
  BY <1>5, <1>6
<1>8. \A key \in DOMAIN url \ Paging : Given(f, key) <=> Given(url, key)
  BY <1>6, <1>7 DEF Given
<1>9. WantedBy(f) = WantedBy(url)
  BY <1>6, <1>7, <1>8 DEF WantedBy
<1>10. Steady(f) <=> Steady(url)
  BY <1>6 DEF Steady, Paging
<1>11. WellAsked(Query)
  BY <1>1, <1>4, <1>5 DEF WellAsked, f
<1> QED BY <1>5, <1>6, <1>7, <1>9, <1>10, <1>11 DEF f

\* What a filter function makes of parameters: the first page of another query.
LEMMA SetFilterIs ==
    ASSUME route \in Routes, NEW params, UrlRead(params), NEW key \in PageOf(route).handsOn, NEW value,
           key \in Dates => value \in Int \cup {Unset}
    PROVE  UrlRead(SetFilter(params, key, value)) /\ "page" \notin DOMAIN SetFilter(params, key, value)
<1> DEFINE set == IF value = Unset THEN Without(params, {key}) ELSE With(params, key, value)
<1>1. key \notin Paging
  BY PageKeys
<1>2. /\ DOMAIN set \subseteq DOMAIN params \cup {key}
      /\ \A k \in DOMAIN set \ {key} : set[k] = params[k]
      /\ key \in DOMAIN set => value # Unset /\ set[key] = value
  BY DEF Without, With, Restrict
<1> HIDE DEF set
<1>3. SetFilter(params, key, value) = [k \in DOMAIN set \ {"page"} |-> set[k]]
  BY DEF SetFilter, set, Without, Restrict
<1> QED BY <1>1, <1>2, <1>3 DEF UrlRead, Paging

\* So does a handler that sets two.
LEMMA SetTwoFiltersIs ==
    ASSUME route \in Routes, UrlRead(url),
           NEW first \in PageOf(route).handsOn, NEW second \in PageOf(route).handsOn,
           NEW value1, NEW value2, second \in Dates => value2 \in Int \cup {Unset},
           NEW params, params = SetTwoFilters(url, first, value1, second, value2)
    PROVE  UrlRead(params) /\ "page" \notin DOMAIN params
BY SetFilterIs DEF SetTwoFilters

\* Some rows are wanted.
LEMMA WantedIs ==
    ASSUME stored \in 0..Len(Columns), NEW filter
    PROVE  IsFiniteSet(WantedBy(filter)) /\ Cardinality(WantedBy(filter)) \in Nat
<1>1. stored \in Nat
  BY ColumnsAssumption
<1>2. IsFiniteSet(1..stored)
  BY <1>1, UpToFinite
<1>3. WantedBy(filter) \subseteq 1..stored
  BY DEF WantedBy
<1>4. IsFiniteSet(WantedBy(filter))
  BY <1>2, <1>3, FS_Subset
<1> QED BY <1>4, FS_CardinalityType

\* What the server answers is sound.
LEMMA AnsweredSound ==
    ASSUME stored \in 0..Len(Columns), route \in Routes, NEW q, WellAsked(q)
    PROVE  Sound(q, Answered(q))
<1> DEFINE hits == HitsOf(q)
           cut == Cut(hits, q.filter.page, q.filter.pageSize)
           wanted == Cardinality(WantedBy(q.filter))
<1>1. PICK api : api = Fetch(TRUE, q, List)
  OBVIOUS
<1>2. /\ api.ok \in BOOLEAN
      /\ ~api.ok => api = Failed
      /\ api.ok => /\ api = [ok |-> TRUE, rows |-> cut, total |-> api.total]
                   /\ api.total = Len(hits) \/ (api.total = 0 /\ cut = <<>>)
  BY <1>1, AnswerIs DEF AnswerFits
<1>3. hits \in Seq(Rows) /\ Len(hits) = wanted /\ wanted \in Nat
  BY HitsOfIs, WantedIs
<1>4. cut \in Seq(Rows)
  <2>1. q.filter.page \in Nat \ {0} /\ q.filter.pageSize \in Nat \ {0}
    BY DEF WellAsked
  <2> QED BY <1>3, <2>1, CutIs
<1> HIDE DEF hits, cut, wanted
<1>5. api.rows \in Seq(Rows) /\ api.total \in Nat /\ api.total <= wanted
  <2>1. CASE api.ok
    <3>1. api.rows = cut /\ (api.total = Len(hits) \/ api.total = 0)
      BY <1>2, <2>1
    <3> QED BY <1>3, <1>4, <3>1
  <2>2. CASE ~api.ok
    <3>1. api.rows = <<>> /\ api.total = 0
      BY <1>2, <2>2 DEF Failed
    <3>2. <<>> \in Seq(Rows)
      BY EmptySeq
    <3>3. api.rows \in Seq(Rows)
      BY <3>1, <3>2, Zenon
    <3> QED BY <1>3, <3>1, <3>3
  <2> QED BY <1>2, <2>1, <2>2
<1>6. [k \in DOMAIN api.rows |-> api.rows[k].id] \in Seq(1..stored)
  <2>1. PICK n \in Nat : DOMAIN api.rows = 1..n
    BY <1>5
  <2>2. \A k \in 1..n : api.rows[k] \in Rows
    BY <1>5, <2>1, ElementOfSeq
  <2>3. \A k \in 1..n : api.rows[k].id \in 1..stored
    BY <2>2, ListIs DEF Rows
  <2>4. [k \in DOMAIN api.rows |-> api.rows[k].id] \in [1..n -> 1..stored]
    BY <2>1, <2>3
  <2> QED BY <2>1, <2>4
<1>7. Answered(q) = [ok |-> api.ok, total |-> api.total, current |-> TRUE,
                     rows |-> [k \in DOMAIN api.rows |-> api.rows[k].id]]
  BY <1>1 DEF Answered
<1>8. Answered(q).total = api.total
  BY <1>7
<1>9. Answered(q) \in [ok : BOOLEAN, total : Nat, current : BOOLEAN, rows : Seq(1..stored)]
  BY <1>2, <1>5, <1>6, <1>7
<1> QED BY <1>5, <1>8, <1>9 DEF Sound, wanted

\* An answer that failed is sound.
LEMMA FailedSound ==
    ASSUME stored \in 0..Len(Columns), NEW q
    PROVE  Sound(q, [ok |-> FALSE, total |-> 0, current |-> TRUE, rows |-> <<>>])
<1> DEFINE answer == [ok |-> FALSE, total |-> 0, current |-> TRUE, rows |-> <<>>]
<1>1. <<>> \in Seq(1..stored)
  BY EmptySeq
<1>2. answer \in [ok : BOOLEAN, total : Nat, current : BOOLEAN, rows : Seq(1..stored)]
  <2>1. \A r \in Seq(1..stored) : [ok |-> FALSE, total |-> 0, current |-> TRUE, rows |-> r]
                \in [ok : BOOLEAN, total : Nat, current : BOOLEAN, rows : Seq(1..stored)]
    OBVIOUS
  <2> QED BY <1>1, <2>1, Zenon
<1>3. answer.ok = FALSE /\ answer.total = 0
  OBVIOUS
<1>4. 0 <= Cardinality(WantedBy(q.filter))
  BY WantedIs
<1> HIDE DEF answer
<1>5. Sound(q, answer)
  BY <1>2, <1>3, <1>4 DEF Sound
<1> QED BY <1>5 DEF answer

\* The first page is inside.
LEMMA FirstInside ==
    ASSUME stored \in 0..Len(Columns), UrlRead(url), "page" \notin DOMAIN url
    PROVE  Inside
<1>1. Page = 1 /\ PageSize \in Nat \ {0}
  BY PageIs
<1>2. Cardinality(WantedBy(url)) \in Nat
  BY WantedIs
<1> QED BY <1>1, <1>2, PageCountIs DEF Inside

\* The query of the next state.
LEMMA NextQueryIs == (route \in Routes)' /\ UrlRead(url)' => WellAsked(Query)'
<1>1. route \in Routes /\ UrlRead(url) => WellAsked(Query)
  BY QueryIs
<1> QED BY <1>1, PTL

\* So is page 1 of the next state,
LEMMA NextOneInside ==
    (stored \in 0..Len(Columns))' /\ UrlRead(url)' /\ (Page = 1)' => Inside'
<1>1. stored \in 0..Len(Columns) /\ UrlRead(url) /\ Page = 1 => Inside
  <2>1. UrlRead(url) => PageSize \in Nat \ {0}
    BY PageIs
  <2>2. stored \in 0..Len(Columns) => Cardinality(WantedBy(url)) \in Nat
    BY WantedIs
  <2> QED BY <2>1, <2>2, PageCountIs DEF Inside
<1> QED BY <1>1, PTL

\* which is shown when the URL names none.
LEMMA NextFirstInside ==
    (stored \in 0..Len(Columns))' /\ UrlRead(url)' /\ ("page" \notin DOMAIN url)' => Inside'
<1>1. stored \in 0..Len(Columns) /\ UrlRead(url) /\ "page" \notin DOMAIN url => Inside
  BY FirstInside
<1> QED BY <1>1, PTL

\* Steps of the tab leave the server alone, and with it what holds of its answers.
LEMMA ServerSame ==
    ASSUME UNCHANGED <<stored, closed, route>>
    PROVE  /\ \A q : WellAsked(q)' <=> WellAsked(q)
           /\ \A filter : WantedBy(filter)' = WantedBy(filter) /\ (Steady(filter)' <=> Steady(filter))
           /\ \A q, answer : Sound(q, answer)' <=> Sound(q, answer)
           /\ \A params : UrlRead(params)' <=> UrlRead(params)
<1>1. \A i : Row(i)' = Row(i)
  BY DEF Row
<1>2. List' = List
  BY <1>1 DEF List
<1>3. \A q : Answered(q)' = Answered(q)
  BY <1>2 DEF Answered
<1>4. \A filter : WantedBy(filter)' = WantedBy(filter) /\ (Steady(filter)' <=> Steady(filter))
  BY <1>1 DEF WantedBy, Steady
<1>5. \A q : WellAsked(q)' <=> WellAsked(q)
  BY DEF WellAsked
<1>6. \A params : UrlRead(params)' <=> UrlRead(params)
  BY DEF UrlRead
<1>7. \A q, answer : Sound(q, answer)' <=> Sound(q, answer)
  BY <1>3, <1>4 DEF Sound
<1> QED BY <1>4, <1>5, <1>6, <1>7

\* A URL that is not changed is not past its end.
LEMMA InsideSame ==
    ASSUME UNCHANGED <<stored, closed, route, url>>, Inside
    PROVE  Inside'
<1>1. /\ WantedBy(url)' = WantedBy(url) /\ (Steady(url)' <=> Steady(url))
  <2>1. \A i : Row(i)' = Row(i)
    BY DEF Row
  <2> QED BY <2>1 DEF WantedBy, Steady
<1>2. Page' = Page /\ PageSize' = PageSize
  BY DEF Page, PageSize
<1> QED BY <1>1, <1>2 DEF Inside

\* Other parameters on display.
LEMMA ShowKeeps ==
    ASSUME TableInv, NEW params, UrlRead(params), Show(params), Inside'
    PROVE  TableInv'
<1>1. /\ UNCHANGED <<stored, closed, route>> /\ url' = params
      /\ asked' \subseteq asked \cup {Query'}
      /\ DOMAIN answers' \subseteq DOMAIN answers
      /\ \A q \in DOMAIN answers' : answers'[q] = answers[q]
  BY DEF Show, Restrict
<1>2. UrlRead(url)'
  BY <1>1 DEF UrlRead
<1>3. WellAsked(Query)'
  BY <1>1, <1>2, NextQueryIs DEF TableInv, Base
<1>4. ASSUME NEW q \in asked' \cup DOMAIN answers'
      PROVE  WellAsked(q)'
  <2>1. CASE q = Query'
    BY <1>3, <2>1 DEF WellAsked
  <2>2. CASE q \in asked \cup DOMAIN answers
    BY <1>1, <2>2, ServerSame DEF TableInv, Base
  <2> QED BY <1>1, <2>1, <2>2
<1>5. Base'
  BY <1>1, <1>2, <1>4 DEF TableInv, Base
<1>6. ASSUME NEW q \in DOMAIN answers', NEW answer, answer = answers'[q]
      PROVE  Sound(q, answer)'
  <2>1. Sound(q, answer)
    BY <1>1, <1>6 DEF TableInv, AnswersSound
  <2> QED BY <1>1, <2>1, ServerSame
<1>7. AnswersSound'
  BY <1>6 DEF AnswersSound
<1> QED BY <1>5, <1>7 DEF TableInv

\* A page that is opened.
LEMMA VisitKeeps ==
    ASSUME TableInv, NEW params, UrlRead(params), Visit(params), Inside'
    PROVE  TableInv'
<1>1. /\ UNCHANGED <<stored, closed, route>> /\ url' = params
      /\ asked' = {Query'} /\ DOMAIN answers' = {}
  BY DEF Visit, Nothing
<1>2. UrlRead(url)'
  BY <1>1 DEF UrlRead
<1>3. WellAsked(Query)'
  BY <1>1, <1>2, NextQueryIs DEF TableInv, Base
<1>4. \A q \in asked' \cup DOMAIN answers' : WellAsked(q)'
  BY <1>1, <1>3 DEF WellAsked
<1> QED BY <1>1, <1>2, <1>4 DEF TableInv, Base, AnswersSound

\* An answer that is received.
LEMMA ReceiveKeeps ==
    ASSUME TableInv, NEW query \in asked, NEW answer, Sound(query, answer), Receive(query, answer)
    PROVE  TableInv'
<1>1. /\ UNCHANGED <<stored, closed, route, url>>
      /\ asked' \subseteq asked
      /\ answers' = answers \/ answers' = [q \in {query} |-> answer]
  BY DEF Receive
<1>2. Inside'
  BY <1>1, InsideSame DEF TableInv
<1>3. Base'
  <2>1. UrlRead(url)'
    BY <1>1 DEF UrlRead, TableInv, Base
  <2>2. \A q \in asked' \cup DOMAIN answers' : q \in asked \cup DOMAIN answers
    BY <1>1
  <2>3. \A q \in asked' \cup DOMAIN answers' : WellAsked(q)'
    BY <1>1, <2>2, ServerSame DEF TableInv, Base
  <2> QED BY <1>1, <2>1, <2>3 DEF TableInv, Base
<1>4. ASSUME NEW q \in DOMAIN answers', NEW a, a = answers'[q]
      PROVE  Sound(q, a)'
  <2>1. Sound(q, a)
    BY <1>1, <1>4 DEF TableInv, AnswersSound
  <2> QED BY <1>1, <2>1, ServerSame
<1>5. AnswersSound'
  BY <1>4 DEF AnswersSound
<1> QED BY <1>2, <1>3, <1>5 DEF TableInv

\* The same query on another page.
LEMMA SetPageIs ==
    ASSUME route \in Routes, UrlRead(url), NEW p \in Nat \ {0}, Show(SetPage(url, p))
    PROVE  /\ UrlRead(SetPage(url, p))
           /\ Page' = p /\ PageSize' = PageSize
           /\ WantedBy(url)' = WantedBy(url) /\ (Steady(url)' <=> Steady(url))
<1> DEFINE set == SetPage(url, p)
<1>1. /\ DOMAIN set \ {"page"} = DOMAIN url \ {"page"}
      /\ \A key \in DOMAIN set \ {"page"} : set[key] = url[key]
      /\ "page" \in DOMAIN set <=> p > 1
      /\ p > 1 => set["page"] = p
  <2>1. CASE p <= 1
    <3>1. set = Without(url, {"page"})
      BY <2>1 DEF SetPage
    <3> HIDE DEF set
    <3> QED BY <2>1, <3>1 DEF Without, Restrict
  <2>2. CASE p > 1
    <3>1. set = With(url, "page", p)
      BY <2>2 DEF SetPage
    <3> HIDE DEF set
    <3> QED BY <2>2, <3>1 DEF With
  <2> QED BY <2>1, <2>2
<1>2. /\ UNCHANGED <<stored, closed, route>> /\ url' = set
  BY DEF Show
<1> HIDE DEF set
<1>3. UrlRead(set)
  <2>1. \A key \in DOMAIN set \cap Paging : set[key] \in Int
    BY <1>1 DEF UrlRead, Paging
  <2> QED BY <1>1, <2>1 DEF UrlRead, Paging
<1>4. Page' = p
  BY <1>1, <1>2 DEF Page, PositiveInt
<1>5. PageSize' = PageSize
  <2>1. "pageSize" \in DOMAIN set <=> "pageSize" \in DOMAIN url
    BY <1>1
  <2>2. "pageSize" \in DOMAIN url => set["pageSize"] = url["pageSize"]
    BY <1>1
  <2> QED BY <1>2, <2>1, <2>2 DEF PageSize, PositiveInt
<1>6. /\ DOMAIN set \ Paging = DOMAIN url \ Paging
      /\ \A key \in DOMAIN url \ Paging : set[key] = url[key] /\ (Given(set, key) <=> Given(url, key))
  BY <1>1 DEF Paging, Given
<1>7. WantedBy(set) = WantedBy(url) /\ (Steady(set) <=> Steady(url))
  <2>1. "status" \in DOMAIN set <=> "status" \in DOMAIN url
    BY <1>1
  <2> QED BY <1>6, <2>1 DEF WantedBy, Steady
<1>8. WantedBy(url)' = WantedBy(set) /\ (Steady(url)' <=> Steady(set))
  <2>1. \A i : Row(i)' = Row(i)
    BY <1>2 DEF Row
  <2> QED BY <1>2, <2>1 DEF WantedBy, Steady
<1> QED BY <1>3, <1>4, <1>5, <1>7, <1>8 DEF set

\* The buttons of the bar.
LEMMA PageTurnKeeps ==
    ASSUME TableInv, PreviousPage \/ NextPage
    PROVE  TableInv'
<1>1. /\ route \in Routes /\ UrlRead(url) /\ stored \in 0..Len(Columns)
      /\ Page \in Nat \ {0} /\ PageSize \in Nat \ {0}
      /\ IsFiniteSet(WantedBy(url)) /\ Cardinality(WantedBy(url)) \in Nat
  BY PageIs, WantedIs DEF TableInv, Base
<1>2. PICK wanted \in Nat, size \in Nat \ {0}, page \in Nat \ {0} :
         wanted = Cardinality(WantedBy(url)) /\ size = PageSize /\ page = Page
  BY <1>1
<1>3. ASSUME NEW p \in Nat \ {0}, Show(SetPage(url, p)),
             FirstPageLinks /\ Steady(url) => p <= PageCount(wanted, size)
      PROVE  TableInv'
  <2>1. /\ UrlRead(SetPage(url, p))
        /\ Page' = p /\ PageSize' = PageSize
        /\ WantedBy(url)' = WantedBy(url) /\ (Steady(url)' <=> Steady(url))
    BY <1>1, <1>3, SetPageIs
  <2>2. FirstPageLinks' <=> FirstPageLinks
    BY DEF FirstPageLinks
  <2>3. Inside'
    BY <1>2, <1>3, <2>1, <2>2 DEF Inside
  <2> QED BY <1>3, <2>1, <2>3, ShowKeeps
<1>4. CASE PreviousPage
  <2>1. Page > 1 /\ Show(SetPage(url, Page - 1))
    BY <1>4 DEF PreviousPage
  <2>2. PICK p \in Nat \ {0} : p = page - 1 /\ p = Page - 1
    BY <1>2, <2>1
  <2>3. FirstPageLinks /\ Steady(url) => page <= PageCount(wanted, size)
    BY <1>2 DEF TableInv, Inside
  <2>4. page <= PageCount(wanted, size) => p <= PageCount(wanted, size)
    <3>1. page <= PageCount(wanted, size) <=> page = 1 \/ (page - 1) * size < wanted
      BY PageCountIs
    <3>2. p <= PageCount(wanted, size) <=> p = 1 \/ (p - 1) * size < wanted
      BY PageCountIs
    <3>3. PICK o \in Nat : o = p - 1 /\ o < p
      OBVIOUS
    <3>4. PICK a \in Nat, b \in Nat : a = p * size /\ b = o * size
      BY <3>3, TimesOrder
    <3>5. b + size <= a
      BY <3>3, <3>4, TimesOrder
    <3> QED BY <1>1, <2>2, <3>1, <3>2, <3>3, <3>4, <3>5
  <2> QED BY <1>3, <2>1, <2>2, <2>3, <2>4
<1>5. CASE NextPage
  <2>1. Query \in DOMAIN answers /\ Page < PageCount(Answer.total, PageSize) /\ Show(SetPage(url, Page + 1))
    BY <1>5 DEF NextPage, Pending
  <2>2. PICK total \in Nat : total = Answer.total /\ (Steady(url) => total <= wanted)
    <3>1. Sound(Query, Answer)
      BY <2>1 DEF TableInv, AnswersSound, Answer
    <3>2. WantedBy(Query.filter) = WantedBy(url) /\ (Steady(Query.filter) <=> Steady(url))
      BY <1>1, QueryIs
    <3> QED BY <1>2, <3>1, <3>2 DEF Sound
  <2>3. PICK p \in Nat \ {0} : p = page + 1 /\ p = Page + 1
    BY <1>2
  <2>4. page < PageCount(total, size)
    BY <1>2, <2>1, <2>2
  <2>5. p <= PageCount(total, size)
    <3>1. PageCount(total, size) \in Nat
      <4>1. PICK x \in Nat : x = (total + size - 1) \div size
        OBVIOUS
      <4> QED BY <4>1, MaxOfTwo DEF PageCount
    <3> QED BY <2>3, <2>4, <3>1
  <2>6. Steady(url) => p <= PageCount(wanted, size)
    <3>1. p <= PageCount(total, size) <=> p = 1 \/ (p - 1) * size < total
      BY PageCountIs
    <3>2. p <= PageCount(wanted, size) <=> p = 1 \/ (p - 1) * size < wanted
      BY PageCountIs
    <3>3. PICK a \in Nat : a = (p - 1) * size
      <4>1. p - 1 \in Nat
        OBVIOUS
      <4> QED BY <4>1, TimesOrder
    <3> QED BY <2>2, <2>5, <3>1, <3>2, <3>3
  <2> QED BY <1>3, <2>1, <2>3, <2>6
<1> QED BY <1>4, <1>5

\* Parameters without a page are shown from the first one.
LEMMA FirstPageKeeps ==
    ASSUME TableInv, NEW params, UrlRead(params), "page" \notin DOMAIN params, Show(params)
    PROVE  TableInv'
<1>1. UNCHANGED <<stored, closed, route>> /\ url' = params
  BY DEF Show
<1>2. UrlRead(url)' /\ ("page" \notin DOMAIN url)' /\ (stored \in 0..Len(Columns))'
  BY <1>1 DEF UrlRead, TableInv, Base
<1>3. Inside'
  BY <1>2, NextFirstInside
<1> QED BY <1>3, ShowKeeps

\* The controls of the toolbar.
LEMMA ControlsKeep ==
    ASSUME TableInv,
           \/ \E key \in DOMAIN Picks : SelectOption(key)
           \/ PickRange \/ ClearRange
           \/ ApplyAmount \/ ClearAmount
           \/ ChoosePageSize
    PROVE  TableInv'
<1>1. route \in Routes /\ UrlRead(url)
  BY DEF TableInv, Base
<1>2. ASSUME NEW first \in PageOf(route).handsOn, NEW second \in PageOf(route).handsOn,
             NEW value1, NEW value2, second \in Dates => value2 \in Int \cup {Unset},
             Show(SetTwoFilters(url, first, value1, second, value2))
      PROVE  TableInv'
  <2> DEFINE params == SetTwoFilters(url, first, value1, second, value2)
  <2>1. UrlRead(params) /\ "page" \notin DOMAIN params
    BY <1>1, <1>2, SetTwoFiltersIs
  <2> QED BY <1>2, <2>1, FirstPageKeeps
<1>3. ASSUME NEW key \in DOMAIN Picks, SelectOption(key)
      PROVE  TableInv'
  <2>1. PICK value : Show(SetFilter(url, key, value))
    BY <1>3 DEF SelectOption
  <2>2. key \in PageOf(route).handsOn /\ key \notin Dates
    BY <1>1, <1>3, PageKeys DEF SelectOption
  <2>3. UrlRead(SetFilter(url, key, value)) /\ "page" \notin DOMAIN SetFilter(url, key, value)
    BY <1>1, <2>2, SetFilterIs
  <2> QED BY <2>1, <2>3, FirstPageKeeps
<1>4. CASE PickRange
  <2>1. "dateFrom" \in PageOf(route).handsOn /\ "dateTo" \in PageOf(route).handsOn
    BY <1>1, <1>4, PageKeys DEF PickRange
  <2>2. PICK from, to \in Int : Show(SetTwoFilters(url, "dateFrom", from, "dateTo", to))
    BY <1>4, TableAssumption DEF PickRange
  <2> QED BY <1>2, <2>1, <2>2
<1>5. CASE ClearRange
  <2>1. "dateFrom" \in PageOf(route).handsOn /\ "dateTo" \in PageOf(route).handsOn
    BY <1>1, <1>5, PageKeys DEF ClearRange
  <2>2. Show(SetTwoFilters(url, "dateFrom", Unset, "dateTo", Unset))
    BY <1>5 DEF ClearRange
  <2> QED BY <1>2, <2>1, <2>2
<1>6. CASE ApplyAmount
  <2>1. "amountGte" \in PageOf(route).handsOn /\ "amountLte" \in PageOf(route).handsOn
    BY <1>1, <1>6, PageKeys DEF ApplyAmount
  <2>2. PICK value1, value2 : Show(SetTwoFilters(url, "amountGte", value1, "amountLte", value2))
    BY <1>6 DEF ApplyAmount
  <2> QED BY <1>2, <2>1, <2>2 DEF Dates
<1>7. CASE ClearAmount
  <2>1. "amountGte" \in PageOf(route).handsOn /\ "amountLte" \in PageOf(route).handsOn
    BY <1>1, <1>7, PageKeys DEF ClearAmount
  <2>2. Show(SetTwoFilters(url, "amountGte", Unset, "amountLte", Unset))
    BY <1>7 DEF ClearAmount
  <2> QED BY <1>2, <2>1, <2>2
<1>8. CASE ChoosePageSize
  <2>1. PICK size \in PageSizeOptions : Show(SetPageSize(url, size))
    BY <1>8 DEF ChoosePageSize
  <2>2. size \in Int
    BY TableAssumption, PageSizeAssumption
  <2> DEFINE set == IF size = DefaultPageSize THEN Without(url, {"pageSize"}) ELSE With(url, "pageSize", size)
  <2>3. /\ DOMAIN set \subseteq DOMAIN url \cup {"pageSize"}
        /\ \A k \in DOMAIN set : (set[k] = size /\ k = "pageSize") \/ (set[k] = url[k] /\ k \in DOMAIN url)
    BY DEF Without, With, Restrict
  <2> HIDE DEF set
  <2>4. SetPageSize(url, size) = [k \in DOMAIN set \ {"page"} |-> set[k]]
    BY DEF SetPageSize, set, Without, Restrict
  <2>5. UrlRead(SetPageSize(url, size)) /\ "page" \notin DOMAIN SetPageSize(url, size)
    BY <1>1, <2>2, <2>3, <2>4 DEF UrlRead, Paging, Dates
  <2> QED BY <2>1, <2>5, FirstPageKeeps
<1> QED BY <1>3, <1>4, <1>5, <1>6, <1>7, <1>8

\* A page that is opened from the sidebar or by a link, or loaded again.
LEMMA OpeningKeeps ==
    ASSUME TableInv, (\E params \in Links[route] \cup {Nothing} : Visit(params)) \/ Reload
    PROVE  TableInv'
<1>1. route \in Routes /\ UrlRead(url) /\ stored \in 0..Len(Columns)
  BY DEF TableInv, Base
<1>2. ASSUME NEW params \in Links[route], Visit(params)
      PROVE  TableInv'
  <2>1. UrlRead(params)
    BY <1>1, LinksAssumption DEF UrlRead
  <2>2. /\ UNCHANGED <<stored, closed, route>> /\ url' = params
    BY <1>2 DEF Visit
  <2>3. UrlRead(url)'
    BY <2>1, <2>2 DEF UrlRead
  <2>4. FirstPageLinks => Page' = 1
    <3>1. FirstPageLinks /\ "page" \in DOMAIN params => params["page"] <= 1
      BY <1>1 DEF FirstPageLinks
    <3>2. "page" \in DOMAIN params => params["page"] \in Int
      BY <2>1 DEF UrlRead, Paging
    <3> QED BY <2>2, <3>1, <3>2 DEF Page, PositiveInt
  <2>5. FirstPageLinks' <=> FirstPageLinks
    BY DEF FirstPageLinks
  <2>6. (Page = 1)' => Inside'
    BY <1>1, <2>2, <2>3, NextOneInside
  <2>7. Inside'
    BY <2>4, <2>5, <2>6 DEF Inside
  <2> QED BY <1>2, <2>1, <2>7, VisitKeeps
<1>3. CASE Visit(Nothing)
  <2>1. UrlRead(Nothing) /\ "page" \notin DOMAIN Nothing
    BY DEF Nothing, UrlRead
  <2>2. /\ UNCHANGED <<stored, closed, route>> /\ url' = Nothing
    BY <1>3 DEF Visit
  <2>3. UrlRead(url)' /\ ("page" \notin DOMAIN url)' /\ (stored \in 0..Len(Columns))'
    BY <1>1, <2>1, <2>2 DEF UrlRead
  <2>4. Inside'
    BY <2>3, NextFirstInside
  <2> QED BY <1>3, <2>1, <2>4, VisitKeeps
<1>4. CASE Reload
  <2>1. Visit(url) /\ UNCHANGED <<stored, closed, route, url>>
    BY <1>4 DEF Reload, Visit
  <2>2. Inside'
    BY <2>1, InsideSame DEF TableInv
  <2> QED BY <1>1, <2>1, <2>2, VisitKeeps
<1> QED BY <1>2, <1>3, <1>4

\* The server only adds to what is wanted, as long as nothing changes that is asked about.
LEMMA ServerAdds ==
    ASSUME stored \in 0..Len(Columns), ServerNext,
           NEW filter, DOMAIN filter \subseteq PageOf(route).handsOn \cup Paging, Steady(filter)'
    PROVE  /\ Steady(filter)
           /\ Cardinality(WantedBy(filter)) \in Nat /\ Cardinality(WantedBy(filter))' \in Nat
           /\ Cardinality(WantedBy(filter)) <= Cardinality(WantedBy(filter))'
<1>1. Len(Columns) \in Nat /\ stored \in Nat
  BY ColumnsAssumption
<1>2. stored' \in 0..Len(Columns) /\ stored <= stored' /\ closed \subseteq closed' /\ route' = route
  BY <1>1 DEF ServerNext, Store, Close
<1>3. Steady(filter)
  BY <1>2 DEF Steady
<1>4. WantedBy(filter) \subseteq WantedBy(filter)'
  <2>1. CASE Store
    <3>1. \A i : Row(i)' = Row(i)
      BY <2>1 DEF Store, Row
    <3> QED BY <1>1, <1>2, <3>1 DEF WantedBy
  <2>2. ASSUME NEW c \in Closing, Close(c)
        PROVE  WantedBy(filter) \subseteq WantedBy(filter)'
    <3>1. stored' = stored /\ route = "commitments" /\ closed' # {}
      BY <2>2 DEF Close
    <3>2. DOMAIN filter \ Paging \subseteq {"institutionId", "fiscalYear"}
      <4>1. PageOf(route).handsOn = {"institutionId", "fiscalYear", "status"}
        BY <3>1 DEF PageOf, CommitmentsPage
      <4>2. "status" \notin DOMAIN filter
        BY <3>1 DEF Steady
      <4> QED BY <4>1, <4>2
    <3>3. ASSUME NEW i \in 1..stored, NEW key \in DOMAIN filter \ Paging
          PROVE  Test(key, filter[key], Row(i))' <=> Test(key, filter[key], Row(i))
      <4>1. i \in 1..Len(Columns)
        BY <1>1
      <4>2. {"institutionId", "fiscalYear"} \subseteq DOMAIN Columns[i]
        BY <4>1, ColumnsAssumption
      <4>3. /\ Row(i)["institutionId"] = Columns[i]["institutionId"]
            /\ Row(i)["fiscalYear"] = Columns[i]["fiscalYear"]
            /\ Row(i)'["institutionId"] = Columns[i]["institutionId"]
            /\ Row(i)'["fiscalYear"] = Columns[i]["fiscalYear"]
        BY <4>2 DEF Row
      <4>4. key = "institutionId" \/ key = "fiscalYear"
        BY <3>2
      <4> QED BY <4>3, <4>4 DEF Test
    <3> QED BY <3>1, <3>3 DEF WantedBy
  <2> QED BY <2>1, <2>2 DEF ServerNext
<1>5. IsFiniteSet(WantedBy(filter)) /\ Cardinality(WantedBy(filter)) \in Nat
  BY WantedIs
<1>6. IsFiniteSet(WantedBy(filter)') /\ Cardinality(WantedBy(filter)') \in Nat
  <2>1. stored' \in Nat
    BY <1>1, <1>2
  <2>2. IsFiniteSet(1..stored')
    BY <2>1, UpToFinite
  <2>3. WantedBy(filter)' \subseteq 1..stored'
    BY DEF WantedBy
  <2>4. IsFiniteSet(WantedBy(filter)')
    BY <2>2, <2>3, FS_Subset
  <2> QED BY <2>4, FS_CardinalityType
<1>7. Cardinality(WantedBy(filter)) <= Cardinality(WantedBy(filter)')
  <2> DEFINE before == WantedBy(filter)
             after == WantedBy(filter)'
  <2>1. before \subseteq after /\ IsFiniteSet(after)
    BY <1>4, <1>6
  <2> HIDE DEF before, after
  <2>2. Cardinality(before) <= Cardinality(after)
    BY <2>1, FS_Subset
  <2> QED BY <2>2 DEF before, after
<1> QED BY <1>3, <1>5, <1>6, <1>7

\* The server does something: what is kept is outdated.
LEMMA ServerKeeps ==
    ASSUME TableInv, ServerNext
    PROVE  TableInv'
<1>1. Len(Columns) \in Nat /\ stored \in Nat /\ stored \in 0..Len(Columns)
  BY ColumnsAssumption DEF TableInv, Base
<1>2. /\ stored' \in 0..Len(Columns) /\ stored <= stored'
      /\ closed' \subseteq Closing
      /\ UNCHANGED <<route, url, asked>>
      /\ answers' = Outdated
  BY <1>1 DEF ServerNext, Store, Close, TableInv, Base
<1>3. DOMAIN answers' = DOMAIN answers
      /\ \A q \in DOMAIN answers : answers'[q] = [answers[q] EXCEPT !.current = FALSE]
  BY <1>2 DEF Outdated
<1>4. Base'
  <2>1. UrlRead(url)'
    BY <1>2 DEF UrlRead, TableInv, Base
  <2>2. \A q \in asked' \cup DOMAIN answers' : WellAsked(q)'
    BY <1>2, <1>3 DEF WellAsked, TableInv, Base
  <2> QED BY <1>2, <2>1, <2>2 DEF TableInv, Base
<1>5. ASSUME NEW q \in DOMAIN answers', NEW answer, answer = answers'[q]
      PROVE  Sound(q, answer)'
  <2>1. PICK old : old = answers[q]
    OBVIOUS
  <2>2. q \in DOMAIN answers /\ Sound(q, old)
    BY <1>3, <2>1 DEF TableInv, AnswersSound
  <2>3. answer = [old EXCEPT !.current = FALSE]
    BY <1>3, <1>5, <2>1, <2>2
  <2>4. old \in [ok : BOOLEAN, total : Nat, current : BOOLEAN, rows : Seq(1..stored)]
    BY <2>2 DEF Sound
  <2>5. old.rows \in Seq(1..stored')
    <3>1. 1..stored \subseteq 1..stored'
      BY <1>1, <1>2
    <3>2. old.rows \in Seq(1..stored)
      BY <2>4
    <3> QED BY <3>1, <3>2, SeqWider
  <2>6. answer = [ok |-> old.ok, total |-> old.total, current |-> FALSE, rows |-> old.rows]
    BY <2>3, <2>4
  <2>7. old.ok \in BOOLEAN /\ old.total \in Nat
    BY <2>4
  <2>8. answer \in [ok : BOOLEAN, total : Nat, current : BOOLEAN, rows : Seq(1..stored')]
    BY <2>5, <2>6, <2>7
  <2>9. answer.current = FALSE /\ answer.total = old.total
    BY <2>6
  <2>10. Steady(q.filter)' => old.total <= Cardinality(WantedBy(q.filter))'
    <3> SUFFICES ASSUME Steady(q.filter)'
                 PROVE  old.total <= Cardinality(WantedBy(q.filter))'
      OBVIOUS
    <3>1. PICK f : f = q.filter
      OBVIOUS
    <3>2. DOMAIN f \subseteq PageOf(route).handsOn \cup Paging
      BY <2>2, <3>1 DEF TableInv, Base, WellAsked
    <3>3. Steady(f)'
      BY <3>1 DEF Steady
    <3>4. /\ Steady(f) /\ Cardinality(WantedBy(f)) \in Nat /\ Cardinality(WantedBy(f))' \in Nat
          /\ Cardinality(WantedBy(f)) <= Cardinality(WantedBy(f))'
      BY <1>1, <3>2, <3>3, ServerAdds
    <3>5. old.total <= Cardinality(WantedBy(f))
      BY <2>2, <3>1, <3>4 DEF Sound
    <3> QED BY <2>7, <3>1, <3>4, <3>5
  <2> QED BY <2>8, <2>9, <2>10 DEF Sound
<1>6. AnswersSound'
  BY <1>5 DEF AnswersSound
<1>7. Inside'
  <2> SUFFICES ASSUME FirstPageLinks', Steady(url)'
               PROVE  Page' <= PageCount(Cardinality(WantedBy(url))', PageSize')
    BY DEF Inside
  <2>1. Page' = Page /\ PageSize' = PageSize
    BY <1>2 DEF Page, PageSize
  <2>2. Page \in Nat \ {0} /\ PageSize \in Nat \ {0}
    BY PageIs DEF TableInv, Base
  <2>3. PICK f : f = url
    OBVIOUS
  <2>4. DOMAIN f \subseteq PageOf(route).handsOn \cup Paging
    BY <2>3 DEF TableInv, Base, UrlRead
  <2>5. Steady(f)'
    BY <1>2, <2>3 DEF Steady
  <2>6. /\ Steady(f) /\ Cardinality(WantedBy(f)) \in Nat /\ Cardinality(WantedBy(f))' \in Nat
        /\ Cardinality(WantedBy(f)) <= Cardinality(WantedBy(f))'
    BY <1>1, <2>4, <2>5, ServerAdds
  <2>7. WantedBy(f)' = WantedBy(url)'
    BY <1>2, <2>3 DEF WantedBy
  <2>8. PICK page \in Nat \ {0}, size \in Nat \ {0}, n \in Nat, m \in Nat :
          /\ page = Page /\ size = PageSize
          /\ n = Cardinality(WantedBy(f)) /\ m = Cardinality(WantedBy(f))' /\ n <= m
    BY <2>2, <2>6
  <2>9. page <= PageCount(n, size)
    BY <2>3, <2>6, <2>8 DEF TableInv, Inside, FirstPageLinks
  <2>10. page <= PageCount(m, size)
    <3>1. page <= PageCount(n, size) <=> page = 1 \/ (page - 1) * size < n
      BY PageCountIs
    <3>2. page <= PageCount(m, size) <=> page = 1 \/ (page - 1) * size < m
      BY PageCountIs
    <3>3. PICK a \in Nat : a = (page - 1) * size
      <4>1. page - 1 \in Nat
        OBVIOUS
      <4> QED BY <4>1, TimesOrder
    <3> QED BY <2>8, <2>9, <3>1, <3>2, <3>3
  <2> QED BY <2>1, <2>7, <2>8, <2>10
<1> QED BY <1>4, <1>6, <1>7 DEF TableInv

\* A tab is opened.
LEMMA TableInit == Init => TableInv
<1> SUFFICES ASSUME Init PROVE TableInv
  OBVIOUS
<1>1. stored \in 0..Len(Columns) /\ closed = {} /\ route \in Routes /\ url = Nothing
      /\ asked = {Query} /\ answers = Nothing
  BY DEF Init
<1>2. DOMAIN url = {} /\ DOMAIN answers = {}
  BY <1>1 DEF Nothing
<1>3. UrlRead(url) /\ "page" \notin DOMAIN url
  BY <1>2 DEF UrlRead
<1>4. WellAsked(Query)
  BY <1>1, <1>3, QueryIs
<1>5. Inside
  BY <1>1, <1>3, FirstInside
<1> QED BY <1>1, <1>2, <1>3, <1>4, <1>5 DEF TableInv, Base, AnswersSound

\* The queries of a tab.
LEMMA AskingKeeps ==
    ASSUME TableInv, Refetch \/ \E query \in asked : AnswerArrives(query) \/ Unreachable(query)
    PROVE  TableInv'
<1>1. route \in Routes /\ UrlRead(url) /\ stored \in 0..Len(Columns)
  BY DEF TableInv, Base
<1>2. CASE Refetch
  <2>1. /\ UNCHANGED <<stored, closed, route, url, answers>> /\ asked' = asked \cup {Query}
    BY <1>2 DEF Refetch
  <2>2. Inside'
    BY <2>1, InsideSame DEF TableInv
  <2>3. WellAsked(Query)
    BY <1>1, QueryIs
  <2>4. \A q \in asked' \cup DOMAIN answers' : WellAsked(q)'
    BY <2>1, <2>3, ServerSame DEF TableInv, Base
  <2>5. Base'
    BY <1>1, <2>1, <2>4 DEF TableInv, Base, UrlRead
  <2>6. ASSUME NEW q \in DOMAIN answers', NEW answer, answer = answers'[q]
        PROVE  Sound(q, answer)'
    <3>1. Sound(q, answer)
      BY <2>1, <2>6 DEF TableInv, AnswersSound
    <3> QED BY <2>1, <3>1, ServerSame
  <2> QED BY <2>2, <2>5, <2>6 DEF TableInv, AnswersSound
<1>3. ASSUME NEW query \in asked, AnswerArrives(query)
      PROVE  TableInv'
  <2>1. WellAsked(query)
    BY DEF TableInv, Base
  <2>2. Sound(query, Answered(query))
    BY <1>1, <2>1, AnsweredSound
  <2> QED BY <1>3, <2>2, ReceiveKeeps DEF AnswerArrives
<1>4. ASSUME NEW query \in asked, Unreachable(query)
      PROVE  TableInv'
  <2>1. Sound(query, [ok |-> FALSE, total |-> 0, current |-> TRUE, rows |-> <<>>])
    BY <1>1, FailedSound
  <2> QED BY <1>4, <2>1, ReceiveKeeps DEF Unreachable
<1> QED BY <1>2, <1>3, <1>4

\* Nothing happens.
LEMMA StutterKeeps ==
    ASSUME TableInv, UNCHANGED vars
    PROVE  TableInv'
<1>1. UNCHANGED <<stored, closed, route, url, asked, answers>>
  BY DEF vars
<1>2. Inside'
  BY <1>1, InsideSame DEF TableInv
<1>3. \A q \in asked' \cup DOMAIN answers' : WellAsked(q)'
  BY <1>1, ServerSame DEF TableInv, Base
<1>4. Base'
  BY <1>1, <1>3 DEF TableInv, Base, UrlRead
<1>5. ASSUME NEW q \in DOMAIN answers', NEW answer, answer = answers'[q]
      PROVE  Sound(q, answer)'
  <2>1. Sound(q, answer)
    BY <1>1, <1>5 DEF TableInv, AnswersSound
  <2> QED BY <1>1, <2>1, ServerSame
<1> QED BY <1>2, <1>4, <1>5 DEF TableInv, AnswersSound

\* Every step keeps the invariant.
LEMMA TableStep == TableInv /\ [Next]_vars => TableInv'
<1> SUFFICES ASSUME TableInv, [Next]_vars PROVE TableInv'
  OBVIOUS
<1>1. CASE TabNext
  <2>1. CASE (\E params \in Links[route] \cup {Nothing} : Visit(params)) \/ Reload
    BY <2>1, OpeningKeeps
  <2>2. CASE \/ \E key \in DOMAIN Picks : SelectOption(key)
             \/ PickRange \/ ClearRange
             \/ ApplyAmount \/ ClearAmount
             \/ ChoosePageSize
    BY <2>2, ControlsKeep
  <2>3. CASE PreviousPage \/ NextPage
    BY <2>3, PageTurnKeeps
  <2>4. CASE Refetch \/ \E query \in asked : AnswerArrives(query) \/ Unreachable(query)
    BY <2>4, AskingKeeps
  <2> QED BY <1>1, <2>1, <2>2, <2>3, <2>4 DEF TabNext
<1>2. CASE ServerNext
  BY <1>2, ServerKeeps
<1>3. CASE UNCHANGED vars
  BY <1>3, StutterKeeps
<1> QED BY <1>1, <1>2, <1>3 DEF Next

\* The invariant holds in every state.
LEMMA TableInvariant == Spec => []TableInv
<1>1. Init => TableInv
  BY TableInit
<1>2. TableInv /\ [Next]_vars => TableInv'
  BY TableStep
<1> QED BY <1>1, <1>2, PTL DEF Spec

-----------------------------------------------------------------------------
(* What holds of the tables. *)

\* The tables keep their types: page and page size make sense whatever a link says,
\* the URL has the parameters that the page reads, every query is of the page's list,
\* and every row that is kept is one of the server's.  (WebTables.TypeOK.)
THEOREM TablesTyped == Spec => []TypeOK
<1>1. TableInv => TypeOK
  <2> SUFFICES ASSUME TableInv PROVE TypeOK
    OBVIOUS
  <2>1. Page \in Nat \ {0} /\ PageSize \in Nat \ {0}
    BY PageIs DEF TableInv, Base
  <2>2. ASSUME NEW q \in DOMAIN answers
        PROVE  Range(answers[q].rows) \subseteq 1..stored
    <3>1. PICK rows : rows = answers[q].rows
      OBVIOUS
    <3>2. rows \in Seq(1..stored)
      BY <3>1 DEF TableInv, AnswersSound, Sound
    <3>3. \A k \in DOMAIN rows : rows[k] \in 1..stored
      <4> DEFINE ids == 1..stored
      <4>1. rows \in Seq(ids)
        BY <3>2
      <4> HIDE DEF ids
      <4>2. \A k \in DOMAIN rows : rows[k] \in ids
        BY <4>1, ElementOfSeq
      <4> QED BY <4>2 DEF ids
    <3> QED BY <3>1, <3>3 DEF Range
  <2> QED BY <2>1, <2>2 DEF TableInv, Base, UrlRead, WellAsked, TypeOK
<1> QED BY <1>1, TableInvariant, PTL

\* What the URL asks for and what the server finds is the same, when no filter is a 0.
LEMMA PassingIs ==
    ASSUME TableInv, NoZero
    PROVE  Passing = HitsOf(Query)
<1>1. route \in Routes /\ UrlRead(url)
  BY DEF TableInv, Base
<1> DEFINE f == Query.filter
<1>2. /\ DOMAIN f \ Paging = DOMAIN url \ Paging
      /\ \A key \in DOMAIN url \ Paging : f[key] = url[key]
  BY <1>1, QueryIs
<1> HIDE DEF f
<1>3. \A key \in DOMAIN url \ Paging : Given(f, key)
  BY <1>2 DEF NoZero, Given
<1>4. /\ DOMAIN Asking(f) \ Paging = DOMAIN url \ Paging
      /\ \A key \in DOMAIN url \ Paging : Asking(f)[key] = url[key]
  BY <1>2, <1>3 DEF Asking, Restrict
<1>5. Written \cap DOMAIN url = DOMAIN url \ Paging
  BY <1>1, PageKeys DEF UrlRead
<1>6. {row \in Range(List) : \A key \in Written \cap DOMAIN url : Test(key, url[key], row)}
        = {row \in Range(List) : \A key \in DOMAIN Asking(f) \ Paging : Test(key, Asking(f)[key], row)}
  BY <1>4, <1>5
<1> QED BY <1>6 DEF Passing, PassingOf, HitsOf, Hits, f

\* The rows that are cut out of n on a page that is not past the end.
LEMMA CutInside ==
    ASSUME NEW T, NEW rows, rows \in Seq(T),
           NEW page, page \in Nat \ {0}, NEW size, size \in Nat \ {0},
           page <= PageCount(Len(rows), size)
    PROVE  /\ Len(Cut(rows, page, size)) = Min({size, Len(rows) - (page - 1) * size})
           /\ Cut(rows, page, size) = <<>> => Len(rows) = 0
           /\ CutOf(Cut(rows, page, size), rows, (page - 1) * size)
<1>1. PICK from : from = (page - 1) * size
  OBVIOUS
<1>2. /\ from \in Nat
      /\ Len(rows) <= from => Cut(rows, page, size) = <<>>
      /\ from < Len(rows) =>
           /\ Len(Cut(rows, page, size)) = Min({size, Len(rows) - from})
           /\ Cut(rows, page, size) # <<>>
      /\ CutOf(Cut(rows, page, size), rows, from)
  BY <1>1, CutIs, Zenon
<1>3. PICK n \in Nat : n = Len(rows)
  OBVIOUS
<1>4. page = 1 \/ from < n
  <2>1. page <= PageCount(n, size) <=> page = 1 \/ (page - 1) * size < n
    BY PageCountIs
  <2> QED BY <1>1, <1>3, <2>1
<1>5. CASE from < n
  BY <1>1, <1>2, <1>3, <1>5
<1>6. CASE ~(from < n)
  <2>1. page = 1 /\ from = 0 /\ n = 0
    <3>1. page = 1
      BY <1>4, <1>6
    <3>2. from = 0
      BY <1>1, <3>1
    <3> QED BY <1>3, <1>6, <3>1, <3>2
  <2>2. Cut(rows, page, size) = <<>>
    BY <1>2, <1>3, <2>1
  <2>3. Min({size, n - from}) = 0
    <3>1. PICK zero \in Nat : zero = 0 /\ zero = n - from
      BY <2>1
    <3>2. Min({size, zero}) = 0
      BY <3>1, MinOfTwo
    <3> QED BY <3>1, <3>2
  <2> QED BY <1>1, <1>2, <1>3, <2>1, <2>2, <2>3
<1> QED BY <1>5, <1>6

\* What a table shows is the page its URL asks for, cut out of the rows that pass the
\* filters in the URL: no late answer and no change of the server in between makes URL,
\* query and path disagree.  (WebTables.TableAnswersUrl.)
THEOREM TablesAnswerTheirUrl == Spec => []TableAnswersUrl
<1>1. TableInv => TableAnswersUrl
  <2> DEFINE hits == HitsOf(Query)
             cut == Cut(hits, Page, PageSize)
  <2> SUFFICES ASSUME TableInv, UpToDate, NoZero, Page <= PageCount(Len(Passing), PageSize)
               PROVE  /\ Answer.total = Len(Passing)
                      /\ Len(Answer.rows) = Min({PageSize, Len(Passing) - (Page - 1) * PageSize})
                      /\ \A k \in DOMAIN Answer.rows :
                            Answer.rows[k] = Passing[(Page - 1) * PageSize + k].id
    BY DEF TableAnswersUrl, Shows
  <2>1. /\ route \in Routes /\ UrlRead(url) /\ stored \in 0..Len(Columns)
        /\ Page \in Nat \ {0} /\ PageSize \in Nat \ {0}
    BY PageIs DEF TableInv, Base
  <2>2. WellAsked(Query) /\ Query.filter.page = Page /\ Query.filter.pageSize = PageSize
    BY <2>1, QueryIs
  <2>3. Passing = hits
    BY PassingIs
  <2>4. hits \in Seq(Rows)
    BY <2>1, HitsOfIs
  <2>5. PICK api : api = Fetch(TRUE, Query, List)
    OBVIOUS
  <2>6. /\ api.ok => /\ api = [ok |-> TRUE, rows |-> cut, total |-> api.total]
                     /\ api.total = Len(hits) \/ (api.total = 0 /\ cut = <<>>)
    BY <2>1, <2>2, <2>5, AnswerIs DEF AnswerFits
  <2>7. Answer = [ok |-> api.ok, total |-> api.total, current |-> TRUE,
                  rows |-> [k \in DOMAIN api.rows |-> api.rows[k].id]]
    <3>1. Query \in DOMAIN answers /\ Answer.ok /\ Answer.current
      BY DEF UpToDate, Pending
    <3>2. Answer = Answered(Query)
      BY <3>1 DEF TableInv, AnswersSound, Sound, Answer
    <3> QED BY <2>5, <3>2 DEF Answered
  <2>8. api.ok
    BY <2>7 DEF UpToDate
  <2> HIDE DEF hits, cut
  <2>9. /\ Len(cut) = Min({PageSize, Len(hits) - (Page - 1) * PageSize})
        /\ cut = <<>> => Len(hits) = 0
        /\ \A k \in DOMAIN cut :
             (Page - 1) * PageSize + k \in DOMAIN hits /\ cut[k] = hits[(Page - 1) * PageSize + k]
    <3>1. Page <= PageCount(Len(hits), PageSize)
      BY <2>3
    <3>2. PICK page \in Nat \ {0}, size \in Nat \ {0} : page = Page /\ size = PageSize
      BY <2>1
    <3>3. /\ Len(Cut(hits, page, size)) = Min({size, Len(hits) - (page - 1) * size})
          /\ Cut(hits, page, size) = <<>> => Len(hits) = 0
          /\ CutOf(Cut(hits, page, size), hits, (page - 1) * size)
      <4>1. page <= PageCount(Len(hits), size)
        BY <3>1, <3>2
      <4> QED BY <2>4, <4>1, CutInside, Zenon
    <3> QED BY <3>2, <3>3 DEF cut, CutOf
  <2>10. cut \in Seq(Rows)
    <3>1. PICK page \in Nat \ {0}, size \in Nat \ {0} : page = Page /\ size = PageSize
      BY <2>1
    <3>2. Cut(hits, page, size) \in Seq(Rows)
      BY <2>4, CutIs
    <3> QED BY <3>1, <3>2 DEF cut
  <2>11. api.rows = cut
    BY <2>6, <2>8
  <2>12. Answer.total = api.total /\ Answer.rows = [k \in DOMAIN cut |-> cut[k].id]
    BY <2>7, <2>11
  <2>13. Answer.total = Len(hits)
    BY <2>6, <2>8, <2>9, <2>12
  <2>14. Len(Answer.rows) = Len(cut)
    BY <2>10, <2>12
  <2>15. \A k \in DOMAIN Answer.rows : Answer.rows[k] = hits[(Page - 1) * PageSize + k].id
    BY <2>9, <2>12
  <2> QED BY <2>3, <2>9, <2>13, <2>14, <2>15
<1> QED BY <1>1, TableInvariant, PTL

\* Where links lead to first pages, no click leads past the last page while rows are only
\* added, or rows change that the filters do not ask about.  (WebTables.NeverPastEnd.)
THEOREM TablesStayInside == Spec => [](FirstPageLinks => NeverPastEnd)
<1>1. TableInv => (FirstPageLinks => NeverPastEnd)
  <2> SUFFICES ASSUME TableInv, FirstPageLinks, NoZero, closed = {} \/ "status" \notin DOMAIN url
               PROVE  Page <= PageCount(Len(Passing), PageSize)
    BY DEF NeverPastEnd
  <2>1. route \in Routes /\ UrlRead(url) /\ stored \in 0..Len(Columns)
    BY DEF TableInv, Base
  <2>2. Len(Passing) = Cardinality(WantedBy(url))
    <3>1. Len(HitsOf(Query)) = Cardinality(WantedBy(Query.filter))
      BY <2>1, HitsOfIs
    <3> QED BY <2>1, <3>1, QueryIs, PassingIs
  <2> QED BY <2>2 DEF TableInv, Inside, Steady
<1> QED BY <1>1, TableInvariant, PTL

\* A year of four digits begins with no other year of four digits.
LEMMA YearIsItsBeginning ==
    ASSUME NEW year \in Years, NEW digits \in Years
    PROVE  StartsWith(year, digits) <=> year = digits
<1>1. /\ year \in Nat /\ 1000 <= year /\ year <= 9999
      /\ digits \in Nat /\ 1000 <= digits /\ digits <= 9999
  BY DEF Years
<1>2. StartsWith(year, digits) <=> \/ year \div 1 = digits \/ year \div 10 = digits
                                   \/ year \div 100 = digits \/ year \div 1000 = digits
  BY DEF StartsWith
<1>3. year \div 10 <= 999 /\ year \div 100 <= 999 /\ year \div 1000 <= 999
  BY <1>1
<1>4. year \div 1 = year
  BY <1>1
<1> QED BY <1>1, <1>2, <1>3, <1>4

\* A time of day is before the midnight after a day if its day is not a later one.
LEMMA DayOfTime ==
    ASSUME NEW row, row.date \in Int, row.hour \in 0..23, NEW day \in Int
    PROVE  /\ Time(row) >= Midnight(day) <=> row.date >= day
           /\ Time(row) < Midnight(day + 1) <=> row.date <= day
BY DEF Time, Midnight

\* The rows of a list have days, hours and years.
LEMMA RowTimes ==
    ASSUME stored \in 0..Len(Columns), NEW row \in Range(List)
    PROVE  row.date \in Int /\ row.hour \in 0..23 /\ row.fiscalYear \in Years
<1>1. PICK i \in 1..stored : row = Row(i)
  BY ListIs DEF Rows
<1>2. i \in 1..Len(Columns)
  BY ColumnsAssumption
<1>3. PICK c : c = Columns[i]
  OBVIOUS
<1>4. /\ {"date", "hour", "fiscalYear", "status"} \subseteq DOMAIN c
      /\ c.date \in Int /\ c.hour \in 0..23 /\ c.fiscalYear \in Years
  BY <1>2, <1>3, ColumnsAssumption
<1>5. /\ Row(i).date = c.date /\ Row(i).fiscalYear = c.fiscalYear
      /\ Row(i).hour = IF route = "audit" THEN c.hour ELSE 0
  BY <1>3, <1>4 DEF Row
<1> QED BY <1>1, <1>4, <1>5

\* So the demo mode tests them as the server does.
LEMMA DemoIsAlike ==
    ASSUME TableInv,
           route = "reconciliation" /\ "fiscalYear" \in DOMAIN url => url.fiscalYear \in Years
    PROVE  Alike(Query.filter, List)
<1> DEFINE f == Query.filter
<1>1. route \in Routes /\ UrlRead(url) /\ stored \in 0..Len(Columns)
  BY DEF TableInv, Base
<1>2. /\ DOMAIN f \ Paging = DOMAIN url \ Paging
      /\ \A key \in DOMAIN url \ Paging : f[key] = url[key]
  BY <1>1, QueryIs
<1> HIDE DEF f
<1>3. ASSUME NEW row \in Range(List), NEW key \in DOMAIN f \ Paging
      PROVE  /\ DemoTest(key, f[key], row) <=> Test(key, f[key], row)
             /\ route = "reconciliation" /\ key = "fiscalYear" =>
                  (StartsWith(row.fiscalYear, f[key]) <=> Test(key, f[key], row))
  <2>1. key \in Dates => f[key] \in Int
    BY <1>1, <1>2 DEF UrlRead
  <2>2. row.date \in Int /\ row.hour \in 0..23 /\ row.fiscalYear \in Years
    BY <1>1, RowTimes
  <2>3. key \in Dates => /\ Time(row) >= Midnight(f[key]) <=> row.date >= f[key]
                         /\ Time(row) < Midnight(f[key] + 1) <=> row.date <= f[key]
    BY <2>1, <2>2, DayOfTime
  <2>4. DemoTest(key, f[key], row) <=> Test(key, f[key], row)
    BY <2>3 DEF DemoTest, Test, Dates
  <2>5. ASSUME route = "reconciliation", key = "fiscalYear"
        PROVE  StartsWith(row.fiscalYear, f[key]) <=> Test(key, f[key], row)
    <3>1. f[key] \in Years
      BY <1>2, <2>5
    <3>2. Test(key, f[key], row) <=> row.fiscalYear = f[key]
      BY <2>5 DEF Test
    <3> QED BY <2>2, <3>1, <3>2, YearIsItsBeginning
  <2> QED BY <2>4, <2>5
<1> QED BY <1>3 DEF Alike, f

\* The demo mode answers every query of a page as the API does, where the API does not refuse
\* it, the page is not past the end and the year of a reconciliation has four digits.
\* (WebTables.DemoAgrees.)
THEOREM DemoIsTheApi == Spec => []DemoAgrees
<1>1. TableInv => DemoAgrees
  <2> DEFINE hits == HitsOf(Query)
             cut == Cut(hits, Page, PageSize)
  <2>1. PICK api : api = Fetch(TRUE, Query, List)
    OBVIOUS
  <2>2. PICK demo : demo = Fetch(FALSE, Query, List)
    OBVIOUS
  <2> SUFFICES ASSUME TableInv, route # "insights", api.ok, Page <= PageCount(demo.total, PageSize),
                      /\ route = "reconciliation" /\ "fiscalYear" \in DOMAIN url
                         => url.fiscalYear \in Years
               PROVE  demo = api
    BY <2>1, <2>2 DEF DemoAgrees
  <2>3. /\ route \in Routes /\ UrlRead(url) /\ stored \in 0..Len(Columns)
        /\ Page \in Nat \ {0} /\ PageSize \in Nat \ {0}
    BY PageIs DEF TableInv, Base
  <2>4. WellAsked(Query) /\ Query.filter.page = Page /\ Query.filter.pageSize = PageSize
    BY <2>3, QueryIs
  <2>a. Alike(Query.filter, List)
    BY DemoIsAlike
  <2>5. /\ api = [ok |-> TRUE, rows |-> cut, total |-> api.total]
        /\ api.total = Len(hits) \/ (api.total = 0 /\ cut = <<>>)
        /\ demo = [ok |-> TRUE, rows |-> cut, total |-> Len(hits)]
    BY <2>1, <2>2, <2>3, <2>4, <2>a, AnswerIs DEF AnswerFits
  <2>6. hits \in Seq(Rows)
    BY <2>3, HitsOfIs
  <2> HIDE DEF hits, cut
  <2>7. demo.total = Len(hits)
    BY <2>5
  <2>8. cut = <<>> => Len(hits) = 0
    <3>1. PICK page \in Nat \ {0}, size \in Nat \ {0} : page = Page /\ size = PageSize
      BY <2>3
    <3>2. Cut(hits, page, size) = <<>> => Len(hits) = 0
      BY <2>6, <2>7, <3>1, CutInside
    <3> QED BY <3>1, <3>2 DEF cut
  <2>9. api.total = Len(hits)
    BY <2>5, <2>8
  <2> QED BY <2>5, <2>9
<1> QED BY <1>1, TableInvariant, PTL

\* Together with a phone the tab behaves as it does alone.
THEOREM ClientsRunTheTables == ClientsSpec => Spec
<1>1. ClientsInit => Init
  BY DEF ClientsInit
<1>2. [ClientsNext]_<<vars, app, device>> => [Next]_vars
  BY DEF ClientsNext, TabStep, PhoneStep, ServerStep, Next, vars
<1> QED BY <1>1, <1>2, PTL DEF ClientsSpec, Spec
-----------------------------------------------------------------------------
(* The explorer of the phone. *)

\* The ids of a page are a page of the ids.
LEMMA IdsOfCut ==
    ASSUME stored \in 0..Len(Columns), NEW rows \in Seq(Rows), NEW page \in Nat \ {0},
           Ids(rows) \in Seq(1..stored)
    PROVE  Ids(Cut(rows, page, PAGE_SIZE)) = Cut(Ids(rows), page, PAGE_SIZE)
<1>1. PICK size \in Nat \ {0} : size = PAGE_SIZE
  BY ExplorerAssumption, PageSizeAssumption
<1>2. PICK n \in Nat : n = Len(rows) /\ n = Len(Ids(rows)) /\ DOMAIN rows = 1..n
  <2>1. PICK m \in Nat : DOMAIN rows = 1..m /\ Len(rows) = m
    OBVIOUS
  <2>2. DOMAIN Ids(rows) = 1..m
    BY <2>1 DEF Ids
  <2> QED BY <2>1, <2>2
<1>3. PICK from \in Nat : from = (page - 1) * size
  <2>1. page - 1 \in Nat
    OBVIOUS
  <2> QED BY <2>1, TimesOrder
<1> DEFINE cut == Cut(rows, page, size)
           cutIds == Cut(Ids(rows), page, size)
<1>4. /\ cut \in Seq(Rows)
      /\ Len(rows) <= from => cut = <<>>
      /\ from < Len(rows) => Len(cut) = Min({size, Len(rows) - from})
      /\ CutOf(cut, rows, from)
  BY <1>3, CutIs, Zenon
<1>5. /\ cutIds \in Seq(1..stored)
      /\ Len(Ids(rows)) <= from => cutIds = <<>>
      /\ from < Len(Ids(rows)) => Len(cutIds) = Min({size, Len(Ids(rows)) - from})
      /\ CutOf(cutIds, Ids(rows), from)
  BY <1>3, CutIs, Zenon
<1> HIDE DEF cut, cutIds
<1>6. Len(cut) = Len(cutIds)
  BY <1>2, <1>3, <1>4, <1>5
<1>7. PICK m \in Nat : DOMAIN cut = 1..m /\ DOMAIN cutIds = 1..m
  BY <1>4, <1>5, <1>6
<1>8. \A k \in 1..m : cut[k].id = cutIds[k]
  BY <1>4, <1>5, <1>7 DEF CutOf, Ids
<1>9. Ids(cut) = cutIds
  <2>1. cutIds = [k \in 1..m |-> cutIds[k]]
    BY <1>5, <1>7
  <2>2. Ids(cut) = [k \in 1..m |-> cut[k].id]
    BY <1>7 DEF Ids
  <2> QED BY <1>8, <2>1, <2>2
<1> QED BY <1>1, <1>9 DEF cut, cutIds

\* A page that the app may have: the k-th page of a list that was once the server's.
PageRecords == [page : Nat, entries : Seq(Numbered), total : Nat, asOf : Seq(Numbered)]

Fits(record, k) ==
    /\ record \in PageRecords
    /\ record.page = k
    /\ Ordered(record.asOf, Newer)
    /\ record.entries = Cut(record.asOf, k, PAGE_SIZE)
    /\ record.total = IF record.entries = <<>> THEN 0 ELSE Len(record.asOf)

\* The server answers such a page.
LEMMA AnswerFitsPage ==
    ASSUME stored \in 0..Len(Columns), NEW chip, NEW page \in Nat \ {0}
    PROVE  Fits(Phone!JournalEntries(chip, page), page)
<1> DEFINE path == [page |-> page, pageSize |-> PAGE_SIZE]
           asked1 == Phone!BuildQuery([institutionId |-> chip])
           S == {row \in Range(List) : \A key \in DOMAIN asked1 \ Paging : Test(key, asked1[key], row)}
           list == Filter(List, S)
           cut == Cut(list, page, PAGE_SIZE)
           total == IF cut = <<>> THEN 0 ELSE Len(list)
           record == [page |-> page, entries |-> Ids(cut), total |-> total, asOf |-> Ids(list)]
<1>1. PAGE_SIZE \in Nat \ {0} /\ PAGE_SIZE <= MaxPageSize /\ MaxPageSize \in Nat
  BY ExplorerAssumption, PageSizeAssumption
<1>2. list \in Seq(Rows) /\ Ids(list) \in Seq(1..stored) /\ Ordered(Ids(list), Newer)
  BY SomeOfList
<1>3. Phone!Hits(asked1, List) = list
  BY DEF Phone!Hits, Phone!Filter, Filter, Phone!Range, Range, Phone!Paging, Paging, Phone!Test, Test,
         Phone!Time, Time, Phone!Midnight, Midnight
<1> HIDE DEF asked1, S, list
<1>4. Hits(path, list) = list
  <2>1. Hits(path, list) = Filter(list, {row \in Range(list) : TRUE})
    BY DEF Hits, Paging
  <2> QED BY <1>2, <2>1, FilterAll
<1>5. Phone!ServerList(path, list) = [ok |-> TRUE, rows |-> cut, total |-> total]
  <2>1. ~ Refused(path) /\ Window(path, list) = cut
    <3>1. Bound(path, "pageSize", DefaultPageSize) = PAGE_SIZE /\ Bound(path, "page", 1) = page
      BY DEF Bound
    <3>2. "dateFrom" \notin DOMAIN path
      OBVIOUS
    <3> HIDE DEF path
    <3>3. ~ Refused(path)
      BY <1>1, <3>1, <3>2 DEF Refused
    <3>4. Window(path, list) = Cut(list, page, PAGE_SIZE)
      BY <3>1, Zenon DEF Window, Cut
    <3> QED BY <3>3, <3>4
  <2>2. ServerList(path, list) = [ok |-> TRUE, rows |-> cut, total |-> total]
    BY <1>4, <2>1 DEF ServerList
  <2>3. Phone!ServerList(path, list) = ServerList(path, list)
    <3> HIDE DEF path
    <3>1. Phone!Hits(path, list) = Hits(path, list)
      BY DEF Phone!Hits, Hits, Phone!Filter, Filter, Phone!Range, Range, Phone!Paging, Paging,
             Phone!Test, Test, Phone!Time, Time, Phone!Midnight, Midnight
    <3>2. Phone!Window(path, list) = Window(path, list)
      BY DEF Phone!Window, Window, Phone!Bound, Bound, Phone!Min, Min
    <3>3. Phone!Refused(path) <=> Refused(path)
      BY DEF Phone!Refused, Refused, Phone!Bound, Bound
    <3>4. Phone!Failed = Failed
      BY DEF Phone!Failed, Failed
    <3> QED BY <1>4, <3>1, <3>2, <3>3, <3>4 DEF Phone!ServerList, ServerList
  <2> QED BY <2>2, <2>3
<1>6. Phone!JournalEntries(chip, page) = record
  BY <1>3, <1>5 DEF Phone!JournalEntries, asked1, Ids
<1>7. Ids(cut) = Cut(Ids(list), page, PAGE_SIZE)
  BY <1>2, IdsOfCut
<1>8. record \in PageRecords
  <2>1. Ids(list) \in Seq(Numbered)
    <3>1. 1..stored \subseteq Numbered
      BY ColumnsAssumption DEF Numbered
    <3> QED BY <1>2, <3>1, SeqWider
  <2>2. PICK size \in Nat \ {0} : size = PAGE_SIZE
    BY <1>1
  <2>3. Ids(cut) \in Seq(Numbered)
    <3>1. Cut(Ids(list), page, size) \in Seq(Numbered)
      BY <2>1, CutIs
    <3> QED BY <1>7, <2>2, <3>1
  <2>4. total \in Nat
    BY <1>2
  <2> HIDE DEF cut, total
  <2> QED BY <2>1, <2>3, <2>4 DEF PageRecords
<1>9. total = IF Ids(cut) = <<>> THEN 0 ELSE Len(Ids(list))
  <2>1. PICK size \in Nat \ {0} : size = PAGE_SIZE
    BY <1>1
  <2>2. cut \in Seq(Rows)
    BY <1>2, <2>1, CutIs
  <2>3. DOMAIN Ids(cut) = DOMAIN cut /\ DOMAIN Ids(list) = DOMAIN list
    BY DEF Ids
  <2> DEFINE length == Len(list)
  <2> HIDE DEF cut
  <2>4. Ids(cut) = <<>> <=> cut = <<>>
    <3>1. Ids(cut) = <<>> => DOMAIN cut = {}
      BY <2>3
    <3>2. cut = <<>> => Ids(cut) = <<>>
      BY DEF Ids
    <3> QED BY <2>2, <3>1, <3>2
  <2>5. Len(Ids(list)) = Len(list)
    BY <1>2, <2>3
  <2> QED BY <2>4, <2>5
<1> HIDE DEF cut, total
<1>10. /\ record.page = page /\ record.asOf = Ids(list) /\ record.entries = Ids(cut)
       /\ record.total = total
  OBVIOUS
<1> HIDE DEF record
<1> QED BY <1>2, <1>6, <1>7, <1>8, <1>9, <1>10 DEF Fits

\* Pages from the first one on.
PagesFit(s) ==
    /\ s \in Seq(PageRecords)
    /\ \A k \in DOMAIN s : Fits(s[k], k)

\* A fetch, and what it has got so far.
FetchFits(f) == f \in [kind : {"none", "next", "refetch"}, got : Seq(PageRecords)] /\ PagesFit(f.got)

CacheFits == \A key \in DOMAIN cached : Fits(cached[key], key[2])

\* The invariant of the phone: wherever a page is, it was cut out of a list of the server.
PhoneInv ==
    /\ institution \in Phone!Chips
    /\ DOMAIN pages = Phone!Chips /\ \A chip \in Phone!Chips : PagesFit(pages[chip])
    /\ DOMAIN fetch = Phone!Chips /\ \A chip \in Phone!Chips : FetchFits(fetch[chip])
    /\ \A chip \in Phone!Chips : fetch[chip].kind = "next" => pages[chip] # <<>>
    /\ CacheFits

\* Having no page is a beginning.
LEMMA NoPages == PagesFit(<<>>)
<1>1. <<>> \in Seq(PageRecords)
  BY EmptySeq
<1> QED BY <1>1 DEF PagesFit

\* The next page continues the pages before it.
LEMMA OnePageMore ==
    ASSUME NEW s, PagesFit(s), NEW record, Fits(record, Len(s) + 1)
    PROVE  PagesFit(Append(s, record)) /\ Append(s, record) # <<>>
<1>1. s \in Seq(PageRecords) /\ record \in PageRecords
  BY DEF PagesFit, Fits
<1>2. PICK n \in Nat : n = Len(s) /\ DOMAIN s = 1..n
  BY <1>1
<1>3. /\ Append(s, record) \in Seq(PageRecords) /\ Append(s, record) # <<>>
      /\ DOMAIN Append(s, record) = 1..n + 1
      /\ \A k \in 1..n : Append(s, record)[k] = s[k]
      /\ Append(s, record)[n + 1] = record
  BY <1>1, <1>2, AppendProperties
<1>4. ASSUME NEW k \in 1..n + 1 PROVE Fits(Append(s, record)[k], k)
  <2>1. CASE k \in 1..n
    BY <1>2, <1>3, <2>1 DEF PagesFit
  <2>2. CASE k = n + 1
    BY <1>2, <1>3, <2>2
  <2> QED BY <1>2, <2>1, <2>2
<1> QED BY <1>3, <1>4 DEF PagesFit

\* An answer is such a page, from the server or from the cache.
LEMMA AnyAnswerFits ==
    ASSUME stored \in 0..Len(Columns), CacheFits, NEW chip, NEW page \in Nat \ {0}
    PROVE  Fits(Phone!AnswerTo(chip, page), page)
<1>1. CASE <<chip, page>> \in DOMAIN cached
  <2>1. Fits(cached[<<chip, page>>], page)
    BY <1>1 DEF CacheFits
  <2> QED BY <1>1, <2>1 DEF Phone!AnswerTo
<1>2. CASE <<chip, page>> \notin DOMAIN cached
  <2>1. Phone!AnswerTo(chip, page) = Phone!JournalEntries(chip, page)
    BY <1>2 DEF Phone!AnswerTo
  <2> QED BY <2>1, AnswerFitsPage
<1> QED BY <1>1, <1>2

\* It may be kept for others.
LEMMA RememberKeeps ==
    ASSUME stored \in 0..Len(Columns), CacheFits, NEW chip, NEW page \in Nat \ {0},
           Phone!Remember(chip, page)
    PROVE  CacheFits'
<1>1. CASE cached' = cached
  BY <1>1 DEF CacheFits
<1>2. CASE cached' # cached
  <2>1. PICK answer : answer = Phone!AnswerTo(chip, page)
    OBVIOUS
  <2>2. /\ DOMAIN cached' = DOMAIN cached \cup {<<chip, page>>}
        /\ \A key \in DOMAIN cached' :
             cached'[key] = IF key = <<chip, page>> THEN answer ELSE cached[key]
    BY <1>2, <2>1 DEF Phone!Remember
  <2>3. Fits(answer, page)
    BY <2>1, AnyAnswerFits
  <2>4. ASSUME NEW key \in DOMAIN cached' PROVE Fits(cached'[key], key[2])
    <3>1. CASE key = <<chip, page>>
      BY <2>2, <2>3, <3>1
    <3>2. CASE key # <<chip, page>>
      BY <2>2, <3>2 DEF CacheFits
    <3> QED BY <3>1, <3>2
  <2> QED BY <2>4 DEF CacheFits
<1> QED BY <1>1, <1>2

\* A fetch that begins, or is over.
LEMMA FetchBegins ==
    /\ FetchFits(Phone!AllPages) /\ FetchFits(Phone!NextPage) /\ FetchFits(Phone!Idle)
    /\ Phone!AllPages.kind # "next" /\ Phone!Idle.kind # "next"
<1>1. ASSUME NEW kind \in {"none", "next", "refetch"}, NEW f, f = [kind |-> kind, got |-> <<>>]
      PROVE  FetchFits(f) /\ f.kind = kind
  <2>1. PICK got : got = <<>>
    OBVIOUS
  <2>2. got \in Seq(PageRecords) /\ PagesFit(got)
    BY <2>1, NoPages DEF PagesFit
  <2>3. f = [kind |-> kind, got |-> got]
    BY <1>1, <2>1
  <2> QED BY <2>2, <2>3 DEF FetchFits
<1> QED BY <1>1 DEF Phone!AllPages, Phone!NextPage, Phone!Idle

\* What the chips and the end of the list set off.
LEMMA GesturesKeep ==
    ASSUME PhoneInv,
           \/ \E chip \in Phone!Chips : Phone!Select(chip)
           \/ \E chip \in Phone!Chips : Phone!FetchFails(chip)
           \/ Phone!EndReached
           \/ \E key \in DOMAIN cached : Phone!CacheExpires(key)
    PROVE  PhoneInv'
<1> USE DEF PhoneInv
<1>0. Phone!Chips' = Phone!Chips
  BY DEF Phone!Chips
<1>1. ASSUME NEW chip \in Phone!Chips, Phone!Select(chip) PROVE PhoneInv'
  <2>1. /\ institution' = chip /\ UNCHANGED <<pages, cached>>
        /\ fetch' = fetch \/ fetch' = [fetch EXCEPT ![chip] = IF @.kind = "none" THEN Phone!AllPages ELSE @]
    BY <1>1 DEF Phone!Select
  <2>2. DOMAIN fetch' = Phone!Chips
    BY <2>1
  <2>3. \A c \in Phone!Chips : fetch'[c] = fetch[c] \/ fetch'[c] = Phone!AllPages
    BY <2>1
  <2>4. \A c \in Phone!Chips : FetchFits(fetch'[c]) /\ (fetch'[c].kind = "next" => pages[c] # <<>>)
    BY <2>3, FetchBegins
  <2>5. CacheFits'
    BY <2>1 DEF CacheFits
  <2> QED BY <1>0, <2>1, <2>2, <2>4, <2>5
<1>2. ASSUME NEW chip \in Phone!Chips, Phone!FetchFails(chip) PROVE PhoneInv'
  <2>1. UNCHANGED <<institution, pages, cached>> /\ fetch' = [fetch EXCEPT ![chip] = Phone!Idle]
    BY <1>2 DEF Phone!FetchFails
  <2>2. DOMAIN fetch' = Phone!Chips
    BY <2>1
  <2>3. \A c \in Phone!Chips : fetch'[c] = fetch[c] \/ fetch'[c] = Phone!Idle
    BY <2>1
  <2>4. \A c \in Phone!Chips : FetchFits(fetch'[c]) /\ (fetch'[c].kind = "next" => pages[c] # <<>>)
    BY <2>3, FetchBegins
  <2>5. CacheFits'
    BY <2>1 DEF CacheFits
  <2> QED BY <1>0, <2>1, <2>2, <2>4, <2>5
<1>3. CASE Phone!EndReached
  <2>1. /\ UNCHANGED <<institution, pages, cached>> /\ pages[institution] # <<>>
        /\ fetch' = [fetch EXCEPT ![institution] = Phone!NextPage]
    BY <1>3 DEF Phone!EndReached
  <2>2. DOMAIN fetch' = Phone!Chips
    BY <2>1
  <2>3. \A c \in Phone!Chips : fetch'[c] = fetch[c] \/ (c = institution /\ fetch'[c] = Phone!NextPage)
    BY <2>1
  <2>4. \A c \in Phone!Chips : FetchFits(fetch'[c]) /\ (fetch'[c].kind = "next" => pages[c] # <<>>)
    BY <2>1, <2>3, FetchBegins
  <2>5. CacheFits'
    BY <2>1 DEF CacheFits
  <2> QED BY <1>0, <2>1, <2>2, <2>4, <2>5
<1>4. ASSUME NEW key \in DOMAIN cached, Phone!CacheExpires(key) PROVE PhoneInv'
  <2>1. /\ UNCHANGED <<institution, pages, fetch>>
        /\ DOMAIN cached' \subseteq DOMAIN cached
        /\ \A k \in DOMAIN cached' : cached'[k] = cached[k]
    BY <1>4 DEF Phone!CacheExpires, Phone!Restrict
  <2>2. CacheFits'
    BY <2>1 DEF CacheFits
  <2> QED BY <1>0, <2>1, <2>2
<1> QED BY <1>1, <1>2, <1>3, <1>4

\* Pages that arrive, here or at another reader.
LEMMA ArrivalsKeep ==
    ASSUME stored \in 0..Len(Columns), PhoneInv,
           \/ \E chip \in Phone!Chips : Phone!NextPageArrives(chip) \/ Phone!RefetchedPageArrives(chip)
           \/ \E page \in 2..Len(List) : Phone!OthersRead(page)
    PROVE  PhoneInv'
<1> USE DEF PhoneInv
<1>0. Phone!Chips' = Phone!Chips
  BY DEF Phone!Chips
<1>1. ASSUME NEW chip \in Phone!Chips, Phone!NextPageArrives(chip) PROVE PhoneInv'
  <2>1. PICK old : old = pages[chip] /\ PagesFit(old) /\ old # <<>>
    BY <1>1 DEF Phone!NextPageArrives
  <2>2. PICK n \in Nat \ {0} : n = Len(old) /\ old[n].page = n
    <3>1. PICK m \in Nat : m = Len(old) /\ DOMAIN old = 1..m
      BY <2>1 DEF PagesFit
    <3>2. m # 0
      BY <2>1, <3>1 DEF PagesFit
    <3>3. m \in DOMAIN old
      BY <3>1, <3>2
    <3>4. old[m].page = m
      BY <2>1, <3>3 DEF PagesFit, Fits
    <3> QED BY <3>1, <3>2, <3>4
  <2>3. Phone!Last(pages[chip]).page + 1 = n + 1
    BY <2>1, <2>2 DEF Phone!Last
  <2>4. /\ pages' = [pages EXCEPT ![chip] = Append(@, Phone!AnswerTo(chip, n + 1))]
        /\ fetch' = [fetch EXCEPT ![chip] = Phone!Idle]
        /\ Phone!Remember(chip, n + 1)
        /\ UNCHANGED institution
    BY <1>1, <2>3 DEF Phone!NextPageArrives
  <2>5. n + 1 \in Nat \ {0}
    BY <2>2
  <2>6. PICK answer : answer = Phone!AnswerTo(chip, n + 1) /\ Fits(answer, n + 1)
    BY <2>5, AnyAnswerFits
  <2>7. PagesFit(Append(old, answer)) /\ Append(old, answer) # <<>>
    BY <2>1, <2>2, <2>6, OnePageMore
  <2>8. DOMAIN pages' = Phone!Chips /\ DOMAIN fetch' = Phone!Chips
    BY <2>4
  <2>9. ASSUME NEW c \in Phone!Chips
        PROVE  /\ PagesFit(pages'[c]) /\ FetchFits(fetch'[c])
               /\ fetch'[c].kind = "next" => pages'[c] # <<>>
    <3>1. CASE c = chip
      <4>1. pages'[c] = Append(old, answer) /\ fetch'[c] = Phone!Idle
        BY <2>1, <2>4, <2>6, <3>1
      <4> QED BY <2>7, <4>1, FetchBegins
    <3>2. CASE c # chip
      <4>1. pages'[c] = pages[c] /\ fetch'[c] = fetch[c]
        BY <2>4, <3>2
      <4> QED BY <4>1
    <3> QED BY <3>1, <3>2
  <2>10. CacheFits'
    BY <2>4, <2>5, RememberKeeps
  <2> QED BY <1>0, <2>4, <2>8, <2>9, <2>10
<1>2. ASSUME NEW chip \in Phone!Chips, Phone!RefetchedPageArrives(chip) PROVE PhoneInv'
  <2>1. PICK old : old = fetch[chip] /\ FetchFits(old) /\ old.kind = "refetch"
    BY <1>2 DEF Phone!RefetchedPageArrives
  <2>2. PICK n \in Nat : n = Len(old.got)
    BY <2>1 DEF FetchFits, PagesFit
  <2>3. n + 1 \in Nat \ {0}
    BY <2>2
  <2>4. PICK answer : answer = Phone!AnswerTo(chip, n + 1) /\ Fits(answer, n + 1)
    BY <2>3, AnyAnswerFits
  <2>5. PICK got : got = Append(old.got, answer) /\ PagesFit(got) /\ got # <<>>
    BY <2>1, <2>2, <2>4, OnePageMore DEF FetchFits
  <2>6. PICK more \in BOOLEAN :
          /\ fetch' = [fetch EXCEPT ![chip] = IF more THEN [@ EXCEPT !.got = got] ELSE Phone!Idle]
          /\ pages' = IF more THEN pages ELSE [pages EXCEPT ![chip] = got]
          /\ Phone!Remember(chip, n + 1)
          /\ UNCHANGED institution
    <3>1. PICK m \in BOOLEAN : m <=> (n + 1 < Len(pages[chip]) /\ Phone!HasNextPage(Phone!Last(got)))
      OBVIOUS
    <3> QED BY <1>2, <2>1, <2>2, <2>4, <2>5, <3>1 DEF Phone!RefetchedPageArrives
  <2>7. [old EXCEPT !.got = got] = [kind |-> "refetch", got |-> got]
    BY <2>1 DEF FetchFits
  <2>8. PICK new : new = [kind |-> "refetch", got |-> got] /\ FetchFits(new) /\ new.kind # "next"
    <3>1. PICK f : f = [kind |-> "refetch", got |-> got]
      OBVIOUS
    <3>2. got \in Seq(PageRecords)
      BY <2>5 DEF PagesFit
    <3>3. f \in [kind : {"none", "next", "refetch"}, got : Seq(PageRecords)] /\ f.got = got /\ f.kind = "refetch"
      BY <3>1, <3>2
    <3> QED BY <2>5, <3>1, <3>3 DEF FetchFits
  <2>9. DOMAIN pages' = Phone!Chips /\ DOMAIN fetch' = Phone!Chips
    BY <2>6
  <2>10. ASSUME NEW c \in Phone!Chips
         PROVE  /\ PagesFit(pages'[c]) /\ FetchFits(fetch'[c])
                /\ fetch'[c].kind = "next" => pages'[c] # <<>>
    <3>1. CASE c = chip
      <4>1. fetch'[c] = new \/ fetch'[c] = Phone!Idle
        BY <2>1, <2>6, <2>7, <2>8, <3>1
      <4>2. pages'[c] = pages[c] \/ pages'[c] = got
        BY <2>6, <3>1
      <4> QED BY <2>5, <2>8, <4>1, <4>2, FetchBegins
    <3>2. CASE c # chip
      <4>1. pages'[c] = pages[c] /\ fetch'[c] = fetch[c]
        BY <2>6, <3>2
      <4> QED BY <4>1
    <3> QED BY <3>1, <3>2
  <2>11. CacheFits'
    BY <2>3, <2>6, RememberKeeps
  <2> QED BY <1>0, <2>6, <2>9, <2>10, <2>11
<1>3. ASSUME NEW page \in 2..Len(List), Phone!OthersRead(page) PROVE PhoneInv'
  <2>1. UNCHANGED <<institution, pages, fetch>> /\ Phone!Remember(institution, page)
    BY <1>3 DEF Phone!OthersRead
  <2>2. page \in Nat \ {0}
    OBVIOUS
  <2>3. CacheFits'
    BY <2>1, <2>2, RememberKeeps
  <2> QED BY <1>0, <2>1, <2>3
<1> QED BY <1>1, <1>2, <1>3

\* Nothing is there at first, and the pages of all institutions are on their way.
LEMMA PhoneStart == Phone!Init => PhoneInv
<1> SUFFICES ASSUME Phone!Init PROVE PhoneInv
  OBVIOUS
<1>1. /\ institution \in Phone!Chips
      /\ DOMAIN pages = Phone!Chips /\ DOMAIN fetch = Phone!Chips /\ DOMAIN cached = {}
      /\ \A chip \in Phone!Chips : fetch[chip] \in {Phone!AllPages, Phone!Idle}
  BY DEF Phone!Init, Phone!Chips
<1>2. \A chip \in Phone!Chips : PagesFit(pages[chip])
  <2>1. PICK none : none = <<>> /\ PagesFit(none)
    BY NoPages
  <2>2. \A chip \in Phone!Chips : pages[chip] = none
    BY <2>1 DEF Phone!Init
  <2> QED BY <2>1, <2>2
<1> QED BY <1>1, <1>2, FetchBegins DEF PhoneInv, CacheFits

\* Every step keeps it, whichever device is looked at.
LEMMA PhoneStepKeeps ==
    TableInv /\ PhoneInv /\ [ClientsNext]_<<vars, app, device>> => PhoneInv'
<1> SUFFICES ASSUME TableInv, PhoneInv, [ClientsNext]_<<vars, app, device>>
             PROVE  PhoneInv'
  OBVIOUS
<1>1. stored \in 0..Len(Columns)
  BY DEF TableInv, Base
<1>2. CASE UNCHANGED app
  <2>1. UNCHANGED <<institution, pages, fetch, cached>> /\ Phone!Chips' = Phone!Chips
    BY <1>2 DEF app, Phone!Chips
  <2> QED BY <2>1 DEF PhoneInv, CacheFits
<1>3. CASE Phone!Next
  <2>1. \/ \E chip \in Phone!Chips : \/ Phone!Select(chip) \/ Phone!NextPageArrives(chip)
                                     \/ Phone!RefetchedPageArrives(chip) \/ Phone!FetchFails(chip)
        \/ Phone!EndReached
        \/ \E page \in 2..Len(List) : Phone!OthersRead(page)
        \/ \E key \in DOMAIN cached : Phone!CacheExpires(key)
    BY <1>3 DEF Phone!Next
  <2> QED BY <1>1, <2>1, GesturesKeep, ArrivalsKeep
<1> QED BY <1>2, <1>3 DEF ClientsNext, TabStep, PhoneStep, ServerStep

\* The invariant holds.
LEMMA PhoneInvariant == ClientsSpec => []PhoneInv
<1>1. ClientsInit => PhoneInv
  BY PhoneStart DEF ClientsInit
<1>2. TableInv /\ PhoneInv /\ [ClientsNext]_<<vars, app, device>> => PhoneInv'
  BY PhoneStepKeeps
<1>3. ClientsSpec => []TableInv
  BY ClientsRunTheTables, TableInvariant, PTL
<1> QED BY <1>1, <1>2, <1>3, PTL DEF ClientsSpec

\* Where more is published, what was there is found no nearer to the top.
LEMMA PlacesOnlyGrow ==
    ASSUME NEW a \in Seq(Numbered), NEW b \in Seq(Numbered),
           Ordered(a, Newer), Ordered(b, Newer), Range(a) \subseteq Range(b),
           NEW i \in DOMAIN a, NEW j \in DOMAIN b, a[i] = b[j]
    PROVE  i <= j
<1>1. PICK n \in Nat, m \in Nat : DOMAIN a = 1..n /\ DOMAIN b = 1..m
  OBVIOUS
<1>2. /\ \A k \in 1..n : a[k] \in Numbered /\ \E l \in 1..m : a[k] = b[l]
      /\ \A l \in 1..m : b[l] \in Numbered
  <2>1. \A k \in 1..n : a[k] \in Numbered
    BY <1>1, ElementOfSeq
  <2>2. \A l \in 1..m : b[l] \in Numbered
    BY <1>1, ElementOfSeq
  <2>3. \A k \in 1..n : a[k] \in Range(b)
    BY <1>1 DEF Range
  <2>4. \A x \in Range(b) : \E l \in 1..m : x = b[l]
    BY <1>1 DEF Range
  <2> QED BY <2>1, <2>2, <2>3, <2>4
<1>3. \A k, l \in 1..n : k < l => <<a[k], a[l]>> \in Newer
  BY <1>1 DEF Ordered
<1>4. \A k, l \in 1..m : k < l => <<b[k], b[l]>> \in Newer
  BY <1>1 DEF Ordered
<1>5. \A x, y \in Numbered : <<x, y>> \in Newer => ~ (<<y, x>> \in Newer) /\ x # y
  BY NewerOrders
<1> DEFINE good == {k \in 0..n : k \in 1..n => \A l \in 1..m : a[k] = b[l] => k <= l}
<1>6. 0 \in good
  OBVIOUS
<1>7. ASSUME NEW k \in 1..n, k - 1 \in good PROVE k \in good
  <2> SUFFICES ASSUME NEW l \in 1..m, a[k] = b[l] PROVE k <= l
    OBVIOUS
  <2>1. CASE k = 1
    BY <2>1
  <2>2. CASE k # 1
    <3>1. k - 1 \in 1..n /\ k - 1 < k
      BY <2>2
    <3>2. PICK p \in 1..m : a[k - 1] = b[p]
      BY <1>2, <3>1
    <3>3. k - 1 <= p
      BY <1>7, <3>1, <3>2
    <3>4. <<b[p], b[l]>> \in Newer
      BY <1>3, <2>2, <3>1, <3>2
    <3>5. b[p] # b[l] /\ ~ (<<b[l], b[p]>> \in Newer)
      BY <1>2, <1>5, <3>4
    <3>6. p < l
      BY <1>4, <3>5
    <3> QED BY <3>3, <3>6
  <2> QED BY <2>1, <2>2
<1>8. 0..n \subseteq good
  <2> HIDE DEF good
  <2> QED BY <1>6, <1>7, CountUp
<1>9. i \in 1..n /\ j \in 1..m /\ i \in good
  BY <1>1, <1>8
<1> QED BY <1>9

\* What a page says of itself.
LEMMA PageSays ==
    ASSUME NEW s, PagesFit(s)
    PROVE  \E n \in Nat : /\ n = Len(s)
                          /\ DOMAIN s = 1..n
                          /\ s = <<>> <=> n = 0
                          /\ \A k \in 1..n : Fits(s[k], k)
<1>1. PICK n \in Nat : n = Len(s) /\ DOMAIN s = 1..n
  BY DEF PagesFit
<1>2. s = <<>> <=> n = 0
  BY <1>1 DEF PagesFit
<1> QED BY <1>1, <1>2 DEF PagesFit

\* When the last page says that there is no more, the list it was cut from ends there.
LEMMA EndIsTheEnd ==
    ASSUME NEW record, NEW n \in Nat \ {0}, Fits(record, n), ~ Phone!HasNextPage(record)
    PROVE  Len(record.asOf) <= n * PAGE_SIZE
<1>1. PICK size \in Nat \ {0} : size = PAGE_SIZE
  BY ExplorerAssumption, PageSizeAssumption
<1>2. PICK list : list = record.asOf /\ list \in Seq(Numbered)
  BY DEF Fits, PageRecords
<1>3. PICK cut : cut = Cut(list, n, size) /\ cut = record.entries
  BY <1>1, <1>2 DEF Fits
<1>4. PICK total : total = record.total /\ total = IF cut = <<>> THEN 0 ELSE Len(list)
  BY <1>2, <1>3 DEF Fits
<1>5. PICK m \in Nat : m = Len(list)
  BY <1>2
<1>6. PICK end \in Nat : end = n * size
  BY TimesOrder
<1>7. ~ (end < total)
  BY <1>1, <1>4, <1>6 DEF Phone!HasNextPage, Fits
<1>8. CASE cut = <<>>
  <2>1. PICK from : from = (n - 1) * size
    OBVIOUS
  <2>2. from \in Nat /\ (from < Len(list) => Cut(list, n, size) # <<>>)
    BY <1>2, <2>1, CutIs, Zenon
  <2>3. from + size = end
    <3>1. n - 1 \in Nat /\ (n - 1) + 1 = n
      OBVIOUS
    <3> QED BY <1>6, <2>1, <3>1, TimesOrder
  <2>4. m <= from
    BY <1>3, <1>5, <1>8, <2>2
  <2>5. m <= end
    BY <2>2, <2>3, <2>4
  <2> QED BY <1>1, <1>2, <1>5, <1>6, <2>5
<1>9. CASE cut # <<>>
  <2>1. m <= end
    BY <1>4, <1>5, <1>7, <1>9
  <2> QED BY <1>1, <1>2, <1>5, <1>6, <2>1
<1> QED BY <1>8, <1>9

\* What is in every list is on one of the pages: on the first one that it has not been
\* pushed past.
LEMMA SomewhereShown ==
    ASSUME NEW s, NEW n \in Nat \ {0}, \A k \in 1..n : Fits(s[k], k),
           \A k \in 1..n - 1 : Range(s[k].asOf) \subseteq Range(s[k + 1].asOf),
           Len(s[n].asOf) <= n * PAGE_SIZE,
           NEW id, \A k \in 1..n : id \in Range(s[k].asOf)
    PROVE  \E k \in 1..n : id \in Range(s[k].entries)
<1>1. PICK size \in Nat \ {0} : size = PAGE_SIZE
  BY ExplorerAssumption, PageSizeAssumption
<1> DEFINE list(k) == s[k].asOf
           near == {k \in 1..n : \E i \in DOMAIN list(k) : list(k)[i] = id /\ i <= k * size}
<1>2. \A k \in 1..n : /\ list(k) \in Seq(Numbered) /\ Ordered(list(k), Newer)
                      /\ s[k].entries = Cut(list(k), k, size)
  BY <1>1 DEF Fits, PageRecords
<1>3. \A k \in 1..n : \E i \in DOMAIN list(k) : list(k)[i] = id
  BY DEF Range
<1>4. \A k \in 1..n - 1 : Range(list(k)) \subseteq Range(list(k + 1))
  OBVIOUS
<1>5. Len(list(n)) <= n * size
  BY <1>1
<1> HIDE DEF list
<1>6. n \in near
  <2>1. PICK i \in DOMAIN list(n) : list(n)[i] = id
    BY <1>3
  <2>2. list(n) \in Seq(Numbered)
    BY <1>2
  <2>3. PICK end \in Nat : end = n * size
    BY TimesOrder
  <2>4. i <= end
    BY <1>5, <2>1, <2>2, <2>3
  <2> QED BY <2>1, <2>3, <2>4
<1>7. PICK k \in near : \A l \in near : k <= l
  <2>1. near \in SUBSET Nat
    OBVIOUS
  <2> HIDE DEF near
  <2> QED BY <1>6, <2>1, LeastElement
<1>8. PICK i \in DOMAIN list(k) : list(k)[i] = id /\ i <= k * size
  OBVIOUS
<1>9. k \in 1..n /\ k \in Nat \ {0} /\ i \in Nat /\ i >= 1
  BY <1>2, <1>8
<1>10. PICK from \in Nat : from = (k - 1) * size /\ from + size = k * size
  <2>1. k - 1 \in Nat /\ (k - 1) + 1 = k
    BY <1>9
  <2> QED BY <2>1, TimesOrder
<1>11. from < i
  <2>1. CASE k = 1
    <3>1. from = 0
      BY <1>10, <2>1
    <3> QED BY <1>9, <3>1
  <2>2. CASE k # 1
    <3>1. k - 1 \in 1..n - 1 /\ k - 1 \in 1..n /\ (k - 1) + 1 = k
      BY <1>9, <2>2
    <3>2. PICK j \in DOMAIN list(k - 1) : list(k - 1)[j] = id
      BY <1>3, <3>1
    <3>3. j \in Nat
      BY <1>2, <3>1, <3>2
    <3>4. ~ (j <= from)
      <4>1. k - 1 \notin near
        BY <1>7, <1>9
      <4> QED BY <1>10, <3>1, <3>2, <4>1
    <3>5. j <= i
      <4>1. PICK a \in Seq(Numbered), b \in Seq(Numbered) :
              a = list(k - 1) /\ b = list(k) /\ Ordered(a, Newer) /\ Ordered(b, Newer)
        BY <1>2, <1>9, <3>1
      <4>2. Range(a) \subseteq Range(b)
        BY <1>4, <3>1, <4>1
      <4>3. j \in DOMAIN a /\ i \in DOMAIN b /\ a[j] = b[i]
        BY <1>8, <3>2, <4>1
      <4> QED BY <4>1, <4>2, <4>3, PlacesOnlyGrow
    <3> QED BY <1>9, <1>10, <3>3, <3>4, <3>5
  <2> QED BY <2>1, <2>2
<1>12. PICK rows \in Seq(Numbered) : rows = list(k) /\ s[k].entries = Cut(rows, k, size)
  BY <1>2, <1>9
<1>13. PICK cut : cut = Cut(rows, k, size)
  OBVIOUS
<1>14. /\ CutOf(cut, rows, from)
       /\ \A l \in DOMAIN rows : from < l /\ l <= from + size => l - from \in DOMAIN cut
  BY <1>9, <1>10, <1>12, <1>13, CutIs, Zenon
<1>15. i - from \in DOMAIN cut /\ from + (i - from) = i
  BY <1>8, <1>9, <1>10, <1>11, <1>12, <1>14
<1>16. cut[i - from] = id
  BY <1>8, <1>12, <1>14, <1>15 DEF CutOf
<1>17. id \in Range(cut)
  BY <1>15, <1>16 DEF Range
<1> QED BY <1>9, <1>12, <1>13, <1>17

\* The part of a sequence that the first pages show.
UpToPage(rows, page, size) ==
    SubSeq(rows, 1, IF page * size <= Len(rows) THEN page * size ELSE Len(rows))

\* A page more continues it.
LEMMA CutContinues ==
    ASSUME NEW T, NEW rows \in Seq(T), NEW page \in Nat \ {0}, NEW size \in Nat \ {0}
    PROVE  UpToPage(rows, page - 1, size) \o Cut(rows, page, size) = UpToPage(rows, page, size)
<1>1. PICK n \in Nat : n = Len(rows)
  OBVIOUS
<1>2. PICK from \in Nat : from = (page - 1) * size /\ page * size = from + size
  <2>1. page - 1 \in Nat /\ (page - 1) + 1 = page
    OBVIOUS
  <2> QED BY <2>1, TimesOrder
<1>3. CASE n <= from
  <2>1. Cut(rows, page, size) = <<>>
    BY <1>1, <1>2, <1>3, CutIs, Zenon
  <2>2. UpToPage(rows, page - 1, size) = rows
    <3>1. UpToPage(rows, page - 1, size) = SubSeq(rows, 1, Len(rows))
      BY <1>1, <1>2, <1>3 DEF UpToPage
    <3> QED BY <3>1, SubSeqFull
  <2>3. UpToPage(rows, page, size) = rows
    <3>1. from + size <= n => FALSE
      BY <1>2, <1>3
    <3>2. UpToPage(rows, page, size) = SubSeq(rows, 1, Len(rows))
      BY <1>1, <1>2, <3>1 DEF UpToPage
    <3> QED BY <3>2, SubSeqFull
  <2>4. rows \o <<>> = rows
    BY ConcatEmptySeq
  <2> QED BY <2>1, <2>2, <2>3, <2>4
<1>4. CASE from < n
  <2>1. PICK to \in Nat : to = (IF from + size <= n THEN from + size ELSE n) /\ from <= to /\ to <= n
    BY <1>2, <1>4
  <2>2. Min({from + size, n}) = to
    <3>1. PICK m \in Nat : m = Min({from + size, n}) /\ m <= from + size /\ m <= n
                           /\ (m = from + size \/ m = n)
      BY <1>2, MinOfTwo
    <3> QED BY <1>2, <2>1, <3>1
  <2>3. Cut(rows, page, size) = SubSeq(rows, from + 1, to)
    BY <1>1, <1>2, <2>2 DEF Cut
  <2>4. UpToPage(rows, page - 1, size) = SubSeq(rows, 1, from)
    BY <1>1, <1>2, <1>4 DEF UpToPage
  <2>5. UpToPage(rows, page, size) = SubSeq(rows, 1, to)
    BY <1>1, <1>2, <2>1 DEF UpToPage
  <2>6. SubSeq(rows, 1, from) \o SubSeq(rows, from + 1, to) = SubSeq(rows, 1, to)
    <3>1. 1 \in 1..Len(rows) + 1 /\ from \in 1 - 1..Len(rows) /\ to \in from..Len(rows)
      BY <1>1, <1>2, <1>4, <2>1
    <3> QED BY <3>1, ConcatAdjacentSubSeq
  <2> QED BY <2>3, <2>4, <2>5, <2>6
<1> QED BY <1>1, <1>2, <1>3, <1>4

\* The pages of one list, one after the other, are the list.
LEMMA WholeShown ==
    ASSUME NEW T, NEW rows \in Seq(T), NEW size \in Nat \ {0}, NEW n \in Nat \ {0},
           Len(rows) <= n * size,
           NEW cuts, Len(cuts) = n, \A k \in 1..n : cuts[k] = Cut(rows, k, size)
    PROVE  FlattenSeq(cuts) = rows
<1>1. ASSUME NEW k \in 1..n PROVE cuts[k] \in Seq(T)
  <2>1. PICK from : from = (k - 1) * size
    OBVIOUS
  <2>2. Cut(rows, k, size) \in Seq(T)
    <3>1. k \in Nat \ {0}
      OBVIOUS
    <3> QED BY <2>1, <3>1, CutIs, Zenon
  <2> QED BY <2>2
<1>2. PICK f : FlattenSeq(cuts) = f[n] /\ FlatUpTo(f, cuts, T)
  BY <1>1, FlattenSteps
<1>3. f[1] = cuts[1] /\ \A k \in 2..n : f[k] = f[k - 1] \o cuts[k]
  BY <1>2 DEF FlatUpTo
<1> DEFINE good == {k \in 0..n : k \in 1..n => f[k] = UpToPage(rows, k, size)}
<1>4. 0 \in good
  OBVIOUS
<1>5. ASSUME NEW k \in 1..n, k - 1 \in good PROVE k \in good
  <2>1. PICK p \in Nat : p = k - 1 /\ k \in Nat \ {0}
    <3>1. k - 1 \in Nat
      OBVIOUS
    <3> QED BY <3>1
  <2>2. UpToPage(rows, p, size) \o cuts[k] = UpToPage(rows, k, size)
    <3>1. cuts[k] = Cut(rows, k, size)
      OBVIOUS
    <3>2. UpToPage(rows, k - 1, size) \o Cut(rows, k, size) = UpToPage(rows, k, size)
      BY <2>1, CutContinues, Zenon
    <3> QED BY <2>1, <3>1, <3>2, Zenon
  <2>3. f[k] = UpToPage(rows, p, size) \o cuts[k]
    <3>1. CASE k = 1
      <4>1. UpToPage(rows, 0, size) = <<>>
        <5>1. PICK m \in Nat : m = Len(rows)
          OBVIOUS
        <5>2. 0 * size = 0 /\ 0 <= Len(rows)
          BY <5>1
        <5>3. SubSeq(rows, 1, 0) = <<>>
          BY SubSeqEmpty
        <5> QED BY <5>2, <5>3 DEF UpToPage
      <4>2. p = 0
        BY <2>1, <3>1
      <4>3. <<>> \o cuts[k] = cuts[k]
        BY <1>1, ConcatEmptySeq
      <4>4. f[k] = cuts[k]
        BY <1>3, <3>1
      <4> QED BY <4>1, <4>2, <4>3, <4>4, Zenon
    <3>2. CASE k # 1
      <4>1. p \in 1..n /\ k \in 2..n /\ p \in good
        BY <1>5, <2>1, <3>2
      <4>2. f[p] = UpToPage(rows, p, size)
        BY <4>1
      <4>3. f[k] = f[p] \o cuts[k]
        BY <1>3, <2>1, <4>1
      <4> QED BY <4>2, <4>3, Zenon
    <3> QED BY <3>1, <3>2
  <2>4. f[k] = UpToPage(rows, k, size)
    BY <2>2, <2>3, Zenon
  <2> QED BY <2>4
<1>6. 0..n \subseteq good
  <2> HIDE DEF good
  <2> QED BY <1>4, <1>5, CountUp
<1>7. f[n] = UpToPage(rows, n, size)
  BY <1>6
<1>8. UpToPage(rows, n, size) = SubSeq(rows, 1, Len(rows))
  <2>1. PICK m \in Nat, end \in Nat : m = Len(rows) /\ end = n * size
    BY TimesOrder
  <2>2. (IF end <= m THEN end ELSE m) = m
    BY <2>1
  <2> QED BY <2>1, <2>2 DEF UpToPage
<1> QED BY <1>2, <1>7, <1>8, SubSeqFull

\* What the invariant says of a list that has been scrolled to its end.
LEMMA ScrollIs ==
    ASSUME PhoneInv
    PROVE  Phone!ScrollShowsTheList
<1> SUFFICES ASSUME Phone!AtEnd, Phone!InOrder
    PROVE  /\ Phone!Known \subseteq Phone!Range(Phone!Shown)
           /\ (\A k \in DOMAIN pages[institution] :
                  pages[institution][k].asOf = pages[institution][1].asOf)
              => Phone!Shown = pages[institution][1].asOf
  BY DEF Phone!ScrollShowsTheList
<1>1. PICK page : page = pages[institution] /\ PagesFit(page) /\ page # <<>>
  BY DEF PhoneInv, Phone!AtEnd
<1>2. PICK n \in Nat \ {0} : n = Len(page) /\ DOMAIN page = 1..n /\ \A k \in 1..n : Fits(page[k], k)
  BY <1>1, PageSays
<1>3. ~ Phone!HasNextPage(page[n])
  BY <1>1, <1>2 DEF Phone!AtEnd, Phone!Last
<1>4. Len(page[n].asOf) <= n * PAGE_SIZE
  <2>1. Fits(page[n], n)
    BY <1>2
  <2> QED BY <1>3, <2>1, EndIsTheEnd
<1>5. \A k \in 1..n - 1 : Range(page[k].asOf) \subseteq Range(page[k + 1].asOf)
  <2>1. \A k \in 1..n - 1 : Phone!Range(page[k].asOf) \subseteq Phone!Range(page[k + 1].asOf)
    BY <1>1, <1>2 DEF Phone!InOrder
  <2>2. \A f : Phone!Range(f) = Range(f)
    BY DEF Phone!Range, Range
  <2> QED BY <2>1, <2>2, Zenon
<1> DEFINE cuts == [k \in 1..n |-> page[k].entries]
<1>6. Phone!Shown = FlattenSeq(cuts)
  <2>1. Phone!Shown = Phone!FlattenSeq([k \in DOMAIN page |-> page[k].entries])
    BY <1>1 DEF Phone!Shown
  <2>2. Phone!FlattenSeq(cuts) = FlattenSeq(cuts)
    <3> HIDE DEF cuts
    <3> QED BY DEF Phone!FlattenSeq, FlattenSeq
  <2> QED BY <1>2, <2>1, <2>2
<1>7. Len(cuts) = n /\ \A k \in 1..n : cuts[k] = page[k].entries
  OBVIOUS
<1> HIDE DEF cuts
<1>8. ASSUME NEW id \in Phone!Known PROVE id \in Phone!Range(Phone!Shown)
  <2>1. \A k \in 1..n : id \in Range(page[k].asOf)
    BY <1>1, <1>2 DEF Phone!Known, Phone!Range, Range
  <2>2. PICK k \in 1..n : id \in Range(page[k].entries)
    BY <1>2, <1>4, <1>5, <2>1, SomewhereShown
  <2>3. \A l \in 1..n : cuts[l] \in Seq(Numbered)
    BY <1>2, <1>7 DEF Fits, PageRecords
  <2>4. Range(cuts[k]) \subseteq Range(FlattenSeq(cuts))
    BY <1>7, <2>3, FlattenHas
  <2>5. id \in Range(FlattenSeq(cuts))
    BY <1>7, <2>2, <2>4
  <2> QED BY <1>6, <2>5 DEF Phone!Range, Range
<1>9. ASSUME \A k \in DOMAIN page : page[k].asOf = page[1].asOf
      PROVE  Phone!Shown = page[1].asOf
  <2>1. PICK rows \in Seq(Numbered) : rows = page[1].asOf
    <3>1. Fits(page[1], 1)
      BY <1>2
    <3> QED BY <3>1 DEF Fits, PageRecords
  <2>2. PICK size \in Nat \ {0} : size = PAGE_SIZE
    BY ExplorerAssumption, PageSizeAssumption
  <2>3. \A k \in 1..n : page[k].asOf = rows
    BY <1>2, <1>9, <2>1
  <2>4. \A k \in 1..n : cuts[k] = Cut(rows, k, size)
    BY <1>2, <1>7, <2>2, <2>3 DEF Fits
  <2>5. Len(rows) <= n * size
    BY <1>2, <1>4, <2>2, <2>3
  <2>6. FlattenSeq(cuts) = rows
    BY <1>7, <2>4, <2>5, WholeShown
  <2> QED BY <1>6, <2>1, <2>6
<1> QED BY <1>1, <1>8, <1>9

\* At the end of the explorer nothing is skipped that was published before the oldest of the
\* pages on display, if no page is older than the one above it; and the list is shown as it is,
\* each entry once, when all pages were cut from the same one.  (Explorer.ScrollShowsTheList.)
THEOREM ScrollIsComplete == ClientsSpec => []ScrollShowsTheList
<1>1. PhoneInv => ScrollShowsTheList
  BY ScrollIs DEF ScrollShowsTheList
<1> QED BY <1>1, PhoneInvariant, PTL

\* The rows that a chip has, now.
PublishedOf(chip) == {i \in 1..stored : chip # All => Columns[i].institutionId = chip}

\* Pages of lists of which each has what the one before has, the last no more than P.
Growing(s, P) ==
    /\ \A k \in DOMAIN s : Range(s[k].asOf) \subseteq P
    /\ \A k \in 1..Len(s) - 1 : Range(s[k].asOf) \subseteq Range(s[k + 1].asOf)

\* The invariant of the phone where nothing is between it and the server.
FreshInv ==
    /\ DOMAIN cached = {}
    /\ \A chip \in Phone!Chips :
         Growing(pages[chip], PublishedOf(chip)) /\ Growing(fetch[chip].got, PublishedOf(chip))

\* An answer of the server is cut out of all that the chip has.
LEMMA AnswerIsWhole ==
    ASSUME stored \in 0..Len(Columns), NEW chip, NEW page
    PROVE  Range(Phone!JournalEntries(chip, page).asOf) = PublishedOf(chip)
<1> DEFINE query == Phone!BuildQuery([institutionId |-> chip])
           S == {row \in Range(List) : \A key \in DOMAIN query \ Paging : Test(key, query[key], row)}
<1>1. Phone!Hits(query, List) = Filter(List, S)
  BY DEF Phone!Hits, Phone!Filter, Filter, Phone!Range, Range, Phone!Paging, Paging, Phone!Test, Test,
         Phone!Time, Time, Phone!Midnight, Midnight
<1>2. Range(Ids(Filter(List, S))) = {i \in 1..stored : Row(i) \in S}
  BY SomeOfList
<1>3. \A i \in 1..stored : Row(i) \in S <=> (chip # All => Columns[i].institutionId = chip)
  <2>1. \A i \in 1..stored : Row(i) \in Range(List) /\ Row(i).institutionId = Columns[i].institutionId
    <3>1. \A i \in 1..stored : "institutionId" \in DOMAIN Columns[i]
      BY ColumnsAssumption
    <3>2. \A i \in 1..stored : Row(i).institutionId = Columns[i].institutionId
      BY <3>1 DEF Row
    <3> QED BY <3>2, ListIs DEF Rows
  <2>2. /\ DOMAIN query = IF chip # All THEN {"institutionId"} ELSE {}
        /\ chip # All => query["institutionId"] = chip
    BY DEF Phone!BuildQuery, Phone!Restrict
  <2>3. DOMAIN query \ Paging = DOMAIN query
    BY <2>2 DEF Paging
  <2>4. \A row : Test("institutionId", chip, row) <=> row.institutionId = chip
    BY DEF Test
  <2> HIDE DEF query
  <2> QED BY <2>1, <2>2, <2>3, <2>4
<1> HIDE DEF query, S
<1>4. Phone!JournalEntries(chip, page).asOf = Ids(Filter(List, S))
  BY <1>1 DEF Phone!JournalEntries, Ids, query
<1> QED BY <1>2, <1>3, <1>4 DEF PublishedOf

\* Rows are only added.
LEMMA PublishedGrows ==
    ASSUME stored \in 0..Len(Columns), [Next]_vars
    PROVE  \A chip : PublishedOf(chip) \subseteq PublishedOf(chip)'
<1>1. stored' = stored \/ stored' = stored + 1
  <2>1. CASE TabNext
    BY <2>1 DEF TabNext, Visit, Reload, SelectOption, PickRange, ClearRange, ApplyAmount, ClearAmount,
                PreviousPage, NextPage, ChoosePageSize, Refetch, AnswerArrives, Unreachable, Receive, Show
  <2>2. CASE ServerNext
    BY <2>2 DEF ServerNext, Store, Close
  <2>3. CASE UNCHANGED vars
    BY <2>3 DEF vars
  <2> QED BY <2>1, <2>2, <2>3 DEF Next
<1>2. stored \in Nat
  BY ColumnsAssumption
<1>3. 1..stored \subseteq 1..stored'
  BY <1>1, <1>2
<1> QED BY <1>3 DEF PublishedOf

\* No page grows, more rows do no harm, and neither does a page of all there is.
LEMMA GrowingOn ==
    ASSUME NEW P
    PROVE  /\ Growing(<<>>, P)
           /\ \A s, Q : Growing(s, P) /\ P \subseteq Q => Growing(s, Q)
           /\ \A s, record : PagesFit(s) /\ Growing(s, P) /\ Fits(record, Len(s) + 1)
                             /\ Range(record.asOf) = P => Growing(Append(s, record), P)
<1>1. Growing(<<>>, P)
  BY DEF Growing
<1>2. ASSUME NEW s, NEW Q, Growing(s, P), P \subseteq Q PROVE Growing(s, Q)
  BY <1>2 DEF Growing
<1>3. ASSUME NEW s, NEW record, PagesFit(s), Growing(s, P), Fits(record, Len(s) + 1),
             Range(record.asOf) = P
      PROVE  Growing(Append(s, record), P)
  <2>1. PICK n \in Nat : n = Len(s) /\ DOMAIN s = 1..n
    BY <1>3, PageSays
  <2>2. PICK t : t = Append(s, record) /\ PagesFit(t)
    BY <1>3, OnePageMore
  <2>3. /\ DOMAIN t = 1..n + 1 /\ Len(t) = n + 1 /\ t[n + 1] = record
        /\ \A k \in 1..n : t[k] = s[k]
    <3>1. s \in Seq(PageRecords) /\ record \in PageRecords
      BY <1>3 DEF PagesFit, Fits
    <3> QED BY <2>1, <2>2, <3>1, AppendProperties
  <2>4. ASSUME NEW k \in 1..n + 1 PROVE Range(t[k].asOf) \subseteq P
    <3>1. CASE k \in 1..n
      BY <1>3, <2>1, <2>3, <3>1 DEF Growing
    <3>2. CASE k = n + 1
      BY <1>3, <2>3, <3>2
    <3> QED BY <2>1, <3>1, <3>2
  <2>5. ASSUME NEW k \in 1..n PROVE Range(t[k].asOf) \subseteq Range(t[k + 1].asOf)
    <3>1. CASE k + 1 \in 1..n
      <4>1. k \in 1..Len(s) - 1
        BY <2>1, <3>1
      <4> QED BY <1>3, <2>3, <3>1, <4>1 DEF Growing
    <3>2. CASE k = n
      BY <1>3, <2>3, <2>4, <3>2
    <3> QED BY <2>1, <3>1, <3>2
  <2>6. Growing(t, P)
    <3>1. Len(t) - 1 = n
      BY <2>1, <2>3
    <3> QED BY <2>3, <2>4, <2>5, <3>1 DEF Growing
  <2> QED BY <2>2, <2>6
<1> QED BY <1>1, <1>2, <1>3

\* Without a cache every step keeps it.
LEMMA FreshStepKeeps ==
    ASSUME ~ SharedCache
    PROVE  TableInv /\ PhoneInv /\ FreshInv /\ [ClientsNext]_<<vars, app, device>> => FreshInv'
<1> SUFFICES ASSUME TableInv, PhoneInv, FreshInv, [ClientsNext]_<<vars, app, device>>
             PROVE  FreshInv'
  OBVIOUS
<1>1. stored \in 0..Len(Columns)
  BY DEF TableInv, Base
<1>2. Phone!Chips' = Phone!Chips
  BY DEF Phone!Chips
<1>3. CASE UNCHANGED app
  <2>1. UNCHANGED <<institution, pages, fetch, cached>>
    BY <1>3 DEF app
  <2>2. [Next]_vars
    BY DEF ClientsNext, TabStep, PhoneStep, ServerStep, Next, vars
  <2>3. \A chip : PublishedOf(chip) \subseteq PublishedOf(chip)'
    BY <1>1, <2>2, PublishedGrows
  <2>4. ASSUME NEW chip \in Phone!Chips
        PROVE  Growing(pages'[chip], PublishedOf(chip)') /\ Growing(fetch'[chip].got, PublishedOf(chip)')
    <3>1. PICK P, Q : P = PublishedOf(chip) /\ Q = PublishedOf(chip)' /\ P \subseteq Q
      BY <2>3
    <3>2. Growing(pages[chip], P) /\ Growing(fetch[chip].got, P)
      BY <3>1 DEF FreshInv
    <3>3. Growing(pages[chip], Q) /\ Growing(fetch[chip].got, Q)
      BY <3>1, <3>2, GrowingOn
    <3> QED BY <2>1, <3>1, <3>3
  <2>5. \A chip \in Phone!Chips : (Growing(pages[chip], PublishedOf(chip)) /\ Growing(fetch[chip].got, PublishedOf(chip)))'
    BY <2>4 DEF Growing
  <2> QED BY <1>2, <2>1, <2>5 DEF FreshInv
<1>4. CASE Phone!Next /\ UNCHANGED vars
  <2>1. \A chip : PublishedOf(chip)' = PublishedOf(chip)
    BY <1>4 DEF PublishedOf, vars
  <2>2. SUFFICES /\ cached' = cached
                 /\ \A chip \in Phone!Chips : /\ Growing(pages'[chip], PublishedOf(chip))
                                              /\ Growing(fetch'[chip].got, PublishedOf(chip))
    BY <1>2, <2>1 DEF FreshInv, Growing
  <2> DEFINE same(c) == Growing(pages'[c], PublishedOf(c)) /\ Growing(fetch'[c].got, PublishedOf(c))
  <2>3. \A chip \in Phone!Chips : Growing(pages[chip], PublishedOf(chip)) /\ Growing(fetch[chip].got, PublishedOf(chip))
    BY DEF FreshInv
  <2>4. \A f \in {Phone!AllPages, Phone!NextPage, Phone!Idle} : \A P : Growing(f.got, P)
    <3>1. \A f \in {Phone!AllPages, Phone!NextPage, Phone!Idle} : f.got = <<>>
      BY DEF Phone!AllPages, Phone!NextPage, Phone!Idle
    <3> QED BY <3>1, GrowingOn, Zenon
  <2>5. ASSUME NEW chip, NEW page
        PROVE  /\ Phone!AnswerTo(chip, page) = Phone!JournalEntries(chip, page)
               /\ Range(Phone!AnswerTo(chip, page).asOf) = PublishedOf(chip)
    <3>1. Phone!AnswerTo(chip, page) = Phone!JournalEntries(chip, page)
      BY DEF FreshInv, Phone!AnswerTo
    <3> QED BY <1>1, <3>1, AnswerIsWhole
  <2>6. ASSUME NEW chip, NEW page, Phone!Remember(chip, page) PROVE cached' = cached
    BY <2>6 DEF Phone!Remember
  <2>7. ASSUME NEW chip \in Phone!Chips, Phone!Select(chip)
        PROVE  cached' = cached /\ \A c \in Phone!Chips : same(c)
    <3>1. /\ UNCHANGED <<pages, cached>>
          /\ fetch' = fetch \/ fetch' = [fetch EXCEPT ![chip] = IF @.kind = "none" THEN Phone!AllPages ELSE @]
      BY <2>7 DEF Phone!Select
    <3>2. \A c \in Phone!Chips : fetch'[c] = fetch[c] \/ fetch'[c] = Phone!AllPages
      BY <3>1 DEF PhoneInv
    <3> QED BY <2>3, <2>4, <3>1, <3>2
  <2>8. ASSUME NEW chip \in Phone!Chips, Phone!FetchFails(chip)
        PROVE  cached' = cached /\ \A c \in Phone!Chips : same(c)
    <3>1. UNCHANGED <<pages, cached>> /\ fetch' = [fetch EXCEPT ![chip] = Phone!Idle]
      BY <2>8 DEF Phone!FetchFails
    <3>2. \A c \in Phone!Chips : fetch'[c] = fetch[c] \/ fetch'[c] = Phone!Idle
      BY <3>1 DEF PhoneInv
    <3> QED BY <2>3, <2>4, <3>1, <3>2
  <2>9. ASSUME Phone!EndReached PROVE cached' = cached /\ \A c \in Phone!Chips : same(c)
    <3>1. UNCHANGED <<pages, cached>> /\ fetch' = [fetch EXCEPT ![institution] = Phone!NextPage]
      BY <2>9 DEF Phone!EndReached
    <3>2. \A c \in Phone!Chips : fetch'[c] = fetch[c] \/ fetch'[c] = Phone!NextPage
      BY <3>1 DEF PhoneInv
    <3>3. \A c \in Phone!Chips : same(c)
      BY <2>3, <2>4, <3>1, <3>2
    <3> QED BY <3>1, <3>3
  <2>10. ASSUME NEW chip \in Phone!Chips, Phone!NextPageArrives(chip)
         PROVE  cached' = cached /\ \A c \in Phone!Chips : same(c)
    <3>1. PICK old : old = pages[chip] /\ PagesFit(old) /\ old # <<>> /\ Growing(old, PublishedOf(chip))
      BY <2>3, <2>10 DEF Phone!NextPageArrives, PhoneInv
    <3>2. PICK n \in Nat \ {0} : n = Len(old) /\ old[n].page = n
      <4>1. PICK m \in Nat : m = Len(old) /\ m # 0 /\ \A k \in 1..m : Fits(old[k], k)
        BY <3>1, PageSays
      <4>2. Fits(old[m], m)
        BY <4>1
      <4> QED BY <4>1, <4>2 DEF Fits
    <3>3. Phone!Last(pages[chip]).page + 1 = n + 1
      BY <3>1, <3>2 DEF Phone!Last
    <3>4. PICK answer : /\ answer = Phone!AnswerTo(chip, n + 1)
                        /\ Fits(answer, n + 1) /\ Range(answer.asOf) = PublishedOf(chip)
      <4>1. n + 1 \in Nat \ {0}
        BY <3>2
      <4> QED BY <1>1, <2>5, <4>1, AnswerFitsPage
    <3>5. /\ pages' = [pages EXCEPT ![chip] = Append(@, answer)]
          /\ fetch' = [fetch EXCEPT ![chip] = Phone!Idle]
          /\ cached' = cached
      BY <2>6, <2>10, <3>3, <3>4 DEF Phone!NextPageArrives
    <3>6. Growing(Append(old, answer), PublishedOf(chip))
      BY <3>1, <3>2, <3>4, GrowingOn
    <3>7. ASSUME NEW c \in Phone!Chips PROVE same(c)
      <4>1. CASE c = chip
        <5>1. pages'[c] = Append(old, answer) /\ fetch'[c] = Phone!Idle
          BY <3>1, <3>5, <4>1 DEF PhoneInv
        <5> QED BY <2>4, <3>6, <4>1, <5>1
      <4>2. CASE c # chip
        <5>1. pages'[c] = pages[c] /\ fetch'[c] = fetch[c]
          BY <3>5, <4>2 DEF PhoneInv
        <5> QED BY <2>3, <5>1
      <4> QED BY <4>1, <4>2
    <3> HIDE DEF same
    <3> QED BY <3>5, <3>7
  <2>11. ASSUME NEW chip \in Phone!Chips, Phone!RefetchedPageArrives(chip)
         PROVE  cached' = cached /\ \A c \in Phone!Chips : same(c)
    <3>1. PICK old : old = fetch[chip] /\ FetchFits(old) /\ Growing(old.got, PublishedOf(chip))
      BY <2>3, <2>11 DEF PhoneInv
    <3>2. PICK n \in Nat : n = Len(old.got)
      BY <3>1 DEF FetchFits, PagesFit
    <3>3. PICK answer : /\ answer = Phone!AnswerTo(chip, n + 1)
                        /\ Fits(answer, n + 1) /\ Range(answer.asOf) = PublishedOf(chip)
      <4>1. n + 1 \in Nat \ {0}
        BY <3>2
      <4> QED BY <1>1, <2>5, <4>1, AnswerFitsPage
    <3>4. PICK got : got = Append(old.got, answer) /\ Growing(got, PublishedOf(chip))
      <4>1. PICK sofar : sofar = old.got /\ PagesFit(sofar) /\ Growing(sofar, PublishedOf(chip))
        BY <3>1 DEF FetchFits
      <4>2. Growing(Append(sofar, answer), PublishedOf(chip))
        BY <3>2, <3>3, <4>1, GrowingOn
      <4> QED BY <4>1, <4>2
    <3>5. PICK more \in BOOLEAN :
            /\ fetch' = [fetch EXCEPT ![chip] = IF more THEN [@ EXCEPT !.got = got] ELSE Phone!Idle]
            /\ pages' = IF more THEN pages ELSE [pages EXCEPT ![chip] = got]
            /\ cached' = cached
      <4>1. PICK m \in BOOLEAN : m <=> (n + 1 < Len(pages[chip]) /\ Phone!HasNextPage(Phone!Last(got)))
        OBVIOUS
      <4> QED BY <2>6, <2>11, <3>1, <3>2, <3>3, <3>4, <4>1 DEF Phone!RefetchedPageArrives
    <3>6. [old EXCEPT !.got = got].got = got
      BY <3>1 DEF FetchFits
    <3>7. ASSUME NEW c \in Phone!Chips PROVE same(c)
      <4>1. CASE c = chip
        <5>1. fetch'[c].got = got \/ fetch'[c] = Phone!Idle
          BY <3>1, <3>5, <3>6, <4>1 DEF PhoneInv
        <5>2. pages'[c] = pages[c] \/ pages'[c] = got
          BY <3>5, <4>1 DEF PhoneInv
        <5> QED BY <2>3, <2>4, <3>4, <4>1, <5>1, <5>2
      <4>2. CASE c # chip
        <5>1. pages'[c] = pages[c] /\ fetch'[c] = fetch[c]
          BY <3>5, <4>2 DEF PhoneInv
        <5> QED BY <2>3, <5>1
      <4> QED BY <4>1, <4>2
    <3> HIDE DEF same
    <3> QED BY <3>5, <3>7
  <2>12. ASSUME NEW page, Phone!OthersRead(page) PROVE FALSE
    BY <2>12 DEF Phone!OthersRead
  <2>13. ASSUME NEW key \in DOMAIN cached PROVE FALSE
    BY DEF FreshInv
  <2> HIDE DEF same
  <2>14. cached' = cached /\ \A c \in Phone!Chips : same(c)
    <3>1. \/ \E chip \in Phone!Chips : \/ Phone!Select(chip) \/ Phone!NextPageArrives(chip)
                                       \/ Phone!RefetchedPageArrives(chip) \/ Phone!FetchFails(chip)
          \/ Phone!EndReached
          \/ \E page \in 2..Len(List) : Phone!OthersRead(page)
          \/ \E key \in DOMAIN cached : Phone!CacheExpires(key)
      BY <1>4 DEF Phone!Next
    <3>2. CASE \E chip \in Phone!Chips : Phone!Select(chip) \/ Phone!FetchFails(chip)
      BY <2>7, <2>8, <3>2
    <3>3. CASE \E chip \in Phone!Chips : Phone!NextPageArrives(chip) \/ Phone!RefetchedPageArrives(chip)
      BY <2>10, <2>11, <3>3
    <3>4. CASE Phone!EndReached
      BY <2>9, <3>4
    <3>5. ~ (\E page \in 2..Len(List) : Phone!OthersRead(page))
      BY <2>12
    <3>6. ~ (\E key \in DOMAIN cached : Phone!CacheExpires(key))
      BY <2>13
    <3> QED BY <3>1, <3>2, <3>3, <3>4, <3>5, <3>6
  <2> QED BY <2>14 DEF same
<1> QED BY <1>3, <1>4 DEF ClientsNext, TabStep, PhoneStep, ServerStep

\* Without a cache no page is older than the one above it: the condition of ScrollIsComplete is
\* kept by the app alone, whatever fails, is replaced or changes.  (Explorer.InOrder.)
THEOREM OrderWithoutCache == ClientsSpec => [](~ SharedCache => Phone!InOrder)
<1>1. ClientsInit => FreshInv
  <2> SUFFICES ASSUME ClientsInit PROVE FreshInv
    OBVIOUS
  <2>1. DOMAIN cached = {}
    BY DEF ClientsInit, Phone!Init
  <2>2. ASSUME NEW chip \in Phone!Chips PROVE pages[chip] = <<>> /\ fetch[chip].got = <<>>
    BY <2>2 DEF ClientsInit, Phone!Init, Phone!AllPages, Phone!Idle
  <2>3. \A P : Growing(<<>>, P)
    BY GrowingOn
  <2>4. \A chip \in Phone!Chips : Growing(pages[chip], PublishedOf(chip)) /\ Growing(fetch[chip].got, PublishedOf(chip))
    BY <2>2, <2>3, Zenon
  <2> QED BY <2>1, <2>4 DEF FreshInv
<1>2. TableInv /\ PhoneInv /\ (~ SharedCache => FreshInv) /\ [ClientsNext]_<<vars, app, device>>
      => (~ SharedCache => FreshInv)'
  BY FreshStepKeeps
<1>3. PhoneInv /\ FreshInv => Phone!InOrder
  <2> SUFFICES ASSUME PhoneInv, FreshInv PROVE Phone!InOrder
    OBVIOUS
  <2>1. \A k \in 1..Len(pages[institution]) - 1 :
          Range(pages[institution][k].asOf) \subseteq Range(pages[institution][k + 1].asOf)
    BY DEF PhoneInv, FreshInv, Growing
  <2>2. \A f : Phone!Range(f) = Range(f)
    BY DEF Phone!Range, Range
  <2> QED BY <2>1, <2>2, Zenon DEF Phone!InOrder
<1>4. ClientsSpec => []TableInv
  BY ClientsRunTheTables, TableInvariant, PTL
<1> QED BY <1>1, <1>2, <1>3, <1>4, PhoneInvariant, PTL DEF ClientsSpec
=============================================================================
