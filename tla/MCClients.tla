----------------------------- MODULE MCClients -----------------------------
(***************************************************************************)
(* Small instances of Clients: a list of up to three rows in pages of one  *)
(* or two, one value per filter.                                           *)
(***************************************************************************)
EXTENDS Clients

\* The second row enters the list at its end, the third at its top.
ThreeRows ==
    LET row(id, inst, year, status, date, hour, amount, type, source) ==
          [id |-> id, institutionId |-> inst, fiscalYear |-> year, status |-> status, date |-> date,
           hour |-> hour, amountMinor |-> amount, accountType |-> type, sourceSystem |-> source]
    IN  << row(1, "moh", 2026, "OPEN",    2, 9,  2, "ASSET",     "itmis"),
           row(2, "moe", 2025, "OPEN",    1, 0,  1, "LIABILITY", "fmis"),
           row(3, "moh", 2026, "PENDING", 3, 23, 3, "ASSET",     "itmis") >>

AllRoutes == {"journal", "transactions", "audit", "commitments", "reconciliation",
              "ingestion", "accounts", "balances", "institutions", "insights"}

FewPicks ==
    [institutionId |-> {"moh"}, fiscalYear |-> {2026}, status |-> {"OPEN"},
     accountType |-> {"ASSET"}, sourceSystem |-> {}, date |-> {2}]

\* A range that the API refuses, a size that the bar does not offer, a page 0, an
\* amount of 0, which the path builders take for none; a first day and a least
\* amount, which only links bring into the URL; the first digits of a year.
SharedLinks ==
    [r \in AllRoutes |->
        CASE r = "journal"        -> {[dateFrom |-> 2, dateTo |-> 1]}
          [] r = "audit"          -> {[pageSize |-> 4], [page |-> 0], [dateFrom |-> 2]}
          [] r = "transactions"   -> {[amountLte |-> 0], [amountGte |-> 2], [dateFrom |-> 2]}
          [] r = "reconciliation" -> {[fiscalYear |-> 202]}
          [] OTHER                -> {}]

TypedAmounts == {-1, 2}

\* A journal that is reached from the sidebar only.
OneJournal == {"journal"}
NoLinks    == [r \in OneJournal |-> {}]
=============================================================================
