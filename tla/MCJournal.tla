------------------------------ MODULE MCJournal ------------------------------
(* Small instances of Journal for TLC. *)
EXTENDS Journal, TLC

CONSTANTS s1, s2, s3

Debit(account, amount)  == [account |-> account, direction |-> "DEBIT",
                            amount |-> amount, currency |-> "USD"]
Credit(account, amount) == [account |-> account, direction |-> "CREDIT",
                            amount |-> amount, currency |-> "USD"]
Euro(l) == [l EXCEPT !.currency = "EUR"]

Entry(id, key, commitment, lines) ==
    [id |-> id, institution |-> "moh", key |-> key, commitment |-> commitment, lines |-> lines]

\* Payments against contract c1 (5) on disjoint accounts: PayFuel uses up what
\* PayRent leaves, PayOil is too much.
PayRent == Entry("e1", "k1", "c1", <<Debit("rent", 3), Credit("cash", 3)>>)
PayFuel == Entry("e2", "k2", "c1", <<Debit("fuel", 2), Credit("bank", 2)>>)
PayOil  == Entry("e5", "k3", "c1", <<Debit("fuel", 3), Credit("bank", 3)>>)
\* Takes the rows of PayRent in the opposite order.
Refund  == Entry("e3", NoKey, "c1", <<Debit("cash", 1), Credit("rent", 1)>>)
\* PayFuel again under a new id (a client that lost the answer and its id).
Retry   == [PayFuel EXCEPT !.id = "e4"]
\* The id of PayRent with other lines, one row written twice.
Corrected == Entry("e1", "k5", NoCommitment,
                   <<Debit("rent", 1), Debit("rent", 1), Credit("cash", 2)>>)
\* One that does not balance, one of an unregistered institution, and
\* settlements the commitment does not allow.
Unbalanced == Entry("e6", NoKey, NoCommitment, <<Debit("rent", 2), Credit("cash", 1)>>)
Stranger   == [Entry("e7", NoKey, NoCommitment, <<Debit("rent", 1), Credit("cash", 1)>>)
               EXCEPT !.institution = "nobody"]
InEuro     == Entry("e8", NoKey, "c1", <<Euro(Debit("rent", 1)), Euro(Credit("cash", 1))>>)
PayMore    == Entry("e9", NoKey, "c1", <<Debit("fuel", 3), Credit("cash", 3)>>)
PayTwo     == Entry("e10", NoKey, "c1", <<Debit("fuel", 2), Credit("cash", 2)>>)
OfOther    == [PayTwo EXCEPT !.id = "e11", !.institution = "mod"]

SomeRows(accounts, currencies) == {"moh", "mod", "nobody"} \X accounts \X currencies

Contract == [id |-> "c1", institution |-> "moh", currency |-> "USD", amount |-> 5]
Nowhere  == [id |-> "c2", institution |-> "nobody", currency |-> "USD", amount |-> 5]

GeneralEntries == {PayRent, PayFuel, Refund, Retry, Corrected}
\* Every settlement is paid out of the one cash account; Refund and PayRent can
\* deadlock.
OddEntries     == {PayRent, PayTwo, Refund, Unbalanced, Stranger, InEuro, PayMore, OfOther}
RaceEntries    == {PayRent, PayOil}

Forms   == {Contract}
OddForms == {Contract, Nowhere}
Ids     == {"c1", "c2"}
Moh     == {"moh", "mod"}
UsdRows == SomeRows({"rent", "fuel", "cash", "bank"}, {"USD"})
AllRows == SomeRows({"rent", "fuel", "cash", "bank"}, {"USD", "EUR"})

TwoSessions   == {s1, s2}
ThreeSessions == {s1, s2, s3}
SessionSymmetry == Permutations(Sessions)
=============================================================================
