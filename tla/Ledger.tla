-------------------------------- MODULE Ledger --------------------------------
(***************************************************************************)
(* What the posting path promises, without its statements: an entry is     *)
(* posted in one indivisible step that adds it to the journal, moves its   *)
(* balances, records its settlement and its audit event, or it leaves no   *)
(* trace.  Journal implements this specification.                          *)
(***************************************************************************)
EXTENDS Integers, Sequences, FiniteSets, FiniteSetsExt

CONSTANTS Entries, CommitmentForms, CommitmentIds, Institutions, Rows, NoKey, NoCommitment

VARIABLES posted, balance, opened, settled, settlements, audit

ledger == <<posted, balance, opened, settled, settlements, audit>>

SignedAmount(l) == IF l.direction = "DEBIT" THEN l.amount ELSE -l.amount

\* How far a posting moves the balance row r.
Movement(e, r) ==
    MapThenSumSet(LAMBDA i :
        IF r = <<e.institution, e.lines[i].account, e.lines[i].currency>>
        THEN SignedAmount(e.lines[i]) ELSE 0, DOMAIN e.lines)

\* Its debits in a currency, and its net.
Debits(e, cur) ==
    MapThenSumSet(LAMBDA i :
        IF e.lines[i].currency = cur /\ e.lines[i].direction = "DEBIT"
        THEN e.lines[i].amount ELSE 0, DOMAIN e.lines)

Net(e, cur) ==
    MapThenSumSet(LAMBDA i : IF e.lines[i].currency = cur THEN SignedAmount(e.lines[i]) ELSE 0,
                  DOMAIN e.lines)

Init ==
    /\ posted = {}
    /\ balance = [r \in Rows |-> 0]
    /\ opened = {}
    /\ settled = {}
    /\ settlements = {}
    /\ audit = [a \in ({"ENTRY_POSTED"} \X {e.id : e \in Entries})
                        \cup ({"COMMITMENT_CREATED"} \X CommitmentIds) |-> 0]

\* A new balanced entry of a registered institution.
Postable(e) ==
    /\ \A p \in posted : p.id # e.id /\ (p.key # e.key \/ e.key = NoKey)
    /\ e.institution \in Institutions
    /\ \A i \in DOMAIN e.lines : Net(e, e.lines[i].currency) = 0

\* It settles an open commitment that covers it, which may become SETTLED.
Settle(e) ==
    \E f \in opened :
        /\ f.id = e.commitment
        /\ f.id \notin settled
        /\ f.institution = e.institution
        /\ Debits(e, f.currency) \in 1..f.amount
        /\ settled' \in {settled, settled \cup {f.id}}

Post(e) ==
    /\ Postable(e)
    /\ posted' = posted \cup {e}
    /\ balance' = [r \in Rows |-> balance[r] + Movement(e, r)]
    /\ audit' = [audit EXCEPT ![<<"ENTRY_POSTED", e.id>>] = @ + 1]
    /\ \/ /\ e.commitment = NoCommitment
          /\ UNCHANGED <<settled, settlements>>
       \/ /\ e.commitment # NoCommitment
          /\ Settle(e)
          /\ settlements' = settlements \cup {e}
    /\ UNCHANGED opened

Create(f) ==
    /\ \A g \in opened : g.id # f.id
    /\ f.amount > 0
    /\ f.institution \in Institutions
    /\ opened' = opened \cup {f}
    /\ audit' = [audit EXCEPT ![<<"COMMITMENT_CREATED", f.id>>] = @ + 1]
    /\ UNCHANGED <<posted, balance, settled, settlements>>

Next ==
    \/ \E e \in Entries : Post(e)
    \/ \E f \in CommitmentForms : Create(f)

Spec == Init /\ [][Next]_ledger
=============================================================================
