----------------------------- MODULE MCConsole -----------------------------
EXTENDS Console

CONSTANTS j1, j2, c1, t1

Kinds == [op \in Ops |->
             IF op \in {j1, j2} THEN "entry" ELSE IF op = c1 THEN "commitment" ELSE "transaction"]
=============================================================================
