-------------------------- MODULE MCCustomerViews --------------------------
(* Three transfers, of which the second debits the wallet, and a customer   *)
(* who looks at one thing at a time and opens the pages of the first two:   *)
(* the views do not change each other.  With the third transfer there is    *)
(* only one call of getBalance at a time.                                   *)
EXTENDS CustomerViews, TLC

CONSTANTS p1, p2, r1, r2, o1, o2

MCFilters == {Transfers, {1, 3}}

Busy ==
  {v \in {"balance", "page", "export", "wallets"} :
     \/ v = "balance" /\ (entry.known \/ \E r \in Reads : reading[r].at # "idle")
     \/ v = "page" /\ page.at # "none"
     \/ v = "export" /\ export.at # "idle"
     \/ v = "wallets" /\ (wallets > 0 \/ Pending # {})}

OneAtATime ==
  /\ Cardinality(Busy) <= 1 /\ page.of # 3
  /\ 3 \in rows => Cardinality({r \in Reads : reading[r].at # "idle"}) <= 1

Symmetry == Permutations(Processes) \cup Permutations(Reads) \cup Permutations(Openings)
=============================================================================
