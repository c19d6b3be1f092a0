------------------------------ MODULE Counting -----------------------------
(* Sums of amounts, and bags of messages whose copies are summed.  A sum is *)
(* the number of elements of a set, so that what the proofs need of it      *)
(* follows from facts about finite sets.                                    *)
EXTENDS Integers, FiniteSets, Bags, Functions
More == INSTANCE BagsExt

(* The smallest units that the rows in S carry, and their number: what      *)
(* SUM(amount) over those rows returns (0 for no row).                      *)
Units(S, amount) == UNION {{t} \X (1 .. amount[t]) : t \in S}
Total(S, amount) == Cardinality(Units(S, amount))

(* How many copies of x are in B (the Bags of the provers lacks CopiesIn).  *)
CountOf(x, B) == IF BagIn(x, B) THEN B[x] ELSE 0

(* One copy of x goes, and what becomes of it comes.                        *)
Exchanged(B, x, new) == More!BagRemove(B, x) (+) SetToBag(new)

(* The bag of what becomes of the messages when each x turns into f[x].     *)
Moved(B, f) == [y \in Range(f) |-> Total({x \in DOMAIN f : f[x] = y}, B)]
=============================================================================
