---------------------------- MODULE MCTransferTx ----------------------------
(* Three wallets of 3 units.  t1 and t2 leave wallet A, t3 enters it at     *)
(* another rate and repeats the idempotency key of t2.  Any two of them may *)
(* overlap, t1 and t3 cross each other's locks, t2 and t3 each other's key, *)
(* and A can pay for t2 after t1 only once t3 has paid in.  t4 is the       *)
(* transfer from A to itself that the service refuses.                      *)
EXTENDS TransferTx

CONSTANTS A, B, C, t1, t2, t3, t4, k, c1, c2

MCSrc == [t \in Transfers |-> IF t = t3 THEN B ELSE A]
MCDst == [t \in Transfers |-> IF t = t1 THEN B ELSE IF t = t2 THEN C ELSE A]
MCFromAmount == [t \in Transfers |-> 2]
MCToAmount == [t \in Transfers |-> IF t = t3 THEN 1 ELSE 2]
MCOpening == [w \in Wallets |-> 3]
MCKey == [t \in Transfers |-> IF t \in {t2, t3} THEN k ELSE NoKey]
=============================================================================
