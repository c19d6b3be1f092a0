--------------------------- MODULE CustomerViews ---------------------------
(* What is shown while the consumers work: the balance of a wallet, the     *)
(* page of a transfer, an administrator's export of the transfers, and the  *)
(* wallets themselves.  Dead letters are not replayed here, and a message   *)
(* is not published twice (Notifications and TransferPipeline do that).     *)
EXTENDS BalanceCache, TransferPage, Exports, Wallets

ASSUME OneSetOfTransfers == PageTransfers = Transfers /\ Rows = Transfers

VARIABLES
  work,       \* how far the consumers have come with each transfer
  lost        \* history: the transfers of which no status is ever sent

vars == <<balances, status, page, rows, export, wallets, opening, together, work, lost>>

Stages == {"none", "post", "status", "invalidate", "publish", "emit", "again", "over"}

Init ==
  /\ BalanceInit /\ PageInit /\ ExportInit /\ WalletsInit
  /\ work = [t \in Transfers |-> "none"] /\ lost = {}

Moves(t, from, to) == work[t] = from /\ work' = [work EXCEPT ![t] = to]

(* computePendingOutgoing.                                                  *)
Reserved == Cardinality({t \in rows \ Incoming : status[t] = "INITIATED"})

(* createTransfer: a transfer that the wallet can pay for.                  *)
Create(t) ==
  /\ t \in Incoming \/ Balance > Reserved
  /\ Moves(t, "none", "post") /\ Insert(t)
  /\ UNCHANGED <<balances, status, page, export, wallets, opening, together, lost>>

-----------------------------------------------------------------------------
(* TransferInitiatedConsumer.handleMessage, one commit or call after the    *)
(* other.                                                                   *)

Post(t) ==
  /\ Moves(t, "post", "status") /\ Posts(t)
  /\ UNCHANGED <<status, page, rows, export, wallets, opening, together, lost>>

(* The attempts are exhausted; no status is sent.                           *)
Fail(t) ==
  /\ Moves(t, "post", "over") \/ Moves(t, "again", "over")
  /\ Becomes(t, "FAILED")
  /\ lost' = lost \cup {t}
  /\ UNCHANGED <<balances, rows, export, wallets, opening, together>>

(* Faulty variant of Complete: the status is updated before the journal.    *)
CompleteFirst(t) ==
  /\ Moves(t, "status", "invalidate") \/ Moves(t, "post", "post")
  /\ Becomes(t, "COMPLETED")
  /\ UNCHANGED <<balances, rows, export, wallets, opening, together, lost>>

Complete(t) ==
  /\ Moves(t, "status", "invalidate") /\ Becomes(t, "COMPLETED")
  /\ UNCHANGED <<balances, rows, export, wallets, opening, together, lost>>

Invalidate(t) ==
  /\ Moves(t, "invalidate", "publish") /\ Invalidates(t)
  /\ UNCHANGED <<status, page, rows, export, wallets, opening, together, lost>>

Publish(t) ==
  /\ Moves(t, "publish", "emit")
  /\ UNCHANGED <<balances, status, page, rows, export, wallets, opening, together, lost>>

(* The consumer fails or its process stops after the journal was committed: *)
(* the message comes again, and can only fail.                              *)
Stop(t) ==
  /\ \E from \in {"status", "invalidate", "publish"} : Moves(t, from, "again")
  /\ lost' = lost \cup {t}
  /\ IF t \in dirty THEN NeverInvalidates(t) ELSE UNCHANGED balances
  /\ UNCHANGED <<status, page, rows, export, wallets, opening, together>>

(* Its message is retried as an initiated transfer, which can only fail, or *)
(* gets lost.                                                               *)
StopNotice(t) ==
  /\ Moves(t, "emit", "again")
  /\ lost' = lost \cup {t}
  /\ UNCHANGED <<balances, status, page, rows, export, wallets, opening, together>>

(* TransferCompletedConsumer.handleMessage; its message may come again.     *)
Emit(t, p) ==
  /\ Moves(t, "emit", "over") \/ Moves(t, "emit", "emit")
  /\ Emits(t, p)
  /\ UNCHANGED <<balances, rows, export, wallets, opening, together, lost>>

Consume(t) ==
  \/ Create(t) \/ Post(t) \/ Fail(t) \/ Complete(t) \/ Invalidate(t) \/ Publish(t) \/ Stop(t) \/ StopNotice(t)
  \/ \E p \in Processes : Emit(t, p)

-----------------------------------------------------------------------------
AskBalance ==
  /\ (\E r \in Reads : GetBalance(r)) \/ EntryExpires
  /\ UNCHANGED <<status, page, rows, export, wallets, opening, together, work, lost>>

Browse ==
  /\ View /\ page'.of \in rows
  /\ UNCHANGED <<balances, rows, export, wallets, opening, together, work, lost>>

Download ==
  /\ ExportTransfers
  /\ UNCHANGED <<balances, status, page, wallets, opening, together, work, lost>>

OpenWallet ==
  /\ WalletsNext
  /\ UNCHANGED <<balances, status, page, rows, export, work, lost>>

Next ==
  \/ \E t \in Transfers : Consume(t)
  \/ AskBalance \/ Browse \/ Download \/ OpenWallet

Spec == Init /\ [][Next]_vars

-----------------------------------------------------------------------------
TypeOK ==
  /\ BalanceTypeOK /\ PageTypeOK /\ ExportTypeOK /\ WalletsTypeOK
  /\ work \in [Transfers -> Stages] /\ lost \subseteq Transfers

(* A page says COMPLETED only of a transfer that is posted, and FAILED only *)
(* when no other status is to come (use-transfer.ts:40).                    *)
ShownIsTrue ==
  page.at = "shown" =>
    /\ page.shown = "COMPLETED" => page.of \in posted
    /\ page.shown = "FAILED" => page.of \in lost /\ work[page.of] = "over"

(* A page that waits for a transfer that is settled missed its status in    *)
(* another process or while it had no stream, or none was ever sent         *)
(* (use-transfer.ts:33, transfer-completed.consumer.ts:117).                *)
WaitIsExplained ==
  page.at = "shown" /\ page.shown = "INITIATED" /\ work[page.of] = "over"
    => page.missed \/ page.of \in lost
=============================================================================
