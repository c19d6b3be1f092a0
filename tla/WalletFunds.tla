---------------------------- MODULE WalletFunds ----------------------------
(* The money of the ledger.  A wallet stores no balance: the code sums the  *)
(* rows of JournalEntry and of Transfer every time it needs one.  This      *)
(* module gives those sums for a set of transfers; the modules that extend  *)
(* it keep the sets.                                                        *)
EXTENDS Counting

CONSTANTS
  Transfers,   \* the transfers ever asked for
  Wallets,     \* the wallets of one tenant
  Src, Dst,    \* walletFromId and walletToId of each transfer
  FromAmount,  \* its amount in the smallest unit of the source currency
  ToAmount,    \* the converted amount, in that of the destination currency
  Opening      \* what earlier, settled journal entries left in each wallet

ASSUME TransfersAssumption == IsFiniteSet(Transfers)

ASSUME WalletsAssumption ==
  /\ Src \in [Transfers -> Wallets]
  /\ Dst \in [Transfers -> Wallets]

ASSUME AmountsAssumption ==
  /\ FromAmount \in [Transfers -> Nat]
  /\ ToAmount \in [Transfers -> Nat]
  /\ Opening \in [Wallets -> Nat]

Outgoing(w) == {t \in Transfers : Src[t] = w}
Incoming(w) == {t \in Transfers : Dst[t] = w}

(* computeBalance's two aggregates, over the transfers whose journal        *)
(* entries are committed.                                                   *)
Credits(w, posted) == Opening[w] + Total(posted \cap Incoming(w), ToAmount)
Debits(w, posted)  == Total(posted \cap Outgoing(w), FromAmount)

(* What a wallet can still spend once every posted debit and every debit    *)
(* promised to a transfer in held is taken off.                             *)
Available(w, posted, held) ==
  Credits(w, posted) - Total((posted \cup held) \cap Outgoing(w), FromAmount)
=============================================================================
