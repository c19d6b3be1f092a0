---------------------------- MODULE BalanceCache ---------------------------
(* getBalance and the cached balance of one wallet, next to the postings    *)
(* that change it: the sums are two queries without a transaction, and the  *)
(* consumer that posts deletes the entry afterwards.                        *)
EXTENDS Integers, FiniteSets

CONSTANTS
  Transfers,   \* those of the wallet, numbered in the order of createdAt
  Incoming,    \* those that credit it; the others debit it
  Reads        \* the calls of getBalance served at one time

ASSUME TransfersAssumption == /\ Transfers \subseteq Nat /\ IsFiniteSet(Transfers)
                              /\ Incoming \subseteq Transfers

VARIABLES
  posted,      \* the transfers in the journal
  dirty,       \* those whose consumer has not yet deleted the entry
  entry,       \* the cached balance
  reading      \* how far each call has come

balances == <<posted, dirty, entry, reading>>

NotRead == -1
Sums    == Nat \cup {NotRead}

(* excused is history: what was cached may be wrong, since a posting came   *)
(* between the queries and the cache, or its consumer did not delete it.    *)
Entry   == [known : BOOLEAN, amount : Int, excused : BOOLEAN]
(* crossed is history: a posting came after the first of the two queries.   *)
Reading == [at : {"idle", "sums"}, credits : Sums, debits : Sums, crossed : BOOLEAN]

NoEntry   == [known |-> FALSE, amount |-> 0, excused |-> FALSE]
NoReading == [at |-> "idle", credits |-> NotRead, debits |-> NotRead, crossed |-> FALSE]

Credits(journal) == Cardinality(journal \cap Incoming)
Debits(journal)  == Cardinality(journal \ Incoming)
Balance == Credits(posted) - Debits(posted)

BalanceInit ==
  /\ posted = {} /\ dirty = {} /\ entry = NoEntry
  /\ reading = [r \in Reads |-> NoReading]

-----------------------------------------------------------------------------
(* A hit answers what is cached and changes nothing.                        *)
MissesEntry(r) ==
  /\ reading[r].at = "idle" /\ ~entry.known
  /\ reading' = [reading EXCEPT ![r].at = "sums"]
  /\ UNCHANGED <<posted, dirty, entry>>

SumsCredits(r) ==
  /\ reading[r].at = "sums" /\ reading[r].credits = NotRead
  /\ reading' = [reading EXCEPT ![r].credits = Credits(posted)]
  /\ UNCHANGED <<posted, dirty, entry>>

SumsDebits(r) ==
  /\ reading[r].at = "sums" /\ reading[r].debits = NotRead
  /\ reading' = [reading EXCEPT ![r].debits = Debits(posted)]
  /\ UNCHANGED <<posted, dirty, entry>>

Stores(r) ==
  /\ reading[r].credits # NotRead /\ reading[r].debits # NotRead
  /\ entry' = [known |-> TRUE, amount |-> reading[r].credits - reading[r].debits,
               excused |-> reading[r].crossed]
  /\ reading' = [reading EXCEPT ![r] = NoReading]
  /\ UNCHANGED <<posted, dirty>>

ReadFails(r) ==
  /\ reading[r].at = "sums"
  /\ reading' = [reading EXCEPT ![r] = NoReading]
  /\ UNCHANGED <<posted, dirty, entry>>

(* A minute after it was stored.                                            *)
EntryExpires ==
  /\ entry.known
  /\ entry' = NoEntry
  /\ UNCHANGED <<posted, dirty, reading>>

-----------------------------------------------------------------------------
(* writeJournalEntries.                                                     *)
Posts(t) ==
  /\ t \notin posted
  /\ posted' = posted \cup {t} /\ dirty' = dirty \cup {t}
  /\ reading' = [r \in Reads |->
       [reading[r] EXCEPT !.crossed = \/ @ \/ reading[r].credits # NotRead
                                      \/ reading[r].debits # NotRead]]
  /\ UNCHANGED entry

(* Faulty variant of Invalidates: the entry is left to expire.              *)
LeavesEntry(t) ==
  /\ t \in dirty
  /\ dirty' = dirty \ {t}
  /\ UNCHANGED <<posted, entry, reading>>

Invalidates(t) ==
  /\ t \in dirty
  /\ entry' = NoEntry
  /\ dirty' = dirty \ {t}
  /\ UNCHANGED <<posted, reading>>

(* The consumer fails before it has deleted the entry; when the message     *)
(* comes again it gets no further than the journal, which has the transfer. *)
NeverInvalidates(t) ==
  /\ t \in dirty
  /\ dirty' = dirty \ {t}
  /\ entry' = IF entry.known THEN [entry EXCEPT !.excused = TRUE] ELSE entry
  /\ UNCHANGED <<posted, reading>>

GetBalance(r) ==
  MissesEntry(r) \/ SumsCredits(r) \/ SumsDebits(r) \/ Stores(r) \/ ReadFails(r)

BalanceNext ==
  \/ \E r \in Reads : GetBalance(r)
  \/ \E t \in Transfers : Posts(t) \/ Invalidates(t) \/ NeverInvalidates(t)
  \/ EntryExpires

BalanceSpec == BalanceInit /\ [][BalanceNext]_balances

-----------------------------------------------------------------------------
BalanceTypeOK ==
  /\ posted \subseteq Transfers /\ dirty \subseteq posted
  /\ entry \in Entry /\ reading \in [Reads -> Reading]

(* A cached balance is the journal's, unless a posting is about to delete   *)
(* it, a posting came between the queries and the cache, or a consumer      *)
(* failed to delete it (wallet.service.ts:140,                              *)
(* transfer-initiated.consumer.ts:121).                                     *)
BalanceExplained ==
  entry.known /\ ~entry.excused /\ dirty = {} => entry.amount = Balance
=============================================================================
