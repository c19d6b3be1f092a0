------------------------- MODULE TransferTxProofs -------------------------
(* Theorems about TransferTx, for every set of transfers, of wallets and of *)
(* amounts.  The argument: a createWithOutbox that has its row lock is the  *)
(* only one on its source wallet (LocksExclude) and no posting can commit   *)
(* an entry of that wallet, so the sums it has read stay true               *)
(* (SnapshotHolds) until it commits against them.                           *)
EXTENDS TransferTx, CountingProofs

(* FOR UPDATE on a wallet excludes FOR UPDATE and FOR KEY SHARE on it.      *)
LocksExclude ==
  /\ \A t, u \in Transfers :
       t # u /\ pc[t] \in Locked /\ pc[u] \in Locked => Src[t] # Src[u]
  /\ \A t \in Transfers, d \in Deliveries :
       pc[t] \in Locked =>
         /\ at[d] \in {"credit", "commit"} => Src[d[1]] # Src[t]
         /\ at[d] = "commit" => Dst[d[1]] # Src[t]

(* A Transfer row is committed exactly when its call came to its end, and   *)
(* only then is there a message to handle.                                  *)
RowsCommitted ==
  /\ \A t \in Transfers : status[t] = "none" <=> pc[t] # "accepted"
  /\ \A d \in Deliveries : at[d] # "queued" => status[d[1]] # "none"

(* A row is inserted only if the sums read allow it.                        *)
Decided == \A t \in Transfers : pc[t] \in {"fk", "outbox"} => Affordable(t)

LockInv == TypeOK /\ LocksExclude /\ RowsCommitted /\ Decided /\ SnapshotHolds

(* What the handler may assume when its message is delivered only once.     *)
SingleDelivery == \A c, e \in Copies : c = e

PostedOrPending ==
  \A d \in Deliveries :
    /\ d[1] \notin posted /\ at[d] # "dead" => status[d[1]] \in {"none", "INITIATED"}
    /\ at[d] \in {"status", "report"} => d[1] \in posted
    /\ d[1] \in posted => status[d[1]] # "none"

-----------------------------------------------------------------------------
(* The sums of WalletFunds.                                                 *)

(* The amounts of some of the transfers can be summed.                      *)
LEMMA AmountsOf ==
  ASSUME NEW S \in SUBSET Transfers, NEW amount \in [Transfers -> Nat]
  PROVE  Amounts(S, amount)
BY TransfersAssumption, FS_Subset DEF Amounts

(* The sums of a wallet are numbers, and what it can spend may be negative. *)
LEMMA AvailableType ==
  ASSUME NEW w \in Wallets, NEW paid \in SUBSET Transfers, NEW held \in SUBSET Transfers
  PROVE  /\ Credits(w, paid) \in Nat
         /\ Debits(w, paid) \in Nat
         /\ Available(w, paid, held) \in Int
<1>1. Total(paid \cap Incoming(w), ToAmount) \in Nat
  BY TotalType, AmountsOf, AmountsAssumption
<1>2. Total(paid \cap Outgoing(w), FromAmount) \in Nat
  BY TotalType, AmountsOf, AmountsAssumption
<1>3. Total((paid \cup held) \cap Outgoing(w), FromAmount) \in Nat
  BY TotalType, AmountsOf, AmountsAssumption
<1> QED BY <1>1, <1>2, <1>3, AmountsAssumption DEF Credits, Debits, Available

(* Posting what is held, and releasing, never lessen what can be spent.     *)
LEMMA AvailableGrows ==
  ASSUME NEW w \in Wallets,
         NEW p \in SUBSET Transfers, NEW h \in SUBSET Transfers,
         NEW q \in SUBSET Transfers, NEW g \in SUBSET Transfers,
         p \subseteq q, q \cup g \subseteq p \cup h
  PROVE  Available(w, p, h) <= Available(w, q, g)
<1>1. Total(p \cap Incoming(w), ToAmount) <= Total(q \cap Incoming(w), ToAmount)
  BY TotalMonotone, AmountsOf, AmountsAssumption
<1>2. Total((q \cup g) \cap Outgoing(w), FromAmount)
        <= Total((p \cup h) \cap Outgoing(w), FromAmount)
  BY TotalMonotone, AmountsOf, AmountsAssumption
<1>3. /\ Total(p \cap Incoming(w), ToAmount) \in Nat
      /\ Total(q \cap Incoming(w), ToAmount) \in Nat
      /\ Total((q \cup g) \cap Outgoing(w), FromAmount) \in Nat
      /\ Total((p \cup h) \cap Outgoing(w), FromAmount) \in Nat
  BY TotalType, AmountsOf, AmountsAssumption
<1> QED BY <1>1, <1>2, <1>3, AmountsAssumption DEF Available, Credits

(* Holding one more transfer, decided on sums that do not count too little  *)
(* of what is held, takes at most its amount and leaves no overdraft.       *)
LEMMA HoldingOneMore ==
  ASSUME NEW w \in Wallets, NEW t \in Transfers,
         NEW paid \in SUBSET Transfers, NEW held \in SUBSET Transfers,
         NEW reserved \in Nat,
         Total(held \cap Outgoing(w), FromAmount) <= reserved,
         Credits(w, paid) - Debits(w, paid) - reserved >= FromAmount[t]
  PROVE  /\ Available(w, paid, held) >= FromAmount[t]
         /\ Available(w, paid, held \cup {t}) >= 0
<1> DEFINE P == paid \cap Outgoing(w)
           H == held \cap Outgoing(w)
           O == (paid \cup held) \cap Outgoing(w)
           N == (paid \cup (held \cup {t})) \cap Outgoing(w)
<1>1. /\ P \in SUBSET Transfers /\ H \in SUBSET Transfers
      /\ O \in SUBSET Transfers /\ N \in SUBSET Transfers
  BY DEF Outgoing
<1>2. /\ Total(P, FromAmount) \in Nat /\ Total(H, FromAmount) \in Nat
      /\ Total(O, FromAmount) \in Nat /\ Total(N, FromAmount) \in Nat
      /\ Total(O \cup {t}, FromAmount) \in Nat
  BY <1>1, TotalType, AmountsOf, AmountsAssumption
<1>3. Total(O, FromAmount) <= Total(P, FromAmount) + Total(H, FromAmount)
  <2>1. O = P \cup H
    OBVIOUS
  <2> QED BY <1>1, <2>1, TotalUnion, AmountsOf, AmountsAssumption
<1>4. Total(N, FromAmount) <= Total(O, FromAmount) + FromAmount[t]
  <2>1. Total(N, FromAmount) <= Total(O \cup {t}, FromAmount)
    BY <1>1, TotalMonotone, AmountsOf, AmountsAssumption
  <2>2. Total(O \cup {t}, FromAmount) <= Total(O, FromAmount) + Total({t}, FromAmount)
    BY <1>1, TotalUnion, AmountsOf, AmountsAssumption
  <2>3. Total({t}, FromAmount) = FromAmount[t]
    BY TotalOne, AmountsAssumption
  <2> QED BY <1>2, <2>1, <2>2, <2>3, AmountsAssumption
<1>5. Credits(w, paid) \in Nat /\ FromAmount[t] \in Nat
  BY AvailableType, AmountsAssumption
<1> QED BY <1>2, <1>3, <1>4, <1>5 DEF Available, Debits
-----------------------------------------------------------------------------
(* A delivery is a pair of a transfer and a copy of its message.            *)
LEMMA DeliveryType ==
  ASSUME NEW d \in Deliveries
  PROVE  d[1] \in Transfers /\ d[2] \in Copies /\ d = <<d[1], d[2]>>
BY DEF Deliveries

(* What the database still calls INITIATED are transfers.                   *)
LEMMA PendingType == Pending \in SUBSET Transfers
BY DEF Pending

(* The sums that are read are natural numbers.                              *)
LEMMA SumsType ==
  ASSUME TypeOK, NEW t \in Transfers
  PROVE  /\ Credits(Src[t], posted) \in Nat
         /\ Debits(Src[t], posted) \in Nat
         /\ Total(Pending \cap Outgoing(Src[t]), FromAmount) \in Nat
<1>1. Src[t] \in Wallets /\ posted \in SUBSET Transfers
  BY WalletsAssumption DEF TypeOK
<1>2. Credits(Src[t], posted) \in Nat /\ Debits(Src[t], posted) \in Nat
  BY <1>1, AvailableType
<1>3. Total(Pending \cap Outgoing(Src[t]), FromAmount) \in Nat
  BY PendingType, TotalType, AmountsOf, AmountsAssumption
<1> QED BY <1>2, <1>3

(* The empty tables have the types.                                         *)
LEMMA InitType == Init => TypeOK
BY RetriesAssumption DEF Init, TypeOK, NothingSeen, PcValues, Open, Locked, Answered, Statuses, AtValues

(* Every statement of a call and every step of a handler keeps the types.   *)
LEMMA TypeStep == TypeOK /\ [Next]_vars => TypeOK'
<1> SUFFICES ASSUME TypeOK, [Next]_vars PROVE TypeOK'
  OBVIOUS
<1> USE RetriesAssumption DEF TypeOK, PcValues, Open, Locked, Answered, Statuses, AtValues
<1>1. ASSUME NEW t \in Transfers, Creating(t) PROVE TypeOK'
  <2>1. CASE Validate(t)
    BY <2>1 DEF Validate, Goto
  <2>2. CASE LockSource(t)
    BY <2>2 DEF LockSource, Goto
  <2>3. CASE ReadCredits(t)
    BY <2>3, SumsType DEF ReadCredits, Goto
  <2>4. CASE ReadDebits(t)
    BY <2>4, SumsType DEF ReadDebits, Goto
  <2>5. CASE ReadReserved(t)
    BY <2>5, SumsType DEF ReadReserved, Goto
  <2>6. CASE Insufficient(t) \/ Duplicate(t)
    BY <2>6 DEF Insufficient, Duplicate, Answer, Goto, NothingSeen
  <2>7. CASE InsertTransfer(t) \/ ShareDestination(t)
    BY <2>7 DEF InsertTransfer, ShareDestination, Goto
  <2>8. CASE CommitWithOutbox(t)
    BY <2>8 DEF CommitWithOutbox, Answer, Goto, NothingSeen
  <2>9. CASE DeadlockVictim(t)
    BY <2>9 DEF DeadlockVictim, Answer, Goto, NothingSeen
  <2> QED BY <1>1, <2>1, <2>2, <2>3, <2>4, <2>5, <2>6, <2>7, <2>8, <2>9 DEF Creating
<1>2. ASSUME NEW t \in Transfers, TimeOut(t) PROVE TypeOK'
  BY <1>2 DEF TimeOut, Answer, Goto, NothingSeen
<1>3. ASSUME NEW d \in Deliveries, Posting(d) PROVE TypeOK'
  <2>0. d[1] \in Transfers
    BY DeliveryType
  <2> USE <1>3, <2>0 DEF Step
  <2>1. CASE Receive(d) \/ InsertDebit(d) \/ InsertCredit(d) \/ Report(d)
    BY <2>1 DEF Receive, InsertDebit, InsertCredit, Report
  <2>2. CASE CommitEntries(d)
    BY <2>2 DEF CommitEntries
  <2>5. CASE SetCompleted(d)
    BY <2>5 DEF SetCompleted
  <2>3. CASE HandlerFails(d)
    BY <2>3 DEF HandlerFails
  <2>4. CASE MarkFailed(d)
    BY <2>4 DEF MarkFailed
  <2> QED BY <2>1, <2>2, <2>3, <2>4, <2>5 DEF Posting
<1>4. CASE UNCHANGED vars
  BY <1>4 DEF vars
<1> QED BY <1>1, <1>2, <1>3, <1>4 DEF Next

(* The state of both transactions keeps to its types, for all constants.    *)
THEOREM TypeCorrect == Spec => []TypeOK
BY InitType, TypeStep, PTL DEF Spec

-----------------------------------------------------------------------------
(* A granted FOR UPDATE finds neither lock on the wallet.                   *)
LEMMA ForUpdateGranted ==
  ASSUME NEW t \in Transfers, pc[t] = "lock", BlockersOfCreate(t) = {}
  PROVE  /\ \A u \in Transfers \ {t} : pc[u] \in Locked => Src[u] # Src[t]
         /\ \A d \in Deliveries :
              /\ at[d] \in {"credit", "commit"} => Src[d[1]] # Src[t]
              /\ at[d] = "commit" => Dst[d[1]] # Src[t]
<1>1. (ForUpdate(Src[t]) \cup KeyShare(Src[t])) \ {Create(t)} = {}
  BY DEF BlockersOfCreate
<1>2. ASSUME NEW u \in Transfers \ {t}, pc[u] \in Locked, Src[u] = Src[t] PROVE FALSE
  <2>1. Create(u) \in ForUpdate(Src[t])
    BY <1>2 DEF ForUpdate, Outgoing
  <2>2. Create(u) # Create(t)
    BY DEF Create
  <2> QED BY <1>1, <2>1, <2>2
<1>3. ASSUME NEW d \in Deliveries,
             \/ Src[d[1]] = Src[t] /\ at[d] \in {"credit", "commit"}
             \/ Dst[d[1]] = Src[t] /\ at[d] = "commit"
      PROVE FALSE
  <2>1. Post(d) \in KeyShare(Src[t])
    BY <1>3 DEF KeyShare
  <2>2. Post(d) # Create(t)
    BY DEF Post, Create
  <2> QED BY <1>1, <2>1, <2>2
<1> QED BY <1>2, <1>3

(* A granted FOR KEY SHARE finds no FOR UPDATE.                             *)
LEMMA KeyShareGranted ==
  ASSUME NEW d \in Deliveries, BlockersOfPost(d) = {}, NEW t \in Transfers, pc[t] \in Locked
  PROVE  /\ at[d] = "debit" => Src[d[1]] # Src[t]
         /\ at[d] = "credit" => Dst[d[1]] # Src[t]
<1>1. ASSUME NEW w, Src[t] = w PROVE Create(t) \in ForUpdate(w)
  BY <1>1 DEF ForUpdate, Outgoing
<1>2. at[d] = "debit" => ForUpdate(Src[d[1]]) = {}
  BY DEF BlockersOfPost
<1>3. at[d] = "credit" => ForUpdate(Dst[d[1]]) = {}
  BY DEF BlockersOfPost
<1> QED BY <1>1, <1>2, <1>3

(* Giving locks back, or keeping them, excludes what was excluded.          *)
LEMMA LocksShrink ==
  ASSUME LocksExclude,
         \A t \in Transfers : pc'[t] \in Locked => pc[t] \in Locked,
         \A d \in Deliveries :
           /\ at'[d] \in {"credit", "commit"} => at[d] \in {"credit", "commit"}
           /\ at'[d] = "commit" => at[d] = "commit"
  PROVE  LocksExclude'
BY DEF LocksExclude, Locked

(* Locks stay exclusive: a granted lock found none in its way, and every    *)
(* other step at most gives some back.                                      *)
LEMMA LocksStep == TypeOK /\ LocksExclude /\ [Next]_vars => LocksExclude'
<1> SUFFICES ASSUME TypeOK, LocksExclude, [Next]_vars PROVE LocksExclude'
  OBVIOUS
<1>1. ASSUME NEW t \in Transfers, Creating(t) PROVE LocksExclude'
  <2>1. CASE LockSource(t)
    <3>1. /\ pc[t] = "lock" /\ pc' = [pc EXCEPT ![t] = "credits"]
          /\ at' = at /\ BlockersOfCreate(t) = {}
      BY <2>1 DEF LockSource, Goto
    <3>2. \A u \in Transfers : u # t => pc'[u] = pc[u]
      BY <3>1 DEF TypeOK
    <3> QED BY <3>1, <3>2, ForUpdateGranted DEF LocksExclude
  <2>2. CASE ~LockSource(t)
    <3>1. at' = at /\ \A u \in Transfers : pc'[u] \in Locked => pc[u] \in Locked
      BY <1>1, <2>2 DEF Creating, Validate, ReadCredits, ReadDebits, ReadReserved, Insufficient,
         Duplicate, InsertTransfer, ShareDestination, CommitWithOutbox, DeadlockVictim, Answer,
         Goto, TypeOK, Locked
    <3> QED BY <3>1, LocksShrink
  <2> QED BY <2>1, <2>2
<1>2. ASSUME NEW t \in Transfers, TimeOut(t) PROVE LocksExclude'
  <2>1. at' = at /\ \A u \in Transfers : pc'[u] \in Locked => pc[u] \in Locked
    BY <1>2 DEF TimeOut, Answer, Goto, TypeOK, Locked
  <2> QED BY <2>1, LocksShrink
<1>3. ASSUME NEW d \in Deliveries, Posting(d) PROVE LocksExclude'
  <2>1. pc' = pc
    BY <1>3 DEF Posting, Receive, InsertDebit, InsertCredit, CommitEntries, SetCompleted, Report,
       HandlerFails, MarkFailed, Step
  <2>2. CASE InsertDebit(d) \/ InsertCredit(d)
    <3>1. /\ at[d] \in {"debit", "credit"} /\ BlockersOfPost(d) = {}
          /\ at' = [at EXCEPT ![d] = IF at[d] = "debit" THEN "credit" ELSE "commit"]
      BY <2>2 DEF InsertDebit, InsertCredit, Step
    <3>2. \A e \in Deliveries : at'[e] = IF e # d THEN at[e]
                              ELSE IF at[d] = "debit" THEN "credit" ELSE "commit"
      BY <3>1 DEF TypeOK
    <3> QED BY <2>1, <3>1, <3>2, KeyShareGranted DEF LocksExclude
  <2>3. CASE ~InsertDebit(d) /\ ~InsertCredit(d)
    <3>1. \A e \in Deliveries :
            /\ at'[e] \in {"credit", "commit"} => at[e] \in {"credit", "commit"}
            /\ at'[e] = "commit" => at[e] = "commit"
      BY <1>3, <2>3 DEF Posting, Receive, CommitEntries, SetCompleted, Report, HandlerFails,
         MarkFailed, Step, TypeOK
    <3> QED BY <2>1, <3>1, LocksShrink
  <2> QED BY <2>2, <2>3
<1>4. CASE UNCHANGED vars
  BY <1>4, LocksShrink DEF vars
<1> QED BY <1>1, <1>2, <1>3, <1>4 DEF Next

-----------------------------------------------------------------------------
(* A message follows its committed row: rows never vanish, and only         *)
(* committed transfers are delivered.                                       *)
LEMMA RowsStep == TypeOK /\ RowsCommitted /\ [Next]_vars => RowsCommitted'
<1> SUFFICES ASSUME TypeOK, RowsCommitted, [Next]_vars PROVE RowsCommitted'
  OBVIOUS
<1> USE DEF RowsCommitted, TypeOK, Goto, Answer, Step
<1>1. ASSUME NEW t \in Transfers, Creating(t) PROVE RowsCommitted'
  <2>1. CASE CommitWithOutbox(t)
    BY <2>1 DEF CommitWithOutbox
  <2>2. CASE ~CommitWithOutbox(t)
    <3>1. at' = at /\ status' = status
      BY <1>1, <2>2 DEF Creating, Validate, LockSource, ReadCredits, ReadDebits, ReadReserved,
         Insufficient, Duplicate, InsertTransfer, ShareDestination, DeadlockVictim
    <3>2. \A u \in Transfers : pc'[u] = "accepted" <=> pc[u] = "accepted"
      BY <1>1, <2>2 DEF Creating, Validate, LockSource, ReadCredits, ReadDebits, ReadReserved,
         Insufficient, Duplicate, InsertTransfer, ShareDestination, DeadlockVictim, Open, Locked
    <3> QED BY <3>1, <3>2
  <2> QED BY <2>1, <2>2
<1>2. ASSUME NEW t \in Transfers, TimeOut(t) PROVE RowsCommitted'
  BY <1>2 DEF TimeOut, Open, Locked
<1>3. ASSUME NEW d \in Deliveries, Posting(d) PROVE RowsCommitted'
  <2>0. d[1] \in Transfers /\ (at[d] # "queued" => status[d[1]] # "none")
    BY DeliveryType
  <2>1. pc' = pc
    BY <1>3 DEF Posting, Receive, InsertDebit, InsertCredit, CommitEntries, SetCompleted, Report,
       HandlerFails, MarkFailed
  <2>2. CASE Receive(d)
    BY <2>0, <2>1, <2>2 DEF Receive
  <2>3. CASE InsertDebit(d) \/ InsertCredit(d) \/ CommitEntries(d) \/ Report(d)
    BY <2>0, <2>1, <2>3 DEF InsertDebit, InsertCredit, CommitEntries, Report
  <2>4. CASE SetCompleted(d)
    BY <2>0, <2>1, <2>4 DEF SetCompleted
  <2>5. CASE HandlerFails(d)
    <3>1. status' = status /\ at[d] # "queued"
      BY <2>5 DEF HandlerFails
    <3>2. \A e \in Deliveries : e # d => at'[e] = at[e]
      BY <2>5 DEF HandlerFails
    <3> QED BY <2>0, <2>1, <3>1, <3>2
  <2>6. CASE MarkFailed(d)
    <3>1. at[d] # "queued" /\ \A e \in Deliveries : e # d => at'[e] = at[e]
      BY <2>6 DEF MarkFailed
    <3>2. CASE status' = status
      BY <2>0, <2>1, <3>1, <3>2
    <3>3. CASE status' = [status EXCEPT ![d[1]] = "FAILED"]
      BY <2>0, <2>1, <3>1, <3>3
    <3> QED BY <2>6, <3>2, <3>3 DEF MarkFailed
  <2> QED BY <1>3, <2>2, <2>3, <2>4, <2>5, <2>6 DEF Posting
<1>4. CASE UNCHANGED vars
  BY <1>4 DEF vars
<1> QED BY <1>1, <1>2, <1>3, <1>4 DEF Next

(* A call that has decided to insert could afford its amount by the sums it *)
(* read, which it does not read again.                                      *)
LEMMA DecidedStep == TypeOK /\ Decided /\ [Next]_vars => Decided'
<1> SUFFICES ASSUME TypeOK, Decided, [Next]_vars PROVE Decided'
  OBVIOUS
<1> USE DEF Decided, Affordable, TypeOK, Goto, Answer, Step
<1>1. ASSUME NEW t \in Transfers, Creating(t) PROVE Decided'
  <2>1. CASE Validate(t) \/ LockSource(t) \/ ReadCredits(t) \/ ReadDebits(t) \/ ReadReserved(t)
    BY <2>1 DEF Validate, LockSource, ReadCredits, ReadDebits, ReadReserved
  <2>2. CASE InsertTransfer(t) \/ ShareDestination(t)
    BY <2>2 DEF InsertTransfer, ShareDestination
  <2>3. CASE Insufficient(t) \/ Duplicate(t) \/ CommitWithOutbox(t) \/ DeadlockVictim(t)
    BY <2>3 DEF Insufficient, Duplicate, CommitWithOutbox, DeadlockVictim
  <2> QED BY <1>1, <2>1, <2>2, <2>3 DEF Creating
<1>2. ASSUME NEW t \in Transfers, TimeOut(t) PROVE Decided'
  BY <1>2 DEF TimeOut
<1>3. ASSUME NEW d \in Deliveries, Posting(d) PROVE Decided'
  BY <1>3 DEF Posting, Receive, InsertDebit, InsertCredit, CommitEntries, SetCompleted, Report,
     HandlerFails, MarkFailed
<1>4. CASE UNCHANGED vars
  BY <1>4 DEF vars
<1> QED BY <1>1, <1>2, <1>3, <1>4 DEF Next

-----------------------------------------------------------------------------
(* A step that leaves t's call alone keeps its snapshot if it posts nothing *)
(* on its source wallet and reserves nothing more there.                    *)
LEMMA SnapshotFrame ==
  ASSUME TypeOK, TypeOK', NEW t \in Transfers, Snapshot(t),
         pc'[t] = pc[t], seen'[t] = seen[t],
         pc[t] \in Locked =>
           /\ posted' \cap Incoming(Src[t]) = posted \cap Incoming(Src[t])
           /\ posted' \cap Outgoing(Src[t]) = posted \cap Outgoing(Src[t])
           /\ Pending' \cap Outgoing(Src[t]) \subseteq Pending \cap Outgoing(Src[t])
  PROVE  Snapshot(t)'
<1>1. CASE pc[t] \in Locked
  <2> DEFINE P == Pending \cap Outgoing(Src[t])
             Q == Pending' \cap Outgoing(Src[t])
  <2>1. Credits(Src[t], posted)' = Credits(Src[t], posted)
    BY <1>1 DEF Credits
  <2>2. Debits(Src[t], posted)' = Debits(Src[t], posted)
    BY <1>1 DEF Debits
  <2>3. Total(Q, FromAmount) <= Total(P, FromAmount)
    <3>1. P \in SUBSET Transfers /\ Q \in SUBSET P
      BY <1>1, PendingType
    <3> QED BY <3>1, TotalMonotone, AmountsOf, AmountsAssumption
  <2>4. Total(P, FromAmount) \in Nat /\ Total(Q, FromAmount) \in Nat
    <3>1. P \in SUBSET Transfers /\ Q \in SUBSET Transfers
      BY <1>1, PendingType
    <3> QED BY <3>1, TotalType, AmountsOf, AmountsAssumption
  <2>5. seen[t].reserved \in Nat
    BY DEF TypeOK
  <2>6. pc[t] \in {"decide", "fk", "outbox"} => seen[t].reserved >= Total(Q, FromAmount)
    BY <2>3, <2>4, <2>5 DEF Snapshot
  <2> QED BY <2>1, <2>2, <2>6 DEF Snapshot
<1>2. CASE pc[t] \notin Locked
  BY <1>2 DEF Snapshot, Locked
<1> QED BY <1>1, <1>2

(* The step of another call: only its commit matters, and it is on another  *)
(* source wallet.                                                           *)
LEMMA SnapshotOtherCall ==
  ASSUME TypeOK, TypeOK', LocksExclude, NEW t \in Transfers, Snapshot(t),
         NEW u \in Transfers \ {t}, Creating(u) \/ TimeOut(u)
  PROVE  Snapshot(t)'
<1>1. /\ pc'[t] = pc[t] /\ seen'[t] = seen[t] /\ posted' = posted
  BY DEF Creating, TimeOut, Validate, LockSource, ReadCredits, ReadDebits, ReadReserved,
     Insufficient, Duplicate, InsertTransfer, ShareDestination, CommitWithOutbox, DeadlockVictim,
     Answer, Goto, TypeOK
<1>2. CASE CommitWithOutbox(u)
  <2>1. pc[u] = "outbox" /\ status' = [status EXCEPT ![u] = "INITIATED"]
    BY <1>2 DEF CommitWithOutbox, Answer, Goto
  <2>2. pc[t] \in Locked => Src[u] # Src[t]
    BY <2>1 DEF LocksExclude, Locked
  <2>3. pc[t] \in Locked => Pending' \cap Outgoing(Src[t]) = Pending \cap Outgoing(Src[t])
    BY <2>1, <2>2 DEF Pending, Outgoing, TypeOK
  <2> QED BY <1>1, <2>3, SnapshotFrame
<1>3. CASE ~CommitWithOutbox(u)
  <2>1. status' = status
    BY <1>3 DEF Creating, TimeOut, Validate, LockSource, ReadCredits, ReadDebits, ReadReserved,
       Insufficient, Duplicate, InsertTransfer, ShareDestination, DeadlockVictim
  <2>2. Pending' = Pending
    BY <2>1 DEF Pending
  <2> QED BY <1>1, <2>2, SnapshotFrame
<1> QED BY <1>2, <1>3

(* A call's own step: each read adds a sum that is true now.                *)
LEMMA SnapshotOwnCall ==
  ASSUME TypeOK, TypeOK', NEW t \in Transfers, Snapshot(t), Creating(t) \/ TimeOut(t)
  PROVE  Snapshot(t)'
<1> USE DEF Snapshot, Goto, TypeOK
<1>1. CASE Validate(t) \/ LockSource(t)
  BY <1>1 DEF Validate, LockSource, Locked
<1>2. CASE ReadCredits(t) \/ ReadDebits(t)
  BY <1>2 DEF ReadCredits, ReadDebits, Locked
<1>3. CASE ReadReserved(t)
  <2>1. /\ pc[t] = "reserved" /\ pc'[t] = "decide" /\ posted' = posted /\ Pending' = Pending
        /\ seen' = [seen EXCEPT ![t].reserved = Total(Pending \cap Outgoing(Src[t]), FromAmount)]
    BY <1>3 DEF ReadReserved, Pending
  <2>2. /\ seen'[t].credits = seen[t].credits /\ seen'[t].debits = seen[t].debits
        /\ seen'[t].reserved = Total(Pending \cap Outgoing(Src[t]), FromAmount)
    BY <2>1
  <2>3. Total(Pending \cap Outgoing(Src[t]), FromAmount) \in Nat
    BY SumsType
  <2>4. seen'[t].reserved >= Total(Pending' \cap Outgoing(Src[t]), FromAmount)
    BY <2>1, <2>2, <2>3
  <2> QED BY <2>1, <2>2, <2>4 DEF Locked
<1>4. CASE InsertTransfer(t) \/ ShareDestination(t)
  BY <1>4 DEF InsertTransfer, ShareDestination, Locked, Pending
<1>5. CASE Insufficient(t) \/ Duplicate(t) \/ CommitWithOutbox(t) \/ DeadlockVictim(t) \/ TimeOut(t)
  <2>1. pc'[t] \notin Locked
    BY <1>5 DEF Insufficient, Duplicate, CommitWithOutbox, DeadlockVictim, TimeOut, Answer, Locked
  <2> QED BY <2>1 DEF Locked
<1> QED BY <1>1, <1>2, <1>3, <1>4, <1>5 DEF Creating

(* A posting's step: it commits only entries of wallets nobody holds, and   *)
(* its status updates only end reservations.                                *)
LEMMA SnapshotPosting ==
  ASSUME TypeOK, TypeOK', LocksExclude, RowsCommitted, NEW t \in Transfers, Snapshot(t),
         NEW d \in Deliveries, Posting(d)
  PROVE  Snapshot(t)'
<1>0. d[1] \in Transfers
  BY DeliveryType
<1>1. pc' = pc /\ seen' = seen
  BY DEF Posting, Receive, InsertDebit, InsertCredit, CommitEntries, SetCompleted, Report,
     HandlerFails, MarkFailed, Step
<1>2. CASE CommitEntries(d)
  <2>1. at[d] = "commit" /\ posted' = posted \cup {d[1]} /\ status' = status
    BY <1>2 DEF CommitEntries, Step
  <2>2. pc[t] \in Locked => Src[d[1]] # Src[t] /\ Dst[d[1]] # Src[t]
    BY <2>1 DEF LocksExclude
  <2>3. Pending' = Pending
    BY <2>1 DEF Pending
  <2>4. pc[t] \in Locked =>
          /\ posted' \cap Incoming(Src[t]) = posted \cap Incoming(Src[t])
          /\ posted' \cap Outgoing(Src[t]) = posted \cap Outgoing(Src[t])
    BY <2>1, <2>2 DEF Incoming, Outgoing
  <2> QED BY <1>1, <2>3, <2>4, SnapshotFrame
<1>3. CASE ~CommitEntries(d)
  <2>1. posted' = posted
    BY <1>3 DEF Posting, Receive, InsertDebit, InsertCredit, SetCompleted, Report, HandlerFails,
       MarkFailed
  <2>2. \/ status' = status
        \/ \E s \in {"COMPLETED", "FAILED"} : status' = [status EXCEPT ![d[1]] = s]
    BY <1>3 DEF Posting, Receive, InsertDebit, InsertCredit, SetCompleted, Report, HandlerFails,
       MarkFailed
  <2>3. Pending' \subseteq Pending
    BY <1>0, <2>2 DEF Pending, TypeOK
  <2> QED BY <1>1, <2>1, <2>3, SnapshotFrame
<1> QED BY <1>2, <1>3

(* The snapshots of all open calls survive every step, of the call itself,  *)
(* of another call and of a posting.                                        *)
LEMMA SnapshotStep ==
  TypeOK /\ TypeOK' /\ LocksExclude /\ RowsCommitted /\ SnapshotHolds /\ [Next]_vars
    => SnapshotHolds'
<1> SUFFICES ASSUME TypeOK, TypeOK', LocksExclude, RowsCommitted, SnapshotHolds, [Next]_vars,
                    NEW t \in Transfers
             PROVE  Snapshot(t)'
  BY DEF SnapshotHolds
<1>0. Snapshot(t)
  BY DEF SnapshotHolds
<1>1. ASSUME NEW u \in Transfers, Creating(u) \/ TimeOut(u) PROVE Snapshot(t)'
  <2>1. CASE u = t
    BY <1>0, <1>1, <2>1, SnapshotOwnCall
  <2>2. CASE u # t
    BY <1>0, <1>1, <2>2, SnapshotOtherCall
  <2> QED BY <2>1, <2>2
<1>2. ASSUME NEW d \in Deliveries, Posting(d) PROVE Snapshot(t)'
  BY <1>0, <1>2, SnapshotPosting
<1>3. CASE UNCHANGED vars
  BY <1>0, <1>3, SnapshotFrame DEF vars, Pending
<1> QED BY <1>1, <1>2, <1>3 DEF Next

(* No call holds anything at first.                                         *)
LEMMA LockInvInit == Init => LockInv
<1> SUFFICES ASSUME Init PROVE LockInv
  OBVIOUS
<1>1. TypeOK
  BY InitType
<1>2. LocksExclude /\ Decided /\ SnapshotHolds
  BY DEF Init, LocksExclude, Decided, SnapshotHolds, Snapshot, Locked
<1>3. RowsCommitted
  BY DeliveryType DEF Init, RowsCommitted
<1> QED BY <1>1, <1>2, <1>3 DEF LockInv

(* The parts of LockInv are inductive together.                             *)
LEMMA LockInvStep == LockInv /\ [Next]_vars => LockInv'
BY TypeStep, LocksStep, RowsStep, DecidedStep, SnapshotStep DEF LockInv

(* The row locks of createWithOutbox and of the foreign keys exclude each   *)
(* other, and what a call read under them stays true: the invariant that    *)
(* makes the sums of createWithOutbox trustworthy.                          *)
THEOREM LockInvHolds == Spec => []LockInv
BY LockInvInit, LockInvStep, PTL DEF Spec

(* While a call holds its source wallet, the sums it has read stay true,    *)
(* however often a posting is delivered and however calls overlap.          *)
THEOREM SnapshotsHold == Spec => []SnapshotHolds
<1>1. LockInv => SnapshotHolds
  BY DEF LockInv
<1> QED BY <1>1, LockInvHolds, PTL

-----------------------------------------------------------------------------
(* With one delivery per transfer, a transfer that was given up is never    *)
(* posted.                                                                  *)
FundsInv == LockInv /\ PostedOrPending /\ NoOverdraft

(* With one delivery per transfer only a message that is given up makes a   *)
(* transfer FAILED, and it is never handled again.                          *)
LEMMA PostedOrPendingStep ==
  SingleDelivery /\ LockInv /\ PostedOrPending /\ [Next]_vars => PostedOrPending'
<1> SUFFICES ASSUME SingleDelivery, LockInv, PostedOrPending, [Next]_vars PROVE PostedOrPending'
  OBVIOUS
<1>0. TypeOK /\ RowsCommitted
  BY DEF LockInv
<1> USE DEF PostedOrPending
<1>1. ASSUME NEW t \in Transfers, Creating(t) \/ TimeOut(t) PROVE PostedOrPending'
  <2>1. posted' = posted /\ at' = at
    BY <1>1 DEF Creating, TimeOut, Validate, LockSource, ReadCredits, ReadDebits, ReadReserved,
       Insufficient, Duplicate, InsertTransfer, ShareDestination, CommitWithOutbox,
       DeadlockVictim, Answer
  <2>2. CASE CommitWithOutbox(t)
    <3>1. pc[t] = "outbox" /\ status' = [status EXCEPT ![t] = "INITIATED"]
      BY <2>2 DEF CommitWithOutbox, Answer, Goto
    <3>2. status[t] = "none"
      BY <1>0, <3>1 DEF RowsCommitted
    <3>3. \A e \in Deliveries : e[1] \in Transfers
      BY DeliveryType
    <3> QED BY <1>0, <2>1, <3>1, <3>2, <3>3 DEF TypeOK
  <2>3. CASE ~CommitWithOutbox(t)
    <3>1. status' = status
      BY <1>1, <2>3 DEF Creating, TimeOut, Validate, LockSource, ReadCredits, ReadDebits,
         ReadReserved, Insufficient, Duplicate, InsertTransfer, ShareDestination, DeadlockVictim
    <3> QED BY <2>1, <3>1
  <2> QED BY <2>2, <2>3
<1>2. ASSUME NEW d \in Deliveries, Posting(d) PROVE PostedOrPending'
  <2>0. /\ d[1] \in Transfers
        /\ \A e \in Deliveries : e[1] = d[1] => e = d
    BY DeliveryType DEF SingleDelivery
  <2>1. \A e \in Deliveries : e # d => at'[e] = at[e]
    BY <1>0, <1>2 DEF Posting, Receive, InsertDebit, InsertCredit, CommitEntries, SetCompleted,
       Report, HandlerFails, MarkFailed, Step, TypeOK
  <2> SUFFICES ASSUME NEW e \in Deliveries
               PROVE  /\ e[1] \notin posted' /\ at'[e] # "dead"
                           => status'[e[1]] \in {"none", "INITIATED"}
                      /\ at'[e] \in {"status", "report"} => e[1] \in posted'
                      /\ e[1] \in posted' => status'[e[1]] # "none"
    OBVIOUS
  <2>2. CASE e # d
    <3>1. e[1] # d[1] /\ e[1] \in Transfers
      BY <2>0, <2>2, DeliveryType
    <3>2. at'[e] = at[e] /\ (e[1] \in posted' <=> e[1] \in posted)
      BY <1>2, <2>1, <2>2, <3>1 DEF Posting, Receive, InsertDebit, InsertCredit, CommitEntries,
         SetCompleted, Report, HandlerFails, MarkFailed
    <3>3. status'[e[1]] = status[e[1]]
      BY <1>0, <1>2, <3>1 DEF Posting, Receive, InsertDebit, InsertCredit, CommitEntries,
         SetCompleted, Report, HandlerFails, MarkFailed, TypeOK
    <3> QED BY <3>2, <3>3
  <2>3. CASE e = d
    <3> USE <1>0, <2>0, <2>3 DEF TypeOK, RowsCommitted, Step
    <3>1. CASE Receive(d) \/ InsertDebit(d) \/ InsertCredit(d) \/ Report(d)
      BY <3>1 DEF Receive, InsertDebit, InsertCredit, Report
    <3>2. CASE CommitEntries(d)
      BY <3>2 DEF CommitEntries
    <3>3. CASE SetCompleted(d)
      BY <3>3 DEF SetCompleted
    <3>4. CASE HandlerFails(d)
      <4>1. /\ status' = status /\ posted' = posted
            /\ at[d] \in {"debit", "credit", "commit", "status", "report"}
            /\ at'[d] \in {"queued", "exhausted"}
        BY <3>4 DEF HandlerFails
      <4> QED BY <4>1
    <3>5. CASE MarkFailed(d)
      <4>1. at'[d] = "dead" /\ at[d] = "exhausted" /\ posted' = posted
        BY <3>5 DEF MarkFailed
      <4>2. d[1] \in posted => status'[d[1]] # "none"
        BY <3>5 DEF MarkFailed
      <4> QED BY <4>1, <4>2
    <3> QED BY <1>2, <3>1, <3>2, <3>3, <3>4, <3>5 DEF Posting
  <2> QED BY <2>2, <2>3
<1>3. CASE UNCHANGED vars
  BY <1>3 DEF vars
<1> QED BY <1>1, <1>2, <1>3 DEF Next

(* Funds can only shrink at the commit of a call, which still has the sums  *)
(* it decided on; a posting turns a reservation into a debit.               *)
LEMMA NoOverdraftStep ==
  FundsInv /\ TypeOK' /\ [Next]_vars => NoOverdraft'
<1> SUFFICES ASSUME FundsInv, TypeOK', [Next]_vars, NEW w \in Wallets
             PROVE  Available(w, posted', Pending') >= 0
  BY DEF NoOverdraft
<1>0. /\ TypeOK /\ RowsCommitted /\ Decided /\ SnapshotHolds /\ PostedOrPending
      /\ Available(w, posted, Pending) >= 0
      /\ posted \in SUBSET Transfers /\ Pending \in SUBSET Transfers
      /\ posted' \in SUBSET Transfers /\ Pending' \in SUBSET Transfers
  BY DEF FundsInv, LockInv, NoOverdraft, TypeOK, Pending
<1>1. ASSUME posted \subseteq posted', posted' \cup Pending' \subseteq posted \cup Pending
      PROVE  Available(w, posted', Pending') >= 0
  <2>1. Available(w, posted, Pending) <= Available(w, posted', Pending')
    BY <1>0, <1>1, AvailableGrows
  <2>2. Available(w, posted, Pending) \in Int /\ Available(w, posted', Pending') \in Int
    BY <1>0, AvailableType
  <2> QED BY <1>0, <2>1, <2>2
<1>2. ASSUME NEW t \in Transfers, CommitWithOutbox(t)
      PROVE  Available(w, posted', Pending') >= 0
  <2>1. /\ pc[t] = "outbox" /\ posted' = posted
        /\ status' = [status EXCEPT ![t] = "INITIATED"]
    BY <1>2 DEF CommitWithOutbox, Answer, Goto
  <2>2. Pending' = Pending \cup {t}
    BY <1>0, <2>1 DEF Pending, TypeOK
  <2>3. CASE Src[t] = w
    <3>1. /\ seen[t].credits = Credits(w, posted) /\ seen[t].debits = Debits(w, posted)
          /\ seen[t].reserved >= Total(Pending \cap Outgoing(w), FromAmount)
      BY <1>0, <2>1, <2>3 DEF SnapshotHolds, Snapshot, Locked
    <3>2. seen[t].credits - seen[t].debits - seen[t].reserved >= FromAmount[t]
      BY <1>0, <2>1 DEF Decided, Affordable
    <3>3. seen[t].reserved \in Nat /\ Total(Pending \cap Outgoing(w), FromAmount) \in Nat
      BY <1>0, <2>3, SumsType DEF TypeOK
    <3>4. Total(Pending \cap Outgoing(w), FromAmount) <= seen[t].reserved
      BY <3>1, <3>3
    <3>5. Credits(w, posted) - Debits(w, posted) - seen[t].reserved >= FromAmount[t]
      BY <3>1, <3>2
    <3>6. Available(w, posted, Pending \cup {t}) >= 0
      BY <1>0, <3>3, <3>4, <3>5, HoldingOneMore
    <3> QED BY <2>1, <2>2, <3>6
  <2>4. CASE Src[t] # w
    <3>1. (posted \cup (Pending \cup {t})) \cap Outgoing(w) = (posted \cup Pending) \cap Outgoing(w)
      BY <2>4 DEF Outgoing
    <3>2. Available(w, posted, Pending \cup {t}) = Available(w, posted, Pending)
      BY <3>1 DEF Available
    <3> QED BY <1>0, <2>1, <2>2, <3>2
  <2> QED BY <2>3, <2>4
<1>3. ASSUME NEW t \in Transfers, Creating(t) \/ TimeOut(t), ~CommitWithOutbox(t)
      PROVE  Available(w, posted', Pending') >= 0
  <2>1. posted' = posted /\ status' = status
    BY <1>3 DEF Creating, TimeOut, Validate, LockSource, ReadCredits, ReadDebits, ReadReserved,
       Insufficient, Duplicate, InsertTransfer, ShareDestination, DeadlockVictim, Answer
  <2>2. Pending' = Pending
    BY <2>1 DEF Pending
  <2> QED BY <1>1, <2>1, <2>2
<1>4. ASSUME NEW d \in Deliveries, Posting(d)
      PROVE  Available(w, posted', Pending') >= 0
  <2>0. d[1] \in Transfers
    BY DeliveryType
  <2>1. CASE CommitEntries(d)
    <3>1. at[d] = "commit" /\ posted' = posted \cup {d[1]} /\ status' = status
      BY <2>1 DEF CommitEntries, Step
    <3>2. d[1] \in posted \cup Pending
      BY <1>0, <2>0, <3>1 DEF FundsInv, LockInv, PostedOrPending, RowsCommitted, Pending
    <3>3. Pending' = Pending
      BY <3>1 DEF Pending
    <3> QED BY <1>1, <3>1, <3>2, <3>3
  <2>2. CASE ~CommitEntries(d)
    <3>1. posted' = posted
      BY <1>4, <2>2 DEF Posting, Receive, InsertDebit, InsertCredit, SetCompleted, Report,
         HandlerFails, MarkFailed
    <3>2. \/ status' = status
          \/ \E s \in {"COMPLETED", "FAILED"} : status' = [status EXCEPT ![d[1]] = s]
      BY <1>4, <2>2 DEF Posting, Receive, InsertDebit, InsertCredit, SetCompleted, Report,
         HandlerFails, MarkFailed
    <3>3. Pending' \subseteq Pending
      BY <1>0, <2>0, <3>2 DEF Pending, TypeOK
    <3> QED BY <1>1, <3>1, <3>3
  <2> QED BY <2>1, <2>2
<1>5. CASE UNCHANGED vars
  <2>1. posted' = posted /\ Pending' = Pending
    BY <1>5 DEF vars, Pending
  <2> QED BY <1>1, <2>1
<1> QED BY <1>2, <1>3, <1>4, <1>5 DEF Next, Creating

(* The opening balances are not negative.                                   *)
LEMMA FundsInvInit == Init => FundsInv
<1> SUFFICES ASSUME Init PROVE FundsInv
  OBVIOUS
<1>1. LockInv
  BY LockInvInit
<1>2. PostedOrPending
  BY DeliveryType DEF Init, PostedOrPending
<1>3. ASSUME NEW w \in Wallets PROVE Available(w, posted, Pending) >= 0
  <2>1. posted = {} /\ Pending = {}
    BY DEF Init, Pending
  <2>2. Total(({} \cup {}) \cap Outgoing(w), FromAmount) = 0
    <3>1. Units(({} \cup {}) \cap Outgoing(w), FromAmount) = {}
      BY DEF Units
    <3> QED BY <3>1, FS_EmptySet DEF Total
  <2>3. Credits(w, {}) \in Nat
    BY AvailableType
  <2> QED BY <2>1, <2>2, <2>3 DEF Available
<1> QED BY <1>1, <1>2, <1>3 DEF FundsInv, NoOverdraft

(* The parts of FundsInv are inductive together.                            *)
LEMMA FundsInvStep == SingleDelivery /\ FundsInv /\ [Next]_vars => FundsInv'
<1> SUFFICES ASSUME SingleDelivery, FundsInv, [Next]_vars PROVE FundsInv'
  OBVIOUS
<1>1. LockInv'
  BY LockInvStep DEF FundsInv
<1>2. PostedOrPending'
  BY PostedOrPendingStep DEF FundsInv
<1>3. NoOverdraft'
  BY <1>1, NoOverdraftStep DEF LockInv
<1> QED BY <1>1, <1>2, <1>3 DEF FundsInv

(* With one delivery per transfer, a posted transfer was reserved until its *)
(* journal entries were committed, and no wallet is overdrawn.              *)
THEOREM FundsInvHolds == ASSUME SingleDelivery PROVE Spec => []FundsInv
BY FundsInvInit, FundsInvStep, PTL DEF Spec

(* No wallet is ever overdrawn if each transfer's message is handled by one *)
(* chain of deliveries, whatever calls, postings, retries, failures and     *)
(* aborts interleave.                                                       *)
THEOREM NeverOverdrawn == ASSUME SingleDelivery PROVE Spec => []NoOverdraft
<1>1. FundsInv => NoOverdraft
  BY DEF FundsInv
<1> QED BY <1>1, FundsInvHolds, PTL

-----------------------------------------------------------------------------
(* In a ring every member is waited for, since those that are not can go.   *)
LEMMA RingMembersAreAwaited ==
  ASSUME NEW D, Ring(D), NEW y \in D
  PROVE  \E x \in D : WaitsFor(x, y)
<1> DEFINE E == {z \in D : \E x \in D : WaitsFor(x, z)}
<1>1. Stuck(D)
  BY DEF Ring
<1>2. Stuck(E)
  BY <1>1 DEF Stuck
<1>3. E = D
  <2>1. \A F \in SUBSET D : Stuck(F) => F = D
    BY DEF Ring
  <2> QED BY <1>2, <2>1
<1> QED BY <1>3

(* Who waits for a posting holds nothing anyone could wait for: it is a call *)
(* at its first statement or the second copy of a posting at its first.     *)
LEMMA WaiterForPostingHoldsNothing ==
  ASSUME NEW d \in Deliveries, NEW x, WaitsFor(x, Post(d)), NEW y, WaitsFor(y, x)
  PROVE  FALSE
<1>0. \A t \in Transfers, e \in Deliveries : Create(t) # Post(e)
  BY DEF Create, Post
<1>1. \A t, u \in Transfers : Create(t) = Create(u) => t = u
  BY DEF Create
<1>2. \A e, f \in Deliveries : Post(e) = Post(f) => e = f
  BY DeliveryType DEF Post
<1>3. CASE \E t \in Transfers : x = Create(t) /\ Post(d) \in BlockersOfCreate(t)
  <2> PICK t \in Transfers : x = Create(t) /\ Post(d) \in BlockersOfCreate(t)
    BY <1>3
  <2>1. pc[t] = "lock"
    BY <1>0 DEF BlockersOfCreate, SameKey, ForUpdate, Outgoing
  <2>2. \A w : Create(t) \notin ForUpdate(w) /\ Create(t) \notin KeyShare(w)
    BY <1>0, <1>1, <2>1 DEF ForUpdate, KeyShare, Outgoing, Incoming, Locked
  <2>3. \A u \in Transfers : Create(t) \notin BlockersOfCreate(u)
    BY <1>1, <2>1, <2>2 DEF BlockersOfCreate, SameKey
  <2>4. \A e \in Deliveries : Create(t) \notin BlockersOfPost(e)
    BY <1>0, <2>2 DEF BlockersOfPost
  <2> QED BY <2>3, <2>4 DEF WaitsFor
<1>4. CASE \E e \in Deliveries : x = Post(e) /\ Post(d) \in BlockersOfPost(e)
  <2> PICK e \in Deliveries : x = Post(e) /\ Post(d) \in BlockersOfPost(e)
    BY <1>4
  <2>1. at[e] = "debit"
    BY <1>0 DEF BlockersOfPost, ForUpdate, Outgoing
  <2>2. \A w : Post(e) \notin ForUpdate(w) /\ Post(e) \notin KeyShare(w)
    BY <1>0, <1>2, <2>1 DEF ForUpdate, KeyShare, Outgoing, Incoming
  <2>3. \A u \in Transfers : Post(e) \notin BlockersOfCreate(u)
    BY <1>0, <2>2 DEF BlockersOfCreate, SameKey
  <2>4. \A f \in Deliveries : Post(e) \notin BlockersOfPost(f)
    BY <1>2, <2>1, <2>2 DEF BlockersOfPost
  <2> QED BY <2>3, <2>4 DEF WaitsFor
<1> QED BY <1>3, <1>4 DEF WaitsFor

(* No posting is ever on a cycle of the waits-for graph, with any number of *)
(* wallets, calls and copies: only createWithOutbox calls deadlock.         *)
THEOREM PostingsNeverDeadlock == Spec => []PostingNeverDeadlocks
<1>1. PostingNeverDeadlocks
  <2> SUFFICES ASSUME NEW D \in SUBSET Waiting, Ring(D), NEW d \in Deliveries, Post(d) \in D
               PROVE  FALSE
    <3>1. Waiting \subseteq Transactions
      BY DEF Waiting
    <3> QED BY <3>1 DEF PostingNeverDeadlocks, Transactions
  <2>1. PICK x \in D : WaitsFor(x, Post(d))
    BY RingMembersAreAwaited
  <2>2. PICK y \in D : WaitsFor(y, x)
    BY RingMembersAreAwaited
  <2> QED BY <2>1, <2>2, WaiterForPostingHoldsNothing
<1> QED BY <1>1, PTL

-----------------------------------------------------------------------------
(* The refinement of LedgerPromise, again with one delivery per transfer.   *)

(* One transfer's stage moves and no other does.                            *)
LEMMA StageMoves ==
  ASSUME NEW t \in Transfers, NEW from, NEW to, Stage(t) = from, Stage(t)' = to,
         \A u \in Transfers \ {t} : Stage(u)' = Stage(u)
  PROVE  Promise!Move(t, from, to)
BY DEF Promise!Move, stages

(* Stages that all stay do not change.                                      *)
LEMMA StagesStutter ==
  ASSUME \A u \in Transfers : Stage(u)' = Stage(u)
  PROVE  UNCHANGED stages
BY DEF stages

(* A transfer whose row and journal a step leaves alone keeps its stage.    *)
LEMMA StageKept ==
  ASSUME NEW t \in Transfers, status'[t] = status[t], t \in posted' <=> t \in posted,
         status[t] = "none" => (pc'[t] \in {"refused", "error"} <=> pc[t] \in {"refused", "error"})
  PROVE  Stage(t)' = Stage(t)
BY DEF Stage

(* What the promise has set aside or moved out is what the code has.        *)
LEMMA StageSets ==
  ASSUME TypeOK
  PROVE  /\ Promise!At("settled") = posted
         /\ Promise!At("reserved") = Pending \ posted
BY DEF Promise!At, stages, Stage, Pending, TypeOK

(* LedgerPromise sums with the operators of this module.                    *)
LEMMA SameSums ==
  ASSUME NEW S, NEW w, NEW amount
  PROVE  /\ Promise!Total(S, amount) = Total(S, amount)
         /\ Promise!Outgoing(w) = Outgoing(w) /\ Promise!Incoming(w) = Incoming(w)
<1>1. Promise!Units(S, amount) = Units(S, amount)
  BY DEF Promise!Units, Units
<1>2. Promise!Total(S, amount) = Total(S, amount)
  BY <1>1 DEF Promise!Total, Total, Promise!Cardinality, Cardinality
<1>3. Promise!Outgoing(w) = Outgoing(w) /\ Promise!Incoming(w) = Incoming(w)
  BY DEF Promise!Outgoing, Outgoing, Promise!Incoming, Incoming
<1> QED BY <1>2, <1>3

(* Every transfer starts as asked.                                          *)
LEMMA PromiseInit == Init => Promise!Init
BY DEF Init, Promise!Init, stages, Stage

(* A step of a call refuses, reserves within the wallet's funds, or changes *)
(* no stage.                                                                *)
LEMMA CallKeepsPromise ==
  ASSUME FundsInv, TypeOK', NEW t \in Transfers, Creating(t) \/ TimeOut(t)
  PROVE  [Promise!Next]_stages
<1>0. TypeOK /\ RowsCommitted /\ Decided /\ SnapshotHolds /\ PostedOrPending
  BY DEF FundsInv, LockInv
<1>1. /\ posted' = posted
      /\ \A u \in Transfers \ {t} : pc'[u] = pc[u] /\ status'[u] = status[u]
  BY <1>0 DEF Creating, TimeOut, Validate, LockSource, ReadCredits, ReadDebits, ReadReserved,
     Insufficient, Duplicate, InsertTransfer, ShareDestination, CommitWithOutbox, DeadlockVictim,
     Answer, Goto, TypeOK
<1>2. \A u \in Transfers \ {t} : Stage(u)' = Stage(u)
  BY <1>1, StageKept
<1>3. CASE CommitWithOutbox(t)
  <2>1. /\ pc[t] = "outbox" /\ status' = [status EXCEPT ![t] = "INITIATED"]
    BY <1>3 DEF CommitWithOutbox, Answer, Goto
  <2>2. status[t] = "none"
    BY <1>0, <2>1 DEF RowsCommitted
  <2>3. CASE t \in posted
    BY <1>1, <1>2, <2>3, StagesStutter DEF Stage
  <2>4. CASE t \notin posted
    <3>1. Stage(t) = "asked" /\ Stage(t)' = "reserved"
      BY <1>0, <1>1, <2>1, <2>2, <2>4 DEF Stage, TypeOK
    <3>2. Available(Src[t], posted, Pending) >= FromAmount[t]
      <4>1. /\ seen[t].credits = Credits(Src[t], posted)
            /\ seen[t].debits = Debits(Src[t], posted)
            /\ seen[t].reserved >= Total(Pending \cap Outgoing(Src[t]), FromAmount)
        BY <1>0, <2>1 DEF SnapshotHolds, Snapshot, Locked
      <4>2. seen[t].credits - seen[t].debits - seen[t].reserved >= FromAmount[t]
        BY <1>0, <2>1 DEF Decided, Affordable
      <4>3. /\ seen[t].reserved \in Nat
            /\ Total(Pending \cap Outgoing(Src[t]), FromAmount) \in Nat
        BY <1>0, SumsType DEF TypeOK
      <4>4. Total(Pending \cap Outgoing(Src[t]), FromAmount) <= seen[t].reserved
        BY <4>1, <4>3
      <4>5. Credits(Src[t], posted) - Debits(Src[t], posted) - seen[t].reserved >= FromAmount[t]
        BY <4>1, <4>2
      <4>6. posted \in SUBSET Transfers /\ Src[t] \in Wallets
        BY <1>0, WalletsAssumption DEF TypeOK
      <4> QED BY <4>3, <4>4, <4>5, <4>6, PendingType, HoldingOneMore
    <3>3. Available(Src[t], posted, Pending \ posted) = Available(Src[t], posted, Pending)
      <4>1. posted \cup (Pending \ posted) = posted \cup Pending
        OBVIOUS
      <4> QED BY <4>1 DEF Available
    <3>4. Promise!Available(Src[t], posted, Pending \ posted) >= FromAmount[t]
      BY <3>2, <3>3, SameSums DEF Promise!Available, Available, Promise!Credits, Credits
    <3>5. Promise!Reserve(t)
      BY <1>0, <1>2, <3>1, <3>4, StageMoves, StageSets DEF Promise!Reserve
    <3> QED BY <3>5 DEF Promise!Next
  <2> QED BY <2>3, <2>4
<1>4. CASE ~CommitWithOutbox(t)
  <2>1. status' = status /\ pc[t] \in {"new"} \cup Open
    BY <1>4 DEF Creating, TimeOut, Validate, LockSource, ReadCredits, ReadDebits, ReadReserved,
       Insufficient, Duplicate, InsertTransfer, ShareDestination, DeadlockVictim, Answer, Goto,
       Open, Locked
  <2>2. status[t] = "none"
    BY <1>0, <2>1 DEF RowsCommitted, Open, Locked
  <2>3. CASE t \notin posted /\ pc'[t] \in {"refused", "error"}
    <3>1. Stage(t) = "asked" /\ Stage(t)' = "refused"
      BY <1>1, <2>1, <2>2, <2>3 DEF Stage, Open, Locked
    <3>2. Promise!Refuse(t)
      BY <1>2, <3>1, StageMoves DEF Promise!Refuse
    <3> QED BY <3>2 DEF Promise!Next
  <2>4. CASE t \in posted \/ pc'[t] \notin {"refused", "error"}
    <3>1. Stage(t)' = Stage(t)
      BY <1>1, <2>1, <2>2, <2>4 DEF Stage, Open, Locked
    <3> QED BY <1>2, <3>1, StagesStutter
  <2> QED BY <2>3, <2>4
<1> QED BY <1>3, <1>4

(* A step of a handler settles or releases what was reserved, or changes no *)
(* stage.                                                                   *)
LEMMA PostingKeepsPromise ==
  ASSUME FundsInv, TypeOK', NEW d \in Deliveries, Posting(d)
  PROVE  [Promise!Next]_stages
<1>0. TypeOK /\ RowsCommitted /\ PostedOrPending /\ d[1] \in Transfers
  BY DeliveryType DEF FundsInv, LockInv
<1>1. pc' = pc
  BY DEF Posting, Receive, InsertDebit, InsertCredit, CommitEntries, SetCompleted, Report,
     HandlerFails, MarkFailed, Step
<1>2. \A u \in Transfers \ {d[1]} :
        status'[u] = status[u] /\ (u \in posted' <=> u \in posted)
  BY <1>0 DEF Posting, Receive, InsertDebit, InsertCredit, CommitEntries, SetCompleted, Report,
     HandlerFails, MarkFailed, TypeOK
<1>3. \A u \in Transfers \ {d[1]} : Stage(u)' = Stage(u)
  BY <1>1, <1>2, StageKept
<1>4. CASE CommitEntries(d) /\ d[1] \notin posted
  <2>1. at[d] = "commit" /\ posted' = posted \cup {d[1]}
    BY <1>4 DEF CommitEntries, Step
  <2>2. status[d[1]] = "INITIATED"
    BY <1>0, <1>4, <2>1 DEF PostedOrPending, RowsCommitted
  <2>3. Stage(d[1]) = "reserved" /\ Stage(d[1])' = "settled"
    BY <1>4, <2>1, <2>2 DEF Stage
  <2>4. Promise!Settle(d[1])
    BY <1>0, <1>3, <2>3, StageMoves DEF Promise!Settle
  <2> QED BY <1>0, <2>4 DEF Promise!Next
<1>5. CASE MarkFailed(d) /\ status' # status /\ d[1] \notin posted
  <2>1. /\ at[d] = "exhausted" /\ posted' = posted
        /\ status' = [status EXCEPT ![d[1]] = "FAILED"]
    BY <1>5 DEF MarkFailed, Step
  <2>2. status[d[1]] = "INITIATED" /\ status'[d[1]] = "FAILED"
    BY <1>0, <1>5, <2>1 DEF PostedOrPending, RowsCommitted, TypeOK
  <2>3. Stage(d[1]) = "reserved" /\ Stage(d[1])' = "released"
    BY <1>5, <2>1, <2>2 DEF Stage
  <2>4. Promise!Release(d[1])
    BY <1>0, <1>3, <2>3, StageMoves DEF Promise!Release
  <2> QED BY <1>0, <2>4 DEF Promise!Next
<1>6. CASE ~(CommitEntries(d) /\ d[1] \notin posted)
           /\ ~(MarkFailed(d) /\ status' # status /\ d[1] \notin posted)
  <2>1. d[1] \in posted' <=> d[1] \in posted
    BY <1>6 DEF Posting, Receive, InsertDebit, InsertCredit, CommitEntries, SetCompleted, Report,
       HandlerFails, MarkFailed
  <2>2. d[1] \in posted \/ status' = status
    BY <1>0, <1>6 DEF Posting, Receive, InsertDebit, InsertCredit, CommitEntries, SetCompleted,
       Report, HandlerFails, MarkFailed, Step, PostedOrPending
  <2>3. Stage(d[1])' = Stage(d[1])
    BY <1>0, <1>1, <2>1, <2>2 DEF Stage
  <2> QED BY <1>3, <2>3, StagesStutter
<1> QED BY <1>4, <1>5, <1>6

(* Every step is one of LedgerPromise or changes no stage.                  *)
LEMMA PromiseStep ==
  FundsInv /\ TypeOK' /\ [Next]_vars => [Promise!Next]_stages
<1> SUFFICES ASSUME FundsInv, TypeOK', [Next]_vars
             PROVE  [Promise!Next]_stages
  OBVIOUS
<1>1. CASE UNCHANGED vars
  BY <1>1, StagesStutter DEF vars, Stage
<1>2. CASE Next
  BY <1>2, CallKeepsPromise, PostingKeepsPromise DEF Next
<1> QED BY <1>1, <1>2

(* createWithOutbox and the posting of the journal implement LedgerPromise: *)
(* seen through Stage, an accepted transfer's amount is set aside in one    *)
(* step that checks the wallet, and is later moved or released, not both.   *)
THEOREM PromiseKept == ASSUME SingleDelivery PROVE Spec => KeepsPromise
<1>1. FundsInv => TypeOK
  BY DEF FundsInv, LockInv
<1>2. FundsInv /\ FundsInv' /\ [Next]_vars => [Promise!Next]_stages
  BY <1>1, PromiseStep DEF FundsInv, LockInv
<1> QED BY <1>2, PromiseInit, FundsInvHolds, PTL DEF Spec, KeepsPromise, Promise!Spec

-----------------------------------------------------------------------------
(* A call has claimed its idempotency key from the insert of its row to the *)
(* end of its transaction, and for good if that commits.                    *)
Claims(t) == pc[t] \in {"fk", "outbox", "accepted"}

KeysClaimedOnce ==
  \A t, u \in Transfers :
    t # u /\ Key[t] = Key[u] /\ Key[t] # NoKey => ~(Claims(t) /\ Claims(u))

(* A key is claimed only where the unique index has none of it, neither a   *)
(* committed one nor one of a transaction that is still open.               *)
LEMMA ClaimGranted ==
  ASSUME RowsCommitted, NEW t \in Transfers, InsertTransfer(t),
         NEW u \in Transfers, u # t, Key[u] = Key[t], Key[t] # NoKey
  PROVE  ~Claims(u)
<1>1. status[u] = "none"
  BY DEF InsertTransfer, DuplicateKey
<1>2. {Create(x) : x \in SameKey(t)} = {}
  BY DEF InsertTransfer, Goto, BlockersOfCreate
<1>3. u \notin SameKey(t)
  BY <1>2
<1> QED BY <1>1, <1>3 DEF SameKey, RowsCommitted, Claims

LEMMA KeysStep ==
  TypeOK /\ RowsCommitted /\ KeysClaimedOnce /\ [Next]_vars => KeysClaimedOnce'
<1> SUFFICES ASSUME TypeOK, RowsCommitted, KeysClaimedOnce, [Next]_vars PROVE KeysClaimedOnce'
  OBVIOUS
<1>1. ASSUME NEW t \in Transfers, InsertTransfer(t) PROVE KeysClaimedOnce'
  <2>1. \A u \in Transfers : u # t => (Claims(u)' <=> Claims(u))
    BY <1>1 DEF InsertTransfer, Goto, TypeOK, Claims
  <2>2. \A u \in Transfers : u # t /\ Key[u] = Key[t] /\ Key[t] # NoKey => ~Claims(u)
    BY <1>1, ClaimGranted
  <2> QED BY <2>1, <2>2 DEF KeysClaimedOnce
<1>2. ASSUME NEW t \in Transfers, Creating(t) \/ TimeOut(t), ~InsertTransfer(t)
      PROVE  KeysClaimedOnce'
  <2>1. \A u \in Transfers : Claims(u)' => Claims(u)
    BY <1>2 DEF Creating, TimeOut, Validate, LockSource, ReadCredits, ReadDebits, ReadReserved,
         Insufficient, Duplicate, ShareDestination, CommitWithOutbox, DeadlockVictim,
         Goto, Answer, TypeOK, Claims
  <2> QED BY <2>1 DEF KeysClaimedOnce
<1>3. ASSUME NEW d \in Deliveries, Posting(d) PROVE KeysClaimedOnce'
  BY <1>3 DEF Posting, Receive, InsertDebit, InsertCredit, CommitEntries, SetCompleted, Report,
     HandlerFails, MarkFailed, Step, KeysClaimedOnce, Claims
<1>4. CASE UNCHANGED vars
  BY <1>4 DEF vars, KeysClaimedOnce, Claims
<1> QED BY <1>1, <1>2, <1>3, <1>4 DEF Next

(* The unique index of Transfer.idempotencyKey and the wait of one insert   *)
(* for the other let one transfer have a key, however many calls bring it   *)
(* (transfer.repository.ts, createWithOutbox).                              *)
THEOREM KeysAreUnique == Spec => []OneTransferPerKey
<1>1. Init => KeysClaimedOnce
  BY DEF Init, KeysClaimedOnce, Claims
<1>2. Spec => []KeysClaimedOnce
  <2>1. LockInv /\ KeysClaimedOnce /\ [Next]_vars => KeysClaimedOnce'
    BY KeysStep DEF LockInv
  <2> QED BY <1>1, <2>1, LockInvHolds, PTL DEF Spec
<1>3. LockInv /\ KeysClaimedOnce => OneTransferPerKey
  BY DEF LockInv, RowsCommitted, TypeOK, KeysClaimedOnce, Claims, OneTransferPerKey
<1> QED BY <1>2, <1>3, LockInvHolds, PTL
=============================================================================
