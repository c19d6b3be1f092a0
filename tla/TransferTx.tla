----------------------------- MODULE TransferTx -----------------------------
(* The two database transactions that touch a wallet, statement by          *)
(* statement: TransferRepository.createWithOutbox, which locks the source   *)
(* wallet, sums its journal and its pending transfers and inserts a         *)
(* transfer; and LedgerRepository.writeEntryPair with the handler of        *)
(* TransferInitiatedConsumer around it, which posts the two journal entries *)
(* and then, outside that transaction, moves the transfer's status.         *)
(*                                                                          *)
(* PostgreSQL runs both at READ COMMITTED.  A wallet row is locked FOR      *)
(* UPDATE by createWithOutbox and FOR KEY SHARE by every insert of a row    *)
(* with a foreign key to it; the two modes exclude each other.  Row locks   *)
(* last until the end of the transaction, so they are read off its program  *)
(* counter.                                                                 *)
EXTENDS WalletFunds

CONSTANTS
  Malformed,   \* transfers whose amount is not positive or whose wallets the tenant lacks
  Key, NoKey,  \* the idempotency key of each transfer, if any
  Copies,      \* the deliveries of one transfer.initiated message
  MaxRetries   \* MAX_RETRIES of the consumer

ASSUME KeyAssumption == Malformed \subseteq Transfers /\ DOMAIN Key = Transfers
ASSUME RetriesAssumption == MaxRetries \in Nat

VARIABLES
  pc,      \* where each createTransfer call is
  seen,    \* the sums each open createWithOutbox has read
  status,  \* Transfer.status in the committed table, "none" before the row
  posted,  \* the transfers whose two journal entries are committed
  at,      \* where each delivery is in its handler
  tries    \* its x-retry-count

vars == <<pc, seen, status, posted, at, tries>>

Deliveries == Transfers \X Copies

Answered == {"accepted", "refused", "error"}
Locked   == {"credits", "debits", "reserved", "decide", "fk", "outbox"}
Open     == {"lock"} \cup Locked
PcValues == {"new"} \cup Open \cup Answered
Statuses == {"none", "INITIATED", "COMPLETED", "FAILED"}
AtValues == {"queued", "debit", "credit", "commit", "status", "report",
             "exhausted", "done", "dead"}

NothingSeen == [credits |-> 0, debits |-> 0, reserved |-> 0]

Init ==
  /\ pc = [t \in Transfers |-> "new"]
  /\ seen = [t \in Transfers |-> NothingSeen]
  /\ status = [t \in Transfers |-> "none"]
  /\ posted = {}
  /\ at = [d \in Deliveries |-> "queued"]
  /\ tries = [d \in Deliveries |-> 0]

-----------------------------------------------------------------------------
(* Locks.  A transaction is <<"create", t>> or <<"post", t, c>>.            *)

Create(t) == <<"create", t>>
Post(d)   == <<"post", d[1], d[2]>>
Transactions == {Create(t) : t \in Transfers} \cup {Post(d) : d \in Deliveries}

(* Faulty variant of ForUpdate: the SELECT lacks FOR UPDATE.                *)
NoRowLock(w) == {}

(* createWithOutbox holds FOR UPDATE on its source once its first statement *)
(* returned.                                                                *)
ForUpdate(w) == {Create(t) : t \in {u \in Outgoing(w) : pc[u] \in Locked}}

(* Faulty variant of KeyShare: JournalEntry has no foreign key to Wallet.   *)
KeyShareByTransfersOnly(w) == {Create(t) : t \in {u \in Incoming(w) : pc[u] = "outbox"}}

(* The destination is key-shared once the Transfer row's foreign keys were  *)
(* checked, the journal's wallets once their entry was inserted.            *)
KeyShare(w) ==
  {Create(t) : t \in {u \in Incoming(w) : pc[u] = "outbox"}}
  \cup {Post(d) : d \in {e \in Deliveries :
          \/ Src[e[1]] = w /\ at[e] \in {"credit", "commit"}
          \/ Dst[e[1]] = w /\ at[e] = "commit"}}

(* Faulty variant of SameKey: the key is looked up first, not unique.       *)
NoUniqueIndex(t) == {}

(* The open transactions that have inserted a row with t's idempotency key. *)
SameKey(t) ==
  {u \in Transfers \ {t} : Key[t] # NoKey /\ Key[u] = Key[t] /\ pc[u] \in {"fk", "outbox"}}

Affordable(t) == seen[t].credits - seen[t].debits - seen[t].reserved >= FromAmount[t]

(* Faulty variant of BlockersOfCreate: the destination is locked FOR UPDATE *)
(* too, after the source.                                                   *)
BothForUpdate(t) ==
  CASE pc[t] = "lock" -> (ForUpdate(Src[t]) \cup KeyShare(Src[t])) \ {Create(t)}
    [] pc[t] = "fk"   -> (ForUpdate(Dst[t]) \cup KeyShare(Dst[t])) \ {Create(t)}
    [] OTHER          -> {}

(* Whom the statement that a transaction is at must wait for.               *)
BlockersOfCreate(t) ==
  CASE pc[t] = "lock"   -> (ForUpdate(Src[t]) \cup KeyShare(Src[t])) \ {Create(t)}
    [] pc[t] = "decide" /\ Affordable(t) -> {Create(u) : u \in SameKey(t)}
    [] pc[t] = "fk"     -> ForUpdate(Dst[t]) \ {Create(t)}
    [] OTHER            -> {}

(* The unique index of JournalEntry makes the second copy of a posting wait *)
(* for the first.                                                           *)
BlockersOfPost(d) ==
  CASE at[d] = "debit" ->
         ForUpdate(Src[d[1]])
         \cup {Post(e) : e \in {f \in Deliveries \ {d} :
                 f[1] = d[1] /\ at[f] \in {"credit", "commit"}}}
    [] at[d] = "credit" -> ForUpdate(Dst[d[1]])
    [] OTHER -> {}

WaitsFor(x, y) ==
  \/ \E t \in Transfers : x = Create(t) /\ y \in BlockersOfCreate(t)
  \/ \E d \in Deliveries : x = Post(d) /\ y \in BlockersOfPost(d)

Waiting == {x \in Transactions : \E y \in Transactions : WaitsFor(x, y)}

(* A cycle of the waits-for graph: a smallest set of transactions of which  *)
(* each waits for another.                                                  *)
Stuck(D) == D # {} /\ \A x \in D : \E y \in D : WaitsFor(x, y)
Ring(D)  == Stuck(D) /\ \A E \in SUBSET D : Stuck(E) => E = D

-----------------------------------------------------------------------------
(* createTransfer                                                           *)

Goto(t, from, to) == pc[t] = from /\ pc' = [pc EXCEPT ![t] = to]

(* The end of a transaction: its locks go and its sums are forgotten.       *)
Answer(t, from, answer) ==
  /\ Goto(t, from, answer)
  /\ seen' = [seen EXCEPT ![t] = NothingSeen]
  /\ UNCHANGED <<posted, at, tries>>

(* The checks before the transaction: amount, two wallets, both found.      *)
Validate(t) ==
  /\ \/ /\ t \in Malformed \/ Src[t] = Dst[t]
        /\ Goto(t, "new", "refused")
     \/ /\ t \notin Malformed /\ Src[t] # Dst[t]
        /\ Goto(t, "new", "lock")
  /\ UNCHANGED <<seen, status, posted, at, tries>>

LockSource(t) ==
  /\ BlockersOfCreate(t) = {}
  /\ Goto(t, "lock", "credits")
  /\ UNCHANGED <<seen, status, posted, at, tries>>

ReadCredits(t) ==
  /\ Goto(t, "credits", "debits")
  /\ seen' = [seen EXCEPT ![t].credits = Credits(Src[t], posted)]
  /\ UNCHANGED <<status, posted, at, tries>>

ReadDebits(t) ==
  /\ Goto(t, "debits", "reserved")
  /\ seen' = [seen EXCEPT ![t].debits = Debits(Src[t], posted)]
  /\ UNCHANGED <<status, posted, at, tries>>

Pending == {t \in Transfers : status[t] = "INITIATED"}

(* computePendingOutgoing                                                   *)
ReadReserved(t) ==
  /\ Goto(t, "reserved", "decide")
  /\ seen' = [seen EXCEPT ![t].reserved = Total(Pending \cap Outgoing(Src[t]), FromAmount)]
  /\ UNCHANGED <<status, posted, at, tries>>

Insufficient(t) ==
  /\ ~Affordable(t)
  /\ Answer(t, "decide", "refused")
  /\ UNCHANGED status

DuplicateKey(t) ==
  \E u \in Transfers \ {t} : Key[t] # NoKey /\ Key[u] = Key[t] /\ status[u] # "none"

(* Faulty variant of Duplicate: the transaction is tried again, as          *)
(* createWallet does when its account number is taken.                      *)
DuplicateTriesAgain(t) ==
  /\ Affordable(t) /\ DuplicateKey(t)
  /\ Goto(t, "decide", "lock")
  /\ seen' = [seen EXCEPT ![t] = NothingSeen]
  /\ UNCHANGED <<status, posted, at, tries>>

(* The insert meets a committed row with the same key: P2002, 422.          *)
Duplicate(t) ==
  /\ Affordable(t) /\ DuplicateKey(t)
  /\ Answer(t, "decide", "refused")
  /\ UNCHANGED status

InsertTransfer(t) ==
  /\ Affordable(t) /\ ~DuplicateKey(t) /\ BlockersOfCreate(t) = {}
  /\ Goto(t, "decide", "fk")
  /\ UNCHANGED <<seen, status, posted, at, tries>>

ShareDestination(t) ==
  /\ BlockersOfCreate(t) = {}
  /\ Goto(t, "fk", "outbox")
  /\ UNCHANGED <<seen, status, posted, at, tries>>

(* The outbox row goes in, and both rows are committed together: the call   *)
(* is accepted, even if the connection breaks before the client hears of it. *)
CommitWithOutbox(t) ==
  /\ status' = [status EXCEPT ![t] = "INITIATED"]
  /\ Answer(t, "outbox", "accepted")

(* The transaction times out or loses its connection: 500.                  *)
TimeOut(t) ==
  /\ pc[t] \in Open
  /\ Answer(t, pc[t], "error")
  /\ UNCHANGED status

(* PostgreSQL breaks a cycle by aborting one of its transactions: 500.      *)
DeadlockVictim(t) ==
  /\ pc[t] \in Open
  /\ \E D \in SUBSET {Create(u) : u \in Transfers} : Create(t) \in D /\ Ring(D)
  /\ Answer(t, pc[t], "error")
  /\ UNCHANGED status

-----------------------------------------------------------------------------
(* TransferInitiatedConsumer, once per delivery of the message.             *)

Step(d, from, to) ==
  /\ at[d] = from
  /\ at' = [at EXCEPT ![d] = to]
  /\ UNCHANGED <<pc, seen>>

Receive(d) ==
  /\ status[d[1]] # "none"
  /\ Step(d, "queued", "debit")
  /\ UNCHANGED <<status, posted, tries>>

InsertDebit(d) ==
  /\ d[1] \notin posted /\ BlockersOfPost(d) = {}
  /\ Step(d, "debit", "credit")
  /\ UNCHANGED <<status, posted, tries>>

InsertCredit(d) ==
  /\ BlockersOfPost(d) = {}
  /\ Step(d, "credit", "commit")
  /\ UNCHANGED <<status, posted, tries>>

CommitEntries(d) ==
  /\ Step(d, "commit", "status")
  /\ posted' = posted \cup {d[1]}
  /\ UNCHANGED <<status, tries>>

SetCompleted(d) ==
  /\ Step(d, "status", "report")
  /\ status' = [status EXCEPT ![d[1]] = "COMPLETED"]
  /\ UNCHANGED <<posted, tries>>

(* The caches are invalidated and transfer.completed is published.          *)
Report(d) ==
  /\ Step(d, "report", "done")
  /\ UNCHANGED <<status, posted, tries>>

(* Faulty variant of HandlerFails: one retry too many.                      *)
OneRetryTooMany(d) ==
  /\ \E from \in {"debit", "credit", "commit", "status", "report"} :
       Step(d, from, IF tries[d] <= MaxRetries THEN "queued" ELSE "exhausted")
  /\ tries' = [tries EXCEPT ![d] = @ + 1]
  /\ UNCHANGED <<status, posted>>

(* Any step may throw; a debit that is already posted always does, since    *)
(* writeJournalEntries rethrows the unique violation as a plain 500.        *)
(* scheduleRetryOrDlq sends the message round again or gives up.            *)
HandlerFails(d) ==
  /\ \E from \in {"debit", "credit", "commit", "status", "report"} :
       Step(d, from, IF tries[d] < MaxRetries THEN "queued" ELSE "exhausted")
  /\ tries' = [tries EXCEPT ![d] = IF @ < MaxRetries THEN @ + 1 ELSE @]
  /\ UNCHANGED <<status, posted>>

(* Faulty variant of MarkFailed: the failed transfer's message is retried.  *)
MarkFailedAndRetry(d) ==
  /\ Step(d, "exhausted", "queued")
  /\ status' = [status EXCEPT ![d[1]] = "FAILED"]
  /\ UNCHANGED <<posted, tries>>

(* markTransferFailed, whose own error is logged and swallowed.             *)
MarkFailed(d) ==
  /\ Step(d, "exhausted", "dead")
  /\ \/ status' = [status EXCEPT ![d[1]] = "FAILED"]
     \/ UNCHANGED status
  /\ UNCHANGED <<posted, tries>>

-----------------------------------------------------------------------------
Creating(t) ==
  \/ Validate(t) \/ LockSource(t) \/ ReadCredits(t) \/ ReadDebits(t)
  \/ ReadReserved(t) \/ Insufficient(t) \/ Duplicate(t) \/ InsertTransfer(t)
  \/ ShareDestination(t) \/ CommitWithOutbox(t) \/ DeadlockVictim(t)

Posting(d) ==
  \/ Receive(d) \/ InsertDebit(d) \/ InsertCredit(d) \/ CommitEntries(d)
  \/ SetCompleted(d) \/ Report(d) \/ HandlerFails(d) \/ MarkFailed(d)

Next ==
  \/ \E t \in Transfers : Creating(t) \/ TimeOut(t)
  \/ \E d \in Deliveries : Posting(d)

(* A request that is not blocked runs on, and PostgreSQL's deadlock detector *)
(* runs; a handler once called runs on.  Nothing is promised about the      *)
(* broker: it need not deliver.                                             *)
Fairness ==
  /\ \A t \in Transfers : WF_vars(Creating(t))
  /\ \A d \in Deliveries : WF_vars(at[d] # "queued" /\ Posting(d))

Spec == Init /\ [][Next]_vars /\ Fairness

-----------------------------------------------------------------------------
(* Every variable keeps to the values its code can give it.                 *)
TypeOK ==
  /\ pc \in [Transfers -> PcValues]
  /\ seen \in [Transfers -> [credits : Nat, debits : Nat, reserved : Nat]]
  /\ status \in [Transfers -> Statuses]
  /\ posted \subseteq Transfers
  /\ at \in [Deliveries -> AtValues]
  /\ tries \in [Deliveries -> 0 .. MaxRetries]

(* No wallet is overdrawn, counting the debits promised to accepted         *)
(* transfers as well as the posted ones, although the balance and the       *)
(* reservations are summed by three statements with a snapshot each.        *)
NoOverdraft == \A w \in Wallets : Available(w, posted, Pending) >= 0

(* While createWithOutbox holds the source wallet, what it has read of the  *)
(* journal is still true and what it has read of the reservations is not    *)
(* too little: the row lock, through the foreign keys, also stops postings. *)
Snapshot(t) ==
  /\ pc[t] \in Locked \ {"credits"} => seen[t].credits = Credits(Src[t], posted)
  /\ pc[t] \in Locked \ {"credits", "debits"} => seen[t].debits = Debits(Src[t], posted)
  /\ pc[t] \in {"decide", "fk", "outbox"} =>
       seen[t].reserved >= Total(Pending \cap Outgoing(Src[t]), FromAmount)

SnapshotHolds == \A t \in Transfers : Snapshot(t)

(* Only createWithOutbox calls can deadlock, never a posting: no cycle of   *)
(* the waits-for graph holds a journal transaction.                         *)
PostingNeverDeadlocks ==
  \A D \in SUBSET Waiting : Ring(D) => D \subseteq {Create(t) : t \in Transfers}

(* One idempotency key names at most one transfer, whatever calls overlap.  *)
OneTransferPerKey ==
  \A t, u \in Transfers :
    t # u /\ Key[t] = Key[u] /\ Key[t] # NoKey => "none" \in {status[t], status[u]}

(* Every createTransfer call is answered, whatever locks it meets.          *)
EveryCallAnswered == \A t \in Transfers : <>(pc[t] \in Answered)

(* The promise each transfer is at: the row's status tells, except that the *)
(* journal decides once the entries are posted.                             *)
Stage(t) ==
  IF t \in posted THEN "settled"
  ELSE IF status[t] = "INITIATED" THEN "reserved"
  ELSE IF status[t] # "none" THEN "released"
  ELSE IF pc[t] \in {"refused", "error"} THEN "refused" ELSE "asked"

stages == [t \in Transfers |-> Stage(t)]

Promise == INSTANCE LedgerPromise WITH stage <- stages

(* The two transactions keep the promise of LedgerPromise.                  *)
KeepsPromise == Promise!Spec
=============================================================================
