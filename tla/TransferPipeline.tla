-------------------------- MODULE TransferPipeline --------------------------
(* The life of an accepted transfer between its outbox row and its final    *)
(* status: OutboxWorker, the broker's queues, TransferInitiatedConsumer and *)
(* TransferCompletedConsumer, each in every process of the API.             *)
(*                                                                          *)
(* Messages and running handlers are the elements of one bag, since two     *)
(* deliveries may be alike.  A publish is first on its process's connection *)
(* ("to-..."): the channel is not a confirm channel, so nobody learns of    *)
(* what is lost there.  The journal pair is posted in one step; what that   *)
(* step is made of is in TransferTx.                                        *)
EXTENDS Counting

CONSTANTS
  Transfers,
  Procs, NoProc, \* the processes of the API; a message in a queue has none
  MaxRetries,    \* MAX_RETRIES of dlq.config.ts
  MaxFaults      \* bound on crashes, broken channels and failed updates

ASSUME BoundsAssumption == MaxRetries \in Nat /\ MaxFaults \in Nat
ASSUME ProcsAssumption == NoProc \notin Procs

VARIABLES
  status,   \* Transfer.status, "none" before the row
  posted,   \* the transfers whose two journal entries are committed
  outbox,   \* OutboxEvent.status, "none" before the row
  worker,   \* of each process: the batch its flush still has and what it does with one row
  up,       \* the processes whose channel is open
  tasks,    \* the bag of messages and running handlers
  dead,     \* the transfers with a message in the dead letter queue
  announced,\* the events that went to the topic exchange for webhooks
  faults,   \* how many faults have happened
  lost,     \* history: the transfers of which a written frame was lost
  repeated  \* history: how often a delay queue sent a TRANSFER_COMPLETED through the topic exchange

vars == <<status, posted, outbox, worker, up, tasks, dead, announced, faults, lost, repeated>>

Statuses == {"none", "INITIATED", "COMPLETED", "FAILED"}
OutboxStatuses == {"none", "PENDING", "PUBLISHED", "FAILED"}
Events == {"TRANSFER_INITIATED", "TRANSFER_COMPLETED"}

Queues  == {"initiated", "completed", "delay"}
Wires   == {"to-initiated", "to-completed", "to-delay", "to-dlq"}
Unacked == {"post", "status", "publish", "ack", "advance", "advanced"}  \* handlers that hold their message
Acked   == {"mark", "announce"}                             \* markTransferFailed, after the ack
Places  == Queues \cup Wires \cup Unacked \cup Acked

(* owned: the handler still holds the message of an open channel.           *)
Tasks == [t : Transfers, event : Events, retry : 0 .. MaxRetries,
          place : Places, proc : Procs \cup {NoProc}, owned : BOOLEAN]

Live == BagToSet(tasks)

Queued(t, event, retry, queue) ==
  [t |-> t, event |-> event, retry |-> retry, place |-> queue, proc |-> NoProc, owned |-> FALSE]

Sent(p, t, event, retry, wire) ==
  [t |-> t, event |-> event, retry |-> retry, place |-> wire, proc |-> p, owned |-> FALSE]

Idle == [batch |-> {}, doing |-> "nothing", row |-> NoProc]

Init ==
  /\ status = [t \in Transfers |-> "none"]
  /\ posted = {}
  /\ outbox = [t \in Transfers |-> "none"]
  /\ worker = [p \in Procs |-> Idle]
  /\ up = Procs
  /\ tasks = EmptyBag
  /\ dead = {}
  /\ announced = {}
  /\ faults = 0
  /\ lost = {}
  /\ repeated = [t \in Transfers |-> 0]

(* createWithOutbox commits the transfer and its outbox row (TransferTx).   *)
Accept(t) ==
  /\ status[t] = "none"
  /\ status' = [status EXCEPT ![t] = "INITIATED"]
  /\ outbox' = [outbox EXCEPT ![t] = "PENDING"]
  /\ UNCHANGED <<posted, worker, up, tasks, dead, announced, faults, lost, repeated>>

-----------------------------------------------------------------------------
(* OutboxWorker.flush: one at a time in a process, any number of processes, *)
(* on a notification or every minute.                                       *)

Fault == faults < MaxFaults /\ faults' = faults + 1

Flush(p) ==
  /\ worker[p] = Idle
  /\ \E t \in Transfers : outbox[t] = "PENDING"
  /\ worker' = [worker EXCEPT ![p].batch = {t \in Transfers : outbox[t] = "PENDING"}]
  /\ UNCHANGED <<status, posted, outbox, up, tasks, dead, announced, faults, lost, repeated>>

(* Faulty variant of PublishRow: the error of a closed channel is ignored.  *)
PublishRowIgnoringErrors(p) ==
  /\ worker[p].doing = "nothing"
  /\ \E t \in worker[p].batch :
       /\ worker' = [worker EXCEPT ![p].doing = "sent", ![p].row = t]
       /\ tasks' = IF p \in up
                   THEN tasks (+) SetToBag({Sent(p, t, "TRANSFER_INITIATED", 0, "to-initiated")})
                   ELSE tasks
  /\ UNCHANGED <<status, posted, outbox, up, dead, announced, faults, lost, repeated>>

(* channel.publish, which throws if the channel is closed.                  *)
PublishRow(p) ==
  /\ worker[p].doing = "nothing"
  /\ \E t \in worker[p].batch :
       IF p \in up
       THEN /\ worker' = [worker EXCEPT ![p].doing = "sent", ![p].row = t]
            /\ tasks' = tasks (+) SetToBag({Sent(p, t, "TRANSFER_INITIATED", 0, "to-initiated")})
       ELSE /\ worker' = [worker EXCEPT ![p].doing = "failing", ![p].row = t]
            /\ UNCHANGED tasks
  /\ UNCHANGED <<status, posted, outbox, up, dead, announced, faults, lost, repeated>>

(* The row is done with: the flush goes on to the next.                     *)
RowDone(p) ==
  worker' = [worker EXCEPT ![p] = [batch |-> @.batch \ {@.row}, doing |-> "nothing", row |-> NoProc]]

MarkPublished(p) ==
  /\ worker[p].doing = "sent"
  /\ outbox' = [outbox EXCEPT ![worker[p].row] = "PUBLISHED"]
  /\ RowDone(p)
  /\ UNCHANGED <<status, posted, up, tasks, dead, announced, faults, lost, repeated>>

MarkPublishedFails(p) ==
  /\ worker[p].doing = "sent"
  /\ Fault
  /\ worker' = [worker EXCEPT ![p].doing = "failing"]
  /\ UNCHANGED <<status, posted, outbox, up, tasks, dead, announced, lost, repeated>>

MarkRowFailed(p) ==
  /\ worker[p].doing = "failing"
  /\ outbox' = [outbox EXCEPT ![worker[p].row] = "FAILED"]
  /\ RowDone(p)
  /\ UNCHANGED <<status, posted, up, tasks, dead, announced, faults, lost, repeated>>

(* An error of markFailed itself ends the flush; the row stays PENDING.  It *)
(* is not counted: it only happens after a fault that is.                   *)
MarkRowFailedFails(p) ==
  /\ worker[p].doing = "failing"
  /\ worker' = [worker EXCEPT ![p] = Idle]
  /\ UNCHANGED <<status, posted, outbox, up, tasks, dead, announced, faults, lost, repeated>>

-----------------------------------------------------------------------------
(* The broker.                                                              *)

Replace(x, new) == tasks' = Exchanged(tasks, x, new)

(* A written frame reaches its exchange and is routed to its queue.         *)
Arrive(x) ==
  /\ x.place \in Wires
  /\ CASE x.place = "to-initiated" ->
            Replace(x, {Queued(x.t, x.event, x.retry, "initiated")}) /\ UNCHANGED dead
       [] x.place = "to-completed" ->
            Replace(x, {Queued(x.t, x.event, x.retry, "completed")}) /\ UNCHANGED dead
       [] x.place = "to-delay" ->
            Replace(x, {Queued(x.t, x.event, x.retry, "delay")}) /\ UNCHANGED dead
       [] x.place = "to-dlq" ->
            Replace(x, {}) /\ dead' = dead \cup {x.t}
  /\ UNCHANGED <<status, posted, outbox, worker, up, announced, faults, lost, repeated>>

(* Faulty variant of DelayExpires: the message returns to no queue.         *)
DelayDropsMessage(x) ==
  /\ x.place = "delay"
  /\ Replace(x, {})
  /\ UNCHANGED <<status, posted, outbox, worker, up, dead, announced, faults, lost, repeated>>

(* The delay queues dead-letter to the topic exchange with routing key      *)
(* transfer.initiated, whichever consumer put the message there; the        *)
(* notification queue is bound to every key and gets the message too.       *)
DelayExpires(x) ==
  /\ x.place = "delay"
  /\ Replace(x, {[x EXCEPT !.place = "initiated"]})
  /\ repeated' = IF x.event = "TRANSFER_COMPLETED" THEN [repeated EXCEPT ![x.t] = @ + 1] ELSE repeated
  /\ UNCHANGED <<status, posted, outbox, worker, up, dead, announced, faults, lost>>

Deliver(x, p) ==
  /\ x.place \in {"initiated", "completed"} /\ p \in up
  /\ Replace(x, {[x EXCEPT !.place = IF x.place = "initiated" THEN "post" ELSE "advance",
                           !.proc = p, !.owned = TRUE]})
  /\ UNCHANGED <<status, posted, outbox, worker, up, dead, announced, faults, lost, repeated>>

-----------------------------------------------------------------------------
(* TransferInitiatedConsumer.handleMessage.                                 *)

Becomes(x, place) == Replace(x, {[x EXCEPT !.place = place]})

(* Faulty variant of WriteJournal: nothing refuses a second posting.        *)
WriteJournalAgain(x) ==
  /\ x.place = "post"
  /\ posted' = posted \cup {x.t}
  /\ Becomes(x, "status")
  /\ UNCHANGED <<status, outbox, worker, up, dead, announced, faults, lost, repeated>>

WriteJournal(x) ==
  /\ x.place = "post" /\ x.t \notin posted
  /\ posted' = posted \cup {x.t}
  /\ Becomes(x, "status")
  /\ UNCHANGED <<status, outbox, worker, up, dead, announced, faults, lost, repeated>>

(* Faulty variant of SetCompleted: the status is updated before the journal. *)
SetCompletedFirst(x) ==
  /\ x.place = "post"
  /\ status' = [status EXCEPT ![x.t] = "COMPLETED"]
  /\ UNCHANGED <<posted, outbox, worker, up, tasks, dead, announced, faults, lost, repeated>>

SetCompleted(x) ==
  /\ x.place = "status"
  /\ status' = [status EXCEPT ![x.t] = "COMPLETED"]
  /\ Becomes(x, "publish")
  /\ UNCHANGED <<posted, outbox, worker, up, dead, announced, faults, lost, repeated>>

(* On a channel that has closed, publish and ack throw, the catch block's   *)
(* own ack throws again, and the handler is gone.                           *)
Abandon(x) ==
  /\ x.place \in Unacked /\ ~x.owned
  /\ Replace(x, {})
  /\ UNCHANGED <<status, posted, outbox, worker, up, dead, announced, faults, lost, repeated>>

PublishCompleted(x) ==
  /\ x.place = "publish" /\ x.owned
  /\ Replace(x, {[x EXCEPT !.place = "ack"], Sent(x.proc, x.t, "TRANSFER_COMPLETED", 0, "to-completed")})
  /\ announced' = announced \cup {<<x.t, "TRANSFER_COMPLETED">>}
  /\ UNCHANGED <<status, posted, outbox, worker, up, dead, faults, lost, repeated>>

(* The broker reads the ack after the publish: both are on one channel.     *)
Ack(x) ==
  /\ x.place \in {"ack", "advanced"} /\ x.owned
  /\ Sent(x.proc, x.t, "TRANSFER_COMPLETED", 0, "to-completed") \notin Live
  /\ Replace(x, {})
  /\ UNCHANGED <<status, posted, outbox, worker, up, dead, announced, faults, lost, repeated>>

(* Faulty variant of Retry: x-retry-count is not incremented.               *)
RetryUncounted(x) == Replace(x, {Sent(x.proc, x.t, x.event, x.retry, "to-delay")})

(* scheduleRetryOrDlq, of either consumer.                                  *)
Retry(x) == Replace(x, {Sent(x.proc, x.t, x.event, x.retry + 1, "to-delay")})

(* Faulty variant of GiveUp: nothing is dead-lettered.                      *)
GiveUpQuietly(x) == Replace(x, {[x EXCEPT !.place = "mark", !.owned = FALSE]})

GiveUp(x) == Replace(x, {Sent(x.proc, x.t, x.event, x.retry, "to-dlq"), [x EXCEPT !.place = "mark", !.owned = FALSE]})

(* Faulty variant of HandlerFails: one retry too many.                      *)
HandlerRetriesOnceMore(x) ==
  /\ x.place \in {"post", "status", "publish"} /\ x.owned
  /\ IF x.retry <= MaxRetries THEN Retry(x) ELSE GiveUp(x)
  /\ UNCHANGED <<status, posted, outbox, worker, up, dead, announced, faults, lost, repeated>>

(* Anything may throw before the publish, and a second posting of the same  *)
(* transfer always does: writeJournalEntries hides the unique violation     *)
(* that the handler would skip.                                             *)
HandlerFails(x) ==
  /\ x.place \in {"post", "status", "publish"} /\ x.owned
  /\ IF x.retry < MaxRetries THEN Retry(x) ELSE GiveUp(x)
  /\ UNCHANGED <<status, posted, outbox, worker, up, dead, announced, faults, lost, repeated>>

(* markTransferFailed: the update, unconditional, then transfer.failed.     *)
MarkFailed(x) ==
  /\ x.place = "mark"
  /\ status' = [status EXCEPT ![x.t] = "FAILED"]
  /\ Becomes(x, "announce")
  /\ UNCHANGED <<posted, outbox, worker, up, dead, announced, faults, lost, repeated>>

MarkFailedFails(x) ==
  /\ x.place = "mark"
  /\ Fault
  /\ Replace(x, {})
  /\ UNCHANGED <<status, posted, outbox, worker, up, dead, announced, lost, repeated>>

AnnounceFailed(x) ==
  /\ x.place = "announce"
  /\ Replace(x, {})
  /\ announced' = IF x.proc \in up THEN announced \cup {<<x.t, "TRANSFER_FAILED">>} ELSE announced
  /\ UNCHANGED <<status, posted, outbox, worker, up, dead, faults, lost, repeated>>

-----------------------------------------------------------------------------
(* TransferCompletedConsumer.handleMessage: the guarded update, the event   *)
(* to the streams, the ack; or a retry through the shared delay queues, or  *)
(* the dead letter queue of the notifications.                              *)
Advance(x) ==
  /\ x.place = "advance"
  /\ status' = [status EXCEPT ![x.t] = IF @ = "INITIATED" THEN "COMPLETED" ELSE @]
  /\ Becomes(x, "advanced")
  /\ UNCHANGED <<posted, outbox, worker, up, dead, announced, faults, lost, repeated>>

AdvanceFails(x) ==
  /\ x.place \in {"advance", "advanced"} /\ x.owned
  /\ IF x.retry < MaxRetries THEN Retry(x)
     ELSE Replace(x, {})
  /\ UNCHANGED <<status, posted, outbox, worker, up, dead, announced, faults, lost, repeated>>

-----------------------------------------------------------------------------
(* A channel breaks, or a process dies and starts again.  What it had       *)
(* written and the broker not read is lost; what it had not acknowledged    *)
(* is queued again.                                                         *)

OfProc(p)  == {x \in Live : x.proc = p}
Owned(p)   == {x \in OfProc(p) : x.owned}
OnWire(p)  == {x \in OfProc(p) : x.place \in Wires}
(* Each message that was not acknowledged is in its queue again.            *)
Redelivered(p) ==
  [x \in Owned(p) |->
     Queued(x.t, x.event, x.retry,
            IF x.place \in {"advance", "advanced"} THEN "completed" ELSE "initiated")]

(* Handlers that may have given up just before their channel closed: they   *)
(* go on to markTransferFailed, while the broker has seen no ack.           *)
GivingUp(p) == {x \in Owned(p) : x.place \in {"post", "status", "publish"} /\ x.retry = MaxRetries}

(* Their handlers go on without it, those in G to markTransferFailed.       *)
Orphaned(p, G) ==
  [x \in Owned(p) |-> [x EXCEPT !.owned = FALSE, !.place = IF x \in G THEN "mark" ELSE @]]

(* amqplib's channel is not opened again.                                   *)
ChannelCloses(p) ==
  /\ p \in up /\ Fault
  /\ up' = up \ {p}
  /\ \E G \in SUBSET GivingUp(p) :
       /\ lost' = lost \cup {x.t : x \in OnWire(p) \cup G}
       /\ tasks' = Restrict(tasks, Live \ (Owned(p) \cup OnWire(p)))
                     (+) Moved(tasks, Orphaned(p, G)) (+) Moved(tasks, Redelivered(p))
  /\ UNCHANGED <<status, posted, outbox, worker, dead, announced, repeated>>

Restart(p) ==
  /\ up' = up \cup {p}
  /\ lost' = lost \cup {x.t : x \in OnWire(p)}
  /\ tasks' = Restrict(tasks, Live \ OfProc(p)) (+) Moved(tasks, Redelivered(p))
  /\ worker' = [worker EXCEPT ![p] = Idle]
  /\ UNCHANGED <<status, posted, outbox, dead, announced, repeated>>

Crash(p) == p \in up /\ Fault /\ Restart(p)

(* A process without a channel is restarted by an operator, or because the  *)
(* rejection of an abandoned handler ended it.                              *)
Recover(p) == p \notin up /\ Restart(p) /\ UNCHANGED faults

-----------------------------------------------------------------------------
Outbox(p) == Flush(p) \/ PublishRow(p) \/ MarkPublished(p) \/ MarkRowFailed(p)

Broker == \E x \in Live : Arrive(x) \/ DelayExpires(x) \/ \E p \in Procs : Deliver(x, p)

Handler(x) ==
  \/ WriteJournal(x) \/ SetCompleted(x) \/ Abandon(x) \/ PublishCompleted(x) \/ Ack(x)
  \/ HandlerFails(x) \/ MarkFailed(x) \/ AnnounceFailed(x) \/ Advance(x) \/ AdvanceFails(x)

Work == (\E p \in Procs : Outbox(p)) \/ Broker \/ (\E x \in Live : Handler(x))

Faults ==
  \/ \E p \in Procs : MarkPublishedFails(p) \/ MarkRowFailedFails(p) \/ ChannelCloses(p) \/ Crash(p)
  \/ \E x \in Live : MarkFailedFails(x)

Next == (\E t \in Transfers : Accept(t)) \/ Work \/ (\E p \in Procs : Recover(p)) \/ Faults

(* While anything is pending somebody works: the worker polls every minute, *)
(* the consumers are subscribed, a delay runs out.                          *)
Spec == Init /\ [][Next]_vars /\ WF_vars(Work)

-----------------------------------------------------------------------------
(* Every variable keeps to the values its code can give it.                 *)
TypeOK ==
  /\ status \in [Transfers -> Statuses]
  /\ posted \subseteq Transfers
  /\ outbox \in [Transfers -> OutboxStatuses]
  /\ worker \in [Procs -> [batch : SUBSET Transfers, doing : {"nothing", "sent", "failing"},
                           row : Transfers \cup {NoProc}]]
  /\ up \subseteq Procs
  /\ Live \subseteq Tasks
  /\ dead \subseteq Transfers
  /\ announced \subseteq Transfers \X {"TRANSFER_COMPLETED", "TRANSFER_FAILED"}
  /\ faults \in 0 .. MaxFaults
  /\ lost \subseteq Transfers
  /\ repeated \in [Transfers -> Nat]

(* Nobody is told of a completion that the journal does not have: not the   *)
(* Transfer row, not a consumer of transfer.completed, not a webhook,       *)
(* whatever is redelivered, retried or sent to the wrong queue.             *)
CompletionIsReal ==
  \A t \in Transfers :
    \/ status[t] = "COMPLETED"
    \/ <<t, "TRANSFER_COMPLETED">> \in announced
    \/ \E x \in Live : x.t = t /\ x.event = "TRANSFER_COMPLETED"
    => t \in posted

(* A FAILED transfer's message is kept for an operator: in the dead letter  *)
(* queue or on its way there, unless the connection lost it.                *)
FailedKeepsDeadLetter ==
  \A t \in Transfers : status[t] = "FAILED" =>
    t \in dead \cup lost \/ \E x \in Live : x.t = t /\ x.place = "to-dlq"

(* An accepted transfer that is not settled is somewhere it can be found:   *)
(* its outbox row is not published, a message of it is under way or held,   *)
(* it was dead-lettered, or a frame of it was lost with its connection.     *)
AccountedFor ==
  \A t \in Transfers : status[t] = "INITIATED" /\ t \notin posted =>
    \/ outbox[t] \in {"PENDING", "FAILED"}
    \/ \E x \in Live : x.t = t /\ (x.place \in Queues \cup Wires \/ x.owned)
    \/ t \in dead \cup lost

(* Without crashes, closed channels and lost updates every accepted         *)
(* transfer reaches a terminal status, whatever the handlers throw.         *)
Settles ==
  \A t \in Transfers :
    status[t] = "INITIATED" ~> (status[t] \in {"COMPLETED", "FAILED"} \/ faults > 0)

(* What the comment on markTransferFailed says: once retries are exhausted  *)
(* the debit has not posted and never will.                                 *)
FailedMeansUnposted == \A t \in Transfers : status[t] = "FAILED" => t \notin posted

(* README.md:269-276 has TransferCompleted retried three times and then     *)
(* dead-lettered, like the other consumers: a completion that was retried   *)
(* comes back to its own consumer and is not handled as a new transfer.     *)
RetriesComeBack ==
  \A x \in Live : x.event = "TRANSFER_COMPLETED" => x.place \notin {"initiated", "post"}

(* What the outbox is there for: a committed row is eventually published.   *)
AtLeastOnce ==
  \A t \in Transfers :
    <>(outbox[t] = "PENDING") => <>(\E x \in Live : x.t = t /\ x.place \in Queues)

(* The notification queue, which takes every key of the topic exchange, is  *)
(* told of a completion again only when a TRANSFER_COMPLETED comes back     *)
(* from a delay queue: at most MAX_RETRIES times for a transfer, whatever   *)
(* is redelivered after a crash or a broken channel.                        *)
CompletionRepeats == \A t \in Transfers : repeated[t] <= MaxRetries

(* And the handler of transfer.initiated itself publishes a completion only *)
(* once for a transfer: a second delivery fails at the journal.             *)
AnnouncedOnce ==
  [][\A x \in Live : PublishCompleted(x) => <<x.t, "TRANSFER_COMPLETED">> \notin announced]_vars
=============================================================================
