--------------------------- MODULE Notifications ---------------------------
(* What tenants hear of their transfers: NotificationConsumer, the webhook  *)
(* call, its one retry, the dead letters with their DlqEvent rows, and the  *)
(* replay of a row by an administrator.                                     *)
(*                                                                          *)
(* As in TransferPipeline, messages and running handlers are the elements   *)
(* of one bag, and a publish is first on its process's connection.          *)
EXTENDS SequencesExt, Counting

CONSTANTS
  Notices,       \* the transfer events that tenants may hear of
  Processable,   \* those of PROCESSABLE_EVENTS
  Procs, NoProc,
  Calls,         \* the calls of replayEvent
  MaxRetries,    \* NOTIFICATION_MAX_RETRIES of notification.dlq.config.ts
  MaxCopies,     \* bound on how often the topic exchange sees one notice
  MaxFaults      \* bound on crashes, broken channels and failed updates

ASSUME BoundsAssumption == MaxRetries \in Nat /\ MaxCopies \in Nat /\ MaxFaults \in Nat
ASSUME ProcsAssumption == NoProc \notin Procs
ASSUME NoticesAssumption == Processable \subseteq Notices

VARIABLES
  hooked,   \* the notices of tenants with a webhook (Tenant.webhookUrl), which never changes
  up,       \* the processes whose channel is open
  tasks,    \* the bag of messages and running handlers
  dlq,      \* the bag of notices in the dead letter queue, which nobody consumes
  rows,     \* the DlqEvent table; sends is history: replays that reached the connection
  call,     \* where each call of replayEvent is
  faults,
  copies,   \* history: how often a notice went through the topic exchange
  posts,    \* history: how often its webhook was called
  heard,    \* history: the notices whose webhook the tenant accepted
  lost,     \* history: the notices of which a written frame was lost
  unlisted  \* history: the notices of which a dead letter got no row

queueing == <<hooked, up, tasks, dlq>>
admin    == <<rows, call>>
history  == <<copies, posts, heard, lost, unlisted>>
vars     == <<queueing, admin, faults, history>>

Wires  == {"to-queue", "to-delay", "to-dlq"}
Held   == {"received", "delivered", "failed"}   \* a handler that holds its message
Places == {"queue", "delay", "persist"} \cup Wires \cup Held

Tasks == [n : Notices, retry : 0 .. MaxRetries, place : Places,
          proc : Procs \cup {NoProc}, owned : BOOLEAN]

CallPlaces == {"new", "send", "sent", "done", "refused", "error"}

Live == BagToSet(tasks)

Queued(n, retry, place) ==
  [n |-> n, retry |-> retry, place |-> place, proc |-> NoProc, owned |-> FALSE]

Sent(p, n, retry, wire) ==
  [n |-> n, retry |-> retry, place |-> wire, proc |-> p, owned |-> FALSE]

Put(new)          == tasks' = tasks (+) SetToBag(new)
Replace(x, new)   == tasks' = Exchanged(tasks, x, new)
Becomes(x, place) == Replace(x, {[x EXCEPT !.place = place]})

Init ==
  /\ hooked \in SUBSET Processable
  /\ up = Procs
  /\ tasks = EmptyBag
  /\ dlq = EmptyBag
  /\ rows = <<>>
  /\ call = [c \in Calls |-> [at |-> "new", id |-> 0, proc |-> NoProc]]
  /\ faults = 0
  /\ copies = [n \in Notices |-> 0]
  /\ posts = [n \in Notices |-> 0]
  /\ heard = {}
  /\ lost = {}
  /\ unlisted = {}

Fault == faults < MaxFaults /\ faults' = faults + 1

(* The topic exchange gets a message with a routing key transfer.*, from    *)
(* the outbox, from a consumer, or from a delay queue of the transfers,     *)
(* which sends an event through the exchange once more with the retry count *)
(* that its own consumer gave it; counts from MaxRetries on are alike here. *)
Announce(n) ==
  /\ copies[n] < MaxCopies
  /\ copies' = [copies EXCEPT ![n] = @ + 1]
  /\ \E retry \in 0 .. MaxRetries : Put({Queued(n, retry, "queue")})
  /\ UNCHANGED <<hooked, up, dlq, admin, faults, posts, heard, lost, unlisted>>

-----------------------------------------------------------------------------
(* The broker.                                                              *)

Arrive(x) ==
  /\ x.place \in Wires
  /\ CASE x.place = "to-queue" -> Replace(x, {Queued(x.n, x.retry, "queue")}) /\ UNCHANGED dlq
       [] x.place = "to-delay" -> Replace(x, {Queued(x.n, x.retry, "delay")}) /\ UNCHANGED dlq
       [] x.place = "to-dlq"   -> Replace(x, {}) /\ dlq' = dlq (+) SetToBag({x.n})
  /\ UNCHANGED <<hooked, up, admin, faults, history>>

(* Faulty variant of DelayExpires: the delay queue forgets its message.     *)
DelayDropsMessage(x) ==
  /\ x.place = "delay"
  /\ Replace(x, {})
  /\ UNCHANGED <<hooked, up, dlq, admin, faults, history>>

DelayExpires(x) ==
  /\ x.place = "delay"
  /\ Becomes(x, "queue")
  /\ UNCHANGED <<hooked, up, dlq, admin, faults, history>>

-----------------------------------------------------------------------------
(* NotificationConsumer.handleMessage.                                      *)

(* Faulty variant of Receive: the broker takes a delivery for an ack.       *)
ReceiveNoAck(x, p) ==
  /\ x.place = "queue" /\ p \in up
  /\ IF x.n \in Processable
     THEN Replace(x, {[x EXCEPT !.place = "received", !.proc = p]})
     ELSE Replace(x, {})
  /\ UNCHANGED <<hooked, up, dlq, admin, faults, history>>

(* A message of another event is acknowledged at once.                      *)
Receive(x, p) ==
  /\ x.place = "queue" /\ p \in up
  /\ IF x.n \in Processable
     THEN Replace(x, {[x EXCEPT !.place = "received", !.proc = p, !.owned = TRUE]})
     ELSE Replace(x, {})
  /\ UNCHANGED <<hooked, up, dlq, admin, faults, history>>

NoWebhook(x) ==
  /\ x.place = "received" /\ x.n \notin hooked
  /\ Becomes(x, "delivered")
  /\ UNCHANGED <<hooked, up, dlq, admin, faults, history>>

(* WebhookService.deliver calls the webhook; the tenant may accept it after *)
(* the ten seconds that the call waits, or answer that it does not.         *)
CallWebhook(x) ==
  /\ x.place = "received" /\ x.n \in hooked
  /\ posts' = [posts EXCEPT ![x.n] = @ + 1]
  /\ \/ Becomes(x, "delivered") /\ heard' = heard \cup {x.n}
     \/ Becomes(x, "failed") /\ heard' \in {heard, heard \cup {x.n}}
  /\ UNCHANGED <<hooked, up, dlq, admin, faults, copies, lost, unlisted>>

(* The tenant or its secret cannot be read.                                 *)
DeliverThrows(x) ==
  /\ x.place = "received"
  /\ Becomes(x, "failed")
  /\ UNCHANGED <<hooked, up, dlq, admin, faults, history>>

Ack(x) ==
  /\ x.place = "delivered" /\ x.owned
  /\ Replace(x, {})
  /\ UNCHANGED <<hooked, up, dlq, admin, faults, history>>

(* On a closed channel the ack throws, and again in the catch block.        *)
Abandon(x) ==
  /\ x.place \in Held /\ ~x.owned
  /\ Replace(x, {})
  /\ UNCHANGED <<hooked, up, dlq, admin, faults, history>>

Retry(x) == Replace(x, {Sent(x.proc, x.n, x.retry + 1, "to-delay")})

(* Faulty variant of GiveUp: the dead letter is published, not persisted.   *)
GiveUpUnlisted(x) == Replace(x, {Sent(x.proc, x.n, x.retry, "to-dlq")})

(* publishToDlq: the publish, and a persist that nobody awaits.             *)
GiveUp(x) ==
  Replace(x, {Sent(x.proc, x.n, x.retry, "to-dlq"), [x EXCEPT !.place = "persist", !.owned = FALSE]})

(* Faulty variants of FailedDelivery: the retry header keeps its value; a   *)
(* retry too many.                                                          *)
RetryUncounted(x) ==
  /\ x.place = "failed" /\ x.owned
  /\ IF x.retry < MaxRetries THEN Replace(x, {Sent(x.proc, x.n, x.retry, "to-delay")}) ELSE GiveUp(x)
  /\ UNCHANGED <<hooked, up, dlq, admin, faults, history>>

RetryOnceMore(x) ==
  /\ x.place = "failed" /\ x.owned
  /\ IF x.retry <= MaxRetries THEN Retry(x) ELSE GiveUp(x)
  /\ UNCHANGED <<hooked, up, dlq, admin, faults, history>>

(* The ack, then scheduleRetryOrDlq.                                        *)
FailedDelivery(x) ==
  /\ x.place = "failed" /\ x.owned
  /\ IF x.retry < MaxRetries THEN Retry(x) ELSE GiveUp(x)
  /\ UNCHANGED <<hooked, up, dlq, admin, faults, history>>

-----------------------------------------------------------------------------
(* DlqPersistService.persist: one insert, whose error is swallowed.         *)

Row(n) == [n |-> n, replayed |-> FALSE, sends |-> 0]

Persist(x) ==
  /\ x.place = "persist"
  /\ Replace(x, {})
  /\ rows' = Append(rows, Row(x.n))
  /\ UNCHANGED <<hooked, up, dlq, call, faults, history>>

PersistFails(x) ==
  /\ x.place = "persist"
  /\ Fault
  /\ Replace(x, {})
  /\ unlisted' = unlisted \cup {x.n}
  /\ UNCHANGED <<hooked, up, dlq, admin, copies, posts, heard, lost>>

-----------------------------------------------------------------------------
(* DlqService.replayEvent, one step between two awaits.  Only notification  *)
(* rows exist: the initiated consumer persists none, and no retry reaches   *)
(* the completed consumer's dead letters, so nothing is re-armed.           *)

FindEvent(c, p) ==
  /\ call[c].at = "new"
  /\ \E id \in 1 .. Len(rows) :
       call' = [call EXCEPT ![c] = [at |-> IF rows[id].replayed THEN "refused" ELSE "send",
                                    id |-> id, proc |-> p]]
  /\ UNCHANGED <<queueing, rows, faults, history>>

(* Faulty variant of SendEvent: the row is marked before the send.          *)
MarkThenSend(c) ==
  /\ call[c].at = "send"
  /\ LET r == call[c]
     IN /\ rows' = [rows EXCEPT ![r.id].replayed = TRUE,
                                ![r.id].sends = IF r.proc \in up THEN @ + 1 ELSE @]
        /\ IF r.proc \in up
           THEN /\ Put({Sent(r.proc, rows[r.id].n, 0, "to-queue")})
                /\ call' = [call EXCEPT ![c].at = "sent"]
           ELSE /\ call' = [call EXCEPT ![c].at = "error"]
                /\ UNCHANGED tasks
  /\ UNCHANGED <<hooked, up, dlq, faults, history>>

(* sendToQueue with a retry count of zero; it throws if the channel closed. *)
SendEvent(c) ==
  /\ call[c].at = "send"
  /\ LET r == call[c]
     IN IF r.proc \in up
        THEN /\ Put({Sent(r.proc, rows[r.id].n, 0, "to-queue")})
             /\ rows' = [rows EXCEPT ![r.id].sends = @ + 1]
             /\ call' = [call EXCEPT ![c].at = "sent"]
        ELSE /\ call' = [call EXCEPT ![c].at = "error"]
             /\ UNCHANGED <<tasks, rows>>
  /\ UNCHANGED <<hooked, up, dlq, faults, history>>

MarkReplayed(c) ==
  /\ call[c].at = "sent"
  /\ rows' = [rows EXCEPT ![call[c].id].replayed = TRUE]
  /\ call' = [call EXCEPT ![c].at = "done"]
  /\ UNCHANGED <<queueing, faults, history>>

MarkReplayedFails(c) ==
  /\ call[c].at = "sent"
  /\ Fault
  /\ call' = [call EXCEPT ![c].at = "error"]
  /\ UNCHANGED <<queueing, rows, history>>

-----------------------------------------------------------------------------
(* A channel breaks, or a process dies and starts again: see TransferPipeline. *)

OfProc(p) == {x \in Live : x.proc = p}
Owned(p)  == {x \in OfProc(p) : x.owned}
OnWire(p) == {x \in OfProc(p) : x.place \in Wires}

Redelivered(p) == [x \in Owned(p) |-> Queued(x.n, x.retry, "queue")]
Orphaned(p, G) == [x \in Owned(p) |-> [x EXCEPT !.owned = FALSE, !.place = IF x \in G THEN "persist" ELSE @]]

(* Handlers that gave up just before the channel closed still persist.      *)
ChannelCloses(p) ==
  /\ p \in up /\ Fault
  /\ up' = up \ {p}
  /\ \E G \in SUBSET {x \in Owned(p) : x.place = "failed" /\ x.retry = MaxRetries} :
       tasks' = Restrict(tasks, Live \ (Owned(p) \cup OnWire(p)))
                  (+) Moved(tasks, Orphaned(p, G)) (+) Moved(tasks, Redelivered(p))
  /\ lost' = lost \cup {x.n : x \in OnWire(p)}
  /\ UNCHANGED <<hooked, dlq, admin, copies, posts, heard, unlisted>>

Restart(p) ==
  /\ up' = up \cup {p}
  /\ tasks' = Restrict(tasks, Live \ OfProc(p)) (+) Moved(tasks, Redelivered(p))
  /\ lost' = lost \cup {x.n : x \in OnWire(p)}
  /\ unlisted' = unlisted \cup {x.n : x \in {y \in OfProc(p) : y.place = "persist"}}
  /\ call' = [c \in Calls |-> IF call[c].proc = p /\ call[c].at \in {"send", "sent"}
                              THEN [call[c] EXCEPT !.at = "error"] ELSE call[c]]
  /\ UNCHANGED <<hooked, dlq, rows, copies, posts, heard>>

Crash(p)   == p \in up /\ Fault /\ Restart(p)
Recover(p) == p \notin up /\ Restart(p) /\ UNCHANGED faults

-----------------------------------------------------------------------------
Handler(x) ==
  \/ \E p \in Procs : Receive(x, p)
  \/ NoWebhook(x) \/ CallWebhook(x) \/ DeliverThrows(x) \/ Ack(x) \/ Abandon(x)
  \/ FailedDelivery(x) \/ Persist(x)

Replay(c) == SendEvent(c) \/ MarkReplayed(c)

Work ==
  \/ \E x \in Live : Arrive(x) \/ DelayExpires(x) \/ Handler(x)
  \/ \E c \in Calls : Replay(c)

Faults ==
  \/ \E x \in Live : PersistFails(x)
  \/ \E c \in Calls : MarkReplayedFails(c)
  \/ \E p \in Procs : ChannelCloses(p) \/ Crash(p)

Next ==
  \/ \E n \in Notices : Announce(n)
  \/ \E c \in Calls, p \in Procs : FindEvent(c, p)
  \/ \E p \in Procs : Recover(p)
  \/ Work \/ Faults

Spec == Init /\ [][Next]_vars /\ WF_vars(Work)

-----------------------------------------------------------------------------
TypeOK ==
  /\ hooked \subseteq Processable
  /\ up \subseteq Procs
  /\ Live \subseteq Tasks
  /\ BagToSet(dlq) \subseteq Notices
  /\ rows \in Seq([n : Notices, replayed : BOOLEAN, sends : Nat])
  /\ call \in [Calls -> [at : CallPlaces, id : 0 .. Len(rows), proc : Procs \cup {NoProc}]]
  /\ faults \in 0 .. MaxFaults
  /\ copies \in [Notices -> 0 .. MaxCopies]
  /\ posts \in [Notices -> Nat]
  /\ heard \subseteq Notices /\ lost \subseteq Notices /\ unlisted \subseteq Notices

RowsOf(n)   == {id \in 1 .. Len(rows) : rows[id].n = n}
In(n, place) == {x \in Live : x.n = n /\ x.place = place}
DeadOf(n)   == CountOf(n, dlq) + Total(In(n, "to-dlq"), tasks)
ToList(n)   == Total(In(n, "persist"), tasks)
Resends(n)  == Total(RowsOf(n), [id \in 1 .. Len(rows) |-> rows[id].sends])
UnderWay(n) == \E x \in Live : x.n = n /\ (x.place \in {"queue", "delay"} \cup Wires \/ x.owned)

(* A tenant's event is not forgotten: the tenant accepted it, it is waiting *)
(* or held by a handler, it was dead-lettered, or the connection lost it.   *)
NoticeAccountedFor ==
  \A n \in hooked : copies[n] > 0 =>
    n \in heard \cup lost \/ UnderWay(n) \/ BagIn(n, dlq)

(* What is in the dead letter queue can be replayed: there is a row for     *)
(* each dead letter or it is being written, unless the write failed.        *)
DeadLettersListed ==
  \A n \in Notices \ unlisted : DeadOf(n) <= Cardinality(RowsOf(n)) + ToList(n)

(* A row that says it was replayed was sent to its queue again.             *)
ReplayedWasSent == \A id \in 1 .. Len(rows) : rows[id].replayed => rows[id].sends > 0

(* Without faults a tenant's webhook is called once and, if that fails, once *)
(* more, for each time the event was announced or replayed.                 *)
OneRetry ==
  faults = 0 => \A n \in Notices : posts[n] <= (MaxRetries + 1) * (copies[n] + Resends(n))

(* Without faults every event of a tenant with a webhook is accepted or     *)
(* dead-lettered in the end, whatever the tenant answers.                   *)
NoticeSettles ==
  \A n \in Processable :
    n \in hooked /\ copies[n] > 0 ~> (n \in heard \/ BagIn(n, dlq) \/ faults > 0)

(* The conflict that replayEvent answers for a replayed row: a dead letter  *)
(* is sent at most once.                                                    *)
ReplayedOnce == \A id \in 1 .. Len(rows) : rows[id].sends <= 1
=============================================================================
