----------------------- MODULE TransferPipelineProofs ----------------------
(* Proofs about TransferPipeline, for any number of transfers, processes,   *)
(* retries and faults.                                                      *)
EXTENDS TransferPipeline, CountingProofs

-----------------------------------------------------------------------------
(* What the operations on the bag of tasks do to its elements.              *)

LEMMA ReplacedLive ==
  ASSUME NEW x, NEW new, Replace(x, new)
  PROVE  /\ Live' \subseteq Live \cup new
         /\ Live \ {x} \subseteq Live'
         /\ new \subseteq Live'
<1>1. /\ DOMAIN More!BagRemove(tasks, x) \subseteq Live
      /\ Live \ {x} \subseteq DOMAIN More!BagRemove(tasks, x)
  BY DEF More!BagRemove, Live, BagToSet
<1>2. Live' = DOMAIN More!BagRemove(tasks, x) \cup new
  BY DEF Replace, Exchanged, Live, BagToSet, SetToBag, (+)
<1>. QED
  BY <1>1, <1>2

(* What becomes of the messages of a handler whose channel closed: they are *)
(* queued again, and the handler is orphaned and may give up.               *)
Again(x) ==
  Queued(x.t, x.event, x.retry,
         IF x.place \in {"advance", "advanced"} THEN "completed" ELSE "initiated")
Orphan(x, G) == [x EXCEPT !.owned = FALSE, !.place = IF x \in G THEN "mark" ELSE @]

LEMMA MovedLive ==
  ASSUME NEW p
  PROVE  /\ DOMAIN Moved(tasks, Redelivered(p)) = {Again(x) : x \in Owned(p)}
         /\ \A G : DOMAIN Moved(tasks, Orphaned(p, G)) = {Orphan(x, G) : x \in Owned(p)}
<1>1. DOMAIN Moved(tasks, Redelivered(p)) = {Again(x) : x \in Owned(p)}
  BY DEF Moved, Redelivered, Range, Again
<1>2. ASSUME NEW G PROVE DOMAIN Moved(tasks, Orphaned(p, G)) = {Orphan(x, G) : x \in Owned(p)}
  BY DEF Moved, Orphaned, Range, Orphan
<1>. QED
  BY <1>1, <1>2

Closed(p, G) ==
  /\ lost' = lost \cup {x.t : x \in OnWire(p) \cup G}
  /\ \A y \in Live' :
       y \in Live \ OnWire(p) \/ \E x \in Owned(p) : y = Orphan(x, G) \/ y = Again(x)
  /\ Live \ (Owned(p) \cup OnWire(p)) \subseteq Live'
  /\ \A x \in Owned(p) : Again(x) \in Live'

LEMMA ClosedLive ==
  ASSUME NEW p, ChannelCloses(p)
  PROVE  \E G \in SUBSET GivingUp(p) : Closed(p, G)
<1>1. PICK G \in SUBSET GivingUp(p) :
        /\ lost' = lost \cup {x.t : x \in OnWire(p) \cup G}
        /\ tasks' = Restrict(tasks, Live \ (Owned(p) \cup OnWire(p)))
                      (+) Moved(tasks, Orphaned(p, G)) (+) Moved(tasks, Redelivered(p))
  BY DEF ChannelCloses
<1>. DEFINE stays == Live \ (Owned(p) \cup OnWire(p))
            left  == DOMAIN Moved(tasks, Orphaned(p, G))
            back  == DOMAIN Moved(tasks, Redelivered(p))
<1>2. Live' = stays \cup left \cup back
  BY <1>1 DEF Live, Restrict, BagToSet, (+)
<1>3. left = {Orphan(x, G) : x \in Owned(p)} /\ back = {Again(x) : x \in Owned(p)}
  <2>1. back = {Again(x) : x \in Owned(p)}
    BY MovedLive
  <2>2. left = {Orphan(x, G) : x \in Owned(p)}
    <3>1. \A H : DOMAIN Moved(tasks, Orphaned(p, H)) = {Orphan(x, H) : x \in Owned(p)}
      BY MovedLive
    <3>. QED
      BY <3>1, Zenon
  <2>. QED
    BY <2>1, <2>2
<1>4. \A y \in Live' : y \in stays \/ y \in left \/ y \in back
  BY <1>2
<1>5. \A x \in Owned(p) : Again(x) \in Live'
  <2>. HIDE DEF left
  <2>1. \A x \in Owned(p) : Again(x) \in back
    BY <1>3
  <2>. QED
    BY <1>2, <2>1
<1>. HIDE DEF left, back
<1>6. \A y \in Live' :
        y \in Live \ OnWire(p) \/ \E x \in Owned(p) : y = Orphan(x, G) \/ y = Again(x)
  BY <1>3, <1>4
<1>7. stays \subseteq Live'
  BY <1>2
<1>. QED
  BY <1>1, <1>5, <1>6, <1>7 DEF Closed

LEMMA RestartedLive ==
  ASSUME NEW p, Restart(p)
  PROVE  /\ \A y \in Live' : y \in Live \ OfProc(p) \/ \E x \in Owned(p) : y = Again(x)
         /\ Live \ OfProc(p) \subseteq Live'
         /\ \A x \in Owned(p) : Again(x) \in Live'
<1>. DEFINE back == DOMAIN Moved(tasks, Redelivered(p))
<1>1. Live' = (Live \ OfProc(p)) \cup back
  BY DEF Restart, Live, Restrict, BagToSet, (+)
<1>2. back = {Again(x) : x \in Owned(p)}
  BY MovedLive
<1>. HIDE DEF back
<1>. QED
  BY <1>1, <1>2

-----------------------------------------------------------------------------
(* The types.                                                               *)

LEMMA TaskRecords ==
  ASSUME NEW x \in Tasks
  PROVE  /\ \A queue \in Queues : Queued(x.t, x.event, x.retry, queue) \in Tasks
         /\ \A wire \in Wires : Sent(x.proc, x.t, x.event, x.retry, wire) \in Tasks
         /\ \A place \in Places : [x EXCEPT !.place = place] \in Tasks
         /\ \A place \in Places : [x EXCEPT !.place = place, !.owned = FALSE] \in Tasks
         /\ \A place \in Places : [x EXCEPT !.owned = FALSE, !.place = place] \in Tasks
         /\ \A place \in Places, p \in Procs : [x EXCEPT !.place = place, !.proc = p, !.owned = TRUE] \in Tasks
         /\ Sent(x.proc, x.t, "TRANSFER_COMPLETED", 0, "to-completed") \in Tasks
         /\ x.retry < MaxRetries => Sent(x.proc, x.t, x.event, x.retry + 1, "to-delay") \in Tasks
<1>1. \A place \in Places : [x EXCEPT !.place = place] \in Tasks
  BY DEF Tasks
<1>2. \A place \in Places : [x EXCEPT !.place = place, !.owned = FALSE] \in Tasks
  BY DEF Tasks
<1>3. \A place \in Places : [x EXCEPT !.owned = FALSE, !.place = place] \in Tasks
  BY DEF Tasks
<1>4. \A place \in Places, p \in Procs : [x EXCEPT !.place = place, !.proc = p, !.owned = TRUE] \in Tasks
  BY DEF Tasks
<1>5. /\ \A queue \in Queues : Queued(x.t, x.event, x.retry, queue) \in Tasks
      /\ \A wire \in Wires : Sent(x.proc, x.t, x.event, x.retry, wire) \in Tasks
  BY DEF Tasks, Queued, Sent, Places
<1>6. Sent(x.proc, x.t, "TRANSFER_COMPLETED", 0, "to-completed") \in Tasks
  BY BoundsAssumption DEF Tasks, Sent, Places, Wires, Events
<1>7. x.retry < MaxRetries => Sent(x.proc, x.t, x.event, x.retry + 1, "to-delay") \in Tasks
  BY BoundsAssumption DEF Tasks, Sent, Places, Wires
<1>. QED
  BY <1>1, <1>2, <1>3, <1>4, <1>5, <1>6, <1>7

Flushes == [Procs -> [batch : SUBSET Transfers, doing : {"nothing", "sent", "failing"},
                      row : Transfers \cup {NoProc}]]

LEMMA OutboxTyped ==
  ASSUME TypeOK, NEW p \in Procs,
         Outbox(p) \/ MarkPublishedFails(p) \/ MarkRowFailedFails(p)
  PROVE  TypeOK'
<1>1. CASE Flush(p)
  <2>1. worker' \in Flushes
    BY <1>1 DEF Flush, TypeOK, Flushes
  <2>. QED
    BY <1>1, <2>1 DEF Flush, TypeOK, Flushes, Live
<1>2. CASE PublishRow(p)
  <2>1. PICK t \in worker[p].batch :
          /\ \E what \in {"sent", "failing"} : worker' = [worker EXCEPT ![p].doing = what, ![p].row = t]
          /\ \/ UNCHANGED tasks
             \/ tasks' = tasks (+) SetToBag({Sent(p, t, "TRANSFER_INITIATED", 0, "to-initiated")})
    BY <1>2 DEF PublishRow
  <2>2. Live' \subseteq Live \cup {Sent(p, t, "TRANSFER_INITIATED", 0, "to-initiated")}
    BY <2>1 DEF Live, BagToSet, SetToBag, (+)
  <2>3. Sent(p, t, "TRANSFER_INITIATED", 0, "to-initiated") \in Tasks
    BY <2>1, BoundsAssumption DEF TypeOK, Sent, Tasks, Places, Wires, Events
  <2>4. worker' \in Flushes
    <3>1. PICK what \in {"sent", "failing"} : worker' = [worker EXCEPT ![p].doing = what, ![p].row = t]
      BY <2>1
    <3>2. worker' = [worker EXCEPT ![p] = [@ EXCEPT !.doing = what, !.row = t]]
      BY <3>1
    <3>3. worker[p] \in [batch : SUBSET Transfers, doing : {"nothing", "sent", "failing"},
                          row : Transfers \cup {NoProc}]
      BY DEF TypeOK
    <3>4. t \in Transfers
      BY <2>1, <3>3
    <3>5. [worker[p] EXCEPT !.doing = what, !.row = t] \in
            [batch : SUBSET Transfers, doing : {"nothing", "sent", "failing"}, row : Transfers \cup {NoProc}]
      BY <3>1, <3>3, <3>4
    <3>. QED
      BY <3>2, <3>5 DEF TypeOK, Flushes
  <2>. QED
    BY <1>2, <2>2, <2>3, <2>4 DEF PublishRow, TypeOK, Flushes
<1>3. CASE MarkPublished(p) \/ MarkRowFailed(p)
  BY <1>3 DEF MarkPublished, MarkRowFailed, RowDone, TypeOK, Live, OutboxStatuses
<1>4. CASE MarkPublishedFails(p) \/ MarkRowFailedFails(p)
  BY <1>4, BoundsAssumption DEF MarkPublishedFails, MarkRowFailedFails, Fault, Idle, TypeOK, Live
<1>. QED
  BY <1>1, <1>2, <1>3, <1>4 DEF Outbox

(* A step of one task: it is replaced by others.                            *)
LEMMA ReplaceTyped ==
  ASSUME TypeOK, NEW x, NEW new, Replace(x, new), new \subseteq Tasks,
         status' \in [Transfers -> Statuses], posted' \subseteq Transfers,
         dead' \subseteq Transfers, faults' \in 0 .. MaxFaults,
         announced' \subseteq Transfers \X {"TRANSFER_COMPLETED", "TRANSFER_FAILED"},
         repeated' \in [Transfers -> Nat], UNCHANGED <<outbox, worker, up, lost>>
  PROVE  TypeOK'
<1>1. Live' \subseteq Tasks
  BY ReplacedLive DEF TypeOK
<1>. QED
  BY <1>1 DEF TypeOK

LEMMA BrokerTyped ==
  ASSUME TypeOK, NEW x \in Live,
         Arrive(x) \/ DelayExpires(x) \/ \E p \in Procs : Deliver(x, p)
  PROVE  TypeOK'
<1>. x \in Tasks
  BY DEF TypeOK
<1>1. CASE Arrive(x)
  <2>1. Replace(x, {}) \/ \E queue \in Queues : Replace(x, {Queued(x.t, x.event, x.retry, queue)})
    BY <1>1 DEF Arrive, Wires, Queues
  <2>2. dead' \subseteq Transfers
    BY <1>1 DEF Arrive, Wires, TypeOK, Tasks
  <2>3. UNCHANGED <<status, posted, outbox, worker, up, announced, faults, lost, repeated>>
    BY <1>1 DEF Arrive
  <2>4. CASE Replace(x, {})
    BY <2>2, <2>3, <2>4, ReplaceTyped DEF TypeOK
  <2>5. ASSUME NEW queue \in Queues, Replace(x, {Queued(x.t, x.event, x.retry, queue)})
        PROVE  TypeOK'
    <3>1. Queued(x.t, x.event, x.retry, queue) \in Tasks
      BY TaskRecords
    <3>. QED
      BY <2>2, <2>3, <2>5, <3>1, ReplaceTyped DEF TypeOK
  <2>. QED
    BY <2>1, <2>4, <2>5
<1>2. CASE DelayExpires(x)
  <2>1. Replace(x, {[x EXCEPT !.place = "initiated"]}) /\ [x EXCEPT !.place = "initiated"] \in Tasks
    BY <1>2, TaskRecords DEF DelayExpires, Places, Queues
  <2>2. repeated' \in [Transfers -> Nat]
    BY <1>2 DEF DelayExpires, TypeOK, Tasks
  <2>3. UNCHANGED <<status, posted, outbox, worker, up, dead, announced, faults, lost>>
    BY <1>2 DEF DelayExpires
  <2>. QED
    BY <2>1, <2>2, <2>3, ReplaceTyped DEF TypeOK
<1>3. ASSUME NEW p \in Procs, Deliver(x, p)
      PROVE  TypeOK'
  <2>1. PICK place \in {"post", "advance"} : Replace(x, {[x EXCEPT !.place = place, !.proc = p, !.owned = TRUE]})
    BY <1>3 DEF Deliver
  <2>2. [x EXCEPT !.place = place, !.proc = p, !.owned = TRUE] \in Tasks
    BY <2>1, TaskRecords DEF Places, Unacked
  <2>3. UNCHANGED <<status, posted, outbox, worker, up, dead, announced, faults, lost, repeated>>
    BY <1>3 DEF Deliver
  <2>. QED
    BY <2>1, <2>2, <2>3, ReplaceTyped DEF TypeOK
<1>. QED
  BY <1>1, <1>2, <1>3

(* A handler ends, goes on, retries, or gives up.                           *)
LEMMA HandlerTyped ==
  ASSUME TypeOK, NEW x \in Live, Handler(x) \/ MarkFailedFails(x)
  PROVE  TypeOK'
<1>. x \in Tasks
  BY DEF TypeOK
<1>1. x.t \in Transfers
  BY DEF Tasks
<1>2. status' \in [Transfers -> Statuses]
  BY <1>1 DEF Handler, WriteJournal, SetCompleted, Abandon, PublishCompleted, Ack, HandlerFails,
              MarkFailed, AnnounceFailed, Advance, AdvanceFails, MarkFailedFails, TypeOK, Statuses
<1>3. /\ posted' \subseteq Transfers /\ dead' \subseteq Transfers
      /\ UNCHANGED <<outbox, worker, up, lost, repeated>> /\ repeated \in [Transfers -> Nat]
  BY <1>1 DEF Handler, WriteJournal, SetCompleted, Abandon, PublishCompleted, Ack, HandlerFails,
              MarkFailed, AnnounceFailed, Advance, AdvanceFails, MarkFailedFails, TypeOK
<1>4. faults' \in 0 .. MaxFaults
  BY BoundsAssumption
     DEF Handler, WriteJournal, SetCompleted, Abandon, PublishCompleted, Ack, HandlerFails,
         MarkFailed, AnnounceFailed, Advance, AdvanceFails, MarkFailedFails, Fault, TypeOK
<1>5. announced' \subseteq Transfers \X {"TRANSFER_COMPLETED", "TRANSFER_FAILED"}
  BY <1>1 DEF Handler, WriteJournal, SetCompleted, Abandon, PublishCompleted, Ack, HandlerFails,
              MarkFailed, AnnounceFailed, Advance, AdvanceFails, MarkFailedFails, TypeOK
<1>6. \E new : Replace(x, new) /\ new \subseteq Tasks
  <2>1. CASE Abandon(x) \/ Ack(x) \/ AnnounceFailed(x) \/ MarkFailedFails(x)
    BY <2>1 DEF Abandon, Ack, AnnounceFailed, MarkFailedFails
  <2>2. CASE WriteJournal(x) \/ SetCompleted(x) \/ MarkFailed(x) \/ Advance(x)
    <3>1. \E place \in {"status", "publish", "announce", "advanced"} : Replace(x, {[x EXCEPT !.place = place]})
      BY <2>2 DEF WriteJournal, SetCompleted, MarkFailed, Advance, Becomes
    <3>2. \A place \in {"status", "publish", "announce", "advanced"} : [x EXCEPT !.place = place] \in Tasks
      BY TaskRecords DEF Places, Unacked, Acked
    <3>. QED
      BY <3>1, <3>2
  <2>3. CASE PublishCompleted(x)
    <3>1. Replace(x, {[x EXCEPT !.place = "ack"],
                      Sent(x.proc, x.t, "TRANSFER_COMPLETED", 0, "to-completed")})
      BY <2>3 DEF PublishCompleted
    <3>2. [x EXCEPT !.place = "ack"] \in Tasks
      BY TaskRecords DEF Places, Unacked
    <3>. DEFINE new == {[x EXCEPT !.place = "ack"],
                        Sent(x.proc, x.t, "TRANSFER_COMPLETED", 0, "to-completed")}
    <3>3. new \subseteq Tasks
      BY <3>2, TaskRecords
    <3>. HIDE DEF new
    <3>. QED
      BY <3>1, <3>3 DEF new
  <2>4. ASSUME x.retry < MaxRetries, Retry(x)
        PROVE  \E new : Replace(x, new) /\ new \subseteq Tasks
    <3>1. {Sent(x.proc, x.t, x.event, x.retry + 1, "to-delay")} \subseteq Tasks
      BY <2>4, TaskRecords
    <3>. QED
      BY <2>4, <3>1 DEF Retry
  <2>5. ASSUME GiveUp(x)
        PROVE  \E new : Replace(x, new) /\ new \subseteq Tasks
    <3>1. Replace(x, {Sent(x.proc, x.t, x.event, x.retry, "to-dlq"),
                      [x EXCEPT !.place = "mark", !.owned = FALSE]})
      BY <2>5 DEF GiveUp
    <3>2. Sent(x.proc, x.t, x.event, x.retry, "to-dlq") \in Tasks
      BY TaskRecords DEF Wires
    <3>3. [x EXCEPT !.place = "mark", !.owned = FALSE] \in Tasks
      BY TaskRecords DEF Places, Acked
    <3>. QED
      BY <3>1, <3>2, <3>3
  <2>6. CASE HandlerFails(x) \/ AdvanceFails(x)
    BY <2>4, <2>5, <2>6 DEF HandlerFails, AdvanceFails
  <2>. QED
    BY <2>1, <2>2, <2>3, <2>6 DEF Handler
<1>. QED
  BY <1>2, <1>3, <1>4, <1>5, <1>6, ReplaceTyped

LEMMA FaultTyped ==
  ASSUME TypeOK, Fault
  PROVE  faults' \in 0 .. MaxFaults
BY BoundsAssumption DEF Fault, TypeOK

LEMMA RestartTyped ==
  ASSUME TypeOK, NEW p \in Procs, Restart(p), faults' \in 0 .. MaxFaults
  PROVE  TypeOK'
<1>1. Live \subseteq Tasks
  BY DEF TypeOK
<1>2. \A x \in Live : Again(x) \in Tasks
  BY <1>1, TaskRecords DEF Again, Queues
<1>3. Live' \subseteq Tasks
  BY <1>1, <1>2, RestartedLive DEF Owned, OfProc
<1>4. lost' \subseteq Transfers
  BY <1>1 DEF Restart, OnWire, OfProc, TypeOK, Tasks
<1>5. worker' \in Flushes
  BY DEF Restart, Idle, TypeOK, Flushes
<1>6. UNCHANGED <<status, posted, outbox, dead, announced, repeated>> /\ up' \subseteq Procs
  BY DEF Restart, TypeOK
<1>. QED
  BY <1>3, <1>4, <1>5, <1>6 DEF TypeOK, Flushes

LEMMA CloseTyped ==
  ASSUME TypeOK, NEW p \in Procs, ChannelCloses(p)
  PROVE  TypeOK'
<1>1. Live \subseteq Tasks
  BY DEF TypeOK
<1>2. \A x \in Live : Again(x) \in Tasks
  BY <1>1, TaskRecords DEF Again, Queues
<1>3. PICK G \in SUBSET GivingUp(p) : Closed(p, G)
  BY ClosedLive
<1>4. Owned(p) \subseteq Live /\ G \subseteq Live /\ OnWire(p) \subseteq Live
  BY DEF Owned, OfProc, OnWire, GivingUp
<1>5. ASSUME NEW x \in Owned(p)
      PROVE  Orphan(x, G) \in Tasks
  <2>1. x \in Tasks /\ x.place \in Places /\ "mark" \in Places
    BY <1>1, <1>4 DEF Tasks, Places, Acked
  <2>2. \A place \in Places : [x EXCEPT !.owned = FALSE, !.place = place] \in Tasks
    BY <2>1, TaskRecords
  <2>. QED
    BY <2>1, <2>2 DEF Orphan
<1>6. Live' \subseteq Tasks
  BY <1>1, <1>2, <1>3, <1>4, <1>5 DEF Closed
<1>7. lost' \subseteq Transfers
  BY <1>1, <1>3, <1>4 DEF Closed, TypeOK, Tasks
<1>8. UNCHANGED <<status, posted, outbox, worker, dead, announced, repeated>> /\ up' \subseteq Procs /\ Fault
  BY DEF ChannelCloses, TypeOK
<1>. QED
  BY <1>6, <1>7, <1>8, FaultTyped DEF TypeOK

LEMMA InitLive == Init => Live = {}
BY DEF Init, Live, BagToSet, EmptyBag, SetToBag

LEMMA TypeInit == Init => TypeOK
<1>. SUFFICES ASSUME Init PROVE TypeOK
  OBVIOUS
<1>1. worker \in Flushes
  BY DEF Init, Idle, Flushes
<1>. QED
  BY <1>1, InitLive, BoundsAssumption DEF Init, TypeOK, Statuses, OutboxStatuses, Flushes

LEMMA TypeStep == TypeOK /\ [Next]_vars => TypeOK'
<1>. SUFFICES ASSUME TypeOK, [Next]_vars PROVE TypeOK'
  OBVIOUS
<1>1. ASSUME NEW t \in Transfers, Accept(t) PROVE TypeOK'
  BY <1>1 DEF Accept, TypeOK, Live, Statuses, OutboxStatuses
<1>2. CASE Work
  BY <1>2, OutboxTyped, BrokerTyped, HandlerTyped DEF Work, Broker
<1>3. ASSUME NEW p \in Procs, Crash(p) \/ Recover(p) PROVE TypeOK'
  <2>1. faults' \in 0 .. MaxFaults
    BY <1>3, FaultTyped DEF Crash, Recover, TypeOK
  <2>. QED
    BY <1>3, <2>1, RestartTyped DEF Crash, Recover
<1>4. CASE Faults
  BY <1>3, <1>4, OutboxTyped, HandlerTyped, CloseTyped DEF Faults
<1>5. CASE UNCHANGED vars
  BY <1>5 DEF vars, TypeOK, Live
<1>. QED
  BY <1>1, <1>2, <1>3, <1>4, <1>5 DEF Next

(* Whatever is lost, orphaned, redelivered or sent to the wrong queue, every *)
(* variable keeps to the values its code can give it.                       *)
THEOREM TypeCorrect == Spec => []TypeOK
BY TypeInit, TypeStep, PTL DEF Spec

-----------------------------------------------------------------------------
(* Completions.                                                             *)

PastJournal    == {"status", "publish", "ack"}
CompletedQueue == {"to-completed", "completed", "advance", "advanced"}

(* A handler past the journal, and a message that tells of a completion,    *)
(* are about a posted transfer; the completed consumer gets nothing else.   *)
TaskIsReal(x) ==
  /\ x.event = "TRANSFER_COMPLETED" \/ x.place \in PastJournal => x.t \in posted
  /\ x.place \in CompletedQueue => x.event = "TRANSFER_COMPLETED" /\ x.retry = 0

RealInv ==
  /\ \A x \in Live : TaskIsReal(x)
  /\ \A t \in Transfers : status[t] = "COMPLETED" \/ <<t, "TRANSFER_COMPLETED">> \in announced
                          => t \in posted

LEMMA RealKept ==
  ASSUME RealInv, posted \subseteq posted', Live' \subseteq Live,
         \A t \in Transfers : status'[t] = "COMPLETED" \/ <<t, "TRANSFER_COMPLETED">> \in announced'
                              => t \in posted'
  PROVE  RealInv'
BY DEF RealInv, TaskIsReal

LEMMA RealReplaced ==
  ASSUME RealInv, posted \subseteq posted', NEW x \in Live, NEW new, Replace(x, new),
         \A y \in new : TaskIsReal(y)',
         \A t \in Transfers : status'[t] = "COMPLETED" \/ <<t, "TRANSFER_COMPLETED">> \in announced'
                              => t \in posted'
  PROVE  RealInv'
BY ReplacedLive DEF RealInv, TaskIsReal

(* What becomes of a task keeps its transfer and its event.                 *)
LEMMA RealBecomes ==
  ASSUME TypeOK, RealInv, NEW x \in Live
  PROVE  /\ \A p, place : place \notin CompletedQueue \cup PastJournal =>
                /\ TaskIsReal([x EXCEPT !.place = place])
                /\ TaskIsReal([x EXCEPT !.place = place, !.owned = FALSE])
                /\ TaskIsReal([x EXCEPT !.place = place, !.proc = p, !.owned = TRUE])
         /\ \A p, r, place : place \notin CompletedQueue \cup PastJournal =>
              TaskIsReal(Sent(p, x.t, x.event, r, place)) /\ TaskIsReal(Queued(x.t, x.event, r, place))
<1>1. x \in Tasks /\ TaskIsReal(x)
  BY DEF TypeOK, RealInv
<1>. QED
  BY <1>1 DEF Tasks, TaskIsReal, Sent, Queued

LEMMA RealOutbox ==
  ASSUME RealInv, NEW p \in Procs,
         Outbox(p) \/ MarkPublishedFails(p) \/ MarkRowFailedFails(p)
  PROVE  RealInv'
<1>1. UNCHANGED <<status, posted, announced>>
  BY DEF Outbox, Flush, PublishRow, MarkPublished, MarkRowFailed, MarkPublishedFails, MarkRowFailedFails
<1>2. UNCHANGED tasks \/ \E t : tasks' = tasks (+) SetToBag({Sent(p, t, "TRANSFER_INITIATED", 0, "to-initiated")})
  BY DEF Outbox, Flush, PublishRow, MarkPublished, MarkRowFailed, MarkPublishedFails, MarkRowFailedFails
<1>3. CASE UNCHANGED tasks
  BY <1>1, <1>3, RealKept DEF Live, RealInv
<1>4. ASSUME NEW t, tasks' = tasks (+) SetToBag({Sent(p, t, "TRANSFER_INITIATED", 0, "to-initiated")})
      PROVE  RealInv'
  <2>1. Live' \subseteq Live \cup {Sent(p, t, "TRANSFER_INITIATED", 0, "to-initiated")}
    BY <1>4 DEF Live, BagToSet, SetToBag, (+)
  <2>2. TaskIsReal(Sent(p, t, "TRANSFER_INITIATED", 0, "to-initiated"))
    BY DEF TaskIsReal, Sent, CompletedQueue, PastJournal
  <2>. QED
    BY <1>1, <2>1, <2>2 DEF RealInv, TaskIsReal
<1>. QED
  BY <1>2, <1>3, <1>4

LEMMA RealBroker ==
  ASSUME TypeOK, RealInv, NEW x \in Live,
         Arrive(x) \/ DelayExpires(x) \/ \E p \in Procs : Deliver(x, p)
  PROVE  RealInv'
<1>1. UNCHANGED <<status, posted, announced>> /\ x \in Tasks /\ TaskIsReal(x)
  BY DEF Arrive, DelayExpires, Deliver, TypeOK, RealInv
<1>2. \E new : Replace(x, new) /\ \A y \in new : TaskIsReal(y)
  <2>1. CASE Arrive(x)
    <3>1. CASE x.place = "to-completed"
      <4>1. Replace(x, {Queued(x.t, x.event, x.retry, "completed")})
        BY <2>1, <3>1 DEF Arrive
      <4>2. TaskIsReal(Queued(x.t, x.event, x.retry, "completed"))
        BY <1>1, <3>1 DEF TaskIsReal, Queued, CompletedQueue, PastJournal
      <4>. QED
        BY <4>1, <4>2
    <3>2. CASE x.place # "to-completed"
      <4>1. Replace(x, {}) \/ \E place \in {"initiated", "delay"} : Replace(x, {Queued(x.t, x.event, x.retry, place)})
        BY <2>1, <3>2 DEF Arrive, Wires
      <4>2. \A place \in {"initiated", "delay"} : TaskIsReal(Queued(x.t, x.event, x.retry, place))
        BY RealBecomes DEF CompletedQueue, PastJournal
      <4>. QED
        BY <4>1, <4>2
    <3>. QED
      BY <3>1, <3>2
  <2>2. CASE DelayExpires(x)
    <3>1. Replace(x, {[x EXCEPT !.place = "initiated"]})
      BY <2>2 DEF DelayExpires
    <3>2. TaskIsReal([x EXCEPT !.place = "initiated"])
      BY RealBecomes DEF CompletedQueue, PastJournal
    <3>. QED
      BY <3>1, <3>2
  <2>3. ASSUME NEW p \in Procs, Deliver(x, p)
        PROVE  \E new : Replace(x, new) /\ \A y \in new : TaskIsReal(y)
    <3>1. CASE x.place = "initiated"
      <4>1. Replace(x, {[x EXCEPT !.place = "post", !.proc = p, !.owned = TRUE]})
        BY <2>3, <3>1 DEF Deliver
      <4>2. TaskIsReal([x EXCEPT !.place = "post", !.proc = p, !.owned = TRUE])
        BY RealBecomes DEF CompletedQueue, PastJournal
      <4>. QED
        BY <4>1, <4>2
    <3>2. CASE x.place # "initiated"
      <4>1. /\ x.place = "completed"
            /\ Replace(x, {[x EXCEPT !.place = "advance", !.proc = p, !.owned = TRUE]})
        BY <2>3, <3>2 DEF Deliver
      <4>2. TaskIsReal([x EXCEPT !.place = "advance", !.proc = p, !.owned = TRUE])
        BY <1>1, <4>1 DEF TaskIsReal, Tasks, CompletedQueue, PastJournal
      <4>. QED
        BY <4>1, <4>2
    <3>. QED
      BY <3>1, <3>2
  <2>. QED
    BY <2>1, <2>2, <2>3
<1>3. \A y : TaskIsReal(y) => TaskIsReal(y)'
  BY <1>1 DEF TaskIsReal
<1>. QED
  BY <1>1, <1>2, <1>3, RealReplaced DEF RealInv

LEMMA RealHandler ==
  ASSUME TypeOK, RealInv, NEW x \in Live, Handler(x) \/ MarkFailedFails(x)
  PROVE  RealInv'
<1>1. x \in Tasks /\ TaskIsReal(x) /\ x.t \in Transfers
  BY DEF TypeOK, RealInv, Tasks
<1>2. posted \subseteq posted' /\ \A y : TaskIsReal(y) => TaskIsReal(y)'
  BY DEF Handler, WriteJournal, SetCompleted, Abandon, PublishCompleted, Ack, HandlerFails,
         MarkFailed, AnnounceFailed, Advance, AdvanceFails, MarkFailedFails, TaskIsReal
<1>3. ASSUME NEW t \in Transfers, status'[t] = "COMPLETED" \/ <<t, "TRANSFER_COMPLETED">> \in announced'
      PROVE  t \in posted'
  <2>1. status[t] = "COMPLETED" \/ <<t, "TRANSFER_COMPLETED">> \in announced => t \in posted
    BY DEF RealInv
  <2>2. CASE SetCompleted(x) \/ PublishCompleted(x) \/ Advance(x)
    <3>1. x.t \in posted /\ UNCHANGED posted
      BY <1>1, <2>2 DEF SetCompleted, PublishCompleted, Advance, TaskIsReal, CompletedQueue, PastJournal
    <3>2. t # x.t => status'[t] = status[t]
      BY <2>2 DEF SetCompleted, PublishCompleted, Advance, TypeOK
    <3>3. t # x.t => (<<t, "TRANSFER_COMPLETED">> \in announced' => <<t, "TRANSFER_COMPLETED">> \in announced)
      BY <2>2 DEF SetCompleted, PublishCompleted, Advance
    <3>. QED
      BY <1>3, <2>1, <3>1, <3>2, <3>3
  <2>3. CASE MarkFailed(x)
    <3>1. (status'[t] = "COMPLETED" => status[t] = "COMPLETED") /\ UNCHANGED <<announced, posted>>
      BY <2>3 DEF MarkFailed, TypeOK
    <3>. QED
      BY <1>3, <2>1, <3>1
  <2>4. CASE AnnounceFailed(x)
    BY <1>3, <2>1, <2>4 DEF AnnounceFailed
  <2>5. CASE WriteJournal(x) \/ Abandon(x) \/ Ack(x) \/ HandlerFails(x) \/ AdvanceFails(x) \/ MarkFailedFails(x)
    BY <1>2, <1>3, <2>1, <2>5 DEF WriteJournal, Abandon, Ack, HandlerFails, AdvanceFails, MarkFailedFails
  <2>. QED
    BY <2>2, <2>3, <2>4, <2>5 DEF Handler
<1>4. \E new : Replace(x, new) /\ \A y \in new : TaskIsReal(y)'
  <2>1. CASE Abandon(x) \/ Ack(x) \/ AnnounceFailed(x) \/ MarkFailedFails(x)
    BY <2>1 DEF Abandon, Ack, AnnounceFailed, MarkFailedFails
  <2>2. CASE WriteJournal(x)
    <3>1. Replace(x, {[x EXCEPT !.place = "status"]})
      BY <2>2 DEF WriteJournal, Becomes
    <3>2. TaskIsReal([x EXCEPT !.place = "status"])'
      BY <1>1, <2>2 DEF WriteJournal, TaskIsReal, Tasks, CompletedQueue, PastJournal
    <3>. QED
      BY <3>1, <3>2
  <2>3. CASE SetCompleted(x)
    <3>1. Replace(x, {[x EXCEPT !.place = "publish"]})
      BY <2>3 DEF SetCompleted, Becomes
    <3>2. TaskIsReal([x EXCEPT !.place = "publish"])
      BY <1>1, <2>3 DEF SetCompleted, TaskIsReal, Tasks, CompletedQueue, PastJournal
    <3>. QED
      BY <1>2, <3>1, <3>2
  <2>4. CASE PublishCompleted(x)
    <3>. DEFINE new == {[x EXCEPT !.place = "ack"],
                        Sent(x.proc, x.t, "TRANSFER_COMPLETED", 0, "to-completed")}
    <3>1. Replace(x, new)
      BY <2>4 DEF PublishCompleted
    <3>2. TaskIsReal([x EXCEPT !.place = "ack"])
      BY <1>1, <2>4 DEF PublishCompleted, TaskIsReal, Tasks, CompletedQueue, PastJournal
    <3>3. TaskIsReal(Sent(x.proc, x.t, "TRANSFER_COMPLETED", 0, "to-completed"))
      BY <1>1, <2>4 DEF PublishCompleted, TaskIsReal, Sent, PastJournal
    <3>4. \A y \in new : TaskIsReal(y)'
      BY <1>2, <3>2, <3>3
    <3>. HIDE DEF new
    <3>. QED
      BY <3>1, <3>4
  <2>5. ASSUME Retry(x)
        PROVE  \E new : Replace(x, new) /\ \A y \in new : TaskIsReal(y)'
    <3>1. TaskIsReal(Sent(x.proc, x.t, x.event, x.retry + 1, "to-delay"))
      BY RealBecomes DEF CompletedQueue, PastJournal
    <3>. QED
      BY <1>2, <2>5, <3>1 DEF Retry
  <2>6. ASSUME GiveUp(x)
        PROVE  \E new : Replace(x, new) /\ \A y \in new : TaskIsReal(y)'
    <3>. DEFINE new == {Sent(x.proc, x.t, x.event, x.retry, "to-dlq"),
                        [x EXCEPT !.place = "mark", !.owned = FALSE]}
    <3>1. Replace(x, new)
      BY <2>6 DEF GiveUp
    <3>2. TaskIsReal(Sent(x.proc, x.t, x.event, x.retry, "to-dlq"))
      BY RealBecomes DEF CompletedQueue, PastJournal
    <3>3. TaskIsReal([x EXCEPT !.place = "mark", !.owned = FALSE])
      BY RealBecomes DEF CompletedQueue, PastJournal
    <3>4. \A y \in new : TaskIsReal(y)'
      BY <1>2, <3>2, <3>3
    <3>. HIDE DEF new
    <3>. QED
      BY <3>1, <3>4
  <2>7. CASE HandlerFails(x) \/ AdvanceFails(x)
    BY <2>5, <2>6, <2>7 DEF HandlerFails, AdvanceFails
  <2>8. CASE MarkFailed(x)
    <3>1. Replace(x, {[x EXCEPT !.place = "announce"]})
      BY <2>8 DEF MarkFailed, Becomes
    <3>2. TaskIsReal([x EXCEPT !.place = "announce"])
      BY RealBecomes DEF CompletedQueue, PastJournal
    <3>. QED
      BY <1>2, <3>1, <3>2
  <2>9. CASE Advance(x)
    <3>1. Replace(x, {[x EXCEPT !.place = "advanced"]})
      BY <2>9 DEF Advance, Becomes
    <3>2. TaskIsReal([x EXCEPT !.place = "advanced"])
      BY <1>1, <2>9 DEF Advance, TaskIsReal, Tasks, CompletedQueue, PastJournal
    <3>. QED
      BY <1>2, <3>1, <3>2
  <2>. QED
    BY <2>1, <2>2, <2>3, <2>4, <2>7, <2>8, <2>9 DEF Handler
<1>. QED
  BY <1>2, <1>3, <1>4, RealReplaced

LEMMA RealStops ==
  ASSUME TypeOK, RealInv, NEW p \in Procs, ChannelCloses(p) \/ Crash(p) \/ Recover(p)
  PROVE  RealInv'
<1>1. UNCHANGED <<status, posted, announced>>
  BY DEF ChannelCloses, Crash, Recover, Restart
<1>2. \A x \in Live : TaskIsReal(x) /\ TaskIsReal(Again(x))
  BY DEF RealInv, TaskIsReal, Again, Queued, CompletedQueue, PastJournal
<1>3. ASSUME NEW y \in Live'
      PROVE  TaskIsReal(y)
  <2>1. CASE ChannelCloses(p)
    <3>1. PICK G \in SUBSET GivingUp(p) : Closed(p, G)
      BY <2>1, ClosedLive
    <3>2. Owned(p) \subseteq Live
      BY DEF Owned, OfProc
    <3>3. \A x \in Live : TaskIsReal(Orphan(x, G))
      BY <1>2 DEF TypeOK, Tasks, TaskIsReal, Orphan, CompletedQueue, PastJournal
    <3>. QED
      BY <1>2, <3>1, <3>2, <3>3 DEF Closed
  <2>2. CASE Restart(p)
    BY <1>2, <2>2, RestartedLive DEF Owned, OfProc
  <2>. QED
    BY <2>1, <2>2 DEF Crash, Recover
<1>. QED
  BY <1>1, <1>3 DEF RealInv, TaskIsReal

LEMMA RealInit == Init => RealInv
BY InitLive DEF Init, RealInv

LEMMA RealStep == TypeOK /\ RealInv /\ [Next]_vars => RealInv'
<1>. SUFFICES ASSUME TypeOK, RealInv, [Next]_vars PROVE RealInv'
  OBVIOUS
<1>1. ASSUME NEW t \in Transfers, Accept(t) PROVE RealInv'
  <2>1. UNCHANGED <<posted, tasks, announced>> /\ \A u \in Transfers : status'[u] = "COMPLETED" => status[u] = "COMPLETED"
    BY <1>1 DEF Accept, TypeOK
  <2>. QED
    BY <2>1, RealKept DEF RealInv, Live
<1>2. CASE Work
  BY <1>2, RealOutbox, RealBroker, RealHandler DEF Work, Broker
<1>3. CASE Faults \/ \E p \in Procs : Recover(p)
  BY <1>3, RealOutbox, RealStops, RealHandler DEF Faults
<1>4. CASE UNCHANGED vars
  BY <1>4, RealKept DEF vars, RealInv, Live
<1>. QED
  BY <1>1, <1>2, <1>3, <1>4 DEF Next

LEMMA RealHolds == Spec => [](TypeOK /\ RealInv)
<1>1. Init => TypeOK /\ RealInv
  BY TypeInit, RealInit
<1>2. TypeOK /\ RealInv /\ [Next]_vars => TypeOK' /\ RealInv'
  BY TypeStep, RealStep
<1>. QED
  BY <1>1, <1>2, PTL DEF Spec

(* Nobody is told of a completion that is not in the journal, however often *)
(* a message is lost, copied or misdirected                                 *)
(* (transfer-initiated.consumer.ts, handleMessage).                         *)
THEOREM CompletionsAreReal == Spec => []CompletionIsReal
<1>1. TypeOK /\ RealInv => CompletionIsReal
  BY DEF RealInv, TaskIsReal, CompletionIsReal
<1>. QED
  BY <1>1, RealHolds, PTL

(* What finding 5 (RetriesComeBack) comes to: a message of the completed    *)
(* queue was never retried, since the delay queues send its retries to      *)
(* transfer.initiated (dlq.config.ts:30).                                   *)
CompletedQueueIsFresh ==
  \A x \in Live : x.place \in {"to-completed", "completed", "advance", "advanced"} => x.retry = 0

(* The completed consumer never gets a retry of its own, and its dead       *)
(* letter branch, which TransferPipeline therefore leaves out, is never     *)
(* reached (transfer-completed.consumer.ts:133-214).                        *)
THEOREM CompletedQueueStaysFresh == Spec => []CompletedQueueIsFresh
<1>1. TypeOK /\ RealInv => CompletedQueueIsFresh
  BY DEF RealInv, TaskIsReal, CompletedQueueIsFresh, CompletedQueue, PastJournal
<1>. QED
  BY <1>1, RealHolds, PTL

-----------------------------------------------------------------------------
(* Dead letters.                                                            *)

OnItsWay(t) == \E x \in Live : x.t = t /\ x.place = "to-dlq"
Kept(t)     == t \in dead \cup lost \/ OnItsWay(t)

(* Whoever is about to set FAILED has sent the message to the dead letter   *)
(* queue first, or lost it with the channel; and only a handler that has    *)
(* not acknowledged its message holds one.                                  *)
DeadLetterInv ==
  /\ \A x \in Live : x.owned => x.place \in Unacked
  /\ \A x \in Live : x.place \in {"mark", "announce"} => Kept(x.t)
  /\ \A t \in Transfers : status[t] = "FAILED" => Kept(t)

(* A step of a task that is not itself on the way to the dead letter queue. *)
LEMMA KeptReplaced ==
  ASSUME NEW x \in Live, x.place # "to-dlq", NEW new, Replace(x, new), UNCHANGED <<dead, lost>>
  PROVE  /\ \A t : Kept(t) => Kept(t)'
         /\ \A y \in new : y.place = "to-dlq" => Kept(y.t)'
BY ReplacedLive DEF Kept, OnItsWay

LEMMA DeadLetterReplaced ==
  ASSUME DeadLetterInv, NEW x \in Live, x.place # "to-dlq", NEW new, Replace(x, new),
         UNCHANGED <<dead, lost>>,
         \A y \in new : y.owned => y.place \in Unacked,
         \A y \in new : y.place \in {"mark", "announce"} =>
           Kept(y.t) \/ \E z \in new : z.t = y.t /\ z.place = "to-dlq",
         \A t \in Transfers : status'[t] = "FAILED" => Kept(t)
  PROVE  DeadLetterInv'
<1>1. \A y \in new : y.place \in {"mark", "announce"} => Kept(y.t)'
  BY KeptReplaced
<1>2. \A y \in Live' : y.place \in {"mark", "announce"} => Kept(y.t)'
  BY <1>1, ReplacedLive, KeptReplaced DEF DeadLetterInv
<1>3. \A y \in Live' : y.owned => y.place \in Unacked
  BY ReplacedLive DEF DeadLetterInv
<1>4. \A t \in Transfers : status'[t] = "FAILED" => Kept(t)'
  BY KeptReplaced
<1>. QED
  BY <1>2, <1>3, <1>4, KeptReplaced DEF DeadLetterInv

LEMMA DeadLetterOutbox ==
  ASSUME TypeOK, DeadLetterInv, NEW p \in Procs,
         Outbox(p) \/ MarkPublishedFails(p) \/ MarkRowFailedFails(p)
  PROVE  DeadLetterInv'
<1>1. UNCHANGED <<status, dead, lost>>
  BY DEF Outbox, Flush, PublishRow, MarkPublished, MarkRowFailed, MarkPublishedFails, MarkRowFailedFails
<1>2. UNCHANGED tasks \/ \E t : tasks' = tasks (+) SetToBag({Sent(p, t, "TRANSFER_INITIATED", 0, "to-initiated")})
  BY DEF Outbox, Flush, PublishRow, MarkPublished, MarkRowFailed, MarkPublishedFails, MarkRowFailedFails
<1>3. CASE UNCHANGED tasks
  BY <1>1, <1>3 DEF DeadLetterInv, Kept, OnItsWay, Live
<1>4. ASSUME NEW t, tasks' = tasks (+) SetToBag({Sent(p, t, "TRANSFER_INITIATED", 0, "to-initiated")})
      PROVE  DeadLetterInv'
  <2>. DEFINE s == Sent(p, t, "TRANSFER_INITIATED", 0, "to-initiated")
  <2>1. s.place = "to-initiated" /\ ~s.owned
    BY DEF Sent
  <2>. HIDE DEF s
  <2>2. Live' = Live \cup {s}
    BY <1>4 DEF Live, BagToSet, SetToBag, (+), s
  <2>3. \A u : Kept(u) => Kept(u)'
    BY <1>1, <2>2 DEF Kept, OnItsWay
  <2>. QED
    BY <1>1, <2>1, <2>2, <2>3 DEF DeadLetterInv
<1>. QED
  BY <1>2, <1>3, <1>4

LEMMA DeadLetterBroker ==
  ASSUME TypeOK, DeadLetterInv, NEW x \in Live,
         Arrive(x) \/ DelayExpires(x) \/ \E p \in Procs : Deliver(x, p)
  PROVE  DeadLetterInv'
<1>1. UNCHANGED <<status, lost>> /\ x \in Tasks
  BY DEF Arrive, DelayExpires, Deliver, TypeOK
<1>2. CASE Arrive(x) /\ x.place = "to-dlq"
  <2>1. Replace(x, {}) /\ dead' = dead \cup {x.t}
    BY <1>2 DEF Arrive
  <2>2. Live' \subseteq Live /\ Live \ {x} \subseteq Live'
    BY <2>1, ReplacedLive
  <2>3. \A t : Kept(t) => Kept(t)'
    BY <1>1, <2>1, <2>2 DEF Kept, OnItsWay
  <2>. QED
    BY <1>1, <2>2, <2>3 DEF DeadLetterInv
<1>3. CASE ~(Arrive(x) /\ x.place = "to-dlq")
  <2>1. \E new : /\ Replace(x, new)
                 /\ \A y \in new : y.place \notin {"mark", "announce"} /\ (y.owned => y.place \in Unacked)
    <3>1. CASE Arrive(x)
      <4>1. \E queue \in Queues : Replace(x, {Queued(x.t, x.event, x.retry, queue)})
        BY <1>3, <3>1 DEF Arrive, Wires, Queues
      <4>2. \A queue \in Queues : /\ Queued(x.t, x.event, x.retry, queue).place \notin {"mark", "announce"}
                                  /\ ~Queued(x.t, x.event, x.retry, queue).owned
        BY DEF Queued, Queues
      <4>. QED
        BY <4>1, <4>2
    <3>2. CASE DelayExpires(x)
      <4>. DEFINE y == [x EXCEPT !.place = "initiated"]
      <4>1. Replace(x, {y}) /\ ~x.owned
        BY <3>2 DEF DelayExpires, DeadLetterInv, Unacked, Tasks
      <4>2. y.place = "initiated" /\ ~y.owned
        BY <1>1, <4>1 DEF Tasks
      <4>. HIDE DEF y
      <4>. QED
        BY <4>1, <4>2
    <3>3. ASSUME NEW p \in Procs, Deliver(x, p)
          PROVE  \E new : /\ Replace(x, new)
                          /\ \A y \in new : y.place \notin {"mark", "announce"} /\ (y.owned => y.place \in Unacked)
      <4>1. PICK place \in {"post", "advance"} :
              Replace(x, {[x EXCEPT !.place = place, !.proc = p, !.owned = TRUE]})
        BY <3>3 DEF Deliver
      <4>. DEFINE y == [x EXCEPT !.place = place, !.proc = p, !.owned = TRUE]
      <4>2. y.place \in {"post", "advance"}
        BY <1>1, <4>1 DEF Tasks
      <4>3. Replace(x, {y})
        BY <4>1
      <4>. HIDE DEF y
      <4>. QED
        BY <4>2, <4>3 DEF Unacked
    <3>. QED
      BY <3>1, <3>2, <3>3
  <2>2. UNCHANGED dead /\ x.place # "to-dlq"
    BY <1>3 DEF Arrive, Wires, DelayExpires, Deliver
  <2>. QED
    BY <1>1, <2>1, <2>2, DeadLetterReplaced DEF DeadLetterInv
<1>. QED
  BY <1>2, <1>3

LEMMA DeadLetterHandler ==
  ASSUME TypeOK, DeadLetterInv, NEW x \in Live, Handler(x) \/ MarkFailedFails(x)
  PROVE  DeadLetterInv'
<1>1. x \in Tasks
  BY DEF TypeOK
<1>2. x.place # "to-dlq" /\ UNCHANGED <<dead, lost>>
  BY DEF Handler, WriteJournal, SetCompleted, Abandon, PublishCompleted, Ack, HandlerFails,
         MarkFailed, AnnounceFailed, Advance, AdvanceFails, MarkFailedFails, Unacked
<1>3. ASSUME NEW t \in Transfers, status'[t] = "FAILED"
      PROVE  Kept(t)
  <2>1. CASE MarkFailed(x)
    <3>1. Kept(x.t) /\ (t # x.t => status[t] = "FAILED")
      BY <1>3, <2>1 DEF MarkFailed, DeadLetterInv, TypeOK
    <3>. QED
      BY <3>1 DEF DeadLetterInv
  <2>2. CASE ~MarkFailed(x)
    <3>1. status[t] = "FAILED"
      BY <1>3, <2>2
         DEF Handler, WriteJournal, SetCompleted, Abandon, PublishCompleted, Ack, HandlerFails,
             AnnounceFailed, Advance, AdvanceFails, MarkFailedFails, TypeOK
    <3>. QED
      BY <3>1 DEF DeadLetterInv
  <2>. QED
    BY <2>1, <2>2
<1>. DEFINE Good(new) ==
       /\ \A y \in new : y.owned => y.place \in Unacked
       /\ \A y \in new : y.place \in {"mark", "announce"} =>
            Kept(y.t) \/ \E z \in new : z.t = y.t /\ z.place = "to-dlq"
<1>4. \E new : Replace(x, new) /\ Good(new)
  <2>1. CASE Abandon(x) \/ Ack(x) \/ AnnounceFailed(x) \/ MarkFailedFails(x)
    BY <2>1 DEF Abandon, Ack, AnnounceFailed, MarkFailedFails
  <2>2. CASE WriteJournal(x) \/ SetCompleted(x) \/ Advance(x)
    <3>1. PICK place \in {"status", "publish", "advanced"} : Replace(x, {[x EXCEPT !.place = place]})
      BY <2>2 DEF WriteJournal, SetCompleted, Advance, Becomes
    <3>. DEFINE y == [x EXCEPT !.place = place]
    <3>2. y.place \in {"status", "publish", "advanced"}
      BY <1>1, <3>1 DEF Tasks
    <3>3. Replace(x, {y})
      BY <3>1
    <3>. HIDE DEF y
    <3>. QED
      BY <3>2, <3>3 DEF Unacked
  <2>3. CASE MarkFailed(x)
    <3>. DEFINE y == [x EXCEPT !.place = "announce"]
    <3>1. Replace(x, {y}) /\ x.place = "mark"
      BY <2>3 DEF MarkFailed, Becomes
    <3>2. ~x.owned /\ Kept(x.t)
      BY <3>1 DEF DeadLetterInv, Unacked
    <3>3. ~y.owned /\ y.t = x.t
      BY <1>1, <3>2 DEF Tasks
    <3>. HIDE DEF y
    <3>. QED
      BY <3>1, <3>2, <3>3
  <2>4. CASE PublishCompleted(x)
    <3>. DEFINE y == [x EXCEPT !.place = "ack"]
                s == Sent(x.proc, x.t, "TRANSFER_COMPLETED", 0, "to-completed")
    <3>1. Replace(x, {y, s})
      BY <2>4 DEF PublishCompleted
    <3>2. y.place = "ack" /\ s.place = "to-completed" /\ ~s.owned
      BY <1>1 DEF Tasks, Sent
    <3>. HIDE DEF y, s
    <3>3. Good({y, s})
      BY <3>2 DEF Unacked
    <3>. QED
      BY <3>1, <3>3
  <2>5. ASSUME Retry(x)
        PROVE  \E new : Replace(x, new) /\ Good(new)
    <3>. DEFINE s == Sent(x.proc, x.t, x.event, x.retry + 1, "to-delay")
    <3>1. Replace(x, {s}) /\ s.place = "to-delay" /\ ~s.owned
      BY <2>5 DEF Retry, Sent
    <3>. HIDE DEF s
    <3>. QED
      BY <3>1
  <2>6. ASSUME GiveUp(x)
        PROVE  \E new : Replace(x, new) /\ Good(new)
    <3>. DEFINE y == [x EXCEPT !.place = "mark", !.owned = FALSE]
                s == Sent(x.proc, x.t, x.event, x.retry, "to-dlq")
    <3>1. Replace(x, {s, y})
      BY <2>6 DEF GiveUp
    <3>2. y.t = x.t /\ ~y.owned /\ s.t = x.t /\ s.place = "to-dlq" /\ ~s.owned
      BY <1>1 DEF Tasks, Sent
    <3>. HIDE DEF y, s
    <3>3. Good({s, y})
      BY <3>2
    <3>. QED
      BY <3>1, <3>3
  <2>7. CASE HandlerFails(x) \/ AdvanceFails(x)
    <3>1. Retry(x) \/ GiveUp(x) \/ Replace(x, {})
      BY <2>7 DEF HandlerFails, AdvanceFails
    <3>. QED
      BY <2>5, <2>6, <3>1
  <2>. QED
    BY <2>1, <2>2, <2>3, <2>4, <2>7 DEF Handler
<1>. QED
  BY <1>2, <1>3, <1>4, DeadLetterReplaced

LEMMA DeadLetterStops ==
  ASSUME TypeOK, DeadLetterInv, NEW p \in Procs, ChannelCloses(p) \/ Crash(p) \/ Recover(p)
  PROVE  DeadLetterInv'
<1>1. UNCHANGED <<status, dead>>
  BY DEF ChannelCloses, Crash, Recover, Restart
<1>2. Live \subseteq Tasks /\ Owned(p) \subseteq Live /\ \A x \in Owned(p) : x.place \in Unacked
  BY DEF Owned, OfProc, TypeOK, DeadLetterInv
<1>3. \A x : Again(x).place \in {"completed", "initiated"} /\ ~Again(x).owned
  BY DEF Again, Queued
<1>4. ASSUME NEW t, t \in lost => t \in lost', Kept(t),
             \A y \in Live : y.t = t /\ y.place = "to-dlq" => y \in Live' \/ t \in lost'
      PROVE  Kept(t)'
  BY <1>1, <1>4 DEF Kept, OnItsWay
<1>5. CASE ChannelCloses(p)
  <2>1. PICK G \in SUBSET GivingUp(p) : Closed(p, G)
    BY <1>5, ClosedLive
  <2>2. \A x \in Owned(p) : /\ ~Orphan(x, G).owned /\ Orphan(x, G).t = x.t
                            /\ Orphan(x, G).place = IF x \in G THEN "mark" ELSE x.place
    BY <1>2 DEF Tasks, Orphan
  <2>3. \A y \in Live : y.place = "to-dlq" => y \in OnWire(p) \/ y \in Live'
    BY <1>2, <2>1 DEF Closed, Unacked
  <2>4. \A y \in OnWire(p) \cup G : y.t \in lost'
    BY <2>1 DEF Closed
  <2>5. \A t : Kept(t) => Kept(t)'
    BY <1>4, <2>1, <2>3, <2>4 DEF Closed
  <2>6. ASSUME NEW y \in Live'
        PROVE  /\ y.owned => y.place \in Unacked
               /\ y.place \in {"mark", "announce"} => Kept(y.t)'
    <3>1. CASE y \in Live \ OnWire(p)
      BY <2>3, <2>5, <3>1 DEF DeadLetterInv
    <3>2. ASSUME NEW x \in Owned(p), y = Again(x)
          PROVE  y.place \notin {"to-dlq", "mark", "announce"} /\ ~y.owned
      BY <1>3, <3>2
    <3>3. ASSUME NEW x \in Owned(p), y = Orphan(x, G)
          PROVE  /\ ~y.owned /\ y.place # "to-dlq"
                 /\ y.place \in {"mark", "announce"} => y.t \in lost'
      <4>1. x.place \in Unacked
        BY <1>2
      <4>. QED
        BY <2>2, <2>4, <3>3, <4>1 DEF Unacked
    <3>4. y.t \in lost' => Kept(y.t)'
      BY DEF Kept
    <3>. QED
      BY <2>1, <3>1, <3>2, <3>3, <3>4 DEF Closed
  <2>. QED
    BY <1>1, <2>5, <2>6 DEF DeadLetterInv
<1>6. CASE Restart(p)
  <2>1. lost' = lost \cup {x.t : x \in OnWire(p)}
    BY <1>6 DEF Restart
  <2>2. \A y \in Live : y.place = "to-dlq" => y \in OnWire(p) \/ y \in Live'
    BY <1>6, RestartedLive DEF OnWire, Wires
  <2>3. \A t : Kept(t) => Kept(t)'
    BY <1>4, <2>1, <2>2
  <2>4. \A y \in Live' : y \in Live \ OfProc(p) \/ (y.place \in {"completed", "initiated"} /\ ~y.owned)
    BY <1>3, <1>6, RestartedLive
  <2>. QED
    BY <1>1, <2>3, <2>4 DEF DeadLetterInv
<1>. QED
  BY <1>5, <1>6 DEF Crash, Recover

LEMMA DeadLetterInit == Init => DeadLetterInv
BY InitLive DEF Init, DeadLetterInv

LEMMA DeadLetterStep == TypeOK /\ DeadLetterInv /\ [Next]_vars => DeadLetterInv'
<1>. SUFFICES ASSUME TypeOK, DeadLetterInv, [Next]_vars PROVE DeadLetterInv'
  OBVIOUS
<1>1. ASSUME NEW t \in Transfers, Accept(t) PROVE DeadLetterInv'
  <2>1. UNCHANGED <<tasks, dead, lost>> /\ \A u \in Transfers : status'[u] = "FAILED" => status[u] = "FAILED"
    BY <1>1 DEF Accept, TypeOK
  <2>. QED
    BY <2>1 DEF DeadLetterInv, Kept, OnItsWay, Live
<1>2. CASE Work
  BY <1>2, DeadLetterOutbox, DeadLetterBroker, DeadLetterHandler DEF Work, Broker
<1>3. CASE Faults \/ \E p \in Procs : Recover(p)
  BY <1>3, DeadLetterOutbox, DeadLetterStops, DeadLetterHandler DEF Faults
<1>4. CASE UNCHANGED vars
  BY <1>4 DEF vars, DeadLetterInv, Kept, OnItsWay, Live
<1>. QED
  BY <1>1, <1>2, <1>3, <1>4 DEF Next

LEMMA DeadLetterHolds == Spec => [](TypeOK /\ RealInv /\ DeadLetterInv)
<1>1. Init => TypeOK /\ RealInv /\ DeadLetterInv
  BY TypeInit, RealInit, DeadLetterInit
<1>2. TypeOK /\ RealInv /\ DeadLetterInv /\ [Next]_vars => TypeOK' /\ RealInv' /\ DeadLetterInv'
  BY TypeStep, RealStep, DeadLetterStep
<1>. QED
  BY <1>1, <1>2, PTL DEF Spec

(* Whatever crashes and closes, a transfer that is FAILED has its message   *)
(* kept for an operator, or a connection lost it                            *)
(* (transfer-initiated.consumer.ts, scheduleRetryOrDlq).                    *)
THEOREM FailedIsKept == Spec => []FailedKeepsDeadLetter
<1>1. DeadLetterInv => FailedKeepsDeadLetter
  BY DEF DeadLetterInv, FailedKeepsDeadLetter, Kept, OnItsWay
<1>. QED
  BY <1>1, DeadLetterHolds, PTL

-----------------------------------------------------------------------------
(* Nothing is forgotten.                                                    *)

UnderWay(x) == x.place \in Queues \cup Wires \/ x.owned
Settled(t)  == status[t] \in {"COMPLETED", "FAILED"} \/ t \in posted
Traced(t)   == Settled(t) \/ t \in dead \cup lost \/ \E x \in Live : x.t = t /\ UnderWay(x)

(* A message in a queue is of no process, so that none takes it along when  *)
(* it stops.                                                                *)
TaskAccounted(x)  == (x.place \in Queues => x.proc = NoProc) /\ outbox[x.t] # "none"
FlushAccounted(p) ==
  /\ \A t \in worker[p].batch : outbox[t] # "none"
  /\ worker[p].doing = "sent" => worker[p].row \in Transfers /\ Traced(worker[p].row)

(* A row that was published, or is about to be marked so, is of a transfer  *)
(* that leaves a trace.                                                     *)
AccountedInv ==
  /\ \A x \in Live : TaskAccounted(x)
  /\ \A t \in Transfers : /\ status[t] # "none" => outbox[t] # "none"
                          /\ outbox[t] = "PUBLISHED" => Traced(t)
  /\ \A p \in Procs : FlushAccounted(p)

(* A step outside the outbox, if what was traced stays so.                  *)
LEMMA AccountedKept ==
  ASSUME AccountedInv, UNCHANGED outbox,
         \A t \in Transfers : Traced(t) => Traced(t)',
         \A t \in Transfers : status'[t] # "none" => outbox[t] # "none",
         \A p \in Procs : \/ worker'[p] = worker[p]
                          \/ worker'[p].doing # "sent" /\ \A t \in worker'[p].batch : outbox[t] # "none",
         \A y \in Live' : TaskAccounted(y)
  PROVE  AccountedInv'
<1>1. ASSUME NEW p \in Procs
      PROVE  FlushAccounted(p)'
  <2>1. FlushAccounted(p)
    BY DEF AccountedInv
  <2>2. CASE worker'[p] = worker[p]
    <3>1. (worker[p].row \in Transfers /\ Traced(worker[p].row)) => Traced(worker[p].row)'
      BY <2>2 DEF Traced, Settled
    <3>. QED
      BY <2>1, <2>2, <3>1 DEF FlushAccounted
  <2>3. CASE worker'[p].doing # "sent" /\ \A t \in worker'[p].batch : outbox[t] # "none"
    BY <2>3 DEF FlushAccounted
  <2>. QED
    BY <2>2, <2>3
<1>2. \A y \in Live' : TaskAccounted(y)'
  BY DEF TaskAccounted
<1>3. \A t \in Transfers : /\ status'[t] # "none" => outbox'[t] # "none"
                          /\ outbox'[t] = "PUBLISHED" => Traced(t)'
  BY DEF AccountedInv
<1>. QED
  BY <1>1, <1>2, <1>3 DEF AccountedInv

LEMMA AccountedOutbox ==
  ASSUME TypeOK, AccountedInv, NEW p \in Procs,
         Outbox(p) \/ MarkPublishedFails(p) \/ MarkRowFailedFails(p)
  PROVE  AccountedInv'
<1>1. UNCHANGED <<status, posted, dead, lost>>
  BY DEF Outbox, Flush, PublishRow, MarkPublished, MarkRowFailed, MarkPublishedFails, MarkRowFailedFails
<1>2. worker \in Flushes
  BY DEF TypeOK, Flushes
<1>0. /\ \A t \in worker[p].batch : outbox[t] # "none"
      /\ \A t \in Transfers : status[t] # "none" => outbox[t] # "none"
      /\ \A y \in Live : TaskAccounted(y)
  BY DEF AccountedInv, FlushAccounted
<1>3. CASE Flush(p) \/ MarkPublishedFails(p) \/ MarkRowFailedFails(p)
  <2>1. UNCHANGED <<tasks, outbox>>
    BY <1>3 DEF Flush, MarkPublishedFails, MarkRowFailedFails
  <2>2. \A q \in Procs : \/ worker'[q] = worker[q]
                         \/ worker'[q].doing # "sent" /\ \A t \in worker'[q].batch : outbox[t] # "none"
    BY <1>0, <1>2, <1>3 DEF Flush, MarkPublishedFails, MarkRowFailedFails, Idle, Flushes
  <2>3. \A t : Traced(t) => Traced(t)'
    BY <1>1, <2>1 DEF Traced, Settled, Live
  <2>. QED
    BY <1>0, <1>1, <2>1, <2>2, <2>3, AccountedKept DEF Live
<1>4. CASE PublishRow(p) /\ p \notin up
  <2>1. UNCHANGED <<tasks, outbox>>
    BY <1>4 DEF PublishRow
  <2>2. PICK row : worker' = [worker EXCEPT ![p].doing = "failing", ![p].row = row]
    BY <1>4 DEF PublishRow
  <2>3. \A q \in Procs : \/ worker'[q] = worker[q]
                         \/ worker'[q].doing # "sent" /\ \A t \in worker'[q].batch : outbox[t] # "none"
    BY <1>0, <1>2, <2>2 DEF Flushes
  <2>4. \A u : Traced(u) => Traced(u)'
    BY <1>1, <2>1 DEF Traced, Settled, Live
  <2>. QED
    BY <1>0, <1>1, <2>1, <2>3, <2>4, AccountedKept DEF Live
<1>5. CASE PublishRow(p) /\ p \in up
  <2>1. PICK t \in worker[p].batch :
          /\ worker' = [worker EXCEPT ![p].doing = "sent", ![p].row = t]
          /\ tasks' = tasks (+) SetToBag({Sent(p, t, "TRANSFER_INITIATED", 0, "to-initiated")})
    BY <1>5 DEF PublishRow
  <2>. DEFINE s == Sent(p, t, "TRANSFER_INITIATED", 0, "to-initiated")
  <2>2. s.t = t /\ UnderWay(s) /\ s.place \notin Queues
    BY DEF Sent, UnderWay, Wires, Queues
  <2>. HIDE DEF s
  <2>3. Live' = Live \cup {s}
    BY <2>1 DEF Live, BagToSet, SetToBag, (+), s
  <2>4. \A u : Traced(u) => Traced(u)'
    BY <1>1, <2>3 DEF Traced, Settled
  <2>5. Traced(t)'
    BY <2>2, <2>3 DEF Traced
  <2>6. /\ t \in Transfers /\ outbox[t] # "none"
        /\ worker'[p].row = t /\ worker'[p].batch = worker[p].batch
        /\ \A q \in Procs \ {p} : worker'[q] = worker[q]
    BY <1>0, <1>2, <2>1 DEF Flushes
  <2>7. UNCHANGED outbox
    BY <1>5 DEF PublishRow
  <2>8. ASSUME NEW q \in Procs
        PROVE  FlushAccounted(q)'
    <3>1. CASE q = p
      BY <1>0, <2>5, <2>6, <2>7, <3>1 DEF FlushAccounted, Traced, Settled
    <3>2. CASE q # p
      <4>1. worker'[q] = worker[q] /\ FlushAccounted(q)
        BY <2>6, <3>2 DEF AccountedInv
      <4>2. PICK r : r = worker[q].row
        OBVIOUS
      <4>3. Traced(r) => Traced(r)'
        BY <2>4
      <4>. QED
        BY <2>7, <4>1, <4>2, <4>3 DEF FlushAccounted, Traced, Settled
    <3>. QED
      BY <3>1, <3>2
  <2>9. (\A u \in Transfers : /\ status[u] # "none" => outbox[u] # "none"
                              /\ outbox[u] = "PUBLISHED" => Traced(u))'
    BY <1>1, <2>4, <2>7 DEF AccountedInv
  <2>10. \A y \in Live' : TaskAccounted(y)'
    BY <1>0, <2>2, <2>3, <2>6, <2>7 DEF TaskAccounted
  <2>. QED
    BY <2>8, <2>9, <2>10 DEF AccountedInv
<1>6. CASE MarkPublished(p) \/ MarkRowFailed(p)
  <2>1. PICK s \in {"PUBLISHED", "FAILED"} :
          /\ outbox' = [outbox EXCEPT ![worker[p].row] = s]
          /\ s = "PUBLISHED" => worker[p].doing = "sent"
    BY <1>6 DEF MarkPublished, MarkRowFailed
  <2>2. UNCHANGED tasks /\ RowDone(p)
    BY <1>6 DEF MarkPublished, MarkRowFailed
  <2>3. \A u : Traced(u) => Traced(u)'
    BY <1>1, <2>2 DEF Traced, Settled, Live
  <2>4. /\ \A q \in Procs \ {p} : worker'[q] = worker[q]
        /\ worker'[p].doing = "nothing" /\ worker'[p].batch \subseteq worker[p].batch
    BY <1>2, <2>2 DEF RowDone, Flushes
  <2>5. \A u \in Transfers : /\ outbox[u] # "none" => outbox'[u] # "none"
                             /\ outbox'[u] = "PUBLISHED" => Traced(u)
    <3>1. SUFFICES ASSUME NEW u \in Transfers
                   PROVE  /\ outbox[u] # "none" => outbox'[u] # "none"
                          /\ outbox'[u] = "PUBLISHED" => Traced(u)
      OBVIOUS
    <3>2. CASE u = worker[p].row
      BY <2>1, <3>2 DEF AccountedInv, FlushAccounted, TypeOK
    <3>3. CASE u # worker[p].row
      BY <2>1, <3>3 DEF AccountedInv, TypeOK
    <3>. QED
      BY <3>2, <3>3
  <2>6. ASSUME NEW q \in Procs
        PROVE  FlushAccounted(q)'
    <3>1. FlushAccounted(q) /\ worker[q].batch \subseteq Transfers
      BY <1>2 DEF AccountedInv, Flushes
    <3>2. CASE q = p
      BY <2>4, <2>5, <3>1, <3>2 DEF FlushAccounted
    <3>3. CASE q # p
      <4>1. worker'[q] = worker[q]
        BY <2>4, <3>3
      <4>2. PICK r : r = worker[q].row
        OBVIOUS
      <4>3. Traced(r) => Traced(r)'
        BY <2>3
      <4>. QED
        BY <2>5, <3>1, <4>1, <4>2, <4>3 DEF FlushAccounted, Traced, Settled
    <3>. QED
      BY <3>2, <3>3
  <2>7. \A y \in Live' : TaskAccounted(y)'
    <3>1. \A y \in Live : y.t \in Transfers
      BY DEF TypeOK, Tasks
    <3>. QED
      BY <1>0, <2>2, <2>5, <3>1 DEF TaskAccounted, Live
  <2>. QED
    BY <1>0, <1>1, <2>3, <2>5, <2>6, <2>7 DEF AccountedInv
<1>. QED
  BY <1>3, <1>4, <1>5, <1>6 DEF Outbox

(* A step of one task.                                                      *)
LEMMA AccountedReplaced ==
  ASSUME TypeOK, AccountedInv, NEW x \in Live, NEW new, Replace(x, new),
         UNCHANGED <<outbox, worker, lost>>, dead \subseteq dead',
         \A t \in Transfers : Settled(t) => Settled(t)',
         \A t \in Transfers : status'[t] # "none" => outbox[t] # "none",
         \A y \in new : y.t = x.t /\ (y.place \in Queues => y.proc = NoProc),
         UnderWay(x) => Settled(x.t)' \/ x.t \in dead' \/ \E y \in new : UnderWay(y)
  PROVE  AccountedInv'
<1>1. ASSUME NEW t \in Transfers, Traced(t)
      PROVE  Traced(t)'
  <2>1. CASE Settled(t) \/ t \in dead \cup lost
    BY <2>1 DEF Traced
  <2>2. ASSUME NEW y \in Live', y.t = t, UnderWay(y)
        PROVE  Traced(t)'
    BY <2>2 DEF Traced, UnderWay
  <2>3. ASSUME NEW y \in Live, y.t = t, UnderWay(y)
        PROVE  Traced(t)'
    <3>1. CASE y = x
      <4>1. CASE Settled(t)' \/ t \in dead'
        BY <4>1 DEF Traced
      <4>2. ASSUME NEW z \in new, UnderWay(z)
            PROVE  Traced(t)'
        BY <2>2, <2>3, <3>1, <4>2, ReplacedLive
      <4>. QED
        BY <2>3, <3>1, <4>1, <4>2
    <3>2. CASE y # x
      <4>1. y \in Live'
        BY <3>2, ReplacedLive
      <4>. QED
        BY <2>2, <2>3, <4>1
    <3>. QED
      BY <3>1, <3>2
  <2>. QED
    BY <1>1, <2>1, <2>3 DEF Traced
<1>2. \A y \in Live' : TaskAccounted(y)
  BY ReplacedLive DEF AccountedInv, TaskAccounted
<1>. QED
  BY <1>1, <1>2, AccountedKept

LEMMA AccountedBroker ==
  ASSUME TypeOK, AccountedInv, NEW x \in Live,
         Arrive(x) \/ DelayExpires(x) \/ \E p \in Procs : Deliver(x, p)
  PROVE  AccountedInv'
<1>1. UNCHANGED <<status, posted, outbox, worker, lost>> /\ x \in Tasks /\ dead \subseteq dead'
  BY DEF Arrive, DelayExpires, Deliver, TypeOK, Wires
<1>2. \A t \in Transfers : Settled(t) => Settled(t)'
  BY <1>1 DEF Settled
<1>5. \A t \in Transfers : status'[t] # "none" => outbox[t] # "none"
  BY <1>1 DEF AccountedInv
<1>3. CASE Arrive(x) /\ x.place = "to-dlq"
  <2>1. Replace(x, {}) /\ x.t \in dead'
    BY <1>3 DEF Arrive
  <2>. QED
    BY <1>1, <1>2, <1>5, <2>1, AccountedReplaced
<1>4. CASE ~(Arrive(x) /\ x.place = "to-dlq")
  <2>1. \E y : Replace(x, {y}) /\ y.t = x.t /\ UnderWay(y) /\ (y.place \in Queues => y.proc = NoProc)
    <3>1. CASE Arrive(x)
      <4>1. PICK queue \in Queues : Replace(x, {Queued(x.t, x.event, x.retry, queue)})
        BY <1>4, <3>1 DEF Arrive, Wires, Queues
      <4>. DEFINE y == Queued(x.t, x.event, x.retry, queue)
      <4>2. y.t = x.t /\ UnderWay(y) /\ y.proc = NoProc
        BY DEF Queued, UnderWay
      <4>. HIDE DEF y
      <4>. QED
        BY <4>1, <4>2 DEF y
    <3>2. CASE DelayExpires(x)
      <4>. DEFINE y == [x EXCEPT !.place = "initiated"]
      <4>1. Replace(x, {y}) /\ x.proc = NoProc
        BY <3>2 DEF DelayExpires, AccountedInv, TaskAccounted, Queues
      <4>2. y.t = x.t /\ y.place \in Queues /\ y.proc = NoProc
        BY <1>1, <4>1 DEF Tasks, Queues
      <4>. HIDE DEF y
      <4>. QED
        BY <4>1, <4>2 DEF UnderWay
    <3>3. ASSUME NEW p \in Procs, Deliver(x, p)
          PROVE  \E y : Replace(x, {y}) /\ y.t = x.t /\ UnderWay(y) /\ (y.place \in Queues => y.proc = NoProc)
      <4>1. PICK place \in {"post", "advance"} :
              Replace(x, {[x EXCEPT !.place = place, !.proc = p, !.owned = TRUE]})
        BY <3>3 DEF Deliver
      <4>. DEFINE y == [x EXCEPT !.place = place, !.proc = p, !.owned = TRUE]
      <4>2. y.t = x.t /\ y.owned /\ y.place \notin Queues
        BY <1>1, <4>1 DEF Tasks, Queues
      <4>3. Replace(x, {y})
        BY <4>1
      <4>. HIDE DEF y
      <4>. QED
        BY <4>2, <4>3 DEF UnderWay
    <3>. QED
      BY <1>4, <3>1, <3>2, <3>3
  <2>. QED
    BY <1>1, <1>2, <1>5, <2>1, AccountedReplaced
<1>. QED
  BY <1>3, <1>4

LEMMA AccountedHandler ==
  ASSUME TypeOK, RealInv, DeadLetterInv, AccountedInv, NEW x \in Live,
         Handler(x) \/ MarkFailedFails(x)
  PROVE  AccountedInv'
<1>1. x \in Tasks /\ x.t \in Transfers /\ TaskIsReal(x)
  BY DEF TypeOK, RealInv, Tasks
<1>2. UNCHANGED <<outbox, worker, dead, lost>>
  BY DEF Handler, WriteJournal, SetCompleted, Abandon, PublishCompleted, Ack, HandlerFails,
         MarkFailed, AnnounceFailed, Advance, AdvanceFails, MarkFailedFails
<1>3. \A t \in Transfers : Settled(t) => Settled(t)'
  BY <1>1 DEF Handler, WriteJournal, SetCompleted, Abandon, PublishCompleted, Ack, HandlerFails,
              MarkFailed, AnnounceFailed, Advance, AdvanceFails, MarkFailedFails, Settled, TypeOK
<1>4. \A t \in Transfers : status'[t] # "none" => outbox[t] # "none"
  BY <1>1 DEF Handler, WriteJournal, SetCompleted, Abandon, PublishCompleted, Ack, HandlerFails,
              MarkFailed, AnnounceFailed, Advance, AdvanceFails, MarkFailedFails, AccountedInv,
              TaskAccounted, TypeOK
<1>. DEFINE Good(new) ==
       /\ \A y \in new : y.t = x.t /\ y.place \notin Queues
       /\ UnderWay(x) => Settled(x.t)' \/ \E y \in new : UnderWay(y)
<1>5. \E new : Replace(x, new) /\ Good(new)
  <2>1. CASE Abandon(x)
    BY <2>1 DEF Abandon, UnderWay, Unacked, Queues, Wires
  <2>2. CASE Ack(x)
    <3>1. x.t \in posted'
      BY <1>1, <2>2 DEF Ack, TaskIsReal, PastJournal, CompletedQueue
    <3>. QED
      BY <2>2, <3>1 DEF Ack, Settled
  <2>3. CASE AnnounceFailed(x) \/ MarkFailedFails(x)
    <3>1. ~UnderWay(x)
      BY <2>3 DEF AnnounceFailed, MarkFailedFails, DeadLetterInv, UnderWay, Unacked, Queues, Wires
    <3>. QED
      BY <2>3, <3>1 DEF AnnounceFailed, MarkFailedFails
  <2>4. CASE WriteJournal(x) \/ SetCompleted(x) \/ MarkFailed(x) \/ Advance(x)
    <3>1. PICK place \in {"status", "publish", "announce", "advanced"} :
            Replace(x, {[x EXCEPT !.place = place]})
      BY <2>4 DEF WriteJournal, SetCompleted, MarkFailed, Advance, Becomes
    <3>. DEFINE y == [x EXCEPT !.place = place]
    <3>2. y.t = x.t /\ y.place \notin Queues /\ y.owned = x.owned
      BY <1>1, <3>1 DEF Tasks, Queues
    <3>3. UnderWay(x) => x.owned
      BY <2>4 DEF WriteJournal, SetCompleted, MarkFailed, Advance, UnderWay, Queues, Wires
    <3>4. Replace(x, {y})
      BY <3>1
    <3>. HIDE DEF y
    <3>. QED
      BY <3>2, <3>3, <3>4 DEF UnderWay
  <2>5. CASE PublishCompleted(x)
    <3>. DEFINE y == [x EXCEPT !.place = "ack"]
                s == Sent(x.proc, x.t, "TRANSFER_COMPLETED", 0, "to-completed")
    <3>1. Replace(x, {y, s})
      BY <2>5 DEF PublishCompleted
    <3>2. y.t = x.t /\ s.t = x.t /\ y.place = "ack" /\ s.place = "to-completed"
      BY <1>1 DEF Tasks, Sent
    <3>. HIDE DEF y, s
    <3>. QED
      BY <3>1, <3>2 DEF UnderWay, Wires, Queues
  <2>6. ASSUME Retry(x)
        PROVE  \E new : Replace(x, new) /\ Good(new)
    <3>. DEFINE s == Sent(x.proc, x.t, x.event, x.retry + 1, "to-delay")
    <3>1. Replace(x, {s}) /\ s.t = x.t /\ s.place = "to-delay"
      BY <2>6 DEF Retry, Sent
    <3>. HIDE DEF s
    <3>. QED
      BY <3>1 DEF UnderWay, Wires, Queues
  <2>7. ASSUME GiveUp(x)
        PROVE  \E new : Replace(x, new) /\ Good(new)
    <3>. DEFINE y == [x EXCEPT !.place = "mark", !.owned = FALSE]
                s == Sent(x.proc, x.t, x.event, x.retry, "to-dlq")
    <3>1. Replace(x, {s, y})
      BY <2>7 DEF GiveUp
    <3>2. y.t = x.t /\ y.place = "mark" /\ s.t = x.t /\ s.place = "to-dlq"
      BY <1>1 DEF Tasks, Sent
    <3>. HIDE DEF y, s
    <3>. QED
      BY <3>1, <3>2 DEF UnderWay, Wires, Queues
  <2>8. CASE HandlerFails(x)
    BY <2>6, <2>7, <2>8 DEF HandlerFails
  <2>9. CASE AdvanceFails(x)
    <3>1. x.t \in posted'
      BY <1>1, <2>9 DEF AdvanceFails, TaskIsReal, CompletedQueue
    <3>2. Retry(x) \/ Replace(x, {})
      BY <2>9 DEF AdvanceFails
    <3>. QED
      BY <2>6, <3>1, <3>2 DEF Settled
  <2>. QED
    BY <2>1, <2>2, <2>3, <2>4, <2>5, <2>8, <2>9 DEF Handler
<1>. QED
  BY <1>2, <1>3, <1>4, <1>5, AccountedReplaced

LEMMA AccountedStops ==
  ASSUME TypeOK, DeadLetterInv, AccountedInv, NEW p \in Procs,
         ChannelCloses(p) \/ Crash(p) \/ Recover(p)
  PROVE  AccountedInv'
<1>1. UNCHANGED <<status, posted, outbox, dead>>
  BY DEF ChannelCloses, Crash, Recover, Restart
<1>2. \A t \in Transfers : status'[t] # "none" => outbox[t] # "none"
  BY <1>1 DEF AccountedInv
<1>3. /\ Owned(p) \subseteq Live /\ OnWire(p) \subseteq Live
      /\ \A x \in Live : x \in Tasks /\ TaskAccounted(x)
      /\ \A x \in Owned(p) : x.place \in Unacked
  BY DEF Owned, OfProc, OnWire, TypeOK, DeadLetterInv, AccountedInv
<1>4. \A x \in Live : /\ Again(x).t = x.t /\ UnderWay(Again(x))
                      /\ TaskAccounted(Again(x))
  BY <1>3 DEF Again, Queued, UnderWay, Queues, TaskAccounted
<1>5. \A q \in Procs : \/ worker'[q] = worker[q]
                       \/ worker'[q].doing # "sent" /\ \A t \in worker'[q].batch : outbox[t] # "none"
  <2>1. worker \in Flushes
    BY DEF TypeOK, Flushes
  <2>2. UNCHANGED worker \/ worker' = [worker EXCEPT ![p] = Idle]
    BY DEF ChannelCloses, Crash, Recover, Restart
  <2>. QED
    BY <2>1, <2>2 DEF Idle, Flushes
<1>6. ASSUME \A t : t \in lost => t \in lost',
             \A x \in Live : UnderWay(x) =>
               x \in Live' \/ x.t \in lost' \/ \E y \in Live' : y.t = x.t /\ UnderWay(y)
      PROVE  \A t : Traced(t) => Traced(t)'
  BY <1>1, <1>6 DEF Traced, Settled, UnderWay
<1>7. CASE ChannelCloses(p)
  <2>1. PICK G \in SUBSET GivingUp(p) : Closed(p, G)
    BY <1>7, ClosedLive
  <2>2. \A x \in Owned(p) : TaskAccounted(Orphan(x, G))
    <3>1. SUFFICES ASSUME NEW x \in Owned(p) PROVE TaskAccounted(Orphan(x, G))
      OBVIOUS
    <3>. DEFINE y == Orphan(x, G)
    <3>2. y.t = x.t /\ (y.place = "mark" \/ y.place = x.place)
      BY <1>3 DEF Orphan, Tasks
    <3>. HIDE DEF y
    <3>3. TaskAccounted(y)
      BY <1>3, <3>2 DEF TaskAccounted, Unacked, Queues
    <3>. QED
      BY <3>3 DEF y
  <2>3. \A y \in Live' : TaskAccounted(y)
    BY <1>3, <1>4, <2>1, <2>2 DEF Closed
  <2>4. \A t : t \in lost => t \in lost'
    BY <2>1 DEF Closed
  <2>5. ASSUME NEW x \in Live, UnderWay(x)
        PROVE  x \in Live' \/ x.t \in lost' \/ \E y \in Live' : y.t = x.t /\ UnderWay(y)
    <3>1. CASE x \in OnWire(p)
      BY <2>1, <3>1 DEF Closed
    <3>2. CASE x \in Owned(p)
      BY <1>3, <1>4, <2>1, <3>2 DEF Closed
    <3>3. CASE x \notin OnWire(p) \cup Owned(p)
      BY <2>1, <3>3 DEF Closed
    <3>. QED
      BY <3>1, <3>2, <3>3
  <2>6. \A t : Traced(t) => Traced(t)'
    BY <1>6, <2>4, <2>5
  <2>. QED
    BY <1>1, <1>2, <1>5, <2>3, <2>6, AccountedKept
<1>8. CASE Restart(p)
  <2>1. lost' = lost \cup {x.t : x \in OnWire(p)}
    BY <1>8 DEF Restart
  <2>2. \A y \in Live' : TaskAccounted(y)
    BY <1>3, <1>4, <1>8, RestartedLive
  <2>3. ASSUME NEW x \in Live, UnderWay(x)
        PROVE  x \in Live' \/ x.t \in lost' \/ \E y \in Live' : y.t = x.t /\ UnderWay(y)
    <3>1. CASE x \in OnWire(p)
      BY <2>1, <3>1
    <3>2. CASE x \in Owned(p)
      BY <1>3, <1>4, <1>8, <3>2, RestartedLive
    <3>3. CASE x \notin OnWire(p) \cup Owned(p)
      <4>1. x \notin OfProc(p)
        BY <1>3, <2>3, <3>3, ProcsAssumption DEF UnderWay, OnWire, Owned, OfProc, TaskAccounted
      <4>. QED
        BY <1>8, <4>1, RestartedLive
    <3>. QED
      BY <3>1, <3>2, <3>3
  <2>4. \A t : Traced(t) => Traced(t)'
    BY <1>6, <2>1, <2>3
  <2>. QED
    BY <1>1, <1>2, <1>5, <2>2, <2>4, AccountedKept
<1>. QED
  BY <1>7, <1>8 DEF Crash, Recover

LEMMA AccountedInit == Init => AccountedInv
BY InitLive DEF Init, AccountedInv, FlushAccounted, Idle

LEMMA AccountedAccept ==
  ASSUME TypeOK, AccountedInv, NEW t \in Transfers, Accept(t)
  PROVE  AccountedInv'
<1>1. UNCHANGED <<posted, worker, tasks, dead, lost>>
  BY DEF Accept
<1>2. /\ status[t] = "none" /\ status'[t] = "INITIATED" /\ outbox'[t] = "PENDING"
      /\ \A u \in Transfers \ {t} : status'[u] = status[u] /\ outbox'[u] = outbox[u]
  BY DEF Accept, TypeOK
<1>3. \A u \in Transfers : Traced(u) => Traced(u)'
  BY <1>1, <1>2 DEF Traced, Settled, Live
<1>4. \A u \in Transfers : outbox[u] # "none" => outbox'[u] # "none"
  BY <1>2
<1>5. \A y \in Live' : TaskAccounted(y)'
  <2>1. \A y \in Live : y.t \in Transfers
    BY DEF TypeOK, Tasks
  <2>. QED
    BY <1>1, <1>4, <2>1 DEF AccountedInv, TaskAccounted, Live
<1>6. ASSUME NEW q \in Procs
      PROVE  FlushAccounted(q)'
  <2>1. FlushAccounted(q) /\ worker[q].batch \subseteq Transfers /\ worker'[q] = worker[q]
    BY <1>1 DEF AccountedInv, TypeOK
  <2>2. PICK r : r = worker[q].row
    OBVIOUS
  <2>3. r \in Transfers /\ Traced(r) => Traced(r)'
    BY <1>3
  <2>. QED
    BY <1>4, <2>1, <2>2, <2>3 DEF FlushAccounted, Traced, Settled
<1>7. \A u \in Transfers : /\ status'[u] # "none" => outbox'[u] # "none"
                           /\ outbox'[u] = "PUBLISHED" => Traced(u)'
  BY <1>2, <1>3 DEF AccountedInv
<1>. QED
  BY <1>5, <1>6, <1>7 DEF AccountedInv

LEMMA AccountedStep ==
  TypeOK /\ RealInv /\ DeadLetterInv /\ AccountedInv /\ [Next]_vars => AccountedInv'
<1>. SUFFICES ASSUME TypeOK, RealInv, DeadLetterInv, AccountedInv, [Next]_vars PROVE AccountedInv'
  OBVIOUS
<1>1. CASE \E t \in Transfers : Accept(t)
  BY <1>1, AccountedAccept
<1>2. CASE Work
  BY <1>2, AccountedOutbox, AccountedBroker, AccountedHandler DEF Work, Broker
<1>3. CASE Faults \/ \E p \in Procs : Recover(p)
  BY <1>3, AccountedOutbox, AccountedStops, AccountedHandler DEF Faults
<1>4. CASE UNCHANGED vars
  <2>1. UNCHANGED <<status, posted, outbox, worker, tasks, dead, lost>>
    BY <1>4 DEF vars
  <2>2. \A t \in Transfers : Traced(t) => Traced(t)'
    BY <2>1 DEF Traced, Settled, Live
  <2>. QED
    BY <2>1, <2>2, AccountedKept DEF AccountedInv, Live
<1>. QED
  BY <1>1, <1>2, <1>3, <1>4 DEF Next

(* No accepted transfer is forgotten: until it is posted or settled, its    *)
(* outbox row waits, a message of it is under way, or it was dead-lettered  *)
(* or lost with a connection (outbox.worker.ts, the consumers).             *)
THEOREM NothingForgotten == Spec => []AccountedFor
<1>1. Init => TypeOK /\ RealInv /\ DeadLetterInv /\ AccountedInv
  BY TypeInit, RealInit, DeadLetterInit, AccountedInit
<1>2. TypeOK /\ RealInv /\ DeadLetterInv /\ AccountedInv /\ [Next]_vars
        => TypeOK' /\ RealInv' /\ DeadLetterInv' /\ AccountedInv'
  BY TypeStep, RealStep, DeadLetterStep, AccountedStep
<1>3. TypeOK /\ AccountedInv => AccountedFor
  BY DEF AccountedInv, TypeOK, OutboxStatuses, Traced, Settled, UnderWay, AccountedFor
<1>. QED
  BY <1>1, <1>2, <1>3, PTL DEF Spec

-----------------------------------------------------------------------------
(* The bag of tasks: finitely many, and at least one copy of each.          *)

BagInv == FiniteBag(tasks)

LEMMA ReplacedBag ==
  ASSUME BagInv, NEW x \in Live, NEW new, IsFiniteSet(new), Replace(x, new)
  PROVE  BagInv'
BY ExchangedBag DEF BagInv, Replace, Live, BagToSet

LEMMA StoppedBag ==
  ASSUME BagInv, NEW p \in Procs, ChannelCloses(p) \/ Restart(p)
  PROVE  BagInv'
<1>. DEFINE back    == Moved(tasks, Redelivered(p))
            left(G) == Moved(tasks, Orphaned(p, G))
<1>1. Owned(p) \in SUBSET DOMAIN tasks /\ Live = DOMAIN tasks
  BY DEF Owned, OfProc, Live, BagToSet
<1>2. FiniteBag(back)
  BY <1>1, MovedBag DEF Redelivered, BagInv
<1>3. \A G : FiniteBag(left(G))
  BY <1>1, MovedBag DEF Orphaned, BagInv
<1>4. \A S \in SUBSET Live : FiniteBag(Restrict(tasks, S))
  BY <1>1, PartBag DEF BagInv
<1>. HIDE DEF back, left
<1>5. CASE Restart(p)
  BY <1>2, <1>4, <1>5, SumBag DEF Restart, back, BagInv
<1>6. CASE ChannelCloses(p)
  <2>. DEFINE stays == Restrict(tasks, Live \ (Owned(p) \cup OnWire(p)))
  <2>1. PICK G : tasks' = stays (+) left(G) (+) back
    BY <1>6 DEF ChannelCloses, back, left
  <2>2. FiniteBag(stays)
    BY <1>4
  <2>. HIDE DEF stays
  <2>3. FiniteBag(stays (+) left(G))
    BY <1>3, <2>2, SumBag
  <2>. QED
    BY <1>2, <2>1, <2>3, SumBag DEF BagInv
<1>. QED
  BY <1>5, <1>6

LEMMA BagInit == Init => BagInv
BY FS_EmptySet DEF Init, BagInv, FiniteBag, Positive, EmptyBag, SetToBag

LEMMA BagStep == BagInv /\ [Next]_vars => BagInv'
<1>. SUFFICES ASSUME BagInv, [Next]_vars PROVE BagInv'
  OBVIOUS
<1>1. ASSUME NEW a, NEW b PROVE IsFiniteSet({}) /\ IsFiniteSet({a}) /\ IsFiniteSet({a, b})
  <2>1. IsFiniteSet({a}) /\ IsFiniteSet({b})
    BY FS_Singleton
  <2>2. IsFiniteSet({a} \cup {b})
    BY <2>1, FS_Union
  <2>3. {a, b} = {a} \cup {b}
    OBVIOUS
  <2>. QED
    BY <2>1, <2>2, <2>3, FS_EmptySet
<1>2. UNCHANGED tasks => BagInv'
  BY DEF BagInv
<1>3. ASSUME NEW x \in Live, \E new : IsFiniteSet(new) /\ Replace(x, new)
      PROVE  BagInv'
  BY <1>3, ReplacedBag
<1>4. CASE \E t \in Transfers : Accept(t)
  BY <1>2, <1>4 DEF Accept
<1>5. ASSUME NEW p \in Procs, Outbox(p) \/ MarkPublishedFails(p) \/ MarkRowFailedFails(p)
      PROVE  BagInv'
  <2>1. UNCHANGED tasks \/ \E y : tasks' = tasks (+) SetToBag({y})
    BY <1>5 DEF Outbox, Flush, PublishRow, MarkPublished, MarkRowFailed, MarkPublishedFails, MarkRowFailedFails
  <2>2. ASSUME NEW y, tasks' = tasks (+) SetToBag({y}) PROVE BagInv'
    BY <1>1, <2>2, SetBag, SumBag DEF BagInv
  <2>. QED
    BY <1>2, <2>1, <2>2
<1>6. CASE \E p \in Procs : Recover(p) \/ Crash(p) \/ ChannelCloses(p)
  BY <1>6, StoppedBag DEF Recover, Crash
<1>7. CASE Broker
  <2>1. \A x : Arrive(x) \/ DelayExpires(x) => \E new : IsFiniteSet(new) /\ Replace(x, new)
    BY <1>1 DEF Arrive, DelayExpires, Wires
  <2>2. \A x, p : Deliver(x, p) => \E new : IsFiniteSet(new) /\ Replace(x, new)
    BY <1>1 DEF Deliver
  <2>. QED
    BY <1>3, <1>7, <2>1, <2>2 DEF Broker
<1>8. CASE \E x \in Live : Handler(x) \/ MarkFailedFails(x)
  <2>1. \A x : WriteJournal(x) \/ SetCompleted(x) \/ MarkFailed(x) \/ Advance(x) \/ PublishCompleted(x)
                 => \E new : IsFiniteSet(new) /\ Replace(x, new)
    BY <1>1 DEF WriteJournal, SetCompleted, MarkFailed, Advance, PublishCompleted, Becomes
  <2>2. \A x : Abandon(x) \/ Ack(x) \/ AnnounceFailed(x) \/ MarkFailedFails(x)
                 => \E new : IsFiniteSet(new) /\ Replace(x, new)
    BY <1>1 DEF Abandon, Ack, AnnounceFailed, MarkFailedFails
  <2>3. \A x : HandlerFails(x) \/ AdvanceFails(x) => \E new : IsFiniteSet(new) /\ Replace(x, new)
    BY <1>1 DEF HandlerFails, AdvanceFails, Retry, GiveUp
  <2>. QED
    BY <1>3, <1>8, <2>1, <2>2, <2>3 DEF Handler
<1>9. CASE UNCHANGED vars
  BY <1>2, <1>9 DEF vars
<1>. QED
  BY <1>4, <1>5, <1>6, <1>7, <1>8, <1>9 DEF Next, Work, Faults

-----------------------------------------------------------------------------
(* How often the notification queue may still be told of a completion.      *)

(* What one copy of x may yet send through the topic exchange: a handler    *)
(* past the journal may announce the completion, and a TRANSFER_COMPLETED   *)
(* comes back from a delay queue until its retries are exhausted.           *)
Ahead(x) ==
  IF x.place = "to-dlq" \/ ~UnderWay(x) THEN 0
  ELSE IF x.place \in {"status", "publish"} THEN MaxRetries + 1
  ELSE IF x.event = "TRANSFER_INITIATED" THEN 0
  ELSE IF x.place \in {"to-delay", "delay"} THEN (MaxRetries - x.retry) + 1
  ELSE MaxRetries - x.retry

Weight(t)   == [x \in Tasks |-> IF x.t = t THEN Ahead(x) ELSE 0]
Due(t)      == Load(tasks, Weight(t))
ToldOf(t)   == <<t, "TRANSFER_COMPLETED">> \in announced
Told(t)     == IF ToldOf(t) THEN 1 ELSE 0
Unposted(t) == IF t \in posted THEN 0 ELSE MaxRetries + 1

(* What was sent and what may yet be sent are together no more than one     *)
(* announcement and MAX_RETRIES repeats.                                    *)
RepeatInv ==
  /\ \A t \in Transfers : ((repeated[t] + Told(t)) + Due(t)) + Unposted(t) <= MaxRetries + 1
  /\ \A t \in Transfers : repeated[t] > 0 => ToldOf(t)
  /\ \A x \in Live : x.event = "TRANSFER_COMPLETED" => ToldOf(x.t)

LEMMA AheadType ==
  ASSUME NEW x \in Tasks
  PROVE  /\ Ahead(x) \in Nat /\ Ahead(x) <= MaxRetries + 1
         /\ \A t : Weight(t)[x] = (IF x.t = t THEN Ahead(x) ELSE 0) /\ Weight(t)[x] \in Nat
<1>1. Ahead(x) \in Nat /\ Ahead(x) <= MaxRetries + 1
  BY BoundsAssumption DEF Ahead, Tasks
<1>. QED
  BY <1>1 DEF Weight

LEMMA DueType ==
  ASSUME TypeOK, BagInv, NEW t
  PROVE  Counted(tasks, Weight(t)) /\ Due(t) \in Nat
<1>1. \A x \in DOMAIN tasks : x \in Tasks
  BY DEF TypeOK, Live, BagToSet
<1>2. Counted(tasks, Weight(t))
  BY <1>1, AheadType DEF BagInv, FiniteBag, Positive, Counted
<1>. QED
  BY <1>2, LoadType DEF Due

(* What a step of one task does to a load.                                  *)

LEMMA DroppedTask ==
  ASSUME BagInv, NEW w, Counted(tasks, w), NEW x \in Live, Replace(x, {})
  PROVE  /\ Load(tasks, w) = Load(tasks', w) + w[x]
         /\ Load(tasks', w) \in Nat /\ w[x] \in Nat
BY DroppedLoad DEF BagInv, Replace, Live, BagToSet

LEMMA ReplacedTask ==
  ASSUME BagInv, NEW w, Counted(tasks, w), NEW x \in Live, NEW y, Replace(x, {y}), w[y] \in Nat
  PROVE  /\ Load(tasks, w) + w[y] = Load(tasks', w) + w[x]
         /\ Load(tasks', w) \in Nat /\ w[x] \in Nat
BY ReplacedLoad DEF BagInv, Replace, Live, BagToSet

LEMMA SplitTask ==
  ASSUME BagInv, NEW w, Counted(tasks, w), NEW x \in Live, NEW y, NEW z, y # z,
         Replace(x, {y, z}), w[y] \in Nat, w[z] \in Nat
  PROVE  /\ Load(tasks, w) + w[y] + w[z] = Load(tasks', w) + w[x]
         /\ Load(tasks', w) \in Nat /\ w[x] \in Nat
<1>1. FiniteBag(tasks) /\ x \in DOMAIN tasks /\ tasks' = Exchanged(tasks, x, {y, z})
  BY DEF BagInv, Replace, Live, BagToSet
<1>2. /\ Load(tasks, w) + w[y] + w[z] = Load(Exchanged(tasks, x, {y, z}), w) + w[x]
      /\ Load(Exchanged(tasks, x, {y, z}), w) \in Nat /\ w[x] \in Nat
  BY <1>1, SplitLoad, Zenon
<1>. QED
  BY <1>1, <1>2, Zenon

(* The task x goes on as y.                                                 *)
LEMMA DueMoves ==
  ASSUME TypeOK, BagInv, NEW x \in Live, NEW y \in Tasks, Replace(x, {y}), y.t = x.t
  PROVE  /\ Due(x.t)' + Ahead(x) = Due(x.t) + Ahead(y)
         /\ \A t : Due(t)' \in Nat /\ (t # x.t => Due(t)' = Due(t))
<1>1. FiniteBag(tasks) /\ x \in DOMAIN tasks /\ tasks' = Exchanged(tasks, x, {y}) /\ x \in Tasks
  BY DEF BagInv, Replace, Live, BagToSet, TypeOK
<1>2. ASSUME NEW t
      PROVE  /\ Due(t) + Weight(t)[y] = Due(t)' + Weight(t)[x]
             /\ Due(t)' \in Nat /\ Due(t) \in Nat
  <2>1. Counted(tasks, Weight(t)) /\ Due(t) \in Nat /\ Weight(t)[y] \in Nat
    BY DueType, AheadType
  <2>2. /\ Load(tasks, Weight(t)) + Weight(t)[y] = Load(tasks', Weight(t)) + Weight(t)[x]
        /\ Load(tasks', Weight(t)) \in Nat
    BY <2>1, ReplacedTask
  <2>3. Due(t)' = Load(tasks', Weight(t))
    BY DEF Due, Weight, Ahead, UnderWay
  <2>. QED
    BY <2>1, <2>2, <2>3 DEF Due
<1>3. \A t : Weight(t)[x] = (IF x.t = t THEN Ahead(x) ELSE 0) /\ Weight(t)[y] = (IF x.t = t THEN Ahead(y) ELSE 0)
  BY <1>1, AheadType
<1>4. Due(x.t)' + Ahead(x) = Due(x.t) + Ahead(y)
  BY <1>2, <1>3
<1>5. ASSUME NEW t, t # x.t PROVE Due(t)' = Due(t)
  BY <1>2, <1>3, <1>5
<1>. QED
  BY <1>2, <1>4, <1>5

LEMMA DueDrops ==
  ASSUME TypeOK, BagInv, NEW x \in Live, Replace(x, {})
  PROVE  \A t : Due(t)' \in Nat /\ Due(t)' <= Due(t)
<1>1. FiniteBag(tasks) /\ x \in DOMAIN tasks /\ tasks' = Exchanged(tasks, x, {}) /\ x \in Tasks
  BY DEF BagInv, Replace, Live, BagToSet, TypeOK
<1>. SUFFICES ASSUME NEW t PROVE Due(t)' \in Nat /\ Due(t)' <= Due(t)
  OBVIOUS
<1>2. Counted(tasks, Weight(t)) /\ Due(t) \in Nat
  BY DueType
<1>3. /\ Load(tasks, Weight(t)) = Load(tasks', Weight(t)) + Weight(t)[x]
      /\ Load(tasks', Weight(t)) \in Nat /\ Weight(t)[x] \in Nat
  BY <1>2, DroppedTask
<1>4. Due(t)' = Load(tasks', Weight(t))
  BY DEF Due, Weight, Ahead, UnderWay
<1>. QED
  BY <1>3, <1>4 DEF Due

(* The task x goes on as y and sends z.                                     *)
LEMMA DueSplits ==
  ASSUME TypeOK, BagInv, NEW x \in Live, NEW y \in Tasks, NEW z \in Tasks, y # z, Replace(x, {y, z}),
         y.t = x.t, z.t = x.t
  PROVE  /\ Due(x.t)' + Ahead(x) = (Due(x.t) + Ahead(y)) + Ahead(z)
         /\ \A t : Due(t)' \in Nat /\ (t # x.t => Due(t)' = Due(t))
<1>1. FiniteBag(tasks) /\ x \in DOMAIN tasks /\ tasks' = Exchanged(tasks, x, {y, z}) /\ x \in Tasks
  BY DEF BagInv, Replace, Live, BagToSet, TypeOK
<1>2. ASSUME NEW t
      PROVE  /\ (Due(t) + Weight(t)[y]) + Weight(t)[z] = Due(t)' + Weight(t)[x]
             /\ Due(t)' \in Nat /\ Due(t) \in Nat
  <2>1. Counted(tasks, Weight(t)) /\ Due(t) \in Nat /\ Weight(t)[y] \in Nat /\ Weight(t)[z] \in Nat
    BY DueType, AheadType
  <2>2. /\ Load(tasks, Weight(t)) + Weight(t)[y] + Weight(t)[z]
             = Load(tasks', Weight(t)) + Weight(t)[x]
        /\ Load(tasks', Weight(t)) \in Nat
    BY <2>1, SplitTask
  <2>3. Due(t)' = Load(tasks', Weight(t))
    BY DEF Due, Weight, Ahead, UnderWay
  <2>. QED
    BY <2>1, <2>2, <2>3 DEF Due
<1>3. \A t : /\ Weight(t)[x] = (IF x.t = t THEN Ahead(x) ELSE 0)
             /\ Weight(t)[y] = (IF x.t = t THEN Ahead(y) ELSE 0)
             /\ Weight(t)[z] = (IF x.t = t THEN Ahead(z) ELSE 0)
  BY <1>1, AheadType
<1>4. Due(x.t)' + Ahead(x) = (Due(x.t) + Ahead(y)) + Ahead(z)
  BY <1>2, <1>3
<1>5. ASSUME NEW t, t # x.t PROVE Due(t)' = Due(t)
  BY <1>2, <1>3, <1>5
<1>. QED
  BY <1>2, <1>4, <1>5

(* A handler that is past the journal has its announcement and all its      *)
(* repeats still due.                                                       *)
LEMMA DueAtLeast ==
  ASSUME TypeOK, BagInv, NEW x \in Live
  PROVE  Ahead(x) <= Due(x.t)
<1>1. FiniteBag(tasks) /\ x \in DOMAIN tasks /\ x \in Tasks
  BY DEF BagInv, Live, BagToSet, TypeOK
<1>2. Counted(tasks, Weight(x.t)) /\ Weight(x.t)[x] = Ahead(x)
  BY <1>1, DueType, AheadType
<1>3. /\ Load(tasks, Weight(x.t)) = Load(More!BagRemove(tasks, x), Weight(x.t)) + Weight(x.t)[x]
      /\ Load(More!BagRemove(tasks, x), Weight(x.t)) \in Nat /\ Weight(x.t)[x] \in Nat
  BY <1>1, <1>2, RemovedLoad, Zenon
<1>. QED
  BY <1>2, <1>3 DEF Due

(* A channel that closes, or a process that stops, copies its messages: the *)
(* handler that goes on without its channel can announce nothing any more,  *)
(* and the message that is queued again has no more ahead than it had.      *)
LEMMA AheadOfStopped ==
  ASSUME TypeOK, DeadLetterInv, NEW p, NEW x \in Owned(p)
  PROVE  /\ Again(x) \in Tasks /\ Again(x).t = x.t /\ Ahead(Again(x)) <= Ahead(x)
         /\ \A G : Orphan(x, G) \in Tasks /\ Orphan(x, G).t = x.t /\ Ahead(Orphan(x, G)) = 0
<1>1. x \in Tasks /\ x.owned /\ x.place \in Unacked
  BY DEF Owned, OfProc, TypeOK, DeadLetterInv
<1>2. x.retry \in 0 .. MaxRetries /\ x.event \in Events
  BY <1>1 DEF Tasks
<1>3. /\ Again(x) \in Tasks /\ Again(x).t = x.t /\ Again(x).event = x.event /\ Again(x).retry = x.retry
      /\ Again(x).place \in {"completed", "initiated"}
  BY <1>1, TaskRecords DEF Again, Queued, Queues
<1>4. Ahead(Again(x)) = (IF x.event = "TRANSFER_INITIATED" THEN 0 ELSE MaxRetries - x.retry)
  BY <1>3 DEF Ahead, UnderWay, Queues
<1>5. Ahead(Again(x)) <= Ahead(x)
  BY <1>1, <1>2, <1>4, BoundsAssumption DEF Ahead, UnderWay, Unacked
<1>6. ASSUME NEW G
      PROVE  Orphan(x, G) \in Tasks /\ Orphan(x, G).t = x.t /\ Ahead(Orphan(x, G)) = 0
  <2>. DEFINE y == Orphan(x, G)
  <2>1. y \in Tasks /\ y.t = x.t /\ ~y.owned /\ (y.place = "mark" \/ y.place = x.place)
    BY <1>1 DEF Orphan, Tasks, Places, Acked
  <2>. HIDE DEF y
  <2>2. ~UnderWay(y)
    BY <1>1, <2>1 DEF UnderWay, Unacked, Queues, Wires
  <2>3. Ahead(y) = 0
    BY <2>2 DEF Ahead
  <2>. QED
    BY <2>1, <2>3 DEF y
<1>. QED
  BY <1>3, <1>5, <1>6

LEMMA BackLoad ==
  ASSUME TypeOK, DeadLetterInv, BagInv, NEW p, NEW t
  PROVE  /\ Counted(Moved(tasks, Redelivered(p)), Weight(t))
         /\ Load(Moved(tasks, Redelivered(p)), Weight(t)) <= Load(Restrict(tasks, Owned(p)), Weight(t))
         /\ \A G : /\ Counted(Moved(tasks, Orphaned(p, G)), Weight(t))
                   /\ Load(Moved(tasks, Orphaned(p, G)), Weight(t)) = 0
<1>1. Owned(p) \in SUBSET DOMAIN tasks /\ FiniteBag(tasks) /\ Owned(p) \subseteq Tasks
  BY DEF Owned, OfProc, Live, BagToSet, BagInv, TypeOK
<1>2. PICK w : w = Weight(t)
  OBVIOUS
<1>3. Counted(tasks, w)
  BY <1>2, DueType
<1>4. ASSUME NEW x \in Owned(p)
      PROVE  /\ w[Again(x)] \in Nat /\ w[Again(x)] <= w[x]
             /\ \A G : w[Orphan(x, G)] = 0
             /\ w[x] \in Nat
  BY <1>1, <1>2, AheadOfStopped, AheadType
<1>5. /\ Counted(Moved(tasks, Redelivered(p)), w)
      /\ Load(Moved(tasks, Redelivered(p)), w) <= Load(Restrict(tasks, Owned(p)), w)
  <2>. DEFINE f == [x \in Owned(p) |-> Again(x)]
  <2>1. Redelivered(p) = f
    BY DEF Redelivered, Again
  <2>2. f = [x \in DOMAIN f |-> f[x]] /\ DOMAIN f = Owned(p)
    OBVIOUS
  <2>3. \A x \in DOMAIN f : w[f[x]] \in Nat /\ w[f[x]] <= w[x]
    BY <1>4
  <2>. HIDE DEF f
  <2>4. DOMAIN f \in SUBSET DOMAIN tasks
    BY <1>1, <2>2
  <2>5. Counted(Moved(tasks, f), w) /\ Load(Moved(tasks, f), w) <= Load(Restrict(tasks, DOMAIN f), w)
    BY <1>1, <1>3, <2>2, <2>3, <2>4, MovedLoad
  <2>. QED
    BY <2>1, <2>2, <2>5
<1>6. ASSUME NEW G
      PROVE  Counted(Moved(tasks, Orphaned(p, G)), w) /\ Load(Moved(tasks, Orphaned(p, G)), w) = 0
  <2>. DEFINE f == [x \in Owned(p) |-> Orphan(x, G)]
  <2>1. Orphaned(p, G) = f
    BY DEF Orphaned, Orphan
  <2>2. f = [x \in DOMAIN f |-> f[x]] /\ DOMAIN f = Owned(p)
    OBVIOUS
  <2>3. \A x \in DOMAIN f : w[f[x]] = 0
    BY <1>4
  <2>4. \A x \in DOMAIN f : w[f[x]] \in Nat /\ w[f[x]] <= w[x]
    BY <1>4, <2>3
  <2>. HIDE DEF f
  <2>5. DOMAIN f \in SUBSET DOMAIN tasks
    BY <1>1, <2>2
  <2>6. Counted(Moved(tasks, f), w)
    BY <1>1, <1>3, <2>2, <2>4, <2>5, MovedLoad
  <2>7. \A y \in DOMAIN Moved(tasks, f) : w[y] = 0
    BY <2>3 DEF Moved, Range
  <2>8. Load(Moved(tasks, f), w) = 0
    BY <2>7, LoadNone
  <2>. QED
    BY <2>1, <2>6, <2>8
<1>. QED
  BY <1>2, <1>5, <1>6

LEMMA DueStops ==
  ASSUME TypeOK, DeadLetterInv, BagInv, NEW p, ChannelCloses(p) \/ Restart(p), NEW t
  PROVE  Due(t)' \in Nat /\ Due(t)' <= Due(t)
<1>1. PICK w : w = Weight(t)
  OBVIOUS
<1>2. PICK back : back = Moved(tasks, Redelivered(p))
  OBVIOUS
<1>3. Counted(tasks, w) /\ Due(t) = Load(tasks, w) /\ Due(t)' = Load(tasks', w) /\ Due(t) \in Nat
  <2>1. Counted(tasks, w) /\ Due(t) \in Nat
    BY <1>1, DueType
  <2>2. Due(t) = Load(tasks, w)
    BY <1>1 DEF Due
  <2>3. Due(t)' = Load(tasks', w)
    BY <1>1 DEF Due, Weight, Ahead, UnderWay
  <2>. QED
    BY <2>1, <2>2, <2>3
<1>4. Counted(back, w) /\ Load(back, w) <= Load(Restrict(tasks, Owned(p)), w)
  BY <1>1, <1>2, BackLoad
<1>5. ASSUME NEW S \in SUBSET DOMAIN tasks, S \cap Owned(p) = {}
      PROVE  /\ Counted(Restrict(tasks, S), w) /\ Load(Restrict(tasks, S), w) \in Nat
             /\ Load(Restrict(tasks, Owned(p)), w) \in Nat
             /\ Load(Restrict(tasks, S), w) + Load(Restrict(tasks, Owned(p)), w) <= Load(tasks, w)
  <2>1. Owned(p) \in SUBSET DOMAIN tasks
    BY DEF Owned, OfProc, Live, BagToSet
  <2>2. /\ Counted(Restrict(tasks, S), w) /\ Counted(Restrict(tasks, Owned(p)), w)
        /\ Load(Restrict(tasks, S), w) + Load(Restrict(tasks, Owned(p)), w) <= Load(tasks, w)
    BY <1>3, <1>5, <2>1, PartsLoad
  <2>. QED
    BY <2>2, LoadType
<1>6. Load(back, w) \in Nat
  BY <1>4, LoadType
<1>7. CASE Restart(p)
  <2>. DEFINE S == Live \ OfProc(p)
              stays == Restrict(tasks, S)
  <2>1. tasks' = stays (+) back
    BY <1>2, <1>7 DEF Restart
  <2>2. S \in SUBSET DOMAIN tasks /\ S \cap Owned(p) = {}
    BY DEF Owned, Live, BagToSet
  <2>. HIDE DEF S
  <2>3. /\ Counted(stays, w) /\ Load(stays, w) \in Nat /\ Load(Restrict(tasks, Owned(p)), w) \in Nat
        /\ Load(stays, w) + Load(Restrict(tasks, Owned(p)), w) <= Load(tasks, w)
    BY <1>5, <2>2
  <2>. HIDE DEF stays
  <2>4. Counted(stays (+) back, w) /\ Load(stays (+) back, w) <= Load(stays, w) + Load(back, w)
    BY <1>4, <2>3, SumLoad
  <2>5. Load(stays (+) back, w) \in Nat
    BY <2>4, LoadType
  <2>. QED
    BY <1>3, <1>4, <1>6, <2>1, <2>3, <2>4, <2>5
<1>8. CASE ChannelCloses(p)
  <2>. DEFINE S == Live \ (Owned(p) \cup OnWire(p))
              stays == Restrict(tasks, S)
  <2>1. PICK G : tasks' = stays (+) Moved(tasks, Orphaned(p, G)) (+) back
    BY <1>2, <1>8 DEF ChannelCloses
  <2>2. PICK left : left = Moved(tasks, Orphaned(p, G))
    OBVIOUS
  <2>3. Counted(left, w) /\ Load(left, w) = 0
    BY <1>1, <2>2, BackLoad
  <2>4. S \in SUBSET DOMAIN tasks /\ S \cap Owned(p) = {}
    BY DEF Owned, Live, BagToSet
  <2>. HIDE DEF S
  <2>5. /\ Counted(stays, w) /\ Load(stays, w) \in Nat /\ Load(Restrict(tasks, Owned(p)), w) \in Nat
        /\ Load(stays, w) + Load(Restrict(tasks, Owned(p)), w) <= Load(tasks, w)
    BY <1>5, <2>4
  <2>. HIDE DEF stays
  <2>6. Counted(stays (+) left, w) /\ Load(stays (+) left, w) <= Load(stays, w) + Load(left, w)
    BY <2>3, <2>5, SumLoad
  <2>7. /\ Counted(stays (+) left (+) back, w)
        /\ Load(stays (+) left (+) back, w) <= Load(stays (+) left, w) + Load(back, w)
    BY <1>4, <2>6, SumLoad
  <2>8. Load(stays (+) left, w) \in Nat /\ Load(stays (+) left (+) back, w) \in Nat
    BY <2>6, <2>7, LoadType
  <2>9. tasks' = stays (+) left (+) back
    BY <2>1, <2>2
  <2>. QED
    BY <1>3, <1>4, <1>6, <2>3, <2>5, <2>6, <2>7, <2>8, <2>9
<1>. QED
  BY <1>7, <1>8

LEMMA CountTypes ==
  ASSUME TypeOK, BagInv, NEW t \in Transfers
  PROVE  /\ repeated[t] \in Nat /\ Told(t) \in 0 .. 1 /\ Due(t) \in Nat
         /\ Unposted(t) \in Nat /\ MaxRetries \in Nat
BY DueType, BoundsAssumption DEF TypeOK, Told, Unposted

(* A step that announces no completion.                                     *)
LEMMA RepeatKept ==
  ASSUME TypeOK, TypeOK', BagInv, BagInv', RepeatInv,
         \A t : ToldOf(t)' <=> ToldOf(t),
         \A t \in Transfers : Due(t)' \in Nat,
         \A t \in Transfers : (repeated'[t] + Due(t)') + Unposted(t)' <= (repeated[t] + Due(t)) + Unposted(t),
         \A t \in Transfers : repeated'[t] > 0 => repeated[t] > 0 \/ ToldOf(t),
         \A y \in Live' : y.event = "TRANSFER_COMPLETED" => ToldOf(y.t)
  PROVE  RepeatInv'
<1>1. ASSUME NEW t \in Transfers
      PROVE  (((repeated[t] + Told(t)) + Due(t)) + Unposted(t) <= MaxRetries + 1)'
  <2>1. /\ repeated[t] \in Nat /\ Told(t) \in 0 .. 1 /\ Due(t) \in Nat
        /\ Unposted(t) \in Nat /\ MaxRetries \in Nat
    BY CountTypes
  <2>2. repeated'[t] \in Nat /\ Due(t)' \in Nat /\ Unposted(t)' \in Nat
    <3>1. repeated'[t] \in Nat
      BY DEF TypeOK
    <3>2. Unposted(t)' \in Nat
      BY BoundsAssumption DEF Unposted
    <3>3. Due(t)' \in Nat
      OBVIOUS
    <3>. QED
      BY <3>1, <3>2, <3>3
  <2>3. Told(t)' = Told(t)
    BY DEF Told
  <2>4. ((repeated[t] + Told(t)) + Due(t)) + Unposted(t) <= MaxRetries + 1
    BY DEF RepeatInv
  <2>5. (repeated'[t] + Due(t)') + Unposted(t)' <= (repeated[t] + Due(t)) + Unposted(t)
    OBVIOUS
  <2>. QED
    BY <2>1, <2>2, <2>3, <2>4, <2>5
<1>2. \A t \in Transfers : repeated'[t] > 0 => ToldOf(t)'
  BY DEF RepeatInv
<1>3. \A y \in Live' : y.event = "TRANSFER_COMPLETED" => ToldOf(y.t)'
  OBVIOUS
<1>. QED
  BY <1>1, <1>2, <1>3 DEF RepeatInv

(* A step of one task that leaves the journal and the repeats alone.        *)
LEMMA RepeatQuiet ==
  ASSUME TypeOK, TypeOK', BagInv, BagInv', RepeatInv,
         \A t : ToldOf(t)' <=> ToldOf(t), UNCHANGED <<repeated, posted>>,
         \A t \in Transfers : Due(t)' \in Nat /\ Due(t)' <= Due(t),
         \A y \in Live' : y.event = "TRANSFER_COMPLETED" => ToldOf(y.t)
  PROVE  RepeatInv'
<1>1. ASSUME NEW t \in Transfers
      PROVE  (repeated'[t] + Due(t)') + Unposted(t)' <= (repeated[t] + Due(t)) + Unposted(t)
  <2>1. repeated'[t] = repeated[t] /\ Unposted(t)' = Unposted(t)
    BY DEF Unposted
  <2>. QED
    BY <2>1, CountTypes
<1>2. \A t \in Transfers : repeated'[t] > 0 => repeated[t] > 0
  OBVIOUS
<1>. QED
  BY <1>1, <1>2, RepeatKept

LEMMA RepeatMoves ==
  ASSUME TypeOK, TypeOK', BagInv, BagInv', RepeatInv, UNCHANGED <<announced, repeated, posted>>,
         NEW x \in Live, NEW y \in Tasks, Replace(x, {y}), y.t = x.t, y.event = x.event, Ahead(y) <= Ahead(x)
  PROVE  RepeatInv'
<1>1. x \in Tasks
  BY DEF TypeOK
<1>2. ASSUME NEW t \in Transfers
      PROVE  Due(t)' \in Nat /\ Due(t)' <= Due(t)
  <2>1. /\ Due(x.t)' + Ahead(x) = Due(x.t) + Ahead(y)
        /\ Due(t)' \in Nat /\ (t # x.t => Due(t)' = Due(t))
    BY DueMoves
  <2>2. Due(t) \in Nat /\ Ahead(x) \in Nat /\ Ahead(y) \in Nat
    BY <1>1, DueType, AheadType
  <2>. QED
    BY <2>1, <2>2
<1>3. \A z \in Live' : z.event = "TRANSFER_COMPLETED" => ToldOf(z.t)
  BY ReplacedLive DEF RepeatInv
<1>4. \A t : ToldOf(t)' <=> ToldOf(t)
  BY DEF ToldOf
<1>. QED
  BY <1>2, <1>3, <1>4, RepeatQuiet

LEMMA RepeatDrops ==
  ASSUME TypeOK, TypeOK', BagInv, BagInv', RepeatInv, \A t : ToldOf(t)' <=> ToldOf(t),
         UNCHANGED <<repeated, posted>>, NEW x \in Live, Replace(x, {})
  PROVE  RepeatInv'
<1>1. \A t \in Transfers : Due(t)' \in Nat /\ Due(t)' <= Due(t)
  BY DueDrops
<1>2. \A z \in Live' : z.event = "TRANSFER_COMPLETED" => ToldOf(z.t)
  BY ReplacedLive DEF RepeatInv
<1>. QED
  BY <1>1, <1>2, RepeatQuiet

LEMMA RepeatStops ==
  ASSUME TypeOK, TypeOK', BagInv, BagInv', DeadLetterInv, RepeatInv,
         NEW p \in Procs, ChannelCloses(p) \/ Restart(p)
  PROVE  RepeatInv'
<1>1. UNCHANGED <<announced, repeated, posted>>
  BY DEF ChannelCloses, Restart
<1>2. \A t : ToldOf(t)' <=> ToldOf(t)
  BY <1>1 DEF ToldOf
<1>3. \A t \in Transfers : Due(t)' \in Nat /\ Due(t)' <= Due(t)
  BY DueStops
<1>4. Owned(p) \subseteq Live /\ Live \subseteq Tasks
  BY DEF Owned, OfProc, TypeOK
<1>5. \A G : \A x \in Owned(p) : /\ Again(x).t = x.t /\ Again(x).event = x.event
                                   /\ Orphan(x, G).t = x.t /\ Orphan(x, G).event = x.event
  BY <1>4 DEF Again, Queued, Orphan, Tasks
<1>6. \A x \in Live : x.event = "TRANSFER_COMPLETED" => ToldOf(x.t)
  BY DEF RepeatInv
<1>7. \A y \in Live' : y.event = "TRANSFER_COMPLETED" => ToldOf(y.t)
  <2>1. CASE Restart(p)
    BY <1>4, <1>5, <1>6, <2>1, RestartedLive
  <2>2. CASE ChannelCloses(p)
    <3>1. PICK G : \A y \in Live' : y \in Live \/ \E x \in Owned(p) : y = Orphan(x, G) \/ y = Again(x)
      BY <2>2, ClosedLive DEF Closed
    <3>. QED
      BY <1>4, <1>5, <1>6, <3>1
  <2>. QED
    BY <2>1, <2>2
<1>. QED
  BY <1>1, <1>2, <1>3, <1>7, RepeatQuiet

LEMMA RepeatOutbox ==
  ASSUME TypeOK, TypeOK', BagInv, BagInv', RepeatInv, NEW p \in Procs,
         Outbox(p) \/ MarkPublishedFails(p) \/ MarkRowFailedFails(p)
  PROVE  RepeatInv'
<1>1. UNCHANGED <<announced, repeated, posted>>
  BY DEF Outbox, Flush, PublishRow, MarkPublished, MarkRowFailed, MarkPublishedFails, MarkRowFailedFails
<1>2. \A t : ToldOf(t)' <=> ToldOf(t)
  BY <1>1 DEF ToldOf
<1>3. \/ UNCHANGED tasks
      \/ \E t \in Transfers : tasks' = tasks (+) SetToBag({Sent(p, t, "TRANSFER_INITIATED", 0, "to-initiated")})
  BY DEF Outbox, Flush, PublishRow, MarkPublished, MarkRowFailed, MarkPublishedFails, MarkRowFailedFails, TypeOK
<1>4. CASE UNCHANGED tasks
  <2>1. \A t : Due(t)' = Due(t)
    BY <1>4 DEF Due, Weight, Ahead, UnderWay
  <2>2. \A t \in Transfers : Due(t)' \in Nat /\ Due(t)' <= Due(t)
    BY <2>1, DueType
  <2>3. \A y \in Live' : y.event = "TRANSFER_COMPLETED" => ToldOf(y.t)
    BY <1>4 DEF RepeatInv, Live
  <2>. QED
    BY <1>1, <1>2, <2>2, <2>3, RepeatQuiet
<1>5. ASSUME NEW r \in Transfers,
             tasks' = tasks (+) SetToBag({Sent(p, r, "TRANSFER_INITIATED", 0, "to-initiated")})
      PROVE  RepeatInv'
  <2>. DEFINE y == Sent(p, r, "TRANSFER_INITIATED", 0, "to-initiated")
  <2>1. y \in Tasks /\ Ahead(y) = 0 /\ y.event = "TRANSFER_INITIATED"
    BY BoundsAssumption DEF Sent, Tasks, Places, Wires, Events, Ahead
  <2>2. tasks' = tasks (+) SetToBag({y})
    BY <1>5
  <2>. HIDE DEF y
  <2>3. ASSUME NEW t PROVE Due(t)' \in Nat /\ Due(t)' <= Due(t)
    <3>1. PICK w : w = Weight(t)
      OBVIOUS
    <3>2. Counted(tasks, w) /\ w[y] = 0 /\ w[y] \in Nat /\ Due(t) \in Nat
      BY <2>1, <3>1, DueType, AheadType
    <3>3. Load(tasks', w) = Load(tasks, w) + w[y]
      BY <2>2, <3>2, LoadAdd, Zenon
    <3>4. Due(t)' = Load(tasks', w) /\ Due(t) = Load(tasks, w)
      BY <3>1 DEF Due, Weight, Ahead, UnderWay
    <3>. QED
      BY <3>2, <3>3, <3>4
  <2>4. \A z \in Live' : z.event = "TRANSFER_COMPLETED" => ToldOf(z.t)
    <3>1. Live' = Live \cup {y}
      BY <2>2 DEF Live, BagToSet, SetToBag, (+)
    <3>. QED
      BY <2>1, <3>1 DEF RepeatInv
  <2>. QED
    BY <1>1, <1>2, <2>3, <2>4, RepeatQuiet
<1>. QED
  BY <1>3, <1>4, <1>5

LEMMA RepeatBroker ==
  ASSUME TypeOK, TypeOK', BagInv, BagInv', DeadLetterInv, RepeatInv, NEW x \in Live,
         Arrive(x) \/ DelayExpires(x) \/ \E p \in Procs : Deliver(x, p)
  PROVE  RepeatInv'
<1>1. x \in Tasks /\ UNCHANGED <<announced, posted>> /\ x.t \in Transfers
  BY DEF Arrive, DelayExpires, Deliver, TypeOK, Tasks
<1>2. x.retry \in 0 .. MaxRetries /\ x.event \in Events /\ MaxRetries \in Nat
  BY <1>1, BoundsAssumption DEF Tasks
<1>3. \A t : ToldOf(t)' <=> ToldOf(t)
  BY <1>1 DEF ToldOf
<1>4. CASE Arrive(x)
  <2>1. UNCHANGED repeated
    BY <1>4 DEF Arrive
  <2>2. CASE Replace(x, {})
    BY <1>1, <1>3, <2>1, <2>2, RepeatDrops
  <2>3. ASSUME NEW queue \in Queues, Replace(x, {Queued(x.t, x.event, x.retry, queue)}),
               x.place = "to-delay" \/ (x.place \in {"to-initiated", "to-completed"} /\ queue # "delay")
        PROVE  RepeatInv'
    <3>. DEFINE y == Queued(x.t, x.event, x.retry, queue)
    <3>1. y \in Tasks
      BY <1>1, TaskRecords
    <3>2. y.t = x.t /\ y.event = x.event /\ y.retry = x.retry /\ y.place = queue
      BY DEF Queued
    <3>3. Replace(x, {y})
      BY <2>3
    <3>. HIDE DEF y
    <3>4. Ahead(y) <= Ahead(x)
      BY <1>2, <2>3, <3>2 DEF Ahead, UnderWay, Queues, Wires
    <3>. QED
      BY <1>1, <2>1, <3>1, <3>2, <3>3, <3>4, RepeatMoves
  <2>4. \/ Replace(x, {})
        \/ \E queue \in Queues : /\ Replace(x, {Queued(x.t, x.event, x.retry, queue)})
                                 /\ \/ x.place = "to-delay"
                                    \/ x.place \in {"to-initiated", "to-completed"} /\ queue # "delay"
    BY <1>4 DEF Arrive, Wires, Queues
  <2>. QED
    BY <2>2, <2>3, <2>4
<1>5. CASE DelayExpires(x)
  <2>. DEFINE y == [x EXCEPT !.place = "initiated"]
  <2>1. y \in Tasks
    BY <1>1, TaskRecords DEF Places, Queues
  <2>2. y.t = x.t /\ y.event = x.event /\ y.retry = x.retry /\ y.place = "initiated" /\ y.owned = x.owned
    BY <1>1 DEF Tasks
  <2>3. Replace(x, {y}) /\ x.place = "delay"
    BY <1>5 DEF DelayExpires
  <2>. HIDE DEF y
  <2>4. Ahead(x) \in Nat /\ Ahead(y) \in Nat
    BY <1>1, <2>1, AheadType
  <2>5. IF x.event = "TRANSFER_COMPLETED" THEN Ahead(x) = Ahead(y) + 1 ELSE Ahead(x) = 0 /\ Ahead(y) = 0
    BY <1>2, <2>2, <2>3 DEF Ahead, UnderWay, Queues, Events
  <2>6. \A t \in Transfers : repeated'[t] =
          IF x.event = "TRANSFER_COMPLETED" /\ t = x.t THEN repeated[t] + 1 ELSE repeated[t]
    BY <1>5 DEF DelayExpires, TypeOK
  <2>7. ASSUME NEW t \in Transfers
        PROVE  (repeated'[t] + Due(t)') + Unposted(t)' <= (repeated[t] + Due(t)) + Unposted(t)
    <3>1. Unposted(t)' = Unposted(t)
      BY <1>1 DEF Unposted
    <3>2. /\ Due(x.t)' + Ahead(x) = Due(x.t) + Ahead(y)
          /\ Due(t)' \in Nat /\ (t # x.t => Due(t)' = Due(t))
      BY <2>1, <2>2, <2>3, DueMoves
    <3>3. repeated[t] \in Nat /\ Due(t) \in Nat /\ Unposted(t) \in Nat
      BY CountTypes
    <3>4. repeated'[t] + Due(t)' = repeated[t] + Due(t)
      BY <2>4, <2>5, <2>6, <3>2, <3>3
    <3>. QED
      BY <3>1, <3>3, <3>4
  <2>8. \A t \in Transfers : repeated'[t] > 0 => repeated[t] > 0 \/ ToldOf(t)
    BY <2>6 DEF RepeatInv
  <2>9. \A z \in Live' : z.event = "TRANSFER_COMPLETED" => ToldOf(z.t)
    BY <2>2, <2>3, ReplacedLive DEF RepeatInv
  <2>10. \A t \in Transfers : Due(t)' \in Nat
    BY <2>1, <2>2, <2>3, DueMoves
  <2>. QED
    BY <1>3, <2>7, <2>8, <2>9, <2>10, RepeatKept
<1>6. ASSUME NEW p \in Procs, Deliver(x, p)
      PROVE  RepeatInv'
  <2>1. PICK place \in {"post", "advance"} : Replace(x, {[x EXCEPT !.place = place, !.proc = p, !.owned = TRUE]})
    BY <1>6 DEF Deliver
  <2>. DEFINE y == [x EXCEPT !.place = place, !.proc = p, !.owned = TRUE]
  <2>2. y \in Tasks
    BY <1>1, <2>1, TaskRecords DEF Places, Unacked
  <2>3. y.t = x.t /\ y.event = x.event /\ y.retry = x.retry /\ y.place \in {"post", "advance"}
    BY <1>1 DEF Tasks
  <2>4. Replace(x, {y})
    BY <2>1
  <2>. HIDE DEF y
  <2>5. x.place \in {"initiated", "completed"} /\ UNCHANGED repeated
    BY <1>6 DEF Deliver
  <2>6. Ahead(y) <= Ahead(x)
    BY <1>2, <2>3, <2>5 DEF Ahead, UnderWay, Queues
  <2>. QED
    BY <1>1, <2>2, <2>3, <2>4, <2>5, <2>6, RepeatMoves
<1>. QED
  BY <1>4, <1>5, <1>6

(* The journal takes a posting once, so that only a handler of the first    *)
(* delivery gets past it, and what the two consumers later do with the      *)
(* completion it announces is bounded by the retries.                       *)
LEMMA RepeatPosts ==
  ASSUME TypeOK, TypeOK', BagInv, BagInv', RealInv, RepeatInv, NEW x \in Live, WriteJournal(x)
  PROVE  RepeatInv'
<1>1. x \in Tasks /\ x.t \in Transfers /\ x.event \in Events /\ x.place = "post" /\ x.t \notin posted
  BY DEF WriteJournal, TypeOK, Tasks
<1>2. x.event = "TRANSFER_INITIATED"
  BY <1>1 DEF RealInv, TaskIsReal, Events
<1>. DEFINE y == [x EXCEPT !.place = "status"]
<1>3. y \in Tasks
  BY <1>1, TaskRecords DEF Places, Unacked
<1>4. y.t = x.t /\ y.event = x.event
  BY <1>1 DEF Tasks
<1>5. Replace(x, {y}) /\ UNCHANGED <<announced, repeated>> /\ posted' = posted \cup {x.t}
  BY DEF WriteJournal, Becomes
<1>. HIDE DEF y
<1>6. Ahead(x) = 0 /\ Ahead(y) \in Nat /\ Ahead(y) <= MaxRetries + 1
  BY <1>1, <1>2, <1>3, AheadType DEF Ahead
<1>7. ASSUME NEW t \in Transfers
      PROVE  /\ Due(t)' \in Nat
             /\ (repeated'[t] + Due(t)') + Unposted(t)' <= (repeated[t] + Due(t)) + Unposted(t)
  <2>1. /\ Due(x.t)' + Ahead(x) = Due(x.t) + Ahead(y)
        /\ Due(t)' \in Nat /\ (t # x.t => Due(t)' = Due(t))
    BY <1>3, <1>4, <1>5, DueMoves
  <2>2. repeated[t] \in Nat /\ Due(t) \in Nat /\ Unposted(t) \in Nat /\ MaxRetries \in Nat
    BY CountTypes
  <2>3. repeated'[t] = repeated[t]
    BY <1>5
  <2>4. IF t = x.t THEN Unposted(t) = MaxRetries + 1 /\ Unposted(t)' = 0 ELSE Unposted(t)' = Unposted(t)
    BY <1>1, <1>5 DEF Unposted
  <2>. QED
    BY <1>6, <2>1, <2>2, <2>3, <2>4
<1>8. \A z \in Live' : z.event = "TRANSFER_COMPLETED" => ToldOf(z.t)
  BY <1>4, <1>5, ReplacedLive DEF RepeatInv
<1>9. \A t : ToldOf(t)' <=> ToldOf(t)
  BY <1>5 DEF ToldOf
<1>10. \A t \in Transfers : repeated'[t] > 0 => repeated[t] > 0
  BY <1>5
<1>. QED
  BY <1>7, <1>8, <1>9, <1>10, RepeatKept

(* Who announces a completion is the first to do so, whatever its event is. *)
LEMMA AnnouncesFirst ==
  ASSUME TypeOK, BagInv, RepeatInv, NEW x \in Live, x.place = "publish", x.owned
  PROVE  ~ToldOf(x.t) /\ x.event = "TRANSFER_INITIATED" /\ repeated[x.t] = 0
<1>1. x \in Tasks /\ x.t \in Transfers /\ x.event \in Events
  BY DEF TypeOK, Tasks
<1>2. Ahead(x) = MaxRetries + 1
  BY DEF Ahead, UnderWay
<1>3. Ahead(x) <= Due(x.t)
  BY DueAtLeast
<1>4. /\ repeated[x.t] \in Nat /\ Told(x.t) \in 0 .. 1 /\ Due(x.t) \in Nat
      /\ Unposted(x.t) \in Nat /\ MaxRetries \in Nat
  BY <1>1, CountTypes
<1>5. ((repeated[x.t] + Told(x.t)) + Due(x.t)) + Unposted(x.t) <= MaxRetries + 1
  BY <1>1 DEF RepeatInv
<1>6. Told(x.t) = 0 /\ repeated[x.t] = 0
  BY <1>2, <1>3, <1>4, <1>5
<1>7. ~ToldOf(x.t)
  BY <1>6 DEF Told
<1>. QED
  BY <1>1, <1>6, <1>7 DEF RepeatInv, Events

LEMMA RepeatAnnounces ==
  ASSUME TypeOK, TypeOK', BagInv, BagInv', RepeatInv, NEW x \in Live, PublishCompleted(x)
  PROVE  RepeatInv'
<1>1. x \in Tasks /\ x.t \in Transfers /\ x.place = "publish" /\ x.owned
  BY DEF PublishCompleted, TypeOK, Tasks
<1>2. ~ToldOf(x.t) /\ x.event = "TRANSFER_INITIATED"
  BY <1>1, AnnouncesFirst
<1>. DEFINE y == [x EXCEPT !.place = "ack"]
            z == Sent(x.proc, x.t, "TRANSFER_COMPLETED", 0, "to-completed")
<1>3. y \in Tasks /\ z \in Tasks
  BY <1>1, TaskRecords DEF Places, Unacked
<1>4. /\ y.t = x.t /\ y.event = x.event /\ y.place = "ack"
      /\ z.t = x.t /\ z.retry = 0 /\ z.event = "TRANSFER_COMPLETED" /\ z.place = "to-completed"
  BY <1>1 DEF Tasks, Sent
<1>5. Replace(x, {y, z})
  BY DEF PublishCompleted
<1>. HIDE DEF y, z
<1>6. UNCHANGED <<repeated, posted>> /\ announced' = announced \cup {<<x.t, "TRANSFER_COMPLETED">>}
  BY DEF PublishCompleted
<1>7. /\ Ahead(x) = MaxRetries + 1 /\ Ahead(y) = 0 /\ Ahead(z) = MaxRetries
      /\ MaxRetries \in Nat
  BY <1>1, <1>2, <1>4, BoundsAssumption DEF Ahead, UnderWay, Wires
<1>8. y # z
  BY <1>4
<1>9. ASSUME NEW t \in Transfers
      PROVE  (((repeated[t] + Told(t)) + Due(t)) + Unposted(t) <= MaxRetries + 1)'
  <2>1. /\ Due(x.t)' + Ahead(x) = (Due(x.t) + Ahead(y)) + Ahead(z)
        /\ Due(t)' \in Nat /\ (t # x.t => Due(t)' = Due(t))
    BY <1>3, <1>4, <1>5, <1>8, DueSplits
  <2>2. /\ repeated[t] \in Nat /\ Told(t) \in 0 .. 1 /\ Due(t) \in Nat
        /\ Unposted(t) \in Nat
    BY CountTypes
  <2>3. repeated'[t] = repeated[t] /\ Unposted(t)' = Unposted(t)
    BY <1>6 DEF Unposted
  <2>4. IF t = x.t THEN Told(t)' = 1 /\ Told(t) = 0 ELSE Told(t)' = Told(t)
    BY <1>2, <1>6 DEF Told, ToldOf
  <2>5. ((repeated[t] + Told(t)) + Due(t)) + Unposted(t) <= MaxRetries + 1
    BY DEF RepeatInv
  <2>. QED
    BY <1>7, <2>1, <2>2, <2>3, <2>4, <2>5
<1>10. \A t : ToldOf(t)' <=> ToldOf(t) \/ t = x.t
  BY <1>6 DEF ToldOf
<1>11. \A t \in Transfers : repeated'[t] > 0 => ToldOf(t)'
  BY <1>6, <1>10 DEF RepeatInv
<1>12. \A u \in Live' : u.event = "TRANSFER_COMPLETED" => ToldOf(u.t)'
  <2>1. \A u \in Live' : u \in Live \/ u.t = x.t
    BY <1>4, <1>5, ReplacedLive
  <2>. QED
    BY <1>10, <2>1 DEF RepeatInv
<1>. QED
  BY <1>9, <1>11, <1>12 DEF RepeatInv

LEMMA RepeatRetries ==
  ASSUME TypeOK, TypeOK', BagInv, BagInv', RepeatInv, UNCHANGED <<announced, repeated, posted>>,
         NEW x \in Live, x.place \in Unacked, x.owned, x.retry < MaxRetries, Retry(x)
  PROVE  RepeatInv'
<1>1. x \in Tasks
  BY DEF TypeOK
<1>2. x.retry \in 0 .. MaxRetries /\ x.event \in Events /\ MaxRetries \in Nat
  BY <1>1, BoundsAssumption DEF Tasks
<1>. DEFINE y == Sent(x.proc, x.t, x.event, x.retry + 1, "to-delay")
<1>3. y \in Tasks
  BY <1>1, TaskRecords
<1>4. y.t = x.t /\ y.event = x.event /\ y.retry = x.retry + 1 /\ y.place = "to-delay"
  BY DEF Sent
<1>5. Replace(x, {y})
  BY DEF Retry
<1>. HIDE DEF y
<1>6. Ahead(y) <= Ahead(x)
  BY <1>2, <1>4 DEF Ahead, UnderWay, Unacked, Wires
<1>. QED
  BY <1>3, <1>4, <1>5, <1>6, RepeatMoves

LEMMA RepeatGivesUp ==
  ASSUME TypeOK, TypeOK', BagInv, BagInv', RepeatInv, UNCHANGED <<announced, repeated, posted>>,
         NEW x \in Live, GiveUp(x)
  PROVE  RepeatInv'
<1>1. x \in Tasks /\ Ahead(x) \in Nat
  BY AheadType DEF TypeOK
<1>. DEFINE y == Sent(x.proc, x.t, x.event, x.retry, "to-dlq")
            z == [x EXCEPT !.place = "mark", !.owned = FALSE]
<1>2. y \in Tasks
  BY <1>1, TaskRecords DEF Wires
<1>3. z \in Tasks
  BY <1>1, TaskRecords DEF Places, Acked
<1>4. /\ y.t = x.t /\ y.event = x.event /\ y.place = "to-dlq"
      /\ z.t = x.t /\ z.event = x.event /\ z.place = "mark" /\ ~z.owned
  BY <1>1 DEF Sent, Tasks
<1>5. Replace(x, {y, z})
  BY DEF GiveUp
<1>. HIDE DEF y, z
<1>6. Ahead(y) = 0 /\ Ahead(z) = 0 /\ y # z
  BY <1>4 DEF Ahead, UnderWay, Queues, Wires
<1>7. ASSUME NEW t \in Transfers
      PROVE  Due(t)' \in Nat /\ Due(t)' <= Due(t)
  <2>1. /\ Due(x.t)' + Ahead(x) = (Due(x.t) + Ahead(y)) + Ahead(z)
        /\ Due(x.t)' \in Nat /\ Due(t)' \in Nat /\ (t # x.t => Due(t)' = Due(t))
    BY <1>2, <1>3, <1>4, <1>5, <1>6, DueSplits
  <2>2. Due(t) \in Nat /\ Due(x.t) \in Nat
    BY DueType
  <2>. QED
    BY <1>1, <1>6, <2>1, <2>2
<1>8. \A u \in Live' : u.event = "TRANSFER_COMPLETED" => ToldOf(u.t)
  BY <1>4, <1>5, ReplacedLive DEF RepeatInv
<1>9. \A t : ToldOf(t)' <=> ToldOf(t)
  BY DEF ToldOf
<1>. QED
  BY <1>7, <1>8, <1>9, RepeatQuiet

LEMMA RepeatHandler ==
  ASSUME TypeOK, TypeOK', BagInv, BagInv', RealInv, DeadLetterInv, RepeatInv, NEW x \in Live,
         Handler(x) \/ MarkFailedFails(x)
  PROVE  RepeatInv'
<1>1. x \in Tasks /\ UNCHANGED repeated
  BY DEF TypeOK, Handler, WriteJournal, SetCompleted, Abandon, PublishCompleted, Ack, HandlerFails,
         MarkFailed, AnnounceFailed, Advance, AdvanceFails, MarkFailedFails
<1>2. CASE Abandon(x) \/ Ack(x) \/ AnnounceFailed(x) \/ MarkFailedFails(x)
  <2>1. Replace(x, {}) /\ UNCHANGED posted
    BY <1>2 DEF Abandon, Ack, AnnounceFailed, MarkFailedFails
  <2>2. announced' \subseteq announced \cup {<<x.t, "TRANSFER_FAILED">>} /\ announced \subseteq announced'
    BY <1>2 DEF Abandon, Ack, AnnounceFailed, MarkFailedFails
  <2>3. \A t : ToldOf(t)' <=> ToldOf(t)
    BY <2>2 DEF ToldOf
  <2>. QED
    BY <1>1, <2>1, <2>3, RepeatDrops
<1>3. CASE SetCompleted(x) \/ MarkFailed(x) \/ Advance(x)
  <2>1. UNCHANGED <<announced, posted>>
    BY <1>3 DEF SetCompleted, MarkFailed, Advance
  <2>2. PICK place \in {"publish", "announce", "advanced"} :
          /\ Replace(x, {[x EXCEPT !.place = place]})
          /\ <<x.place, place>> \in {<<"status", "publish">>, <<"mark", "announce">>, <<"advance", "advanced">>}
    BY <1>3 DEF SetCompleted, MarkFailed, Advance, Becomes
  <2>. DEFINE y == [x EXCEPT !.place = place]
  <2>3. y \in Tasks
    BY <1>1, <2>2, TaskRecords DEF Places, Unacked, Acked
  <2>4. y.t = x.t /\ y.event = x.event /\ y.retry = x.retry /\ y.place = place /\ y.owned = x.owned
    BY <1>1 DEF Tasks
  <2>5. Replace(x, {y})
    BY <2>2
  <2>. HIDE DEF y
  <2>6. x.place = "mark" => ~x.owned
    BY DEF DeadLetterInv, Unacked
  <2>7. Ahead(y) = Ahead(x)
    BY <2>2, <2>4, <2>6 DEF Ahead, UnderWay, Queues, Wires
  <2>8. Ahead(y) <= Ahead(x)
    BY <1>1, <2>7, AheadType
  <2>. QED
    BY <1>1, <2>1, <2>3, <2>4, <2>5, <2>8, RepeatMoves
<1>4. CASE HandlerFails(x) \/ AdvanceFails(x)
  <2>1. UNCHANGED <<announced, repeated, posted>> /\ x.place \in Unacked /\ x.owned
    BY <1>1, <1>4 DEF HandlerFails, AdvanceFails, Unacked
  <2>2. (x.retry < MaxRetries /\ Retry(x)) \/ GiveUp(x) \/ Replace(x, {})
    BY <1>4 DEF HandlerFails, AdvanceFails
  <2>3. \A t : ToldOf(t)' <=> ToldOf(t)
    BY <2>1 DEF ToldOf
  <2>4. CASE x.retry < MaxRetries /\ Retry(x)
    BY <2>1, <2>4, RepeatRetries
  <2>5. CASE GiveUp(x)
    BY <2>1, <2>5, RepeatGivesUp
  <2>6. CASE Replace(x, {})
    BY <2>1, <2>3, <2>6, RepeatDrops
  <2>. QED
    BY <2>2, <2>4, <2>5, <2>6
<1>. QED
  BY <1>2, <1>3, <1>4, RepeatPosts, RepeatAnnounces DEF Handler

LEMMA RepeatStep ==
  TypeOK /\ TypeOK' /\ BagInv /\ BagInv' /\ RealInv /\ DeadLetterInv /\ RepeatInv /\ [Next]_vars => RepeatInv'
<1>. SUFFICES ASSUME TypeOK, TypeOK', BagInv, BagInv', RealInv, DeadLetterInv, RepeatInv, [Next]_vars
              PROVE  RepeatInv'
  OBVIOUS
<1>1. CASE UNCHANGED vars \/ \E t \in Transfers : Accept(t)
  <2>1. UNCHANGED <<posted, tasks, announced, repeated>>
    BY <1>1 DEF vars, Accept
  <2>2. \A t : Due(t)' = Due(t) /\ (ToldOf(t)' <=> ToldOf(t))
    BY <2>1 DEF Due, Weight, Ahead, UnderWay, ToldOf
  <2>3. \A t \in Transfers : Due(t)' \in Nat /\ Due(t)' <= Due(t)
    BY <2>2, DueType
  <2>4. \A y \in Live' : y.event = "TRANSFER_COMPLETED" => ToldOf(y.t)
    BY <2>1 DEF RepeatInv, Live
  <2>. QED
    BY <2>1, <2>2, <2>3, <2>4, RepeatQuiet
<1>2. CASE Work
  BY <1>2, RepeatOutbox, RepeatBroker, RepeatHandler DEF Work, Broker
<1>3. CASE Faults \/ \E p \in Procs : Recover(p)
  BY <1>3, RepeatOutbox, RepeatStops, RepeatHandler DEF Faults, Crash, Recover
<1>. QED
  BY <1>1, <1>2, <1>3 DEF Next

LEMMA RepeatInit == Init => RepeatInv
<1>. SUFFICES ASSUME Init PROVE RepeatInv
  OBVIOUS
<1>1. ASSUME NEW t \in Transfers
      PROVE  ((repeated[t] + Told(t)) + Due(t)) + Unposted(t) <= MaxRetries + 1
  <2>1. DOMAIN tasks = {}
    BY InitLive DEF Live, BagToSet
  <2>2. Due(t) = 0
    BY <2>1, LoadNone DEF Due
  <2>3. repeated[t] = 0 /\ Told(t) = 0 /\ Unposted(t) = MaxRetries + 1
    BY DEF Init, Told, ToldOf, Unposted
  <2>. QED
    BY <2>2, <2>3, BoundsAssumption
<1>. QED
  BY <1>1, InitLive DEF Init, RepeatInv

RepeatsKept == TypeOK /\ RealInv /\ DeadLetterInv /\ BagInv /\ RepeatInv

LEMMA RepeatsHold == Spec => []RepeatsKept
<1>1. Init => RepeatsKept
  BY TypeInit, RealInit, DeadLetterInit, BagInit, RepeatInit DEF RepeatsKept
<1>2. RepeatsKept /\ [Next]_vars => RepeatsKept'
  BY TypeStep, RealStep, DeadLetterStep, BagStep, RepeatStep DEF RepeatsKept
<1>. QED
  BY <1>1, <1>2, PTL DEF Spec

(* However often a TRANSFER_COMPLETED is redelivered and retried through    *)
(* the delay queues of the other consumer, the notification queue is told   *)
(* of a completion at most MAX_RETRIES times more (dlq.config.ts, the delay *)
(* queues; transfer-completed.consumer.ts, scheduleRetryOrDlq).             *)
THEOREM RepeatsAreBounded == Spec => []CompletionRepeats
<1>1. RepeatsKept => CompletionRepeats
  <2>. SUFFICES ASSUME RepeatsKept, NEW t \in Transfers PROVE repeated[t] <= MaxRetries
    BY DEF CompletionRepeats
  <2>1. /\ repeated[t] \in Nat /\ Told(t) \in 0 .. 1 /\ Due(t) \in Nat
        /\ Unposted(t) \in Nat /\ MaxRetries \in Nat
    BY CountTypes DEF RepeatsKept
  <2>2. ((repeated[t] + Told(t)) + Due(t)) + Unposted(t) <= MaxRetries + 1
    BY DEF RepeatsKept, RepeatInv
  <2>3. repeated[t] > 0 => Told(t) = 1
    BY DEF RepeatsKept, RepeatInv, Told
  <2>. QED
    BY <2>1, <2>2, <2>3
<1>. QED
  BY <1>1, RepeatsHold, PTL

(* The handler of transfer.initiated announces a completion once, whatever  *)
(* is delivered again: the unique constraint of the journal stops every     *)
(* later delivery before the publish (transfer-initiated.consumer.ts,       *)
(* handleMessage).                                                          *)
THEOREM CompletionAnnouncedOnce == Spec => AnnouncedOnce
<1>1. RepeatsKept => \A x \in Live : PublishCompleted(x) => <<x.t, "TRANSFER_COMPLETED">> \notin announced
  BY AnnouncesFirst DEF RepeatsKept, PublishCompleted, ToldOf
<1>. QED
  BY <1>1, RepeatsHold, PTL DEF AnnouncedOnce
=============================================================================
