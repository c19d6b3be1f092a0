------------------------- MODULE NotificationsProofs -----------------------
(* Proofs about Notifications, for any number of notices, processes,        *)
(* replays, retries and faults.                                             *)
EXTENDS Notifications, CountingProofs

-----------------------------------------------------------------------------
(* What the operations on the bag of tasks do to its elements.              *)

LEMMA ReplacedLive ==
  ASSUME NEW x, NEW new, Replace(x, new)
  PROVE  /\ Live' \subseteq Live \cup new
         /\ Live \ {x} \subseteq Live'
         /\ new \subseteq Live'
<1>1. /\ DOMAIN More!BagRemove(tasks, x) \subseteq Live
      /\ Live \ {x} \subseteq DOMAIN More!BagRemove(tasks, x)
  BY DEF More!BagRemove, Live, BagToSet
<1>2. Live' = DOMAIN More!BagRemove(tasks, x) \cup new
  BY DEF Replace, Exchanged, Live, BagToSet, SetToBag, (+)
<1>. QED
  BY <1>1, <1>2

LEMMA PutLive ==
  ASSUME NEW new, Put(new)
  PROVE  Live' = Live \cup new
BY DEF Put, Live, BagToSet, SetToBag, (+)

(* What becomes of the messages of a handler whose channel closed.          *)
Again(x)     == Queued(x.n, x.retry, "queue")
Orphan(x, G) == [x EXCEPT !.owned = FALSE, !.place = IF x \in G THEN "persist" ELSE @]

LEMMA MovedLive ==
  ASSUME NEW p
  PROVE  /\ DOMAIN Moved(tasks, Redelivered(p)) = {Again(x) : x \in Owned(p)}
         /\ \A G : DOMAIN Moved(tasks, Orphaned(p, G)) = {Orphan(x, G) : x \in Owned(p)}
<1>1. DOMAIN Moved(tasks, Redelivered(p)) = {Again(x) : x \in Owned(p)}
  BY DEF Moved, Redelivered, Range, Again
<1>2. ASSUME NEW G PROVE DOMAIN Moved(tasks, Orphaned(p, G)) = {Orphan(x, G) : x \in Owned(p)}
  BY DEF Moved, Orphaned, Range, Orphan
<1>. QED
  BY <1>1, <1>2

LEMMA RestartedLive ==
  ASSUME NEW p, Restart(p)
  PROVE  /\ \A y \in Live' : y \in Live \/ \E x \in Owned(p) : y = Again(x)
         /\ Live \ OfProc(p) \subseteq Live'
         /\ \A x \in Owned(p) : Again(x) \in Live'
<1>. DEFINE back == DOMAIN Moved(tasks, Redelivered(p))
<1>1. Live' = (Live \ OfProc(p)) \cup back
  BY DEF Restart, Live, Restrict, BagToSet, (+)
<1>2. back = {Again(x) : x \in Owned(p)}
  BY MovedLive
<1>. HIDE DEF back
<1>. QED
  BY <1>1, <1>2

LEMMA ClosedLive ==
  ASSUME NEW p, ChannelCloses(p)
  PROVE  /\ \E G : \A y \in Live' :
              y \in Live \/ \E x \in Owned(p) : y = Orphan(x, G) \/ y = Again(x)
         /\ Live \ (Owned(p) \cup OnWire(p)) \subseteq Live'
         /\ \A x \in Owned(p) : Again(x) \in Live'
<1>1. PICK G : tasks' = Restrict(tasks, Live \ (Owned(p) \cup OnWire(p)))
                          (+) Moved(tasks, Orphaned(p, G)) (+) Moved(tasks, Redelivered(p))
  BY DEF ChannelCloses
<1>. DEFINE left == DOMAIN Moved(tasks, Orphaned(p, G))
            back == DOMAIN Moved(tasks, Redelivered(p))
<1>2. Live' = (Live \ (Owned(p) \cup OnWire(p))) \cup left \cup back
  BY <1>1 DEF Live, Restrict, BagToSet, (+)
<1>3. left = {Orphan(x, G) : x \in Owned(p)}
  BY DEF Moved, Orphaned, Range, Orphan
<1>4. back = {Again(x) : x \in Owned(p)}
  BY MovedLive
<1>. HIDE DEF left, back
<1>. QED
  BY <1>2, <1>3, <1>4

-----------------------------------------------------------------------------
(* The types.                                                               *)

DlqEvents     == [n : Notices, replayed : BOOLEAN, sends : Nat]
Replays(last) == [Calls -> [at : CallPlaces, id : 0 .. last, proc : Procs \cup {NoProc}]]

LEMMA TaskRecords ==
  ASSUME NEW x \in Tasks
  PROVE  /\ \A place \in Places : Queued(x.n, x.retry, place) \in Tasks
         /\ \A wire \in Wires : Sent(x.proc, x.n, x.retry, wire) \in Tasks
         /\ \A place \in Places : [x EXCEPT !.place = place] \in Tasks
         /\ \A place \in Places : [x EXCEPT !.place = place, !.owned = FALSE] \in Tasks
         /\ \A place \in Places : [x EXCEPT !.owned = FALSE, !.place = place] \in Tasks
         /\ \A place \in Places, p \in Procs : [x EXCEPT !.place = place, !.proc = p, !.owned = TRUE] \in Tasks
         /\ x.retry < MaxRetries => Sent(x.proc, x.n, x.retry + 1, "to-delay") \in Tasks
<1>1. \A place \in Places : [x EXCEPT !.place = place] \in Tasks
  BY DEF Tasks
<1>2. \A place \in Places : [x EXCEPT !.place = place, !.owned = FALSE] \in Tasks
  BY DEF Tasks
<1>3. \A place \in Places : [x EXCEPT !.owned = FALSE, !.place = place] \in Tasks
  BY DEF Tasks
<1>4. \A place \in Places, p \in Procs : [x EXCEPT !.place = place, !.proc = p, !.owned = TRUE] \in Tasks
  BY DEF Tasks
<1>5. /\ \A place \in Places : Queued(x.n, x.retry, place) \in Tasks
      /\ \A wire \in Wires : Sent(x.proc, x.n, x.retry, wire) \in Tasks
  BY DEF Tasks, Queued, Sent, Places
<1>6. x.retry < MaxRetries => Sent(x.proc, x.n, x.retry + 1, "to-delay") \in Tasks
  BY BoundsAssumption DEF Tasks, Sent, Places, Wires
<1>. QED
  BY <1>1, <1>2, <1>3, <1>4, <1>5, <1>6

(* Steps that leave the table and the replays alone.                        *)
LEMMA QueueTyped ==
  ASSUME TypeOK, Live' \subseteq Tasks, BagToSet(dlq)' \subseteq Notices, up' \subseteq Procs,
         faults' \in 0 .. MaxFaults, UNCHANGED <<hooked, rows, call>>,
         copies' \in [Notices -> 0 .. MaxCopies], posts' \in [Notices -> Nat],
         heard' \subseteq Notices, lost' \subseteq Notices, unlisted' \subseteq Notices
  PROVE  TypeOK'
BY DEF TypeOK

LEMMA FaultTyped ==
  ASSUME TypeOK, Fault
  PROVE  faults' \in 0 .. MaxFaults
BY BoundsAssumption DEF Fault, TypeOK

LEMMA AnnounceTyped ==
  ASSUME TypeOK, NEW n \in Notices, Announce(n)
  PROVE  TypeOK'
<1>1. PICK retry \in 0 .. MaxRetries : Put({Queued(n, retry, "queue")})
  BY DEF Announce
<1>2. Live' = Live \cup {Queued(n, retry, "queue")} /\ Queued(n, retry, "queue") \in Tasks
  BY <1>1, PutLive DEF Queued, Tasks, Places
<1>3. copies' \in [Notices -> 0 .. MaxCopies]
  BY BoundsAssumption DEF Announce, TypeOK
<1>4. /\ UNCHANGED <<hooked, up, dlq, faults, posts, heard, lost, unlisted, rows, call>>
  BY DEF Announce, admin
<1>. QED
  BY <1>2, <1>3, <1>4, QueueTyped DEF TypeOK

LEMMA ReplaceTyped ==
  ASSUME TypeOK, NEW x, NEW new, new \subseteq Tasks, Replace(x, new)
  PROVE  Live' \subseteq Tasks
BY ReplacedLive DEF TypeOK

LEMMA BrokerTyped ==
  ASSUME TypeOK, NEW x \in Live, Arrive(x) \/ DelayExpires(x)
  PROVE  TypeOK'
<1>. x \in Tasks
  BY DEF TypeOK
<1>1. UNCHANGED <<hooked, up, rows, call, faults, copies, posts, heard, lost, unlisted>>
  BY DEF Arrive, DelayExpires, admin, history
<1>2. BagToSet(dlq)' \subseteq Notices
  <2>1. UNCHANGED dlq \/ dlq' = dlq (+) SetToBag({x.n})
    BY DEF Arrive, DelayExpires, Wires
  <2>2. x.n \in Notices
    BY DEF Tasks
  <2>3. BagToSet(dlq) \subseteq Notices
    BY DEF TypeOK
  <2>. QED
    BY <2>1, <2>2, <2>3 DEF BagToSet, SetToBag, (+)
<1>3. Live' \subseteq Tasks
  <2>1. CASE Arrive(x)
    <3>1. Replace(x, {}) \/ \E place \in {"queue", "delay"} : Replace(x, {Queued(x.n, x.retry, place)})
      BY <2>1 DEF Arrive, Wires
    <3>2. \A place \in {"queue", "delay"} : Queued(x.n, x.retry, place) \in Tasks
      BY TaskRecords DEF Places
    <3>. QED
      BY <3>1, <3>2, ReplaceTyped
  <2>2. CASE DelayExpires(x)
    <3>1. Replace(x, {[x EXCEPT !.place = "queue"]})
      BY <2>2 DEF DelayExpires, Becomes
    <3>2. [x EXCEPT !.place = "queue"] \in Tasks
      BY TaskRecords DEF Places
    <3>. QED
      BY <3>1, <3>2, ReplaceTyped
  <2>. QED
    BY <2>1, <2>2
<1>. QED
  BY <1>1, <1>2, <1>3, QueueTyped DEF TypeOK

(* The steps of a handler before it settles its message.                    *)
LEMMA DeliveryTyped ==
  ASSUME TypeOK, NEW x \in Live,
         \/ \E p \in Procs : Receive(x, p)
         \/ NoWebhook(x) \/ CallWebhook(x) \/ DeliverThrows(x)
  PROVE  TypeOK'
<1>. x \in Tasks
  BY DEF TypeOK
<1>1. UNCHANGED <<hooked, up, dlq, rows, call, faults, copies, lost, unlisted>>
  BY DEF Receive, NoWebhook, CallWebhook, DeliverThrows, admin, history
<1>2. x.n \in Notices
  BY DEF Tasks
<1>3. posts' \in [Notices -> Nat] /\ heard' \subseteq Notices
  <2>1. CASE CallWebhook(x)
    <3>1. posts' = [posts EXCEPT ![x.n] = @ + 1] /\ heard' \subseteq heard \cup {x.n}
      BY <2>1 DEF CallWebhook
    <3>. QED
      BY <1>2, <3>1 DEF TypeOK
  <2>2. CASE ~CallWebhook(x)
    BY <2>2 DEF Receive, NoWebhook, DeliverThrows, history, TypeOK
  <2>. QED
    BY <2>1, <2>2
<1>4. Live' \subseteq Tasks
  <2>1. CASE \E p \in Procs : Receive(x, p)
    <3>1. PICK p \in Procs : Receive(x, p)
      BY <2>1
    <3>2. \/ Replace(x, {[x EXCEPT !.place = "received", !.proc = p, !.owned = TRUE]})
          \/ Replace(x, {})
      BY <3>1 DEF Receive
    <3>3. [x EXCEPT !.place = "received", !.proc = p, !.owned = TRUE] \in Tasks
      BY TaskRecords DEF Places, Held
    <3>. QED
      BY <3>2, <3>3, ReplaceTyped
  <2>2. CASE NoWebhook(x) \/ CallWebhook(x) \/ DeliverThrows(x)
    <3>1. \E place \in {"delivered", "failed"} : Replace(x, {[x EXCEPT !.place = place]})
      BY <2>2 DEF NoWebhook, CallWebhook, DeliverThrows, Becomes
    <3>2. \A place \in {"delivered", "failed"} : [x EXCEPT !.place = place] \in Tasks
      BY TaskRecords DEF Places, Held
    <3>. QED
      BY <3>1, <3>2, ReplaceTyped
  <2>. QED
    BY <2>1, <2>2
<1>. QED
  BY <1>1, <1>3, <1>4, QueueTyped DEF TypeOK

(* The steps that settle it: the ack, the retry and the dead letter.        *)
LEMMA SettlingTyped ==
  ASSUME TypeOK, NEW x \in Live, Ack(x) \/ Abandon(x) \/ FailedDelivery(x)
  PROVE  TypeOK'
<1>. x \in Tasks
  BY DEF TypeOK
<1>1. UNCHANGED <<hooked, up, dlq, rows, call, faults, copies, posts, heard, lost, unlisted>>
  BY DEF Ack, Abandon, FailedDelivery, admin, history
<1>2. Live' \subseteq Tasks
  <2>1. CASE Ack(x) \/ Abandon(x)
    BY <2>1, ReplaceTyped DEF Ack, Abandon
  <2>2. CASE FailedDelivery(x) /\ x.retry < MaxRetries
    <3>1. Sent(x.proc, x.n, x.retry + 1, "to-delay") \in Tasks
      BY <2>2, TaskRecords
    <3>2. Replace(x, {Sent(x.proc, x.n, x.retry + 1, "to-delay")})
      BY <2>2 DEF FailedDelivery, Retry
    <3>. QED
      BY <3>1, <3>2, ReplaceTyped
  <2>3. CASE FailedDelivery(x) /\ ~(x.retry < MaxRetries)
    <3>. DEFINE dead   == Sent(x.proc, x.n, x.retry, "to-dlq")
                insert == [x EXCEPT !.place = "persist", !.owned = FALSE]
    <3>1. dead \in Tasks
      BY TaskRecords DEF Wires
    <3>2. insert \in Tasks
      BY TaskRecords DEF Places
    <3>3. Replace(x, {dead, insert})
      BY <2>3 DEF FailedDelivery, GiveUp
    <3>. HIDE DEF dead, insert
    <3>. QED
      BY <3>1, <3>2, <3>3, ReplaceTyped
  <2>. QED
    BY <2>1, <2>2, <2>3
<1>. QED
  BY <1>1, <1>2, QueueTyped DEF TypeOK

(* Steps that may add rows and move a replay.                               *)
LEMMA AdminTyped ==
  ASSUME TypeOK, Live' \subseteq Tasks, rows' \in Seq(DlqEvents),
         call' \in Replays(Len(rows')),
         faults' \in 0 .. MaxFaults, unlisted' \subseteq Notices,
         UNCHANGED <<hooked, up, dlq, copies, posts, heard, lost>>
  PROVE  TypeOK'
BY DEF TypeOK, DlqEvents, Replays

(* Appending a row leaves the replays of the rows there were in place.      *)
LEMMA LongerTable ==
  ASSUME TypeOK, NEW n \in Notices
  PROVE  /\ Append(rows, Row(n)) \in Seq(DlqEvents)
         /\ call \in Replays(Len(Append(rows, Row(n))))
<1>1. rows \in Seq(DlqEvents) /\ call \in Replays(Len(rows))
  BY DEF TypeOK, DlqEvents, Replays
<1>2. Row(n) \in DlqEvents
  BY DEF Row, DlqEvents
<1>3. Append(rows, Row(n)) \in Seq(DlqEvents) /\ Len(Append(rows, Row(n))) = Len(rows) + 1
  BY <1>1, <1>2
<1>4. Len(rows) \in Nat /\ Len(Append(rows, Row(n))) \in Nat
  BY <1>1, <1>3
<1>5. 0 .. Len(rows) \subseteq 0 .. Len(Append(rows, Row(n)))
  BY <1>3, <1>4
<1>. HIDE DEF DlqEvents
<1>6. call \in Replays(Len(Append(rows, Row(n))))
  BY <1>1, <1>5 DEF Replays
<1>. QED
  BY <1>3, <1>6

LEMMA PersistTyped ==
  ASSUME TypeOK, NEW x \in Live, Persist(x) \/ PersistFails(x)
  PROVE  TypeOK'
<1>. x \in Tasks
  BY DEF TypeOK
<1>0. x.n \in Notices
  BY DEF Tasks
<1>1. Live' \subseteq Tasks
  BY ReplaceTyped DEF Persist, PersistFails
<1>2. UNCHANGED <<hooked, up, dlq, call, copies, posts, heard, lost>>
  BY DEF Persist, PersistFails, admin, history
<1>3. CASE Persist(x)
  <2>1. rows' = Append(rows, Row(x.n)) /\ UNCHANGED <<faults, unlisted>>
    BY <1>3 DEF Persist, history
  <2>2. rows' \in Seq(DlqEvents) /\ call' \in Replays(Len(rows'))
    BY <1>0, <1>2, <2>1, LongerTable
  <2>. QED
    BY <1>1, <1>2, <2>1, <2>2, AdminTyped DEF TypeOK
<1>4. CASE PersistFails(x)
  <2>1. UNCHANGED rows /\ unlisted' = unlisted \cup {x.n} /\ Fault
    BY <1>4 DEF PersistFails, admin
  <2>2. faults' \in 0 .. MaxFaults
    BY <2>1, FaultTyped
  <2>. QED
    BY <1>0, <1>1, <1>2, <2>1, <2>2, QueueTyped DEF TypeOK
<1>. QED
  BY <1>3, <1>4

-----------------------------------------------------------------------------
(* DlqService.replayEvent.                                                  *)

LEMMA ChangedRow ==
  ASSUME rows \in Seq(DlqEvents), NEW id \in 1 .. Len(rows), NEW y \in DlqEvents,
         rows' = [rows EXCEPT ![id] = y]
  PROVE  rows' \in Seq(DlqEvents) /\ Len(rows') = Len(rows)
<1>. HIDE DEF DlqEvents
<1>. QED
  OBVIOUS

LEMMA MovedCall ==
  ASSUME NEW last \in Nat, call \in Replays(last), NEW c \in Calls, NEW place \in CallPlaces
  PROVE  [call EXCEPT ![c].at = place] \in Replays(last)
BY DEF Replays

LEMMA FoundRow ==
  ASSUME TypeOK, NEW c \in Calls, NEW p \in Procs, FindEvent(c, p)
  PROVE  TypeOK'
<1>1. UNCHANGED <<hooked, up, tasks, dlq, rows, faults, copies, posts, heard, lost, unlisted>>
  BY DEF FindEvent, queueing, history
<1>2. PICK id \in 1 .. Len(rows) :
        call' = [call EXCEPT ![c] = [at |-> IF rows[id].replayed THEN "refused" ELSE "send",
                                     id |-> id, proc |-> p]]
  BY DEF FindEvent
<1>3. Len(rows) \in Nat /\ call \in Replays(Len(rows))
  BY DEF TypeOK, Replays
<1>4. call' \in Replays(Len(rows))
  BY <1>2, <1>3 DEF Replays, CallPlaces
<1>. QED
  BY <1>1, <1>4, AdminTyped DEF TypeOK, Live, DlqEvents

LEMMA SentAgain ==
  ASSUME TypeOK, NEW c \in Calls, SendEvent(c), call[c].id \in 1 .. Len(rows)
  PROVE  TypeOK'
<1>1. UNCHANGED <<hooked, up, dlq, faults, copies, posts, heard, lost, unlisted>>
  BY DEF SendEvent, history
<1>2. Len(rows) \in Nat /\ call \in Replays(Len(rows)) /\ rows \in Seq(DlqEvents)
  BY DEF TypeOK, Replays, DlqEvents
<1>3. CASE call[c].proc \in up
  <2>. DEFINE m == Sent(call[c].proc, rows[call[c].id].n, 0, "to-queue")
  <2>1. Put({m}) /\ rows' = [rows EXCEPT ![call[c].id].sends = @ + 1]
        /\ call' = [call EXCEPT ![c].at = "sent"]
    BY <1>3 DEF SendEvent
  <2>2. rows[call[c].id] \in DlqEvents
    BY <1>2
  <2>3. m \in Tasks
    BY <1>3, <2>2, BoundsAssumption DEF TypeOK, Tasks, Sent, Places, Wires, DlqEvents
  <2>. HIDE DEF m
  <2>4. Live' \subseteq Tasks
    BY <2>1, <2>3, PutLive DEF TypeOK
  <2>5. rows' \in Seq(DlqEvents) /\ Len(rows') = Len(rows)
    <3>. DEFINE y == [rows[call[c].id] EXCEPT !.sends = @ + 1]
    <3>1. y \in DlqEvents
      BY <2>2 DEF DlqEvents
    <3>2. rows' = [rows EXCEPT ![call[c].id] = y]
      BY <2>1
    <3>. HIDE DEF y
    <3>. QED
      BY <1>2, <3>1, <3>2, ChangedRow
  <2>6. call' \in Replays(Len(rows'))
    BY <1>2, <2>1, <2>5, MovedCall DEF CallPlaces
  <2>. QED
    BY <1>1, <2>4, <2>5, <2>6, AdminTyped DEF TypeOK
<1>4. CASE call[c].proc \notin up
  <2>1. call' = [call EXCEPT ![c].at = "error"] /\ UNCHANGED <<tasks, rows>>
    BY <1>4 DEF SendEvent
  <2>2. call' \in Replays(Len(rows'))
    BY <1>2, <2>1, MovedCall DEF CallPlaces
  <2>. QED
    BY <1>1, <1>2, <2>1, <2>2, AdminTyped DEF TypeOK, Live
<1>. QED
  BY <1>3, <1>4

LEMMA MarkedTyped ==
  ASSUME TypeOK, NEW c \in Calls, MarkReplayed(c) \/ MarkReplayedFails(c),
         call[c].id \in 1 .. Len(rows)
  PROVE  TypeOK'
<1>1. UNCHANGED <<hooked, up, tasks, dlq, copies, posts, heard, lost, unlisted>>
  BY DEF MarkReplayed, MarkReplayedFails, queueing, history
<1>2. Len(rows) \in Nat /\ call \in Replays(Len(rows)) /\ rows \in Seq(DlqEvents)
  BY DEF TypeOK, Replays, DlqEvents
<1>3. \E place \in CallPlaces : call' = [call EXCEPT ![c].at = place]
  BY DEF MarkReplayed, MarkReplayedFails, CallPlaces
<1>4. call' \in Replays(Len(rows))
  BY <1>2, <1>3, MovedCall
<1>5. rows' \in Seq(DlqEvents) /\ Len(rows') = Len(rows)
  <2>1. CASE MarkReplayed(c)
    <3>. DEFINE y == [rows[call[c].id] EXCEPT !.replayed = TRUE]
    <3>1. rows[call[c].id] \in DlqEvents
      BY <1>2
    <3>2. y \in DlqEvents
      BY <3>1 DEF DlqEvents
    <3>3. rows' = [rows EXCEPT ![call[c].id] = y]
      BY <2>1 DEF MarkReplayed
    <3>. HIDE DEF y
    <3>. QED
      BY <1>2, <3>2, <3>3, ChangedRow
  <2>2. CASE MarkReplayedFails(c)
    BY <1>2, <2>2 DEF MarkReplayedFails
  <2>. QED
    BY <2>1, <2>2
<1>6. faults' \in 0 .. MaxFaults
  BY FaultTyped DEF MarkReplayed, MarkReplayedFails, TypeOK
<1>. QED
  BY <1>1, <1>4, <1>5, <1>6, AdminTyped DEF TypeOK, Live

-----------------------------------------------------------------------------
(* Restarts and broken channels.                                            *)

LEMMA RedeliveredTyped ==
  ASSUME TypeOK, NEW p, NEW x \in Owned(p)
  PROVE  Again(x) \in Tasks
BY TaskRecords DEF TypeOK, Owned, OfProc, Again, Places

LEMMA RestartTyped ==
  ASSUME TypeOK, NEW p \in Procs, Crash(p) \/ Recover(p)
  PROVE  TypeOK'
<1>0. Restart(p)
  BY DEF Crash, Recover
<1>1. Live' \subseteq Tasks
  BY <1>0, RestartedLive, RedeliveredTyped DEF TypeOK
<1>2. /\ up' = up \cup {p}
      /\ lost' = lost \cup {x.n : x \in OnWire(p)}
      /\ unlisted' = unlisted \cup {x.n : x \in {y \in OfProc(p) : y.place = "persist"}}
      /\ UNCHANGED <<hooked, dlq, rows, copies, posts, heard>>
  BY <1>0 DEF Restart
<1>3. \A x \in Live : x.n \in Notices
  BY DEF TypeOK, Tasks
<1>4. up' \subseteq Procs /\ lost' \subseteq Notices /\ unlisted' \subseteq Notices
  BY <1>2, <1>3 DEF TypeOK, OnWire, OfProc
<1>5. call' \in Replays(Len(rows))
  <2>1. call' = [c \in Calls |-> IF call[c].proc = p /\ call[c].at \in {"send", "sent"}
                                 THEN [call[c] EXCEPT !.at = "error"] ELSE call[c]]
    BY <1>0 DEF Restart
  <2>2. \A c \in Calls : [call[c] EXCEPT !.at = "error"]
                           \in [at : CallPlaces, id : 0 .. Len(rows), proc : Procs \cup {NoProc}]
    BY DEF TypeOK, CallPlaces
  <2>. QED
    BY <2>1, <2>2 DEF TypeOK, Replays
<1>6. faults' \in 0 .. MaxFaults
  BY FaultTyped DEF Crash, Recover, TypeOK
<1>. QED
  BY <1>1, <1>2, <1>4, <1>5, <1>6 DEF TypeOK, Replays

LEMMA CloseTyped ==
  ASSUME TypeOK, NEW p \in Procs, ChannelCloses(p)
  PROVE  TypeOK'
<1>1. PICK G : \A y \in Live' :
        y \in Live \/ \E x \in Owned(p) : y = Orphan(x, G) \/ y = Again(x)
  BY ClosedLive
<1>2. \A x \in Owned(p) : Orphan(x, G) \in Tasks
  <2>. SUFFICES ASSUME NEW x \in Owned(p) PROVE Orphan(x, G) \in Tasks
    OBVIOUS
  <2>1. x \in Tasks
    BY DEF Owned, OfProc, TypeOK
  <2>. DEFINE place == IF x \in G THEN "persist" ELSE x.place
  <2>2. place \in Places
    BY <2>1 DEF Tasks, Places
  <2>3. Orphan(x, G) = [x EXCEPT !.owned = FALSE, !.place = place]
    BY DEF Orphan
  <2>. HIDE DEF place
  <2>. QED
    BY <2>1, <2>2, <2>3, TaskRecords
<1>3. Live' \subseteq Tasks
  BY <1>1, <1>2, RedeliveredTyped DEF TypeOK
<1>4. /\ up' = up \ {p}
      /\ lost' = lost \cup {x.n : x \in OnWire(p)}
      /\ UNCHANGED <<hooked, dlq, rows, call, copies, posts, heard, unlisted>>
      /\ Fault
  BY DEF ChannelCloses, admin
<1>5. \A x \in Live : x.n \in Notices
  BY DEF TypeOK, Tasks
<1>6. up' \subseteq Procs /\ lost' \subseteq Notices
  BY <1>4, <1>5 DEF TypeOK, OnWire, OfProc
<1>7. faults' \in 0 .. MaxFaults
  BY <1>4, FaultTyped
<1>. QED
  BY <1>3, <1>4, <1>6, <1>7, QueueTyped DEF TypeOK

-----------------------------------------------------------------------------
(* A replay that found its row keeps it, and what is marked was sent.       *)

Found(c)    == call[c].at \in {"send", "sent"} => call[c].id \in 1 .. Len(rows)
WasSent(c)  == call[c].at = "sent" => rows[call[c].id].sends > 0
ReplayInv   == ReplayedWasSent /\ \A c \in Calls : Found(c) /\ WasSent(c)

Inv == TypeOK /\ ReplayInv

LEMMA TypeInit == Init => TypeOK
<1>. SUFFICES ASSUME Init PROVE TypeOK
  OBVIOUS
<1>1. Live = {} /\ BagToSet(dlq) = {}
  BY DEF Init, Live, BagToSet, EmptyBag, SetToBag
<1>2. call \in [Calls -> [at : CallPlaces, id : 0 .. Len(rows), proc : Procs \cup {NoProc}]]
  BY DEF Init, CallPlaces
<1>3. rows \in Seq([n : Notices, replayed : BOOLEAN, sends : Nat])
  BY DEF Init
<1>. QED
  BY <1>1, <1>2, <1>3, BoundsAssumption, NoticesAssumption DEF Init, TypeOK

LEMMA TypeStep == Inv /\ [Next]_vars => TypeOK'
<1>. SUFFICES ASSUME Inv, [Next]_vars PROVE TypeOK'
  OBVIOUS
<1>. TypeOK
  BY DEF Inv
<1>1. CASE \E n \in Notices : Announce(n)
  BY <1>1, AnnounceTyped
<1>2. CASE \E c \in Calls, p \in Procs : FindEvent(c, p)
  BY <1>2, FoundRow
<1>3. CASE \E p \in Procs : Recover(p) \/ Crash(p)
  BY <1>3, RestartTyped
<1>4. CASE \E p \in Procs : ChannelCloses(p)
  BY <1>4, CloseTyped
<1>5. CASE \E x \in Live : Arrive(x) \/ DelayExpires(x)
  BY <1>5, BrokerTyped
<1>6. CASE \E x \in Live : (\E p \in Procs : Receive(x, p)) \/ NoWebhook(x) \/ CallWebhook(x) \/ DeliverThrows(x)
  BY <1>6, DeliveryTyped
<1>7. CASE \E x \in Live : Ack(x) \/ Abandon(x) \/ FailedDelivery(x)
  BY <1>7, SettlingTyped
<1>8. CASE \E x \in Live : Persist(x) \/ PersistFails(x)
  BY <1>8, PersistTyped
<1>9. CASE \E c \in Calls : SendEvent(c)
  <2>1. PICK c \in Calls : SendEvent(c)
    BY <1>9
  <2>2. call[c].id \in 1 .. Len(rows)
    BY <2>1 DEF SendEvent, Inv, ReplayInv, Found
  <2>. QED
    BY <2>1, <2>2, SentAgain
<1>10. CASE \E c \in Calls : MarkReplayed(c) \/ MarkReplayedFails(c)
  <2>1. PICK c \in Calls : MarkReplayed(c) \/ MarkReplayedFails(c)
    BY <1>10
  <2>2. call[c].id \in 1 .. Len(rows)
    BY <2>1 DEF MarkReplayed, MarkReplayedFails, Inv, ReplayInv, Found
  <2>. QED
    BY <2>1, <2>2, MarkedTyped
<1>11. CASE UNCHANGED vars
  BY <1>11 DEF vars, queueing, admin, history, TypeOK, Live
<1>. QED
  BY <1>1, <1>2, <1>3, <1>4, <1>5, <1>6, <1>7, <1>8, <1>9, <1>10, <1>11
     DEF Next, Work, Faults, Handler, Replay

LEMMA QuietReplays ==
  ASSUME ReplayInv, UNCHANGED <<rows, call>>
  PROVE  ReplayInv'
BY DEF ReplayInv, ReplayedWasSent, Found, WasSent

LEMMA StoppedReplays ==
  ASSUME ReplayInv, UNCHANGED rows,
         \A c \in Calls : call'[c] = call[c] \/ call'[c].at = "error"
  PROVE  ReplayInv'
BY DEF ReplayInv, ReplayedWasSent, Found, WasSent

LEMMA PersistKeepsReplays ==
  ASSUME Inv, NEW x \in Live, Persist(x)
  PROVE  ReplayInv'
<1>1. rows' = Append(rows, Row(x.n)) /\ UNCHANGED call
  BY DEF Persist
<1>2. rows \in Seq(DlqEvents)
  BY DEF Inv, TypeOK, DlqEvents
<1>3. /\ Len(rows) \in Nat /\ Len(rows') = Len(rows) + 1
      /\ \A id \in 1 .. Len(rows) : rows'[id] = rows[id]
      /\ rows'[Len(rows) + 1] = Row(x.n)
  BY <1>1, <1>2
<1>4. ReplayedWasSent'
  <2>1. \A id \in 1 .. Len(rows) : rows[id].replayed => rows[id].sends > 0
    BY DEF Inv, ReplayInv, ReplayedWasSent
  <2>2. \A id \in 1 .. Len(rows') : id \in 1 .. Len(rows) \/ id = Len(rows) + 1
    BY <1>3
  <2>3. Row(x.n).replayed = FALSE
    BY DEF Row
  <2>. QED
    BY <1>3, <2>1, <2>2, <2>3 DEF ReplayedWasSent
<1>5. ASSUME NEW c \in Calls PROVE Found(c)' /\ WasSent(c)'
  <2>1. Found(c) /\ WasSent(c)
    BY DEF Inv, ReplayInv
  <2>2. 1 .. Len(rows) \subseteq 1 .. Len(rows')
    BY <1>3
  <2>. QED
    BY <1>1, <1>3, <2>1, <2>2 DEF Found, WasSent
<1>. QED
  BY <1>4, <1>5 DEF ReplayInv

LEMMA FindKeepsReplays ==
  ASSUME Inv, NEW c \in Calls, NEW p \in Procs, FindEvent(c, p)
  PROVE  ReplayInv'
<1>1. PICK id \in 1 .. Len(rows) :
        call' = [call EXCEPT ![c] = [at |-> IF rows[id].replayed THEN "refused" ELSE "send",
                                     id |-> id, proc |-> p]]
  BY DEF FindEvent
<1>2. UNCHANGED rows
  BY DEF FindEvent
<1>3. call \in Replays(Len(rows))
  BY DEF Inv, TypeOK, Replays
<1>4. call'[c].at # "sent" /\ call'[c].id = id
  BY <1>1, <1>3 DEF Replays
<1>5. \A d \in Calls \ {c} : call'[d] = call[d]
  BY <1>1, <1>3 DEF Replays
<1>6. ASSUME NEW d \in Calls PROVE Found(d)' /\ WasSent(d)'
  BY <1>2, <1>4, <1>5 DEF Inv, ReplayInv, Found, WasSent
<1>. QED
  BY <1>2, <1>6 DEF Inv, ReplayInv, ReplayedWasSent

(* A row changes in a way that keeps what was said of it.                   *)
LEMMA RowChanges ==
  ASSUME Inv, NEW c \in Calls, call[c].id \in 1 .. Len(rows), NEW y \in DlqEvents,
         rows' = [rows EXCEPT ![call[c].id] = y], NEW place \in CallPlaces,
         call' = [call EXCEPT ![c].at = place],
         y.sends >= rows[call[c].id].sends, y.replayed => y.sends > 0, place = "sent" => y.sends > 0
  PROVE  ReplayInv'
<1>. DEFINE id == call[c].id
<1>1. rows \in Seq(DlqEvents) /\ call \in Replays(Len(rows))
  BY DEF Inv, TypeOK, DlqEvents, Replays
<1>2. /\ Len(rows') = Len(rows)
      /\ rows'[id] = y
      /\ \A i \in 1 .. Len(rows) : i # id => rows'[i] = rows[i]
  <2>. HIDE DEF DlqEvents
  <2>. QED
    BY <1>1
<1>3. /\ call'[c].at = place /\ call'[c].id = id
      /\ \A d \in Calls \ {c} : call'[d] = call[d]
  BY <1>1 DEF Replays
<1>4. \A i \in 1 .. Len(rows) : rows[i].sends \in Nat /\ rows'[i].sends \in Nat
  <2>. SUFFICES ASSUME NEW i \in 1 .. Len(rows) PROVE rows[i].sends \in Nat /\ rows'[i].sends \in Nat
    OBVIOUS
  <2>1. rows[i] \in DlqEvents
    BY <1>1
  <2>2. rows'[i] \in DlqEvents
    BY <1>2, <2>1
  <2>. QED
    BY <2>1, <2>2 DEF DlqEvents
<1>5. ReplayedWasSent'
  BY <1>2 DEF Inv, ReplayInv, ReplayedWasSent
<1>6. ASSUME NEW d \in Calls PROVE Found(d)' /\ WasSent(d)'
  <2>1. Found(d) /\ WasSent(d)
    BY DEF Inv, ReplayInv
  <2>2. CASE d = c
    BY <1>2, <1>3, <2>2 DEF Found, WasSent
  <2>3. CASE d # c
    <3>1. call'[d] = call[d]
      BY <1>3, <2>3
    <3>2. call[d].at = "sent" => rows'[call[d].id].sends > 0
      <4>. SUFFICES ASSUME call[d].at = "sent" PROVE rows'[call[d].id].sends > 0
        OBVIOUS
      <4>1. call[d].id \in 1 .. Len(rows) /\ rows[call[d].id].sends > 0
        BY <2>1 DEF Found, WasSent
      <4>2. CASE call[d].id = id
        BY <1>2, <1>4, <4>1, <4>2
      <4>3. CASE call[d].id # id
        BY <1>2, <4>1, <4>3
      <4>. QED
        BY <4>2, <4>3
    <3>. QED
      BY <1>2, <2>1, <3>1, <3>2 DEF Found, WasSent
  <2>. QED
    BY <2>2, <2>3
<1>. QED
  BY <1>5, <1>6 DEF ReplayInv

LEMMA SendKeepsReplays ==
  ASSUME Inv, NEW c \in Calls, SendEvent(c)
  PROVE  ReplayInv'
<1>1. call[c].id \in 1 .. Len(rows)
  BY DEF SendEvent, Inv, ReplayInv, Found
<1>2. rows \in Seq(DlqEvents) /\ call \in Replays(Len(rows))
  BY DEF Inv, TypeOK, DlqEvents, Replays
<1>3. CASE call[c].proc \in up
  <2>. DEFINE y == [rows[call[c].id] EXCEPT !.sends = @ + 1]
  <2>1. rows' = [rows EXCEPT ![call[c].id] = y] /\ call' = [call EXCEPT ![c].at = "sent"]
    BY <1>3 DEF SendEvent
  <2>2. rows[call[c].id] \in DlqEvents
    BY <1>1, <1>2
  <2>3. y \in DlqEvents /\ y.sends = rows[call[c].id].sends + 1 /\ rows[call[c].id].sends \in Nat
    BY <2>2 DEF DlqEvents
  <2>. HIDE DEF y
  <2>4. y.sends >= rows[call[c].id].sends /\ y.sends > 0
    BY <2>3
  <2>. QED
    BY <1>1, <2>1, <2>3, <2>4, RowChanges DEF CallPlaces
<1>4. CASE call[c].proc \notin up
  <2>1. call' = [call EXCEPT ![c].at = "error"] /\ UNCHANGED rows
    BY <1>4 DEF SendEvent
  <2>2. \A d \in Calls : call'[d] = call[d] \/ call'[d].at = "error"
    BY <1>2, <2>1 DEF Replays
  <2>. QED
    BY <2>1, <2>2, StoppedReplays DEF Inv
<1>. QED
  BY <1>3, <1>4

LEMMA MarkKeepsReplays ==
  ASSUME Inv, NEW c \in Calls, MarkReplayed(c) \/ MarkReplayedFails(c)
  PROVE  ReplayInv'
<1>1. call[c].id \in 1 .. Len(rows) /\ rows[call[c].id].sends > 0
  BY DEF MarkReplayed, MarkReplayedFails, Inv, ReplayInv, Found, WasSent
<1>2. rows \in Seq(DlqEvents) /\ call \in Replays(Len(rows))
  BY DEF Inv, TypeOK, DlqEvents, Replays
<1>3. CASE MarkReplayed(c)
  <2>. DEFINE y == [rows[call[c].id] EXCEPT !.replayed = TRUE]
  <2>1. rows' = [rows EXCEPT ![call[c].id] = y] /\ call' = [call EXCEPT ![c].at = "done"]
    BY <1>3 DEF MarkReplayed
  <2>2. rows[call[c].id] \in DlqEvents
    BY <1>1, <1>2
  <2>3. y \in DlqEvents /\ y.sends = rows[call[c].id].sends /\ rows[call[c].id].sends \in Nat
    BY <2>2 DEF DlqEvents
  <2>. HIDE DEF y
  <2>4. y.sends >= rows[call[c].id].sends /\ y.sends > 0
    BY <1>1, <2>3
  <2>. QED
    BY <1>1, <2>1, <2>3, <2>4, RowChanges DEF CallPlaces
<1>4. CASE MarkReplayedFails(c)
  <2>1. call' = [call EXCEPT ![c].at = "error"] /\ UNCHANGED rows
    BY <1>4 DEF MarkReplayedFails
  <2>2. \A d \in Calls : call'[d] = call[d] \/ call'[d].at = "error"
    BY <1>2, <2>1 DEF Replays
  <2>. QED
    BY <2>1, <2>2, StoppedReplays DEF Inv
<1>. QED
  BY <1>3, <1>4

LEMMA RestartKeepsReplays ==
  ASSUME Inv, NEW p, Restart(p)
  PROVE  ReplayInv'
<1>1. UNCHANGED rows
  BY DEF Restart
<1>2. \A c \in Calls : call[c] \in [at : CallPlaces, id : 0 .. Len(rows), proc : Procs \cup {NoProc}]
  BY DEF Inv, TypeOK
<1>3. \A c \in Calls : call'[c] = call[c] \/ call'[c] = [call[c] EXCEPT !.at = "error"]
  BY DEF Restart
<1>4. \A c \in Calls : call'[c] = call[c] \/ call'[c].at = "error"
  BY <1>2, <1>3
<1>. QED
  BY <1>1, <1>4, StoppedReplays DEF Inv

LEMMA ReplayStep == Inv /\ [Next]_vars => ReplayInv'
<1>. SUFFICES ASSUME Inv, [Next]_vars PROVE ReplayInv'
  OBVIOUS
<1>. ReplayInv
  BY DEF Inv
<1>1. CASE \E n \in Notices : Announce(n)
  BY <1>1, QuietReplays DEF Announce, admin
<1>2. CASE \E c \in Calls, p \in Procs : FindEvent(c, p)
  BY <1>2, FindKeepsReplays
<1>3. CASE \E p \in Procs : Recover(p) \/ Crash(p)
  BY <1>3, RestartKeepsReplays DEF Recover, Crash
<1>4. CASE \E p \in Procs : ChannelCloses(p)
  BY <1>4, QuietReplays DEF ChannelCloses, admin
<1>5. CASE \E x \in Live : Arrive(x) \/ DelayExpires(x)
  BY <1>5, QuietReplays DEF Arrive, DelayExpires, admin
<1>6. CASE \E x \in Live : \/ \E p \in Procs : Receive(x, p)
                           \/ NoWebhook(x) \/ CallWebhook(x) \/ DeliverThrows(x)
  BY <1>6, QuietReplays DEF Receive, NoWebhook, CallWebhook, DeliverThrows, admin
<1>7. CASE \E x \in Live : Ack(x) \/ Abandon(x) \/ FailedDelivery(x) \/ PersistFails(x)
  BY <1>7, QuietReplays DEF Ack, Abandon, FailedDelivery, PersistFails, admin
<1>8. CASE \E x \in Live : Persist(x)
  BY <1>8, PersistKeepsReplays
<1>9. CASE \E c \in Calls : SendEvent(c)
  BY <1>9, SendKeepsReplays
<1>10. CASE \E c \in Calls : MarkReplayed(c) \/ MarkReplayedFails(c)
  BY <1>10, MarkKeepsReplays
<1>11. CASE UNCHANGED vars
  BY <1>11, QuietReplays DEF vars, admin
<1>. QED
  BY <1>1, <1>2, <1>3, <1>4, <1>5, <1>6, <1>7, <1>8, <1>9, <1>10, <1>11
     DEF Next, Work, Faults, Handler, Replay

LEMMA InvInit == Init => Inv
<1>. SUFFICES ASSUME Init PROVE Inv
  OBVIOUS
<1>1. TypeOK
  BY TypeInit
<1>2. rows = <<>> /\ \A c \in Calls : call[c].at = "new"
  BY DEF Init
<1>. QED
  BY <1>1, <1>2 DEF Inv, ReplayInv, ReplayedWasSent, Found, WasSent

LEMMA Invariance == Spec => []Inv
<1>1. Inv /\ [Next]_vars => Inv'
  BY TypeStep, ReplayStep DEF Inv
<1>. QED
  BY <1>1, InvInit, PTL DEF Spec

-----------------------------------------------------------------------------
(* The messages, the dead letters, the table of DlqEvent rows and the       *)
(* replays are what the code can hold: above all the retry header of a      *)
(* message never passes NOTIFICATION_MAX_RETRIES, and a replay only works   *)
(* on a row that exists.                                                    *)
THEOREM TypeCorrect == Spec => []TypeOK
<1>1. Inv => TypeOK
  BY DEF Inv
<1>. QED
  BY <1>1, Invariance, PTL

(* A row that says it was replayed was sent to its queue again, whichever   *)
(* replays of it overlap and wherever they break off.                       *)
THEOREM MarkedMeansSent == Spec => []ReplayedWasSent
<1>1. Inv => ReplayedWasSent
  BY DEF Inv, ReplayInv
<1>. QED
  BY <1>1, Invariance, PTL

-----------------------------------------------------------------------------
(* No notice is forgotten.                                                  *)

Alive(x) == x.place \in {"queue", "delay"} \cup Wires \/ x.owned
Told(n)  == n \in heard \cup lost \/ BagIn(n, dlq)

(* A message in a queue is of no process, only a handler that holds its     *)
(* message owns it, and what is delivered was heard, if there was somebody  *)
(* to hear it.                                                              *)
TaskKept(x) ==
  /\ x.place \in {"queue", "delay"} => x.proc = NoProc
  /\ x.owned => x.place \in Held
  /\ x.place = "delivered" => x.n \in heard \/ x.n \notin hooked

KeptInv ==
  /\ \A x \in Live : TaskKept(x)
  /\ NoticeAccountedFor

(* A step of one task.                                                      *)
LEMMA KeptReplaced ==
  ASSUME TypeOK, KeptInv, NEW x \in Live, NEW new, Replace(x, new),
         UNCHANGED <<hooked, copies, lost>>, heard \subseteq heard', \A n : BagIn(n, dlq) => BagIn(n, dlq)',
         \A y \in new : y.n = x.n /\ TaskKept(y)',
         x.n \in hooked /\ Alive(x) => Told(x.n)' \/ \E y \in new : Alive(y)
  PROVE  KeptInv'
<1>1. \A y \in Live' : TaskKept(y)'
  BY ReplacedLive DEF KeptInv, TaskKept
<1>2. ASSUME NEW n \in hooked, copies[n] > 0
      PROVE  Told(n)' \/ UnderWay(n)'
  <2>1. CASE Told(n)
    BY <2>1 DEF Told
  <2>2. ASSUME NEW y \in Live, y.n = n, Alive(y)
        PROVE  Told(n)' \/ UnderWay(n)'
    <3>1. CASE y = x
      BY <2>2, <3>1, ReplacedLive DEF UnderWay, Alive
    <3>2. CASE y # x
      BY <2>2, <3>2, ReplacedLive DEF UnderWay, Alive
    <3>. QED
      BY <3>1, <3>2
  <2>. QED
    BY <1>2, <2>1, <2>2 DEF KeptInv, NoticeAccountedFor, Told, UnderWay, Alive
<1>3. NoticeAccountedFor'
  BY <1>2 DEF NoticeAccountedFor, Told
<1>. QED
  BY <1>1, <1>3 DEF KeptInv

(* A step that only adds tasks.                                             *)
LEMMA KeptAdded ==
  ASSUME TypeOK, KeptInv, NEW new, Live' = Live \cup new,
         UNCHANGED <<hooked, dlq, heard, lost>>, \A y \in new : TaskKept(y),
         \A n \in hooked : copies'[n] > 0 => copies[n] > 0 \/ \E y \in new : y.n = n /\ Alive(y)
  PROVE  KeptInv'
BY DEF KeptInv, NoticeAccountedFor, TaskKept, UnderWay, Alive

LEMMA KeptAnnounce ==
  ASSUME TypeOK, KeptInv, NEW n \in Notices, Announce(n)
  PROVE  KeptInv'
<1>0. PICK retry \in 0 .. MaxRetries : Put({Queued(n, retry, "queue")})
  BY DEF Announce
<1>. DEFINE y == Queued(n, retry, "queue")
<1>1. y.n = n /\ Alive(y) /\ TaskKept(y)
  BY DEF Queued, Alive, TaskKept
<1>2. Live' = Live \cup {y} /\ UNCHANGED <<hooked, dlq, heard, lost>>
  BY <1>0, PutLive DEF Announce
<1>3. \A m \in Notices : m # n => copies'[m] = copies[m]
  BY DEF Announce, TypeOK
<1>4. hooked \subseteq Notices
  BY NoticesAssumption DEF TypeOK
<1>. HIDE DEF y
<1>. QED
  BY <1>1, <1>2, <1>3, <1>4, KeptAdded

LEMMA KeptBroker ==
  ASSUME TypeOK, KeptInv, NEW x \in Live, Arrive(x) \/ DelayExpires(x)
  PROVE  KeptInv'
<1>1. UNCHANGED <<hooked, copies, heard, lost>> /\ x \in Tasks /\ TaskKept(x)
  BY DEF Arrive, DelayExpires, history, TypeOK, KeptInv
<1>2. CASE Arrive(x) /\ x.place = "to-dlq"
  <2>1. Replace(x, {}) /\ dlq' = dlq (+) SetToBag({x.n})
    BY <1>2 DEF Arrive
  <2>2. BagIn(x.n, dlq)' /\ \A n : BagIn(n, dlq) => BagIn(n, dlq)'
    BY <2>1 DEF BagIn, BagToSet, SetToBag, (+)
  <2>. QED
    BY <1>1, <2>1, <2>2, KeptReplaced DEF Told
<1>3. CASE Arrive(x) /\ x.place # "to-dlq"
  <2>1. PICK place \in {"queue", "delay"} : Replace(x, {Queued(x.n, x.retry, place)})
    BY <1>3 DEF Arrive, Wires
  <2>. DEFINE y == Queued(x.n, x.retry, place)
  <2>2. y.n = x.n /\ Alive(y) /\ TaskKept(y)
    BY DEF Queued, Alive, TaskKept
  <2>3. UNCHANGED dlq
    BY <1>3 DEF Arrive, Wires
  <2>4. TaskKept(y)'
    BY <1>1, <2>2 DEF TaskKept
  <2>5. Replace(x, {y})
    BY <2>1
  <2>. HIDE DEF y
  <2>. QED
    BY <1>1, <2>2, <2>3, <2>4, <2>5, KeptReplaced DEF BagIn
<1>4. CASE DelayExpires(x)
  <2>. DEFINE y == [x EXCEPT !.place = "queue"]
  <2>1. Replace(x, {y}) /\ UNCHANGED dlq /\ x.place = "delay"
    BY <1>4 DEF DelayExpires, Becomes
  <2>2. y.n = x.n /\ y.place = "queue" /\ y.proc = x.proc /\ y.owned = x.owned
    BY <1>1 DEF Tasks
  <2>3. ~x.owned
    BY <1>1, <2>1 DEF TaskKept, Held
  <2>. HIDE DEF y
  <2>4. Alive(y) /\ TaskKept(y)'
    BY <1>1, <2>1, <2>2, <2>3 DEF Alive, TaskKept
  <2>. QED
    BY <1>1, <2>1, <2>2, <2>4, KeptReplaced DEF BagIn
<1>. QED
  BY <1>2, <1>3, <1>4

LEMMA KeptHandler ==
  ASSUME TypeOK, KeptInv, NEW x \in Live,
         \/ \E p \in Procs : Receive(x, p)
         \/ NoWebhook(x) \/ CallWebhook(x) \/ DeliverThrows(x) \/ Ack(x) \/ Abandon(x)
         \/ FailedDelivery(x) \/ Persist(x) \/ PersistFails(x)
  PROVE  KeptInv'
<1>1. /\ UNCHANGED <<hooked, dlq, copies, lost>> /\ heard \subseteq heard'
      /\ x \in Tasks /\ TaskKept(x)
  BY DEF Receive, NoWebhook, CallWebhook, DeliverThrows, Ack, Abandon, FailedDelivery, Persist,
         PersistFails, history, TypeOK, KeptInv
<1>2. \A n : BagIn(n, dlq) => BagIn(n, dlq)'
  BY <1>1 DEF BagIn
<1>. DEFINE Good(new) ==
       /\ \A y \in new : y.n = x.n /\ TaskKept(y)'
       /\ x.n \in hooked /\ Alive(x) => Told(x.n)' \/ \E y \in new : Alive(y)
<1>3. \E new : Replace(x, new) /\ Good(new)
  <2>1. ASSUME NEW p \in Procs, Receive(x, p)
        PROVE  \E new : Replace(x, new) /\ Good(new)
    <3>1. CASE x.n \in Processable
      <4>. DEFINE y == [x EXCEPT !.place = "received", !.proc = p, !.owned = TRUE]
      <4>1. Replace(x, {y})
        BY <2>1, <3>1 DEF Receive
      <4>2. y.n = x.n /\ y.place = "received" /\ y.owned
        BY <1>1 DEF Tasks
      <4>. HIDE DEF y
      <4>3. TaskKept(y)' /\ Alive(y)
        BY <4>2 DEF TaskKept, Alive, Held
      <4>. QED
        BY <4>1, <4>2, <4>3
    <3>2. CASE x.n \notin Processable
      <4>1. Replace(x, {}) /\ x.n \notin hooked
        BY <2>1, <3>2 DEF Receive, TypeOK
      <4>. QED
        BY <4>1
    <3>. QED
      BY <3>1, <3>2
  <2>2. ASSUME NEW place \in {"delivered", "failed"}, Becomes(x, place), x.place = "received",
               place = "delivered" => x.n \in heard' \/ x.n \notin hooked
        PROVE  \E new : Replace(x, new) /\ Good(new)
    <3>. DEFINE y == [x EXCEPT !.place = place]
    <3>1. Replace(x, {y})
      BY <2>2 DEF Becomes
    <3>2. y.n = x.n /\ y.place = place /\ y.owned = x.owned
      BY <1>1 DEF Tasks
    <3>. HIDE DEF y
    <3>3. TaskKept(y)'
      BY <1>1, <2>2, <3>2 DEF TaskKept, Held
    <3>4. Alive(x) => Alive(y)
      BY <2>2, <3>2 DEF Alive, Wires
    <3>. QED
      BY <3>1, <3>2, <3>3, <3>4
  <2>3. CASE NoWebhook(x) \/ CallWebhook(x) \/ DeliverThrows(x)
    <3>1. x.place = "received"
      BY <2>3 DEF NoWebhook, CallWebhook, DeliverThrows
    <3>2. \E place \in {"delivered", "failed"} :
            Becomes(x, place) /\ (place = "delivered" => x.n \in heard' \/ x.n \notin hooked)
      BY <2>3 DEF NoWebhook, CallWebhook, DeliverThrows
    <3>. QED
      BY <2>2, <3>1, <3>2
  <2>4. CASE Ack(x)
    <3>1. Replace(x, {}) /\ x.place = "delivered"
      BY <2>4 DEF Ack
    <3>2. x.n \in hooked => x.n \in heard'
      BY <1>1, <3>1 DEF TaskKept
    <3>. QED
      BY <3>1, <3>2 DEF Told
  <2>5. CASE Abandon(x)
    BY <2>5 DEF Abandon, Alive, Held, Wires
  <2>6. CASE Persist(x) \/ PersistFails(x)
    <3>1. Replace(x, {}) /\ x.place = "persist"
      BY <2>6 DEF Persist, PersistFails
    <3>2. ~Alive(x)
      BY <1>1, <3>1 DEF TaskKept, Alive, Held, Wires
    <3>. QED
      BY <3>1, <3>2
  <2>7. CASE FailedDelivery(x) /\ x.retry < MaxRetries
    <3>. DEFINE y == Sent(x.proc, x.n, x.retry + 1, "to-delay")
    <3>1. Replace(x, {y})
      BY <2>7 DEF FailedDelivery, Retry
    <3>2. y.n = x.n /\ y.place = "to-delay" /\ ~y.owned
      BY DEF Sent
    <3>. HIDE DEF y
    <3>3. TaskKept(y)' /\ Alive(y)
      BY <3>2 DEF TaskKept, Alive, Wires
    <3>. QED
      BY <3>1, <3>2, <3>3
  <2>8. CASE FailedDelivery(x) /\ ~(x.retry < MaxRetries)
    <3>. DEFINE y == Sent(x.proc, x.n, x.retry, "to-dlq")
                z == [x EXCEPT !.place = "persist", !.owned = FALSE]
    <3>1. Replace(x, {y, z})
      BY <2>8 DEF FailedDelivery, GiveUp
    <3>2. y.n = x.n /\ y.place = "to-dlq" /\ ~y.owned /\ z.n = x.n /\ z.place = "persist" /\ ~z.owned
      BY <1>1 DEF Sent, Tasks
    <3>. HIDE DEF y, z
    <3>3. TaskKept(y)' /\ TaskKept(z)' /\ Alive(y)
      BY <3>2 DEF TaskKept, Alive, Wires
    <3>. QED
      BY <3>1, <3>2, <3>3
  <2>. QED
    BY <2>1, <2>3, <2>4, <2>5, <2>6, <2>7, <2>8
<1>. QED
  BY <1>1, <1>2, <1>3, KeptReplaced

LEMMA KeptQuiet ==
  ASSUME KeptInv, UNCHANGED <<hooked, dlq, heard, lost, tasks, copies>>
  PROVE  KeptInv'
BY DEF KeptInv, NoticeAccountedFor, TaskKept, UnderWay, Live, BagIn

LEMMA KeptReplay ==
  ASSUME TypeOK, KeptInv, NEW c \in Calls, SendEvent(c) \/ MarkReplayed(c) \/ MarkReplayedFails(c)
  PROVE  KeptInv'
<1>1. UNCHANGED <<hooked, dlq, heard, lost>> /\ UNCHANGED copies
  BY DEF SendEvent, MarkReplayed, MarkReplayedFails, queueing, history
<1>2. CASE UNCHANGED tasks
  BY <1>1, <1>2, KeptQuiet
<1>3. ASSUME NEW y, Put({y}), ~y.owned, y.place = "to-queue"
      PROVE  KeptInv'
  <2>1. Live' = Live \cup {y}
    BY <1>3, PutLive
  <2>2. \A z \in {y} : TaskKept(z)
    BY <1>3 DEF TaskKept
  <2>3. \A n \in hooked : copies'[n] > 0 => copies[n] > 0 \/ \E z \in {y} : z.n = n /\ Alive(z)
    BY <1>1
  <2>. QED
    BY <1>1, <1>3, <2>1, <2>2, <2>3 DEF KeptInv, NoticeAccountedFor, TaskKept, UnderWay, Alive
<1>4. \A p, n : ~Sent(p, n, 0, "to-queue").owned /\ Sent(p, n, 0, "to-queue").place = "to-queue"
  BY DEF Sent
<1>5. UNCHANGED tasks \/ \E p, n : Put({Sent(p, n, 0, "to-queue")})
  BY DEF SendEvent, MarkReplayed, MarkReplayedFails, queueing
<1>. QED
  BY <1>2, <1>3, <1>4, <1>5

LEMMA KeptStops ==
  ASSUME TypeOK, KeptInv, NEW p \in Procs, ChannelCloses(p) \/ Crash(p) \/ Recover(p)
  PROVE  KeptInv'
<1>1. UNCHANGED <<hooked, dlq, copies, heard>> /\ lost' = lost \cup {x.n : x \in OnWire(p)}
  BY DEF ChannelCloses, Crash, Recover, Restart
<1>2. /\ Owned(p) \subseteq Live /\ OnWire(p) \subseteq Live
      /\ \A x \in Live : x \in Tasks /\ TaskKept(x)
  BY DEF Owned, OfProc, OnWire, TypeOK, KeptInv
<1>3. \A x \in Live : /\ Again(x).n = x.n /\ Alive(Again(x))
                      /\ TaskKept(Again(x))
  BY DEF Again, Queued, Alive, TaskKept
<1>4. \A y : TaskKept(y) => TaskKept(y)'
  BY <1>1 DEF TaskKept
<1>5. \A y \in Live' : TaskKept(y)
  <2>1. CASE ChannelCloses(p)
    <3>1. PICK G : \A y \in Live' :
            y \in Live \/ \E x \in Owned(p) : y = Orphan(x, G) \/ y = Again(x)
      BY <2>1, ClosedLive
    <3>2. ASSUME NEW x \in Owned(p) PROVE TaskKept(Orphan(x, G))
      <4>. DEFINE y == Orphan(x, G)
      <4>1. y.n = x.n /\ ~y.owned /\ (y.place = "persist" \/ y.place = x.place)
        BY <1>2 DEF Orphan, Tasks
      <4>2. x.place \in Held
        BY <1>2 DEF TaskKept, Owned
      <4>. HIDE DEF y
      <4>3. TaskKept(y)
        BY <1>2, <4>1, <4>2 DEF TaskKept, Held
      <4>. QED
        BY <4>3 DEF y
    <3>. QED
      BY <1>2, <1>3, <3>1, <3>2
  <2>2. CASE Restart(p)
    BY <1>2, <1>3, <2>2, RestartedLive
  <2>. QED
    BY <2>1, <2>2 DEF Crash, Recover
<1>6. ASSUME NEW x \in Live, Alive(x)
      PROVE  x \in Live' \/ x.n \in lost' \/ \E y \in Live' : y.n = x.n /\ Alive(y)
  <2>1. CASE x \in OnWire(p)
    BY <1>1, <2>1
  <2>2. CASE x \in Owned(p)
    BY <1>2, <1>3, <2>2, ClosedLive, RestartedLive DEF Crash, Recover
  <2>3. CASE x \notin OnWire(p) \cup Owned(p)
    <3>1. x \notin OfProc(p)
      BY <1>2, <1>6, <2>3, ProcsAssumption DEF Alive, OnWire, Owned, OfProc, TaskKept
    <3>. QED
      BY <2>3, <3>1, ClosedLive, RestartedLive DEF Crash, Recover
  <2>. QED
    BY <2>1, <2>2, <2>3
<1>7. NoticeAccountedFor'
  BY <1>1, <1>6 DEF KeptInv, NoticeAccountedFor, UnderWay, Alive
<1>. QED
  BY <1>4, <1>5, <1>7 DEF KeptInv

LEMMA KeptInit == Init => KeptInv
<1>. SUFFICES ASSUME Init PROVE KeptInv
  OBVIOUS
<1>1. Live = {}
  BY DEF Init, Live, BagToSet, EmptyBag, SetToBag
<1>2. \A n \in hooked : copies[n] = 0
  BY NoticesAssumption DEF Init
<1>. QED
  BY <1>1, <1>2 DEF KeptInv, NoticeAccountedFor

LEMMA KeptStep == TypeOK /\ KeptInv /\ [Next]_vars => KeptInv'
<1>. SUFFICES ASSUME TypeOK, KeptInv, [Next]_vars PROVE KeptInv'
  OBVIOUS
<1>1. CASE \E n \in Notices : Announce(n)
  BY <1>1, KeptAnnounce
<1>2. CASE \E p \in Procs : Recover(p) \/ Crash(p) \/ ChannelCloses(p)
  BY <1>2, KeptStops
<1>3. CASE \E x \in Live : Arrive(x) \/ DelayExpires(x)
  BY <1>3, KeptBroker
<1>4. CASE \E x \in Live : Handler(x) \/ PersistFails(x)
  BY <1>4, KeptHandler DEF Handler
<1>5. CASE \E c \in Calls, p \in Procs : FindEvent(c, p)
  BY <1>5, KeptQuiet DEF FindEvent, queueing, history
<1>6. CASE \E c \in Calls : SendEvent(c) \/ MarkReplayed(c) \/ MarkReplayedFails(c)
  BY <1>6, KeptReplay
<1>7. CASE UNCHANGED vars
  BY <1>7, KeptQuiet DEF vars, queueing, history
<1>. QED
  BY <1>1, <1>2, <1>3, <1>4, <1>5, <1>6, <1>7 DEF Next, Work, Faults, Replay

(* A tenant's event is not forgotten: until the tenant accepted it, a       *)
(* message of it waits or is held by a handler, or it was dead-lettered or  *)
(* lost with a connection, however processes crash and replays overlap      *)
(* (notification.consumer.ts, handleMessage and scheduleRetryOrDlq).        *)
THEOREM NoNoticeForgotten == Spec => []NoticeAccountedFor
<1>1. Init => Inv /\ KeptInv
  BY InvInit, KeptInit
<1>2. Inv /\ KeptInv /\ [Next]_vars => Inv' /\ KeptInv'
  BY TypeStep, ReplayStep, KeptStep DEF Inv
<1>3. KeptInv => NoticeAccountedFor
  BY DEF KeptInv
<1>. QED
  BY <1>1, <1>2, <1>3, PTL DEF Spec

-----------------------------------------------------------------------------
(* The bag of tasks: finitely many, and at least one copy of each.          *)

BagInv == FiniteBag(tasks) /\ Positive(dlq)

LEMMA ReplacedBag ==
  ASSUME BagInv, NEW x \in Live, NEW new, IsFiniteSet(new), Replace(x, new)
  PROVE  FiniteBag(tasks)'
BY ExchangedBag DEF BagInv, Replace, Live, BagToSet

LEMMA PutBag ==
  ASSUME BagInv, NEW new, IsFiniteSet(new), Put(new)
  PROVE  FiniteBag(tasks)'
BY SumBag, SetBag DEF BagInv, Put

LEMMA StoppedBag ==
  ASSUME BagInv, NEW p \in Procs, ChannelCloses(p) \/ Restart(p)
  PROVE  FiniteBag(tasks)'
<1>. DEFINE back    == Moved(tasks, Redelivered(p))
            left(G) == Moved(tasks, Orphaned(p, G))
<1>1. Owned(p) \in SUBSET DOMAIN tasks /\ Live = DOMAIN tasks
  BY DEF Owned, OfProc, Live, BagToSet
<1>2. FiniteBag(back)
  BY <1>1, MovedBag DEF Redelivered, BagInv
<1>3. \A G : FiniteBag(left(G))
  BY <1>1, MovedBag DEF Orphaned, BagInv
<1>4. \A S \in SUBSET Live : FiniteBag(Restrict(tasks, S))
  BY <1>1, PartBag DEF BagInv
<1>. HIDE DEF back, left
<1>5. CASE Restart(p)
  BY <1>2, <1>4, <1>5, SumBag DEF Restart, back
<1>6. CASE ChannelCloses(p)
  <2>. DEFINE stays == Restrict(tasks, Live \ (Owned(p) \cup OnWire(p)))
  <2>1. PICK G : tasks' = stays (+) left(G) (+) back
    BY <1>6 DEF ChannelCloses, back, left
  <2>2. FiniteBag(stays)
    BY <1>4
  <2>. HIDE DEF stays
  <2>3. FiniteBag(stays (+) left(G))
    BY <1>3, <2>2, SumBag
  <2>. QED
    BY <1>2, <2>1, <2>3, SumBag
<1>. QED
  BY <1>5, <1>6

LEMMA BagInit == Init => BagInv
BY FS_EmptySet DEF Init, BagInv, FiniteBag, Positive, EmptyBag, SetToBag

LEMMA BagStep == BagInv /\ [Next]_vars => BagInv'
<1>. SUFFICES ASSUME BagInv, [Next]_vars PROVE BagInv'
  OBVIOUS
<1>. DEFINE Kept == FiniteBag(tasks)'
<1>1. ASSUME NEW a, NEW b PROVE IsFiniteSet({}) /\ IsFiniteSet({a}) /\ IsFiniteSet({a, b})
  <2>1. IsFiniteSet({a}) /\ IsFiniteSet({b})
    BY FS_Singleton
  <2>2. IsFiniteSet({a} \cup {b})
    BY <2>1, FS_Union
  <2>3. {a, b} = {a} \cup {b}
    OBVIOUS
  <2>. QED
    BY <2>1, <2>2, <2>3, FS_EmptySet
<1>2. UNCHANGED tasks => Kept
  BY DEF BagInv
<1>3. Kept
  <2>1. CASE \E n \in Notices : Announce(n)
    <3>1. \E m : Put({m})
      BY <2>1 DEF Announce
    <3>. QED
      BY <1>1, <3>1, PutBag
  <2>2. CASE \E c \in Calls, p \in Procs : FindEvent(c, p)
    BY <1>2, <2>2 DEF FindEvent, queueing
  <2>3. CASE \E p \in Procs : Recover(p) \/ Crash(p) \/ ChannelCloses(p)
    BY <2>3, StoppedBag DEF Recover, Crash
  <2>4. ASSUME NEW x \in Live, \E new : IsFiniteSet(new) /\ Replace(x, new)
        PROVE  Kept
    BY <2>4, ReplacedBag
  <2>5. CASE \E x \in Live : Arrive(x) \/ DelayExpires(x)
    <3>1. \A x : Arrive(x) \/ DelayExpires(x) => \E new : IsFiniteSet(new) /\ Replace(x, new)
      BY <1>1 DEF Arrive, DelayExpires, Becomes, Wires
    <3>. QED
      BY <2>4, <2>5, <3>1
  <2>6. CASE \E x \in Live : Handler(x) \/ PersistFails(x)
    <3>1. \A x, p : Receive(x, p) => \E new : IsFiniteSet(new) /\ Replace(x, new)
      BY <1>1 DEF Receive
    <3>2. \A x : NoWebhook(x) \/ CallWebhook(x) \/ DeliverThrows(x)
            => \E new : IsFiniteSet(new) /\ Replace(x, new)
      BY <1>1 DEF NoWebhook, CallWebhook, DeliverThrows, Becomes
    <3>3. \A x : Ack(x) \/ Abandon(x) \/ FailedDelivery(x) \/ Persist(x) \/ PersistFails(x)
            => \E new : IsFiniteSet(new) /\ Replace(x, new)
      BY <1>1 DEF Ack, Abandon, FailedDelivery, Retry, GiveUp, Persist, PersistFails
    <3>. QED
      BY <2>4, <2>6, <3>1, <3>2, <3>3 DEF Handler
  <2>7. CASE \E c \in Calls : SendEvent(c) \/ MarkReplayed(c) \/ MarkReplayedFails(c)
    <3>1. UNCHANGED tasks \/ \E m : Put({m})
      BY <2>7 DEF SendEvent, MarkReplayed, MarkReplayedFails, queueing
    <3>. QED
      BY <1>1, <1>2, <3>1, PutBag
  <2>8. CASE UNCHANGED vars
    BY <1>2, <2>8 DEF vars, queueing
  <2>. QED
    BY <2>1, <2>2, <2>3, <2>5, <2>6, <2>7, <2>8 DEF Next, Work, Faults, Replay
<1>4. Positive(dlq)'
  <2>1. UNCHANGED dlq \/ \E n : dlq' = dlq (+) SetToBag({n})
    BY DEF Next, Work, Faults, Handler, Replay, vars, queueing, Announce, FindEvent, Recover, Crash, Restart,
           ChannelCloses, Arrive, DelayExpires, Receive, NoWebhook, CallWebhook, DeliverThrows, Ack, Abandon,
           FailedDelivery, Persist, PersistFails, SendEvent, MarkReplayed, MarkReplayedFails, Wires
  <2>. QED
    BY <2>1, AddedPositive DEF BagInv
<1>. QED
  BY <1>3, <1>4 DEF BagInv

-----------------------------------------------------------------------------
(* What a step of one task does to a load.                                  *)

LEMMA DroppedTask ==
  ASSUME BagInv, NEW w, Counted(tasks, w), NEW x \in Live, Replace(x, {})
  PROVE  /\ Load(tasks, w) = Load(tasks', w) + w[x]
         /\ Load(tasks', w) \in Nat /\ w[x] \in Nat
BY DroppedLoad DEF BagInv, Replace, Live, BagToSet

LEMMA ReplacedTask ==
  ASSUME BagInv, NEW w, Counted(tasks, w), NEW x \in Live, NEW y, Replace(x, {y}), w[y] \in Nat
  PROVE  /\ Load(tasks, w) + w[y] = Load(tasks', w) + w[x]
         /\ Load(tasks', w) \in Nat /\ w[x] \in Nat
BY ReplacedLoad DEF BagInv, Replace, Live, BagToSet

LEMMA SplitTask ==
  ASSUME BagInv, NEW w, Counted(tasks, w), NEW x \in Live, NEW y, NEW z, y # z,
         Replace(x, {y, z}), w[y] \in Nat, w[z] \in Nat
  PROVE  /\ Load(tasks, w) + w[y] + w[z] = Load(tasks', w) + w[x]
         /\ Load(tasks', w) \in Nat /\ w[x] \in Nat
<1>1. FiniteBag(tasks) /\ x \in DOMAIN tasks /\ tasks' = Exchanged(tasks, x, {y, z})
  BY DEF BagInv, Replace, Live, BagToSet
<1>2. /\ Load(tasks, w) + w[y] + w[z] = Load(Exchanged(tasks, x, {y, z}), w) + w[x]
      /\ Load(Exchanged(tasks, x, {y, z}), w) \in Nat /\ w[x] \in Nat
  BY <1>1, SplitLoad, Zenon
<1>. QED
  BY <1>1, <1>2, Zenon

LEMMA PutTask ==
  ASSUME NEW w, Counted(tasks, w), NEW y, Put({y}), w[y] \in Nat
  PROVE  /\ Load(tasks', w) = Load(tasks, w) + w[y]
         /\ Load(tasks, w) \in Nat
BY LoadAdd DEF Put

-----------------------------------------------------------------------------
(* Dead letters and their rows.                                             *)

(* The weight that counts the tasks of a notice in one place.               *)
At(n, place) == [x \in Tasks |-> IF x.n = n /\ x.place = place THEN 1 ELSE 0]
DeadSent(n)  == Load(tasks, At(n, "to-dlq"))
ToWrite(n)   == Load(tasks, At(n, "persist"))

LEMMA AtCounted ==
  ASSUME TypeOK, BagInv, NEW n, NEW place
  PROVE  Counted(tasks, At(n, place)) /\ Load(tasks, At(n, place)) \in Nat
<1>1. Counted(tasks, At(n, place))
  BY DEF TypeOK, BagInv, FiniteBag, Positive, Counted, At, Live, BagToSet
<1>. QED
  BY <1>1, LoadType

(* The counts of the model are loads.                                       *)
LEMMA CopiesAreLoads ==
  ASSUME TypeOK, BagInv, NEW n
  PROVE  DeadOf(n) = CountOf(n, dlq) + DeadSent(n) /\ ToList(n) = ToWrite(n)
<1>1. ASSUME NEW place PROVE Load(tasks, At(n, place)) = Total(In(n, place), tasks)
  <2>. DEFINE w == At(n, place)
  <2>1. In(n, place) \in SUBSET DOMAIN tasks
    BY DEF In, Live, BagToSet
  <2>2. \A x \in DOMAIN tasks : w[x] = IF x \in In(n, place) THEN 1 ELSE 0
    BY DEF At, In, TypeOK, Live, BagToSet
  <2>3. Counted(tasks, w)
    BY AtCounted
  <2>. HIDE DEF w
  <2>4. Load(tasks, w) = Total(In(n, place), tasks)
    BY <2>1, <2>2, <2>3, LoadOfSome
  <2>. QED
    BY <2>4 DEF w
<1>. QED
  BY <1>1 DEF DeadOf, ToList, DeadSent, ToWrite

(* For each notice, a dead letter has its row or its insert.                *)
ListedInv ==
  \A n \in Notices \ unlisted : CountOf(n, dlq) + DeadSent(n) <= Cardinality(RowsOf(n)) + ToWrite(n)

LEMMA ListedTypes ==
  ASSUME TypeOK, BagInv, NEW n
  PROVE  /\ CountOf(n, dlq) \in Nat /\ DeadSent(n) \in Nat /\ ToWrite(n) \in Nat
         /\ IsFiniteSet(RowsOf(n)) /\ Cardinality(RowsOf(n)) \in Nat
<1>1. CountOf(n, dlq) \in Nat
  BY DEF CountOf, BagIn, BagToSet, BagInv, FiniteBag, Positive
<1>2. DeadSent(n) \in Nat /\ ToWrite(n) \in Nat
  BY AtCounted DEF DeadSent, ToWrite
<1>3. Len(rows) \in Nat
  BY DEF TypeOK
<1>4. IsFiniteSet(1 .. Len(rows)) /\ RowsOf(n) \in SUBSET (1 .. Len(rows))
  BY <1>3, FS_Interval DEF RowsOf
<1>5. IsFiniteSet(RowsOf(n))
  BY <1>4, FS_Subset
<1>. QED
  BY <1>1, <1>2, <1>5, FS_CardinalityType

(* Each dead letter that a step sends comes with its insert.                *)
LEMMA ListedSame ==
  ASSUME TypeOK, BagInv, ListedInv, unlisted \subseteq unlisted', UNCHANGED dlq,
         \A n \in Notices : RowsOf(n)' = RowsOf(n),
         \A n \in Notices \ unlisted' : \E d \in Nat :
           /\ DeadSent(n)' \in Nat /\ DeadSent(n)' <= DeadSent(n) + d
           /\ ToWrite(n)' \in Nat /\ ToWrite(n)' >= ToWrite(n) + d
  PROVE  ListedInv'
<1>. SUFFICES ASSUME NEW n \in Notices \ unlisted'
              PROVE  CountOf(n, dlq)' + DeadSent(n)' <= Cardinality(RowsOf(n))' + ToWrite(n)'
  BY DEF ListedInv
<1>1. CountOf(n, dlq)' = CountOf(n, dlq) /\ RowsOf(n)' = RowsOf(n)
  BY DEF CountOf
<1>2. CountOf(n, dlq) + DeadSent(n) <= Cardinality(RowsOf(n)) + ToWrite(n)
  BY DEF ListedInv
<1>3. PICK d \in Nat :
        /\ DeadSent(n)' \in Nat /\ DeadSent(n)' <= DeadSent(n) + d
        /\ ToWrite(n)' \in Nat /\ ToWrite(n)' >= ToWrite(n) + d
  OBVIOUS
<1>. QED
  BY <1>1, <1>2, <1>3, ListedTypes

LEMMA ListedKept ==
  ASSUME TypeOK, BagInv, ListedInv, unlisted \subseteq unlisted', UNCHANGED <<dlq, rows>>,
         \A n \in Notices \ unlisted' : \E d \in Nat :
           /\ DeadSent(n)' \in Nat /\ DeadSent(n)' <= DeadSent(n) + d
           /\ ToWrite(n)' \in Nat /\ ToWrite(n)' >= ToWrite(n) + d
  PROVE  ListedInv'
<1>1. \A n \in Notices : RowsOf(n)' = RowsOf(n)
  BY DEF RowsOf
<1>. QED
  BY <1>1, ListedSame

LEMMA AtWeight ==
  ASSUME NEW n, NEW place, NEW x \in Tasks
  PROVE  /\ At(n, place)[x] \in Nat
         /\ x.n = n /\ x.place = place => At(n, place)[x] = 1
         /\ x.n # n \/ x.place # place => At(n, place)[x] = 0
BY DEF At

(* A task that moves on, and neither was to be written nor will be.         *)
LEMMA ListedMoves ==
  ASSUME TypeOK, BagInv, ListedInv, NEW x \in Live, x.place # "persist",
         UNCHANGED <<dlq, rows, unlisted>>,
         Replace(x, {}) \/ \E y \in Tasks : Replace(x, {y}) /\ y.place \notin {"to-dlq", "persist"}
  PROVE  ListedInv'
<1>. x \in Tasks
  BY DEF TypeOK
<1>1. ASSUME NEW n \in Notices, NEW place \in {"to-dlq", "persist"}
      PROVE  /\ Load(tasks', At(n, place)) \in Nat
             /\ Load(tasks, At(n, place)) = Load(tasks', At(n, place)) + At(n, place)[x]
  <2>1. Counted(tasks, At(n, place))
    BY AtCounted
  <2>2. CASE Replace(x, {})
    BY <2>1, <2>2, DroppedTask
  <2>3. CASE \E y \in Tasks : Replace(x, {y}) /\ y.place \notin {"to-dlq", "persist"}
    <3>1. PICK y \in Tasks : Replace(x, {y}) /\ y.place \notin {"to-dlq", "persist"}
      BY <2>3
    <3>2. At(n, place)[y] = 0
      BY <3>1, AtWeight
    <3>3. Load(tasks, At(n, place)) + 0 = Load(tasks', At(n, place)) + At(n, place)[x]
          /\ Load(tasks', At(n, place)) \in Nat
      BY <2>1, <3>1, <3>2, ReplacedTask
    <3>. QED
      BY <3>3, AtCounted
  <2>. QED
    BY <2>2, <2>3
<1>2. ASSUME NEW n \in Notices
      PROVE  /\ DeadSent(n)' \in Nat /\ DeadSent(n)' <= DeadSent(n) + 0
             /\ ToWrite(n)' \in Nat /\ ToWrite(n)' >= ToWrite(n) + 0
  <2>1. At(n, "to-dlq")[x] \in Nat /\ At(n, "persist")[x] = 0
    BY AtWeight
  <2>. QED
    BY <1>1, <2>1 DEF DeadSent, ToWrite
<1>. QED
  BY <1>2, ListedKept

LEMMA ListedGivesUp ==
  ASSUME TypeOK, BagInv, ListedInv, NEW x \in Live, x.place = "failed", GiveUp(x),
         UNCHANGED <<dlq, rows, unlisted>>
  PROVE  ListedInv'
<1>. DEFINE dead   == Sent(x.proc, x.n, x.retry, "to-dlq")
            insert == [x EXCEPT !.place = "persist", !.owned = FALSE]
<1>1. x \in Tasks
  BY DEF TypeOK
<1>2. dead \in Tasks /\ insert \in Tasks
  BY <1>1, TaskRecords DEF Wires, Places
<1>3. /\ dead.n = x.n /\ dead.place = "to-dlq"
      /\ insert.n = x.n /\ insert.place = "persist"
  BY <1>1 DEF Tasks, Sent
<1>4. Replace(x, {dead, insert})
  BY DEF GiveUp
<1>. HIDE DEF dead, insert
<1>5. ASSUME NEW n \in Notices
      PROVE  \E d \in Nat : /\ DeadSent(n)' \in Nat /\ DeadSent(n)' <= DeadSent(n) + d
                            /\ ToWrite(n)' \in Nat /\ ToWrite(n)' >= ToWrite(n) + d
  <2>. DEFINE d == IF x.n = n THEN 1 ELSE 0
  <2>1. dead # insert
    BY <1>3
  <2>2. \A place : Counted(tasks, At(n, place))
    BY AtCounted
  <2>3. /\ At(n, "to-dlq")[x] = 0 /\ At(n, "to-dlq")[dead] = d /\ At(n, "to-dlq")[insert] = 0
        /\ At(n, "persist")[x] = 0 /\ At(n, "persist")[dead] = 0 /\ At(n, "persist")[insert] = d
    BY <1>1, <1>2, <1>3, AtWeight
  <2>4. d \in Nat /\ \A place : At(n, place)[dead] \in Nat /\ At(n, place)[insert] \in Nat
    BY <1>2, AtWeight
  <2>. HIDE DEF d
  <2>5. ASSUME NEW place
        PROVE  /\ Load(tasks', At(n, place)) \in Nat
               /\ Load(tasks, At(n, place)) + At(n, place)[dead] + At(n, place)[insert]
                    = Load(tasks', At(n, place)) + At(n, place)[x]
    <3>. DEFINE w == At(n, place)
    <3>1. Counted(tasks, w) /\ w[dead] \in Nat /\ w[insert] \in Nat
      BY <2>2, <2>4
    <3>. HIDE DEF w
    <3>2. /\ Load(tasks, w) + w[dead] + w[insert] = Load(tasks', w) + w[x]
          /\ Load(tasks', w) \in Nat
      BY <1>1, <1>4, <2>1, <3>1, SplitTask
    <3>. QED
      BY <3>2 DEF w
  <2>6. /\ Load(tasks, At(n, "to-dlq")) + d = Load(tasks', At(n, "to-dlq"))
        /\ Load(tasks, At(n, "persist")) + d = Load(tasks', At(n, "persist"))
    BY <2>3, <2>4, <2>5, AtCounted
  <2>7. Load(tasks, At(n, "to-dlq")) \in Nat /\ Load(tasks, At(n, "persist")) \in Nat
    BY AtCounted
  <2>. QED
    BY <2>4, <2>5, <2>6, <2>7 DEF DeadSent, ToWrite
<1>. QED
  BY <1>5, ListedKept

(* The dead letter arrives in its queue.                                    *)
LEMMA ListedArrives ==
  ASSUME TypeOK, BagInv, ListedInv, NEW x \in Live, Arrive(x)
  PROVE  ListedInv'
<1>. x \in Tasks
  BY DEF TypeOK
<1>1. UNCHANGED <<rows, unlisted>>
  BY DEF Arrive, admin, history
<1>2. CASE x.place # "to-dlq"
  <2>1. UNCHANGED dlq /\ x.place # "persist"
    BY <1>2 DEF Arrive, Wires
  <2>2. PICK place \in {"queue", "delay"} : Replace(x, {Queued(x.n, x.retry, place)})
    BY <1>2 DEF Arrive, Wires
  <2>3. Queued(x.n, x.retry, place) \in Tasks /\ Queued(x.n, x.retry, place).place = place
    BY TaskRecords DEF Places, Queued
  <2>. QED
    BY <1>1, <2>1, <2>2, <2>3, ListedMoves
<1>3. CASE x.place = "to-dlq"
  <2>1. Replace(x, {}) /\ dlq' = dlq (+) SetToBag({x.n})
    BY <1>3 DEF Arrive
  <2>. SUFFICES ASSUME NEW n \in Notices \ unlisted
                PROVE  CountOf(n, dlq)' + DeadSent(n)' <= Cardinality(RowsOf(n))' + ToWrite(n)'
    BY <1>1 DEF ListedInv
  <2>2. /\ DeadSent(n) = DeadSent(n)' + At(n, "to-dlq")[x] /\ DeadSent(n)' \in Nat
        /\ ToWrite(n) = ToWrite(n)' + At(n, "persist")[x] /\ ToWrite(n)' \in Nat
    BY <2>1, AtCounted, DroppedTask DEF DeadSent, ToWrite
  <2>3. At(n, "persist")[x] = 0 /\ At(n, "to-dlq")[x] = (IF x.n = n THEN 1 ELSE 0)
    BY <1>3, AtWeight
  <2>4. CountOf(n, dlq)' = CountOf(n, dlq) + (IF x.n = n THEN 1 ELSE 0)
    BY <2>1 DEF CountOf, BagIn, BagToSet, SetToBag, (+), BagInv, FiniteBag, Positive
  <2>5. RowsOf(n)' = RowsOf(n)
    BY <1>1 DEF RowsOf
  <2>6. CountOf(n, dlq) + DeadSent(n) <= Cardinality(RowsOf(n)) + ToWrite(n)
    BY DEF ListedInv
  <2>. QED
    BY <2>2, <2>3, <2>4, <2>5, <2>6, ListedTypes
<1>. QED
  BY <1>2, <1>3

(* The insert becomes a row, or fails.                                      *)
LEMMA ListedPersists ==
  ASSUME TypeOK, BagInv, ListedInv, NEW x \in Live, Persist(x) \/ PersistFails(x)
  PROVE  ListedInv'
<1>. x \in Tasks
  BY DEF TypeOK
<1>1. x.place = "persist" /\ Replace(x, {}) /\ UNCHANGED dlq
  BY DEF Persist, PersistFails
<1>2. ASSUME NEW n \in Notices
      PROVE  /\ DeadSent(n)' = DeadSent(n)
             /\ ToWrite(n) = ToWrite(n)' + (IF x.n = n THEN 1 ELSE 0) /\ ToWrite(n)' \in Nat
  <2>1. /\ DeadSent(n) = DeadSent(n)' + At(n, "to-dlq")[x] /\ DeadSent(n)' \in Nat
        /\ ToWrite(n) = ToWrite(n)' + At(n, "persist")[x] /\ ToWrite(n)' \in Nat
    BY <1>1, AtCounted, DroppedTask DEF DeadSent, ToWrite
  <2>2. At(n, "to-dlq")[x] = 0 /\ At(n, "persist")[x] = (IF x.n = n THEN 1 ELSE 0)
    BY <1>1, AtWeight
  <2>. QED
    BY <2>1, <2>2
<1>3. CASE Persist(x)
  <2>1. rows' = Append(rows, Row(x.n)) /\ UNCHANGED unlisted
    BY <1>3 DEF Persist, history
  <2>. SUFFICES ASSUME NEW n \in Notices \ unlisted
                PROVE  CountOf(n, dlq)' + DeadSent(n)' <= Cardinality(RowsOf(n))' + ToWrite(n)'
    BY <2>1 DEF ListedInv
  <2>2. CountOf(n, dlq)' = CountOf(n, dlq)
    BY <1>1 DEF CountOf
  <2>3. rows \in Seq(DlqEvents)
    BY DEF TypeOK, DlqEvents
  <2>4. /\ Len(rows) \in Nat /\ Len(rows') = Len(rows) + 1
        /\ \A id \in 1 .. Len(rows) : rows'[id] = rows[id]
        /\ rows'[Len(rows) + 1] = Row(x.n)
    BY <2>1, <2>3
  <2>5. Row(x.n).n = x.n
    BY DEF Row
  <2>6. 1 .. Len(rows') = (1 .. Len(rows)) \cup {Len(rows) + 1} /\ Len(rows) + 1 \notin 1 .. Len(rows)
    BY <2>4
  <2>7. RowsOf(n)' = IF x.n = n THEN RowsOf(n) \cup {Len(rows) + 1} ELSE RowsOf(n)
    BY <2>4, <2>5, <2>6 DEF RowsOf
  <2>8. Len(rows) + 1 \notin RowsOf(n)
    BY <2>6 DEF RowsOf
  <2>9. Cardinality(RowsOf(n))' = Cardinality(RowsOf(n)) + (IF x.n = n THEN 1 ELSE 0)
    <3>1. Cardinality(RowsOf(n) \cup {Len(rows) + 1}) = Cardinality(RowsOf(n)) + 1
      BY <2>8, FS_AddElement, ListedTypes
    <3>. QED
      BY <2>7, <3>1, ListedTypes
  <2>10. CountOf(n, dlq) + DeadSent(n) <= Cardinality(RowsOf(n)) + ToWrite(n)
    BY DEF ListedInv
  <2>. QED
    BY <1>2, <2>2, <2>9, <2>10, ListedTypes
<1>4. CASE PersistFails(x)
  <2>1. UNCHANGED rows /\ unlisted' = unlisted \cup {x.n}
    BY <1>4 DEF PersistFails, admin
  <2>2. \A n \in Notices \ unlisted' : n # x.n
    BY <2>1
  <2>3. ASSUME NEW n \in Notices \ unlisted'
        PROVE  /\ DeadSent(n)' \in Nat /\ DeadSent(n)' <= DeadSent(n) + 0
               /\ ToWrite(n)' \in Nat /\ ToWrite(n)' >= ToWrite(n) + 0
    BY <1>2, <2>2, ListedTypes
  <2>. QED
    BY <1>1, <2>1, <2>3, ListedKept
<1>. QED
  BY <1>3, <1>4

(* An event that is announced or sent again, and the steps of a replay.     *)
LEMMA ListedPut ==
  ASSUME TypeOK, BagInv, ListedInv, UNCHANGED <<dlq, unlisted>>,
         \A n \in Notices : RowsOf(n)' = RowsOf(n),
         UNCHANGED tasks \/ \E y \in Tasks : Put({y}) /\ y.place \notin {"to-dlq", "persist"}
  PROVE  ListedInv'
<1>1. ASSUME NEW n, NEW place \in {"to-dlq", "persist"}
      PROVE  Load(tasks', At(n, place)) = Load(tasks, At(n, place))
  <2>1. CASE UNCHANGED tasks
    BY <2>1
  <2>2. CASE \E y \in Tasks : Put({y}) /\ y.place \notin {"to-dlq", "persist"}
    <3>1. PICK y \in Tasks : Put({y}) /\ y.place \notin {"to-dlq", "persist"}
      BY <2>2
    <3>. DEFINE w == At(n, place)
    <3>2. w[y] = 0 /\ Counted(tasks, w)
      BY <3>1, AtWeight, AtCounted
    <3>. HIDE DEF w
    <3>3. Load(tasks', w) = Load(tasks, w) + w[y] /\ Load(tasks, w) \in Nat
      BY <3>1, <3>2, PutTask
    <3>4. Load(tasks', w) = Load(tasks, w)
      BY <3>2, <3>3
    <3>. QED
      BY <3>4 DEF w
  <2>. QED
    BY <2>1, <2>2
<1>2. ASSUME NEW n \in Notices
      PROVE  /\ DeadSent(n)' \in Nat /\ DeadSent(n)' <= DeadSent(n) + 0
             /\ ToWrite(n)' \in Nat /\ ToWrite(n)' >= ToWrite(n) + 0
  BY <1>1, ListedTypes DEF DeadSent, ToWrite
<1>. QED
  BY <1>2, ListedSame

LEMMA SameNotices ==
  ASSUME rows \in Seq(DlqEvents), NEW i \in 1 .. Len(rows), NEW y \in DlqEvents, y.n = rows[i].n,
         rows' = [rows EXCEPT ![i] = y]
  PROVE  \A n \in Notices : RowsOf(n)' = RowsOf(n)
<1>1. Len(rows') = Len(rows) /\ \A id \in 1 .. Len(rows) : rows'[id] = IF id = i THEN y ELSE rows[id]
  OBVIOUS
<1>. QED
  BY <1>1 DEF RowsOf

LEMMA ListedReplays ==
  ASSUME Inv, BagInv, ListedInv, NEW c \in Calls, SendEvent(c) \/ MarkReplayed(c) \/ MarkReplayedFails(c)
  PROVE  ListedInv'
<1>. DEFINE id == call[c].id
<1>1. TypeOK /\ UNCHANGED <<dlq, unlisted>>
  BY DEF Inv, SendEvent, MarkReplayed, MarkReplayedFails, queueing, history
<1>2. id \in 1 .. Len(rows)
  BY DEF SendEvent, MarkReplayed, MarkReplayedFails, Inv, ReplayInv, Found
<1>3. rows \in Seq(DlqEvents)
  BY <1>1 DEF TypeOK, DlqEvents
<1>4. rows[id] \in DlqEvents
  BY <1>2, <1>3
<1>. HIDE DEF id
<1>5. \A n \in Notices : RowsOf(n)' = RowsOf(n)
  <2>. DEFINE marked == [rows[id] EXCEPT !.replayed = TRUE]
              resent == [rows[id] EXCEPT !.sends = @ + 1]
  <2>1. UNCHANGED rows \/ rows' = [rows EXCEPT ![id] = marked] \/ rows' = [rows EXCEPT ![id] = resent]
    BY DEF SendEvent, MarkReplayed, MarkReplayedFails, id
  <2>2. marked \in DlqEvents /\ marked.n = rows[id].n
    BY <1>4 DEF DlqEvents
  <2>20. resent \in DlqEvents /\ resent.n = rows[id].n
    BY <1>4 DEF DlqEvents
  <2>. HIDE DEF marked, resent
  <2>3. CASE UNCHANGED rows
    BY <2>3 DEF RowsOf
  <2>4. CASE rows' = [rows EXCEPT ![id] = marked]
    BY <1>2, <1>3, <2>2, <2>4, SameNotices
  <2>5. CASE rows' = [rows EXCEPT ![id] = resent]
    BY <1>2, <1>3, <2>20, <2>5, SameNotices
  <2>. QED
    BY <2>1, <2>3, <2>4, <2>5
<1>6. UNCHANGED tasks \/ \E y \in Tasks : Put({y}) /\ y.place \notin {"to-dlq", "persist"}
  <2>1. CASE SendEvent(c) /\ call[c].proc \in up
    <3>. DEFINE m == Sent(call[c].proc, rows[id].n, 0, "to-queue")
    <3>1. Put({m})
      BY <2>1 DEF SendEvent, id
    <3>2. m \in Tasks /\ m.place = "to-queue"
      BY <1>1, <1>4, <2>1, BoundsAssumption DEF TypeOK, Tasks, Sent, Places, Wires, DlqEvents
    <3>. QED
      BY <3>1, <3>2
  <2>2. CASE ~(SendEvent(c) /\ call[c].proc \in up)
    BY <2>2 DEF SendEvent, MarkReplayed, MarkReplayedFails, queueing
  <2>. QED
    BY <2>1, <2>2
<1>. QED
  BY <1>1, <1>5, <1>6, ListedPut

(* A stop of a process adds handlers without a channel and messages in the  *)
(* queue; of the other tasks it only takes away.                            *)
LEMMA StoppedCounts ==
  ASSUME BagInv, NEW p \in Procs, ChannelCloses(p) \/ Restart(p)
  PROVE  /\ \E G : \A y \in Live' :
              \/ \E x \in Owned(p) : y = Again(x) \/ y = Orphan(x, G)
              \/ y \in Live /\ tasks'[y] = tasks[y]
         /\ \A x \in Live :
              \/ x \in Live' /\ tasks'[x] >= tasks[x]
              \/ x \in OnWire(p) \cup Owned(p)
              \/ x \in OfProc(p) /\ Restart(p)
<1>. DEFINE back    == Moved(tasks, Redelivered(p))
            left(G) == Moved(tasks, Orphaned(p, G))
<1>0. \A x \in Live : x \in DOMAIN tasks /\ tasks[x] \in Nat
  BY DEF BagInv, FiniteBag, Positive, Live, BagToSet
<1>1. Owned(p) \in SUBSET DOMAIN tasks /\ FiniteBag(tasks)
  BY DEF Owned, OfProc, Live, BagToSet, BagInv
<1>2. DOMAIN back = {Again(x) : x \in Owned(p)} /\ Positive(back)
  <2>1. DOMAIN back = {Again(x) : x \in Owned(p)}
    BY MovedLive
  <2>2. FiniteBag(back)
    BY <1>1, MovedBag DEF Redelivered
  <2>. QED
    BY <2>1, <2>2 DEF FiniteBag
<1>3. ASSUME NEW G
      PROVE  DOMAIN left(G) = {Orphan(x, G) : x \in Owned(p)} /\ Positive(left(G))
  <2>1. DOMAIN Moved(tasks, Orphaned(p, G)) = {Orphan(x, G) : x \in Owned(p)}
    BY DEF Moved, Orphaned, Range, Orphan
  <2>2. FiniteBag(Moved(tasks, Orphaned(p, G)))
    BY <1>1, MovedBag DEF Orphaned
  <2>. QED
    BY <2>1, <2>2 DEF FiniteBag
<1>4. CASE Restart(p)
  <2>. DEFINE S == Live \ OfProc(p)
  <2>1. tasks' = Restrict(tasks, S) (+) back
    BY <1>4 DEF Restart
  <2>2. DOMAIN Restrict(tasks, S) = S /\ \A x \in S : Restrict(tasks, S)[x] = tasks[x]
    BY DEF Restrict
  <2>. HIDE DEF back, S
  <2>3. /\ DOMAIN tasks' = S \cup DOMAIN back
        /\ \A x \in S : tasks'[x] = tasks[x] + (IF x \in DOMAIN back THEN back[x] ELSE 0)
    BY <2>1, <2>2 DEF (+)
  <2>4. S = Live \ OfProc(p)
    BY DEF S
  <2>5. \A y \in Live' : y \in DOMAIN back \/ (y \in S /\ tasks'[y] = tasks[y])
    BY <1>0, <2>3, <2>4 DEF Live, BagToSet
  <2>6. \A x \in S : x \in Live' /\ tasks'[x] >= tasks[x]
    BY <1>0, <1>2, <2>3, <2>4 DEF Live, BagToSet, Positive
  <2>. QED
    BY <1>2, <1>4, <2>4, <2>5, <2>6
<1>5. CASE ChannelCloses(p)
  <2>. DEFINE S == Live \ (Owned(p) \cup OnWire(p))
  <2>1. PICK G : tasks' = Restrict(tasks, S) (+) left(G) (+) back
    BY <1>5 DEF ChannelCloses
  <2>2. DOMAIN Restrict(tasks, S) = S /\ \A x \in S : Restrict(tasks, S)[x] = tasks[x]
    BY DEF Restrict
  <2>. HIDE DEF back, left, S
  <2>3. /\ DOMAIN tasks' = S \cup DOMAIN left(G) \cup DOMAIN back
        /\ \A x \in S : tasks'[x] = tasks[x] + (IF x \in DOMAIN left(G) THEN left(G)[x] ELSE 0)
                                         + (IF x \in DOMAIN back THEN back[x] ELSE 0)
    BY <2>1, <2>2 DEF (+)
  <2>4. S = Live \ (Owned(p) \cup OnWire(p))
    BY DEF S
  <2>5. \A y \in Live' : y \in DOMAIN left(G) \cup DOMAIN back \/ (y \in S /\ tasks'[y] = tasks[y])
    BY <1>0, <2>3, <2>4 DEF Live, BagToSet
  <2>6. ASSUME NEW x \in S PROVE x \in Live' /\ tasks'[x] >= tasks[x]
    <3>1. x \in DOMAIN left(G) => left(G)[x] \in Nat
      BY <1>3 DEF Positive
    <3>2. x \in DOMAIN back => back[x] \in Nat
      BY <1>2 DEF Positive
    <3>3. tasks[x] \in Nat
      BY <1>0, <2>4
    <3>. QED
      BY <2>3, <3>1, <3>2, <3>3 DEF Live, BagToSet
  <2>7. DOMAIN left(G) = {Orphan(x, G) : x \in Owned(p)}
    BY <1>3
  <2>. QED
    BY <1>2, <2>4, <2>5, <2>6, <2>7
<1>. QED
  BY <1>4, <1>5

LEMMA ListedStops ==
  ASSUME TypeOK, TypeOK', BagInv, BagInv', KeptInv, ListedInv,
         NEW p \in Procs, ChannelCloses(p) \/ Restart(p)
  PROVE  ListedInv'
<1>1. UNCHANGED <<dlq, rows>> /\ unlisted \subseteq unlisted'
  BY DEF ChannelCloses, Restart, admin
<1>2. PICK G : \A y \in Live' :
        \/ \E x \in Owned(p) : y = Again(x) \/ y = Orphan(x, G)
        \/ y \in Live /\ tasks'[y] = tasks[y]
  BY StoppedCounts
<1>3. \A x \in Live : x \in Tasks /\ TaskKept(x)
  BY DEF TypeOK, KeptInv
<1>4. Live = DOMAIN tasks /\ Live' = DOMAIN tasks'
  BY DEF Live, BagToSet
<1>5. \A n, place : Counted(tasks, At(n, place)) /\ Counted(tasks', At(n, place))
  <2>1. \A n, place : Counted(tasks', At(n, place))
    BY DEF TypeOK, BagInv, FiniteBag, Positive, Counted, At, Live, BagToSet
  <2>. QED
    BY <2>1, AtCounted
<1>6. \A y \in Live' : y.place = "to-dlq" => y \in Live /\ tasks'[y] = tasks[y]
  <2>1. \A x \in Owned(p) : x \in Tasks /\ x.place \in Held
    BY <1>3 DEF Owned, OfProc, TaskKept
  <2>2. \A x \in Owned(p) : Again(x).place = "queue"
    BY DEF Again, Queued
  <2>3. \A x \in Owned(p) : Orphan(x, G).place \in Held \cup {"persist"}
    <3>. SUFFICES ASSUME NEW x \in Owned(p) PROVE Orphan(x, G).place \in Held \cup {"persist"}
      OBVIOUS
    <3>1. Orphan(x, G).place = IF x \in G THEN "persist" ELSE x.place
      BY <2>1 DEF Orphan, Tasks
    <3>. QED
      BY <2>1, <3>1
  <2>. QED
    BY <1>2, <2>2, <2>3 DEF Held
<1>7. ASSUME NEW n \in Notices \ unlisted', NEW x \in Live, x.n = n, x.place = "persist"
      PROVE  x \in Live' /\ tasks'[x] >= tasks[x]
  <2>1. x \notin OnWire(p) \cup Owned(p)
    BY <1>3, <1>7 DEF OnWire, Owned, TaskKept, Wires, Held
  <2>2. Restart(p) => x \notin OfProc(p)
    BY <1>7 DEF Restart
  <2>. QED
    BY <2>1, <2>2, StoppedCounts
<1>8. ASSUME NEW n \in Notices \ unlisted'
      PROVE  /\ DeadSent(n)' \in Nat /\ DeadSent(n)' <= DeadSent(n) + 0
             /\ ToWrite(n)' \in Nat /\ ToWrite(n)' >= ToWrite(n) + 0
  <2>1. DeadSent(n)' <= DeadSent(n)
    <3>. DEFINE w == At(n, "to-dlq")
    <3>1. \A y \in DOMAIN tasks' : w[y] > 0 => y.place = "to-dlq"
      BY <1>4 DEF At, TypeOK
    <3>2. \A y \in DOMAIN tasks' : w[y] > 0 => y \in DOMAIN tasks /\ tasks'[y] <= tasks[y]
      BY <1>4, <1>6, <3>1 DEF BagInv, FiniteBag, Positive
    <3>3. Counted(tasks, w) /\ Counted(tasks', w)
      BY <1>5
    <3>. HIDE DEF w
    <3>4. Load(tasks', w) <= Load(tasks, w)
      BY <3>2, <3>3, LoadMonotone
    <3>. QED
      BY <3>4 DEF DeadSent, w
  <2>2. ToWrite(n) <= ToWrite(n)'
    <3>. DEFINE w == At(n, "persist")
    <3>1. \A x \in DOMAIN tasks : w[x] > 0 => x.n = n /\ x.place = "persist"
      BY <1>3, <1>4 DEF At
    <3>2. \A x \in DOMAIN tasks : w[x] > 0 => x \in DOMAIN tasks' /\ tasks[x] <= tasks'[x]
      BY <1>4, <1>7, <3>1 DEF BagInv, FiniteBag, Positive
    <3>3. Counted(tasks, w) /\ Counted(tasks', w)
      BY <1>5
    <3>. HIDE DEF w
    <3>4. Load(tasks, w) <= Load(tasks', w)
      BY <3>2, <3>3, LoadMonotone
    <3>. QED
      BY <3>4 DEF ToWrite, w
  <2>3. DeadSent(n)' \in Nat /\ ToWrite(n)' \in Nat
    BY <1>5, LoadType DEF DeadSent, ToWrite
  <2>. QED
    BY <2>1, <2>2, <2>3, ListedTypes
<1>. QED
  BY <1>1, <1>8, ListedKept

(* The consumer's steps that send no dead letter.                           *)
LEMMA HandlerMoves ==
  ASSUME TypeOK, NEW x \in Live,
         \/ \E p \in Procs : Receive(x, p)
         \/ DelayExpires(x) \/ NoWebhook(x) \/ CallWebhook(x) \/ DeliverThrows(x)
         \/ Ack(x) \/ Abandon(x)
         \/ FailedDelivery(x) /\ x.retry < MaxRetries
  PROVE  /\ UNCHANGED <<dlq, rows, unlisted>> /\ x.place # "persist"
         /\ Replace(x, {}) \/ \E y \in Tasks : Replace(x, {y}) /\ y.place \notin {"to-dlq", "persist"}
<1>. x \in Tasks
  BY DEF TypeOK
<1>1. UNCHANGED <<dlq, rows, unlisted>> /\ x.place # "persist"
  BY DEF Receive, DelayExpires, NoWebhook, CallWebhook, DeliverThrows, Ack, Abandon, FailedDelivery,
         admin, history, Held
<1>2. ASSUME NEW place \in {"queue", "delivered", "failed"}, Becomes(x, place)
      PROVE  \E y \in Tasks : Replace(x, {y}) /\ y.place \notin {"to-dlq", "persist"}
  <2>. DEFINE y == [x EXCEPT !.place = place]
  <2>1. Replace(x, {y}) /\ y.place = place
    BY <1>2 DEF Becomes, Tasks
  <2>2. y \in Tasks
    BY TaskRecords DEF Places, Held
  <2>. QED
    BY <2>1, <2>2
<1>3. CASE \E p \in Procs : Receive(x, p)
  <2>1. PICK p \in Procs : Receive(x, p)
    BY <1>3
  <2>. DEFINE y == [x EXCEPT !.place = "received", !.proc = p, !.owned = TRUE]
  <2>2. Replace(x, {}) \/ Replace(x, {y})
    BY <2>1 DEF Receive
  <2>3. y \in Tasks /\ y.place = "received"
    BY TaskRecords DEF Places, Held, Tasks
  <2>. HIDE DEF y
  <2>. QED
    BY <1>1, <2>2, <2>3
<1>4. CASE DelayExpires(x) \/ NoWebhook(x) \/ CallWebhook(x) \/ DeliverThrows(x)
  <2>1. \E place \in {"queue", "delivered", "failed"} : Becomes(x, place)
    BY <1>4 DEF DelayExpires, NoWebhook, CallWebhook, DeliverThrows
  <2>. QED
    BY <1>1, <1>2, <2>1
<1>5. CASE Ack(x) \/ Abandon(x)
  BY <1>1, <1>5 DEF Ack, Abandon
<1>6. CASE FailedDelivery(x) /\ x.retry < MaxRetries
  <2>. DEFINE y == Sent(x.proc, x.n, x.retry + 1, "to-delay")
  <2>1. Replace(x, {y})
    BY <1>6 DEF FailedDelivery, Retry
  <2>2. y \in Tasks /\ y.place = "to-delay"
    BY <1>6, TaskRecords DEF Sent
  <2>. HIDE DEF y
  <2>. QED
    BY <1>1, <2>1, <2>2
<1>. QED
  BY <1>3, <1>4, <1>5, <1>6

LEMMA ListedStep ==
  Inv /\ Inv' /\ BagInv /\ BagInv' /\ KeptInv /\ ListedInv /\ [Next]_vars => ListedInv'
<1>. SUFFICES ASSUME Inv, Inv', BagInv, BagInv', KeptInv, ListedInv, [Next]_vars PROVE ListedInv'
  OBVIOUS
<1>0. TypeOK /\ TypeOK'
  BY DEF Inv
<1>1. CASE \E n \in Notices : Announce(n)
  <2>1. PICK n \in Notices : Announce(n)
    BY <1>1
  <2>2. UNCHANGED <<dlq, rows, unlisted>> /\ \E retry \in 0 .. MaxRetries : Put({Queued(n, retry, "queue")})
    BY <2>1 DEF Announce, admin
  <2>3. \A retry \in 0 .. MaxRetries :
          Queued(n, retry, "queue") \in Tasks /\ Queued(n, retry, "queue").place = "queue"
    BY DEF Queued, Tasks, Places
  <2>4. \A m \in Notices : RowsOf(m)' = RowsOf(m)
    BY <2>2 DEF RowsOf
  <2>. QED
    BY <1>0, <2>2, <2>3, <2>4, ListedPut
<1>2. CASE \E p \in Procs : Recover(p) \/ Crash(p) \/ ChannelCloses(p)
  BY <1>0, <1>2, ListedStops DEF Recover, Crash
<1>3. CASE \E x \in Live : Arrive(x)
  BY <1>0, <1>3, ListedArrives
<1>4. CASE \E x \in Live : DelayExpires(x) \/ Handler(x) \/ PersistFails(x)
  <2>1. PICK x \in Live : DelayExpires(x) \/ Handler(x) \/ PersistFails(x)
    BY <1>4
  <2>2. CASE Persist(x) \/ PersistFails(x)
    BY <1>0, <2>2, ListedPersists
  <2>3. CASE FailedDelivery(x) /\ ~(x.retry < MaxRetries)
    <3>1. x.place = "failed" /\ GiveUp(x) /\ UNCHANGED <<dlq, rows, unlisted>>
      BY <2>3 DEF FailedDelivery, admin, history
    <3>. QED
      BY <1>0, <3>1, ListedGivesUp
  <2>4. CASE \/ \E p \in Procs : Receive(x, p)
             \/ DelayExpires(x) \/ NoWebhook(x) \/ CallWebhook(x) \/ DeliverThrows(x)
             \/ Ack(x) \/ Abandon(x)
             \/ FailedDelivery(x) /\ x.retry < MaxRetries
    BY <1>0, <2>4, HandlerMoves, ListedMoves
  <2>. QED
    BY <2>1, <2>2, <2>3, <2>4 DEF Handler
<1>5. CASE UNCHANGED <<tasks, dlq, rows, unlisted>>
  <2>1. \A m \in Notices : RowsOf(m)' = RowsOf(m)
    BY <1>5 DEF RowsOf
  <2>. QED
    BY <1>0, <1>5, <2>1, ListedPut
<1>6. CASE \E c \in Calls : SendEvent(c) \/ MarkReplayed(c) \/ MarkReplayedFails(c)
  BY <1>6, ListedReplays
<1>7. (\E c \in Calls, p \in Procs : FindEvent(c, p)) \/ UNCHANGED vars
        => UNCHANGED <<tasks, dlq, rows, unlisted>>
  BY DEF FindEvent, vars, queueing, admin, history
<1>. QED
  BY <1>1, <1>2, <1>3, <1>4, <1>5, <1>6, <1>7 DEF Next, Work, Faults, Replay

LEMMA ListedInit == Init => ListedInv
<1>. SUFFICES ASSUME Init, NEW n \in Notices
              PROVE  CountOf(n, dlq) + DeadSent(n) <= Cardinality(RowsOf(n)) + ToWrite(n)
  BY DEF ListedInv
<1>1. DOMAIN tasks = {} /\ DOMAIN dlq = {} /\ rows = <<>>
  BY DEF Init, EmptyBag, SetToBag
<1>2. \A w : Load(tasks, w) = 0
  BY <1>1, LoadNone
<1>3. DeadSent(n) = 0 /\ ToWrite(n) = 0
  BY <1>2 DEF DeadSent, ToWrite
<1>4. CountOf(n, dlq) = 0
  BY <1>1 DEF CountOf, BagIn, BagToSet
<1>5. RowsOf(n) = {}
  BY <1>1 DEF RowsOf
<1>6. Cardinality(RowsOf(n)) = 0
  BY <1>5, FS_EmptySet
<1>. QED
  BY <1>3, <1>4, <1>6

BagsKept == Inv /\ KeptInv /\ BagInv

LEMMA BagsInit == Init => BagsKept
BY InvInit, KeptInit, BagInit DEF BagsKept

LEMMA BagsStep == BagsKept /\ [Next]_vars => BagsKept'
BY TypeStep, ReplayStep, KeptStep, BagStep DEF Inv, BagsKept

(* What is in the dead letter queue can be replayed: each dead letter has   *)
(* its row or the insert that will write it, unless a write failed or died  *)
(* with its process, although nobody awaits the insert and the publish and  *)
(* the insert end in any order (notification.consumer.ts, publishToDlq).    *)
THEOREM DeadLettersAreListed == Spec => []DeadLettersListed
<1>1. Init => BagsKept /\ ListedInv
  BY BagsInit, ListedInit
<1>2. BagsKept /\ ListedInv /\ [Next]_vars => BagsKept' /\ ListedInv'
  BY BagsStep, ListedStep DEF BagsKept
<1>3. BagsKept /\ ListedInv => DeadLettersListed
  BY CopiesAreLoads DEF BagsKept, Inv, ListedInv, DeadLettersListed
<1>. QED
  BY <1>1, <1>2, <1>3, PTL DEF Spec

-----------------------------------------------------------------------------
(* How often the rows of a notice were sent again.                          *)

RowsIn(r, n)    == {id \in 1 .. Len(r) : r[id].n = n}
SendsOf(r)      == [id \in 1 .. Len(r) |-> r[id].sends]
ResendsIn(r, n) == Total(RowsIn(r, n), SendsOf(r))
Mine(r, n)      == [id \in 1 .. Len(r) |-> IF r[id].n = n THEN 1 ELSE 0]

LEMMA ResendsAreLoads ==
  ASSUME NEW r \in Seq(DlqEvents), NEW n
  PROVE  /\ Counted(SendsOf(r), Mine(r, n))
         /\ ResendsIn(r, n) = Load(SendsOf(r), Mine(r, n))
         /\ ResendsIn(r, n) \in Nat
<1>. DEFINE B == SendsOf(r)
            w == Mine(r, n)
            M == RowsIn(r, n)
<1>1. Len(r) \in Nat /\ \A id \in 1 .. Len(r) : r[id] \in DlqEvents
  OBVIOUS
<1>2. \A id \in 1 .. Len(r) : r[id].sends \in Nat
  BY <1>1 DEF DlqEvents
<1>3. /\ DOMAIN B = 1 .. Len(r)
      /\ \A id \in 1 .. Len(r) : B[id] = r[id].sends /\ w[id] = IF id \in M THEN 1 ELSE 0
  BY DEF SendsOf, Mine, RowsIn
<1>4. M \subseteq 1 .. Len(r)
  BY DEF RowsIn
<1>. HIDE DEF B, w, M
<1>5. IsFiniteSet(1 .. Len(r))
  BY <1>1, FS_Interval
<1>6. Counted(B, w)
  BY <1>2, <1>3, <1>5 DEF Counted
<1>7. Load(B, w) = Total(M, B)
  BY <1>3, <1>4, <1>6, LoadOfSome
<1>. QED
  BY <1>6, <1>7, LoadType DEF B, w, M, ResendsIn

LEMMA ResentOnce ==
  ASSUME NEW r \in Seq(DlqEvents), NEW s \in Seq(DlqEvents), NEW i \in 1 .. Len(r), NEW n,
         Len(s) = Len(r), \A id \in 1 .. Len(r) : s[id].n = r[id].n,
         \A id \in (1 .. Len(r)) \ {i} : s[id].sends = r[id].sends,
         s[i].sends = r[i].sends + 1
  PROVE  ResendsIn(s, n) = ResendsIn(r, n) + (IF r[i].n = n THEN 1 ELSE 0)
<1>. DEFINE B == SendsOf(r)
            C == SendsOf(s)
            w == Mine(r, n)
<1>1. /\ DOMAIN B = 1 .. Len(r) /\ DOMAIN C = 1 .. Len(r)
      /\ \A id \in 1 .. Len(r) : B[id] = r[id].sends /\ C[id] = s[id].sends
  BY DEF SendsOf
<1>2. Mine(s, n) = w
  BY DEF Mine
<1>3. w[i] = IF r[i].n = n THEN 1 ELSE 0
  BY DEF Mine
<1>4. /\ Counted(B, w) /\ Counted(C, w)
      /\ ResendsIn(r, n) = Load(B, w) /\ ResendsIn(s, n) = Load(C, w)
  BY <1>2, ResendsAreLoads
<1>. HIDE DEF B, C, w
<1>5. Rest(C, i) = Rest(B, i) /\ CountOf(i, C) = CountOf(i, B) + 1
  <2>1. C[i] = B[i] + 1 /\ \A id \in (1 .. Len(r)) \ {i} : C[id] = B[id]
    BY <1>1
  <2>2. Rest(C, i) = Rest(B, i)
    BY <1>1, <2>1 DEF Rest
  <2>3. CountOf(i, C) = C[i] /\ CountOf(i, B) = B[i]
    BY <1>1 DEF CountOf, BagIn, BagToSet
  <2>. QED
    BY <2>1, <2>2, <2>3
<1>6. w[i] \in Nat
  BY <1>3
<1>7. Load(C, w) = Load(B, w) + w[i]
  <2>1. Counted(B, w) /\ Counted(C, w)
    BY <1>4
  <2>. QED
    BY ONLY <1>5, <1>6, <2>1, LoadChange
<1>. QED
  BY <1>3, <1>4, <1>7

LEMMA SameResends ==
  ASSUME NEW r, NEW s, NEW n, Len(s) = Len(r),
         \A id \in 1 .. Len(r) : s[id].n = r[id].n /\ s[id].sends = r[id].sends
  PROVE  ResendsIn(s, n) = ResendsIn(r, n)
<1>1. RowsIn(s, n) = RowsIn(r, n) /\ RowsIn(r, n) \subseteq 1 .. Len(r)
  BY DEF RowsIn
<1>2. \A id \in RowsIn(r, n) : SendsOf(s)[id] = SendsOf(r)[id]
  BY <1>1 DEF SendsOf
<1>3. Units(RowsIn(s, n), SendsOf(s)) = Units(RowsIn(r, n), SendsOf(r))
  BY <1>1, <1>2 DEF Units
<1>. QED
  BY <1>3 DEF ResendsIn, Total

LEMMA NewRowUnsent ==
  ASSUME NEW r \in Seq(DlqEvents), NEW m, NEW n
  PROVE  ResendsIn(Append(r, Row(m)), n) = ResendsIn(r, n)
<1>. DEFINE s    == Append(r, Row(m))
            new  == Len(r) + 1
            Of(q, id) == {id} \X (1 .. SendsOf(q)[id])
<1>1. /\ Len(r) \in Nat /\ Len(s) = new
      /\ \A id \in 1 .. Len(r) : s[id] = r[id]
      /\ s[new] = Row(m)
  OBVIOUS
<1>2. SendsOf(s)[new] = 0
  BY <1>1 DEF Row, SendsOf
<1>3. Of(s, new) = {}
  BY <1>2
<1>4. 1 .. Len(s) = (1 .. Len(r)) \cup {new}
  BY <1>1
<1>5. RowsIn(r, n) \subseteq 1 .. Len(r)
  BY DEF RowsIn
<1>. HIDE DEF s, new
<1>6. RowsIn(s, n) = RowsIn(r, n) \/ RowsIn(s, n) = RowsIn(r, n) \cup {new}
  BY <1>1, <1>4 DEF RowsIn
<1>7. \A id \in RowsIn(r, n) : Of(s, id) = Of(r, id)
  BY <1>1, <1>4, <1>5 DEF SendsOf
<1>. HIDE DEF Of
<1>8. UNION {Of(s, id) : id \in RowsIn(s, n)} = UNION {Of(r, id) : id \in RowsIn(r, n)}
  BY <1>3, <1>6, <1>7
<1>. QED
  BY <1>8 DEF ResendsIn, Total, Units, Of, s

-----------------------------------------------------------------------------
(* The calls of the webhook that a message may still lead to: one, and one  *)
(* more for each retry that its header leaves.                              *)

Tries   == MaxRetries + 1
Left(x) == IF x.place \in {"delivered", "persist", "to-dlq"} THEN 0
           ELSE IF x.place = "failed" THEN MaxRetries - x.retry ELSE Tries - x.retry
LeftOf(n) == [x \in Tasks |-> IF x.n = n THEN Left(x) ELSE 0]

Asked(n)    == copies[n] + ResendsIn(rows, n)
Spent(n)    == posts[n] + Load(tasks, LeftOf(n))
RetryInv    == faults = 0 => up = Procs /\ \A n \in Notices : Spent(n) <= Tries * Asked(n)

LEMMA LeftType ==
  ASSUME NEW x \in Tasks
  PROVE  Left(x) \in Nat
BY BoundsAssumption DEF Left, Tries, Tasks

LEMMA LeftWeight ==
  ASSUME NEW n, NEW x \in Tasks
  PROVE  LeftOf(n)[x] = (IF x.n = n THEN Left(x) ELSE 0) /\ LeftOf(n)[x] \in Nat
BY LeftType DEF LeftOf

LEMMA LeftCounted ==
  ASSUME TypeOK, BagInv, NEW n
  PROVE  Counted(tasks, LeftOf(n)) /\ Load(tasks, LeftOf(n)) \in Nat
<1>1. \A x \in DOMAIN tasks : x \in Tasks /\ tasks[x] \in Nat
  BY DEF TypeOK, BagInv, FiniteBag, Positive, Live, BagToSet
<1>2. \A x \in DOMAIN tasks : LeftOf(n)[x] \in Nat
  BY <1>1, LeftWeight
<1>3. Counted(tasks, LeftOf(n))
  BY <1>1, <1>2 DEF Counted, BagInv, FiniteBag
<1>. QED
  BY <1>3, LoadType

LEMMA RetryTypes ==
  ASSUME TypeOK, BagInv, NEW n \in Notices
  PROVE  /\ copies[n] \in Nat /\ ResendsIn(rows, n) \in Nat /\ Asked(n) \in Nat
         /\ posts[n] \in Nat /\ Load(tasks, LeftOf(n)) \in Nat /\ Spent(n) \in Nat
<1>1. rows \in Seq(DlqEvents)
  BY DEF TypeOK, DlqEvents
<1>2. copies[n] \in Nat /\ posts[n] \in Nat
  BY BoundsAssumption DEF TypeOK
<1>. QED
  BY <1>1, <1>2, ResendsAreLoads, LeftCounted DEF Asked, Spent

(* An event that is asked for once more may lead to Tries calls more.       *)
LEMMA RetryKept ==
  ASSUME TypeOK, BagInv, RetryInv, faults' = 0 => faults = 0 /\ UNCHANGED up,
         faults' = 0 => \A n \in Notices :
           /\ Spent(n)' \in Nat
           /\ \/ Asked(n)' = Asked(n) /\ Spent(n)' <= Spent(n)
              \/ Asked(n)' = Asked(n) + 1 /\ Spent(n)' <= Spent(n) + Tries
  PROVE  RetryInv'
<1>. SUFFICES ASSUME faults' = 0, NEW n \in Notices PROVE up' = Procs /\ Spent(n)' <= Tries * Asked(n)'
  BY DEF RetryInv, Tries
<1>. DEFINE m == Tries * Asked(n)
<1>1. up = Procs /\ Spent(n) <= m
  BY DEF RetryInv
<1>2. Tries \in Nat /\ Asked(n) \in Nat /\ Spent(n) \in Nat
  BY BoundsAssumption, RetryTypes DEF Tries
<1>3. m \in Nat /\ (Asked(n) + 1) * Tries = Asked(n) * Tries + Tries
  BY <1>2, ProductType
<1>4. Tries * (Asked(n) + 1) = m + Tries
  <2>1. \A a, b \in Nat : a * b = b * a
    OBVIOUS
  <2>. QED
    BY <1>2, <1>3, <2>1
<1>. HIDE DEF m
<1>5. CASE Asked(n)' = Asked(n) /\ Spent(n)' <= Spent(n)
  <2>1. Tries * Asked(n)' = m
    BY <1>5 DEF m
  <2>2. Spent(n)' \in Nat
    OBVIOUS
  <2>. QED
    BY <1>1, <1>2, <1>3, <1>5, <2>1, <2>2
<1>6. CASE Asked(n)' = Asked(n) + 1 /\ Spent(n)' <= Spent(n) + Tries
  <2>1. Tries * Asked(n)' = m + Tries
    BY <1>4, <1>6
  <2>2. Spent(n)' \in Nat
    OBVIOUS
  <2>. QED
    BY <1>1, <1>2, <1>3, <1>6, <2>1, <2>2
<1>. QED
  BY <1>5, <1>6

(* A task that moves on, after k calls of the webhook.                      *)
LEMMA RetryMoves ==
  ASSUME TypeOK, BagInv, RetryInv, NEW x \in Live, NEW k \in Nat,
         UNCHANGED copies, \A n \in Notices : ResendsIn(rows', n) = ResendsIn(rows, n),
         faults' = 0 => faults = 0 /\ UNCHANGED up,
         \A n \in Notices : posts'[n] = posts[n] + (IF x.n = n THEN k ELSE 0),
         \/ k = 0 /\ Replace(x, {})
         \/ \E y \in Tasks : Replace(x, {y}) /\ y.n = x.n /\ Left(y) + k <= Left(x)
  PROVE  RetryInv'
<1>. x \in Tasks
  BY DEF TypeOK
<1>1. ASSUME NEW n \in Notices
      PROVE  Spent(n)' \in Nat /\ Spent(n)' <= Spent(n)
  <2>. DEFINE w == LeftOf(n)
  <2>1. Counted(tasks, w) /\ Load(tasks, w) \in Nat
    BY LeftCounted
  <2>2. w[x] = (IF x.n = n THEN Left(x) ELSE 0) /\ Left(x) \in Nat
    BY LeftWeight, LeftType
  <2>3. posts[n] \in Nat /\ posts'[n] = posts[n] + (IF x.n = n THEN k ELSE 0)
    BY RetryTypes
  <2>. HIDE DEF w
  <2>4. Load(tasks', w) \in Nat /\ Load(tasks', w) + (IF x.n = n THEN k ELSE 0) <= Load(tasks, w)
    <3>1. CASE k = 0 /\ Replace(x, {})
      <4>1. Load(tasks, w) = Load(tasks', w) + w[x] /\ Load(tasks', w) \in Nat /\ w[x] \in Nat
        BY <2>1, <3>1, DroppedTask
      <4>. QED
        BY <3>1, <4>1
    <3>2. ASSUME NEW y \in Tasks, Replace(x, {y}), y.n = x.n, Left(y) + k <= Left(x)
          PROVE  Load(tasks', w) \in Nat /\ Load(tasks', w) + (IF x.n = n THEN k ELSE 0) <= Load(tasks, w)
      <4>1. w[y] = (IF x.n = n THEN Left(y) ELSE 0) /\ Left(y) \in Nat /\ w[y] \in Nat
        BY <3>2, LeftWeight, LeftType DEF w
      <4>2. Load(tasks, w) + w[y] = Load(tasks', w) + w[x] /\ Load(tasks', w) \in Nat
        BY <2>1, <3>2, <4>1, ReplacedTask
      <4>. QED
        BY <2>1, <2>2, <3>2, <4>1, <4>2
    <3>. QED
      BY <3>1, <3>2
  <2>5. Spent(n) = posts[n] + Load(tasks, w) /\ Spent(n)' = posts'[n] + Load(tasks', w)
    BY DEF Spent, w
  <2>. QED
    BY <2>1, <2>3, <2>4, <2>5
<1>2. \A n \in Notices : Asked(n)' = Asked(n)
  BY DEF Asked
<1>. QED
  BY <1>1, <1>2, RetryKept

LEMMA RetryBroker ==
  ASSUME TypeOK, BagInv, RetryInv, NEW x \in Live, Arrive(x) \/ DelayExpires(x)
  PROVE  RetryInv'
<1>. x \in Tasks
  BY DEF TypeOK
<1>1. UNCHANGED <<up, rows, faults, copies, posts>>
  BY DEF Arrive, DelayExpires, admin, history
<1>2. \A n \in Notices : posts'[n] = posts[n] + (IF x.n = n THEN 0 ELSE 0)
  BY <1>1, RetryTypes
<1>3. Left(x) \in Nat
  BY LeftType
<1>4. \/ Replace(x, {})
      \/ \E y \in Tasks : Replace(x, {y}) /\ y.n = x.n /\ Left(y) + 0 <= Left(x)
  <2>1. CASE Arrive(x) /\ x.place = "to-dlq"
    BY <2>1 DEF Arrive
  <2>2. CASE Arrive(x) /\ x.place # "to-dlq"
    <3>1. PICK place \in {"queue", "delay"} : Replace(x, {Queued(x.n, x.retry, place)})
      BY <2>2 DEF Arrive, Wires
    <3>. DEFINE y == Queued(x.n, x.retry, place)
    <3>2. y \in Tasks /\ y.n = x.n /\ y.place = place /\ y.retry = x.retry
      BY TaskRecords DEF Places, Queued
    <3>3. Left(y) = Left(x)
      BY <2>2, <3>2 DEF Arrive, Left, Wires
    <3>4. Left(y) + 0 <= Left(x)
      BY <1>3, <3>3
    <3>. HIDE DEF y
    <3>. QED
      BY <3>1, <3>2, <3>4 DEF y
  <2>3. CASE DelayExpires(x)
    <3>. DEFINE y == [x EXCEPT !.place = "queue"]
    <3>1. Replace(x, {y}) /\ x.place = "delay"
      BY <2>3 DEF DelayExpires, Becomes
    <3>2. y \in Tasks /\ y.n = x.n /\ y.place = "queue" /\ y.retry = x.retry
      BY TaskRecords DEF Places, Tasks
    <3>. HIDE DEF y
    <3>3. Left(y) = Left(x)
      BY <3>1, <3>2 DEF Left
    <3>4. Left(y) + 0 <= Left(x)
      BY <1>3, <3>3
    <3>. QED
      BY <3>1, <3>2, <3>4
  <2>. QED
    BY <2>1, <2>2, <2>3
<1>. QED
  BY <1>1, <1>2, <1>4, RetryMoves

LEMMA RetryDelivers ==
  ASSUME TypeOK, BagInv, RetryInv, NEW x \in Live,
         \/ \E p \in Procs : Receive(x, p)
         \/ NoWebhook(x) \/ CallWebhook(x) \/ DeliverThrows(x)
  PROVE  RetryInv'
<1>. x \in Tasks
  BY DEF TypeOK
<1>1. UNCHANGED <<up, rows, faults, copies>>
  BY DEF Receive, NoWebhook, CallWebhook, DeliverThrows, admin, history
<1>2. Left(x) \in Nat /\ x.retry \in Nat /\ x.retry <= MaxRetries /\ MaxRetries \in Nat
  BY LeftType, BoundsAssumption DEF Tasks
<1>3. ASSUME NEW place \in {"delivered", "failed"}, Becomes(x, place), x.place = "received"
      PROVE  \E y \in Tasks : Replace(x, {y}) /\ y.n = x.n /\ Left(y) + 1 <= Left(x) /\ Left(y) \in Nat
  <2>. DEFINE y == [x EXCEPT !.place = place]
  <2>1. Replace(x, {y})
    BY <1>3 DEF Becomes
  <2>2. y.n = x.n /\ y.place = place /\ y.retry = x.retry
    BY DEF Tasks
  <2>3. y \in Tasks
    BY TaskRecords DEF Places, Held
  <2>. HIDE DEF y
  <2>4. Left(y) + 1 <= Left(x)
    BY <1>2, <1>3, <2>2 DEF Left, Tries
  <2>. QED
    BY <2>1, <2>2, <2>3, <2>4, LeftType
<1>4. CASE \E p \in Procs : Receive(x, p)
  <2>1. PICK p \in Procs : Receive(x, p)
    BY <1>4
  <2>. DEFINE y == [x EXCEPT !.place = "received", !.proc = p, !.owned = TRUE]
  <2>2. (Replace(x, {}) \/ Replace(x, {y})) /\ UNCHANGED posts /\ x.place = "queue"
    BY <2>1 DEF Receive, history
  <2>3. y \in Tasks
    BY TaskRecords DEF Places, Held
  <2>4. y.n = x.n /\ y.place = "received" /\ y.retry = x.retry
    BY DEF Tasks
  <2>. HIDE DEF y
  <2>5. Left(y) + 0 <= Left(x)
    BY <1>2, <2>2, <2>4 DEF Left, Tries
  <2>6. \A n \in Notices : posts'[n] = posts[n] + (IF x.n = n THEN 0 ELSE 0)
    BY <2>2, RetryTypes
  <2>. QED
    BY <1>1, <2>2, <2>3, <2>4, <2>5, <2>6, RetryMoves
<1>5. CASE NoWebhook(x) \/ DeliverThrows(x)
  <2>1. x.place = "received" /\ UNCHANGED posts
    BY <1>5 DEF NoWebhook, DeliverThrows, history
  <2>2. \E place \in {"delivered", "failed"} : Becomes(x, place)
    BY <1>5 DEF NoWebhook, DeliverThrows
  <2>3. \E y \in Tasks : Replace(x, {y}) /\ y.n = x.n /\ Left(y) + 0 <= Left(x)
    <3>1. PICK y \in Tasks : Replace(x, {y}) /\ y.n = x.n /\ Left(y) + 1 <= Left(x) /\ Left(y) \in Nat
      BY <1>3, <2>1, <2>2
    <3>2. Left(y) + 0 <= Left(x)
      BY <1>2, <3>1
    <3>. QED
      BY <3>1, <3>2
  <2>4. \A n \in Notices : posts'[n] = posts[n] + (IF x.n = n THEN 0 ELSE 0)
    BY <2>1, RetryTypes
  <2>. QED
    BY <1>1, <2>3, <2>4, RetryMoves
<1>6. CASE CallWebhook(x)
  <2>1. x.place = "received" /\ posts' = [posts EXCEPT ![x.n] = @ + 1]
    BY <1>6 DEF CallWebhook
  <2>2. \E place \in {"delivered", "failed"} : Becomes(x, place)
    BY <1>6 DEF CallWebhook
  <2>3. \E y \in Tasks : Replace(x, {y}) /\ y.n = x.n /\ Left(y) + 1 <= Left(x)
    BY <1>3, <2>1, <2>2
  <2>4. \A n \in Notices : posts'[n] = posts[n] + (IF x.n = n THEN 1 ELSE 0)
    BY <2>1, RetryTypes DEF TypeOK, Tasks
  <2>. QED
    BY <1>1, <2>3, <2>4, RetryMoves
<1>. QED
  BY <1>4, <1>5, <1>6

LEMMA RetrySettles ==
  ASSUME TypeOK, BagInv, RetryInv, NEW x \in Live,
         Ack(x) \/ Abandon(x) \/ FailedDelivery(x) \/ Persist(x)
  PROVE  RetryInv'
<1>. x \in Tasks
  BY DEF TypeOK
<1>1. UNCHANGED <<up, faults, copies, posts>>
  BY DEF Ack, Abandon, FailedDelivery, Persist, admin, history
<1>2. \A n \in Notices : posts'[n] = posts[n] + (IF x.n = n THEN 0 ELSE 0)
  BY <1>1, RetryTypes
<1>3. \A n \in Notices : ResendsIn(rows', n) = ResendsIn(rows, n)
  <2>1. rows \in Seq(DlqEvents)
    BY DEF TypeOK, DlqEvents
  <2>2. UNCHANGED rows \/ rows' = Append(rows, Row(x.n))
    BY DEF Ack, Abandon, FailedDelivery, Persist, admin
  <2>. QED
    BY <2>1, <2>2, NewRowUnsent
<1>4. x.retry \in Nat /\ x.retry <= MaxRetries /\ MaxRetries \in Nat
  BY BoundsAssumption DEF Tasks
<1>5. CASE Ack(x) \/ Abandon(x) \/ Persist(x)
  <2>1. Replace(x, {})
    BY <1>5 DEF Ack, Abandon, Persist
  <2>. QED
    BY <1>1, <1>2, <1>3, <2>1, RetryMoves
<1>6. CASE FailedDelivery(x) /\ x.retry < MaxRetries
  <2>. DEFINE y == Sent(x.proc, x.n, x.retry + 1, "to-delay")
  <2>1. Replace(x, {y}) /\ x.place = "failed"
    BY <1>6 DEF FailedDelivery, Retry
  <2>2. y \in Tasks
    BY <1>6, TaskRecords
  <2>3. y.n = x.n /\ y.place = "to-delay" /\ y.retry = x.retry + 1
    BY DEF Sent
  <2>. HIDE DEF y
  <2>4. Left(y) + 0 <= Left(x)
    BY <1>4, <2>1, <2>3 DEF Left, Tries
  <2>. QED
    BY <1>1, <1>2, <1>3, <2>1, <2>2, <2>3, <2>4, RetryMoves
<1>7. CASE FailedDelivery(x) /\ ~(x.retry < MaxRetries)
  <2>. DEFINE dead   == Sent(x.proc, x.n, x.retry, "to-dlq")
              insert == [x EXCEPT !.place = "persist", !.owned = FALSE]
  <2>1. Replace(x, {dead, insert}) /\ UNCHANGED rows
    BY <1>7 DEF FailedDelivery, GiveUp, admin
  <2>2. dead \in Tasks /\ insert \in Tasks
    BY TaskRecords DEF Wires, Places
  <2>3. dead.place = "to-dlq" /\ insert.place = "persist"
    BY DEF Sent, Tasks
  <2>. HIDE DEF dead, insert
  <2>4. ASSUME NEW n \in Notices
        PROVE  Spent(n)' \in Nat /\ Spent(n)' <= Spent(n) /\ Asked(n)' = Asked(n)
    <3>. DEFINE w == LeftOf(n)
    <3>1. w[dead] = 0 /\ w[insert] = 0 /\ dead # insert
      BY <2>2, <2>3, LeftWeight DEF Left
    <3>2. Counted(tasks, w)
      BY LeftCounted
    <3>. HIDE DEF w
    <3>3. Load(tasks, w) + w[dead] + w[insert] = Load(tasks', w) + w[x]
          /\ Load(tasks', w) \in Nat /\ w[x] \in Nat
      <4>1. w[dead] \in Nat /\ w[insert] \in Nat /\ dead # insert
        BY <3>1
      <4>2. Replace(x, {dead, insert})
        BY <2>1
      <4>. QED
        BY <3>2, <4>1, <4>2, SplitTask
    <3>4. Load(tasks, w) \in Nat
      BY <3>2, LoadType
    <3>5. Load(tasks', w) <= Load(tasks, w)
      BY <3>1, <3>3, <3>4
    <3>6. Spent(n) = posts[n] + Load(tasks, w) /\ Spent(n)' = posts[n] + Load(tasks', w)
      BY <1>1 DEF Spent, w
    <3>7. Asked(n)' = Asked(n)
      BY <1>1, <2>1 DEF Asked
    <3>. QED
      BY <3>3, <3>4, <3>5, <3>6, <3>7, RetryTypes
  <2>. QED
    BY <1>1, <2>4, RetryKept
<1>. QED
  BY <1>5, <1>6, <1>7

(* The event is announced, or a row of it is sent again.                    *)
LEMMA RetryAsked ==
  ASSUME TypeOK, BagInv, RetryInv, UNCHANGED <<up, faults, posts>>, NEW m \in Tasks,
         m.place \in {"queue", "to-queue"}, Put({m}),
         \A n \in Notices : Asked(n)' = Asked(n) + (IF m.n = n THEN 1 ELSE 0)
  PROVE  RetryInv'
<1>1. ASSUME NEW n \in Notices
      PROVE  /\ Spent(n)' \in Nat
             /\ \/ Asked(n)' = Asked(n) /\ Spent(n)' <= Spent(n)
                \/ Asked(n)' = Asked(n) + 1 /\ Spent(n)' <= Spent(n) + Tries
  <2>. DEFINE w == LeftOf(n)
  <2>1. Left(m) <= Tries /\ Tries \in Nat
    BY BoundsAssumption DEF Left, Tries, Tasks
  <2>2. w[m] = (IF m.n = n THEN Left(m) ELSE 0) /\ w[m] \in Nat /\ Counted(tasks, w)
    BY <2>1, LeftWeight, LeftCounted
  <2>3. Spent(n) = posts[n] + Load(tasks, w) /\ Spent(n)' = posts[n] + Load(tasks', w)
    BY DEF Spent
  <2>. HIDE DEF w
  <2>4. Load(tasks', w) = Load(tasks, w) + w[m] /\ Load(tasks, w) \in Nat
    BY <2>2, PutTask
  <2>5. posts[n] \in Nat /\ Asked(n) \in Nat /\ Asked(n)' = Asked(n) + (IF m.n = n THEN 1 ELSE 0)
    BY RetryTypes
  <2>. QED
    BY <2>1, <2>2, <2>3, <2>4, <2>5
<1>. QED
  BY <1>1, RetryKept

LEMMA RetryQuiet ==
  ASSUME TypeOK, BagInv, RetryInv, UNCHANGED <<up, tasks, faults, copies, posts>>,
         \A n \in Notices : ResendsIn(rows', n) = ResendsIn(rows, n)
  PROVE  RetryInv'
BY DEF RetryInv, Spent, Asked, Tries

LEMMA RetryReplays ==
  ASSUME Inv, BagInv, RetryInv, NEW c \in Calls, SendEvent(c) \/ MarkReplayed(c)
  PROVE  RetryInv'
<1>. DEFINE id == call[c].id
            marked == [rows[id] EXCEPT !.replayed = TRUE]
            resent == [rows[id] EXCEPT !.sends = @ + 1]
<1>1. TypeOK /\ UNCHANGED <<up, faults, copies, posts>>
  BY DEF Inv, SendEvent, MarkReplayed, queueing, history
<1>2. id \in 1 .. Len(rows)
  BY DEF SendEvent, MarkReplayed, Inv, ReplayInv, Found
<1>3. rows \in Seq(DlqEvents)
  BY <1>1 DEF TypeOK, DlqEvents
<1>4. rows[id] \in DlqEvents
  BY <1>2, <1>3
<1>5. CASE MarkReplayed(c)
  <2>1. rows' = [rows EXCEPT ![id] = marked] /\ UNCHANGED tasks
    BY <1>5 DEF MarkReplayed, queueing
  <2>2. marked.n = rows[id].n /\ marked.sends = rows[id].sends
    BY <1>4 DEF DlqEvents
  <2>. HIDE DEF id, marked
  <2>3. /\ Len(rows') = Len(rows)
        /\ \A i \in 1 .. Len(rows) : rows'[i] = IF i = id THEN marked ELSE rows[i]
    BY <1>2, <1>3, <2>1
  <2>4. \A n \in Notices : ResendsIn(rows', n) = ResendsIn(rows, n)
    BY <2>2, <2>3, SameResends
  <2>. QED
    BY <1>1, <2>1, <2>4, RetryQuiet
<1>6. CASE SendEvent(c) /\ call[c].proc \notin up
  <2>1. UNCHANGED <<tasks, rows>>
    BY <1>6 DEF SendEvent
  <2>. QED
    BY <1>1, <2>1, RetryQuiet
<1>7. CASE SendEvent(c) /\ call[c].proc \in up
  <2>. DEFINE m == Sent(call[c].proc, rows[id].n, 0, "to-queue")
  <2>1. Put({m}) /\ rows' = [rows EXCEPT ![id] = resent]
    BY <1>7 DEF SendEvent
  <2>2. m \in Tasks
    BY <1>1, <1>4, <1>7, BoundsAssumption DEF TypeOK, Tasks, Sent, Places, Wires, DlqEvents
  <2>3. m.n = rows[id].n /\ m.retry = 0 /\ m.place = "to-queue"
    BY DEF Sent
  <2>4. resent.n = rows[id].n /\ resent.sends = rows[id].sends + 1 /\ resent \in DlqEvents
    BY <1>4 DEF DlqEvents
  <2>. HIDE DEF id, resent, m
  <2>5. /\ Len(rows') = Len(rows)
        /\ \A i \in 1 .. Len(rows) : rows'[i] = IF i = id THEN resent ELSE rows[i]
        /\ rows' \in Seq(DlqEvents)
    <3>. HIDE DEF DlqEvents
    <3>. QED
      BY <1>2, <1>3, <2>1, <2>4
  <2>6. ASSUME NEW n \in Notices
        PROVE  Asked(n)' = Asked(n) + (IF m.n = n THEN 1 ELSE 0)
    <3>1. ResendsIn(rows', n) = ResendsIn(rows, n) + (IF rows[id].n = n THEN 1 ELSE 0)
      BY <1>2, <1>3, <2>4, <2>5, ResentOnce
    <3>2. ResendsIn(rows, n) \in Nat /\ copies[n] \in Nat
      BY <1>1, RetryTypes
    <3>. QED
      BY <1>1, <2>3, <3>1, <3>2 DEF Asked
  <2>. QED
    BY <1>1, <2>1, <2>2, <2>3, <2>6, RetryAsked
<1>. QED
  BY <1>5, <1>6, <1>7

LEMMA RetryAnnounce ==
  ASSUME TypeOK, BagInv, RetryInv, NEW n \in Notices, Announce(n)
  PROVE  RetryInv'
<1>0. PICK retry \in 0 .. MaxRetries : Put({Queued(n, retry, "queue")})
  BY DEF Announce
<1>. DEFINE m == Queued(n, retry, "queue")
<1>1. Put({m}) /\ UNCHANGED <<up, faults, posts, rows>> /\ copies' = [copies EXCEPT ![n] = @ + 1]
  BY <1>0 DEF Announce, admin
<1>2. m \in Tasks /\ m.n = n /\ m.place = "queue"
  BY DEF Queued, Tasks, Places
<1>. HIDE DEF m
<1>3. ASSUME NEW k \in Notices
      PROVE  Asked(k)' = Asked(k) + (IF m.n = k THEN 1 ELSE 0)
  <2>1. copies[k] \in Nat /\ ResendsIn(rows, k) \in Nat
    BY RetryTypes
  <2>2. copies'[k] = copies[k] + (IF m.n = k THEN 1 ELSE 0)
    BY <1>1, <1>2, <2>1 DEF TypeOK
  <2>. QED
    BY <1>1, <2>1, <2>2 DEF Asked
<1>. QED
  BY <1>1, <1>2, <1>3, RetryAsked

LEMMA RetryStep == Inv /\ BagInv /\ RetryInv /\ [Next]_vars => RetryInv'
<1>. SUFFICES ASSUME Inv, BagInv, RetryInv, [Next]_vars PROVE RetryInv'
  OBVIOUS
<1>0. TypeOK
  BY DEF Inv
<1>1. CASE \E n \in Notices : Announce(n)
  BY <1>0, <1>1, RetryAnnounce
<1>2. CASE \E x \in Live : Arrive(x) \/ DelayExpires(x)
  BY <1>0, <1>2, RetryBroker
<1>3. CASE \E x \in Live : Handler(x)
  BY <1>0, <1>3, RetryDelivers, RetrySettles DEF Handler
<1>4. CASE \E c \in Calls : SendEvent(c) \/ MarkReplayed(c)
  BY <1>4, RetryReplays
<1>5. CASE UNCHANGED <<up, tasks, rows, faults, copies, posts>>
  BY <1>0, <1>5, RetryQuiet
<1>6. CASE \E p \in Procs : Recover(p)
  <2>1. \E p \in Procs : p \notin up /\ UNCHANGED faults
    BY <1>6 DEF Recover
  <2>. QED
    BY <2>1 DEF RetryInv
<1>7. CASE Faults
  <2>1. faults' = faults + 1
    BY <1>7 DEF Faults, PersistFails, MarkReplayedFails, ChannelCloses, Crash, Fault
  <2>2. faults \in Nat
    BY <1>0, BoundsAssumption DEF TypeOK
  <2>. QED
    BY <2>1, <2>2 DEF RetryInv
<1>8. (\E c \in Calls, p \in Procs : FindEvent(c, p)) \/ UNCHANGED vars
        => UNCHANGED <<up, tasks, rows, faults, copies, posts>>
  BY DEF FindEvent, vars, queueing, admin, history
<1>. QED
  BY <1>1, <1>2, <1>3, <1>4, <1>5, <1>6, <1>7, <1>8 DEF Next, Work, Replay

LEMMA RetryInit == Init => RetryInv
<1>. SUFFICES ASSUME Init, NEW n \in Notices
              PROVE  Spent(n) <= Tries * Asked(n)
  BY DEF RetryInv, Init
<1>1. DOMAIN tasks = {} /\ up = Procs /\ posts[n] = 0 /\ copies[n] = 0 /\ rows \in Seq(DlqEvents)
  BY DEF Init, EmptyBag, SetToBag
<1>2. Load(tasks, LeftOf(n)) = 0
  BY <1>1, LoadNone
<1>3. Spent(n) = 0
  BY <1>1, <1>2 DEF Spent
<1>4. Asked(n) \in Nat
  BY <1>1, ResendsAreLoads DEF Asked
<1>5. Tries * Asked(n) \in Nat
  BY <1>4, BoundsAssumption, ProductType DEF Tries
<1>. QED
  BY <1>1, <1>3, <1>5

(* Without faults a tenant's webhook is called at most once and, after a    *)
(* failed call, MaxRetries times more, for each time the event was          *)
(* announced or one of its rows sent again: a message in any place of its   *)
(* way has as many calls left as its header leaves retries                  *)
(* (notification.consumer.ts, scheduleRetryOrDlq).                          *)
THEOREM RetriedOnce == Spec => []OneRetry
<1>1. Init => Inv /\ BagInv /\ RetryInv
  BY InvInit, BagInit, RetryInit
<1>2. Inv /\ BagInv /\ RetryInv /\ [Next]_vars => Inv' /\ BagInv' /\ RetryInv'
  BY TypeStep, ReplayStep, BagStep, RetryStep DEF Inv
<1>3. ASSUME Inv, BagInv, RetryInv PROVE OneRetry
  <2>. SUFFICES ASSUME faults = 0, NEW n \in Notices
                PROVE  posts[n] <= (MaxRetries + 1) * (copies[n] + Resends(n))
    BY DEF OneRetry
  <2>1. Resends(n) = ResendsIn(rows, n)
    BY DEF Resends, ResendsIn, RowsOf, RowsIn, SendsOf
  <2>2. posts[n] \in Nat /\ Load(tasks, LeftOf(n)) \in Nat /\ Asked(n) \in Nat
    BY <1>3, RetryTypes DEF Inv
  <2>3. Tries * Asked(n) \in Nat
    BY <2>2, BoundsAssumption, ProductType DEF Tries
  <2>4. posts[n] + Load(tasks, LeftOf(n)) <= Tries * Asked(n)
    BY <1>3 DEF RetryInv, Spent
  <2>5. posts[n] <= Tries * Asked(n)
    BY <2>2, <2>3, <2>4
  <2>. QED
    BY <2>1, <2>5 DEF Tries, Asked
<1>. QED
  BY <1>1, <1>2, <1>3, PTL DEF Spec
=============================================================================
