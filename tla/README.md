# TLA+ models of the multi-tenant wallet ledger

These modules describe the parts of the repository that several requests,
processes or browser tabs work on at once: the creation of a transfer, the
posting of its journal entries, the pipeline of outbox, broker and consumers
between the two, what tenants hear of it, what customers see of it, the sessions
of users, and the way of a request past caches, rate limit and API key. TLC checks
them on small instances; TLAPS proves nearly all of their safety properties for all
values of the constants. `PROJECT.json` lists the runs, the source lines of every
definition, the hazards and the findings.

## The system

The API (`src/api`) is a NestJS program on PostgreSQL, Redis and RabbitMQ of
which any number of processes may run. `src/frontend` and `src/dashboard` are
its web clients.

| Component | State | Operations | What makes it correct |
|---|---|---|---|
| Transfer creation (`transfer.service.ts`, `transfer.repository.ts`) | `Transfer`, `OutboxEvent` | `createTransfer`, `createWithOutbox` | no overdraft, one transfer per key, an answer to every call |
| Ledger (`modules/ledger`) | `JournalEntry` | `writeEntryPair`, `computeBalance` | entries come in pairs, once per transfer; sums that are consistent under the caller's lock |
| TransferInitiatedConsumer | messages of `transfer.initiated` | post, set COMPLETED, announce; retry, give up, set FAILED | a status that tells the truth, nothing lost, nothing reserved for ever |
| Outbox (`outbox.worker.ts`, `outbox.repository.ts`) | `OutboxEvent.status` | flush, publish, mark | every committed row gets published |
| Broker topology (`rabbitmq.provider.ts`, `dlq.config.ts`) | queues, delay queues, dead letter queues | route, delay, redeliver | a retried message goes back to its own consumer |
| TransferCompletedConsumer | messages of `transfer.completed` | guarded status update, status event, retry | never moves a status backwards |
| Notifications (`modules/notification`) | messages of `notification.transfer` | webhook, one retry, dead letter | a tenant hears the outcome at least once |
| Dead letter administration (`dlq.service.ts`, `dlq-persist.service.ts`) | `DlqEvent` | persist, list, replay | a replay happens once and re-arms the reservation |
| Sessions (`modules/auth`) | `RefreshToken` families | login, refresh, logout, reuse detection | a revoked family stays revoked, one live token per family |
| API clients (`api-client.ts`, twice) | the refresh in flight and the requests that wait | request, refresh, sign out | every request settles, one refresh at a time |
| Wallets, balance cache (`modules/wallet`) | `Wallet`, Redis | create, read balance | one active wallet per currency, no balance older than its TTL |
| Request caches (`indempotency.middleware.ts`, `api-key.strategy.ts`) | Redis | cache a response, cache a tenant | a repeated request is not executed twice; a revoked key stops working |
| Rate limit (`rate-limit.guard.ts`) | a sorted set per key | admit, reject | never more than the limit in a window |
| Tenants (`modules/tenant`) | `Tenant` | create, rotate keys, deactivate | old keys stop working |
| Status streams (`transfer.controller.ts`, `use-transfer*.ts`) | subscriptions | emit, subscribe, poll | a viewer sees the final status |
| Paging and exports | cursors | next page, stream pages | every row once |
| Money conversion (`money.utils.ts`, `fx-rate.service.ts`) | none | to and from smallest units, convert | rounding never creates money the other side did not pay |

The last column says what each part should do, by the repository's documents,
comments and tests. Where the code does something else, *What the runs found* and
*Where the text says more* say so: among them that a retried completion does not
come back to its consumer, and that a rotated API key goes on working for a while.

How they interact: `createTransfer` writes two rows in one transaction; a
trigger notifies the outbox worker of every process; the worker publishes to the
topic exchange; the initiated consumer posts the journal, updates the row and
publishes `transfer.completed`; the completed consumer and the notification
consumer take it from there. Database rows are the only state the processes
share, and nearly all hazards come from that: several processes and handlers
read a row, wait, and act on what they read, while messages are lost,
duplicated, delayed and misdirected. The hazards are listed with their lines in
`PROJECT.json`.

## The modules

| Module | What it is |
|---|---|
| `WalletFunds` | the sums over journal entries and transfers. A wallet stores no balance: what it holds is a function of the set of posted transfers and of the set of reserved ones |
| `Counting` | sums of amounts, and bags of messages whose copies are counted. `WalletFunds`, `TransferPipeline` and `Notifications` use it |
| `LedgerPromise` | the abstract specification: a transfer is asked, then refused or reserved, then settled or released, and no wallet promises more than it has |
| `TransferTx` | `createWithOutbox`, `writeEntryPair` and the handler of the initiated consumer, statement by statement, with the locks of PostgreSQL |
| `TransferPipeline` | outbox worker, broker, initiated and completed consumer, in several processes that crash and whose channels break |
| `Notifications` | the webhooks: notification consumer, retry, dead letters, their rows and their replay |
| `Sessions` | the `RefreshToken` table and the calls that refresh, log out and revoke, with the row locks |
| `BrowserSessions` | the `api-client` of the web clients on top of it: tabs, one cookie jar, one refresh at a time |
| `RequestClock`, `RateLimit`, `ApiKeys` | the sliding window and the cached tenants, each a protocol of its own with a common clock |
| `Requests` | the way of `POST /transfers` through middleware, rate limit, API key and handler, and the clients that repeat it |
| `BalanceCache`, `TransferPage`, `Exports`, `Wallets` | four views of the ledger, each a protocol of its own |
| `CustomerViews` | the consumers next to the four views |
| `CountingProofs`, `TransferTxProofs`, `TransferPipelineProofs`, `NotificationsProofs`, `SessionsProofs`, `BrowserSessionsProofs`, `RequestsProofs`, `ViewsProofs` | the theorems |
| `MCTransferTx`, `MCTransferPipeline`, `MCNotifications`, `MCBrowserSessions`, `MCRequests`, `MCCustomerViews` | the instances that TLC checks |

Definitions marked "Faulty variant of ..." are the code with a plausible bug
in it. No specification uses them: each shows that one property notices that
bug, when it takes the place of the definition it is a variant of.

### TransferTx

A state of `pc` is where one `createTransfer` call stands: `new`, the statement
it is about to execute (`lock`, `credits`, `debits`, `reserved`, `decide`, `fk`,
`outbox`), or its answer. `seen` holds the three sums its transaction has read.
`status` and `posted` are the committed tables: the status of each `Transfer` row
("none" before the commit) and the transfers whose two `JournalEntry` rows are
there. `at` and `tries` describe each delivery of a `transfer.initiated` message.

Locks are not variables. PostgreSQL holds row locks to the end of a transaction,
so which locks are held follows from the program counters: `ForUpdate(w)` is
the transaction that executed `SELECT ... FOR UPDATE` on `w`, and `KeyShare(w)`
the transactions that inserted a row with a foreign key to `w`. The two exclude
each other, which the code relies on without saying so: it is why no posting
can slip between the three sums, although READ COMMITTED gives each statement
a snapshot of its own. A transaction that inserted an idempotency key makes a
second one with that key wait; a second posting of a transfer waits for the first.

A call may abort at any statement (`TimeOut`), and one call of every waiting
cycle is aborted by the deadlock detector (`DeadlockVictim`). A commit whose
answer never reaches the client counts as `accepted`: the tables are the same.
`HandlerFails` lets every step of the handler throw. `MarkFailed` may fail and
then is swallowed, as in the code. Amounts are natural numbers in smallest
units; what conversion yields them is a constant.

`KeepsPromise` says that the calls and the handlers implement `LedgerPromise`
under the mapping `Stage`: a transfer is settled once its journal entries are
committed, whatever its row says, reserved while its row is INITIATED, and
released once the row left INITIATED without them.

### TransferPipeline

`tasks` is a bag of everything under way: messages in a queue, frames written
to a connection and not yet read by the broker (`to-...`), and running handlers
at one of their steps. A handler `owned` by an open channel still holds its message;
when the channel closes the message returns to its queue and the handler runs
on without it, as amqplib leaves it to. `worker` is each process's flush: the
batch it read and the row it is at. `up` are the processes with an open channel;
the program never opens another, so only a restart (`Recover`) brings one
back. `lost` records the transfers of which a frame was lost with its
connection, so that the properties can say that nothing else loses one. `repeated` is history
too: how often a delay queue sent a `TRANSFER_COMPLETED` through the topic exchange,
which also takes it to the notification queue.

Rows are published in any order rather than by `createdAt`, queues deliver in
any order, and a flush may start at any time: that covers the notification, the
60 s timer and a notification that `isRunning` drops. The journal pair is one
step here, since `TransferTx` shows what that transaction does.

### Notifications

`Announce` is where `TransferPipeline` ends: a message whose routing key matches
`transfer.*` reaches `notification.transfer`. It may arrive with any retry count, since
a `TRANSFER_COMPLETED` that the completed consumer retried comes through the topic exchange with the
`x-retry-count` of that consumer, which the notification consumer then reads as its own. `tasks`, `up` and `lost` are as in
`TransferPipeline`. `dlq` is the dead letter queue, which nobody consumes; `rows`
is the `DlqEvent` table, by which an administrator replays. The insert of a row
is a task of its own (`persist`) that nobody awaits. A call of `replayEvent`
(`call`) is one step between two awaits: find and check, send, mark. `hooked`
is chosen initially, since a tenant's webhook is set when the tenant is created.

The branch of `replayEvent` that re-arms the reservation of a transfer is for dead
letters of `transfer.initiated`. The initiated consumer publishes those to their
queue but persists no `DlqEvent`, so no row leads there and the branch is left
out. The rows of the completed consumer are left out too, since its retries go
elsewhere (finding 5) and it never gives up: that is `CompletedQueueStaysFresh` of
`TransferPipelineProofs`.

### Sessions and BrowserSessions

`tokens` is the `RefreshToken` table without the two columns that change, which are
the sets `revoked` and `replaced` of its rows. A token is its place in the table, and
a family is named by the token its login issued. `call` is where each call of the
API stands, by the statement it waits for: a refresh looks its token up
(`refresh`), updates the old row (`rotate`), inserts the new one (`insert`); a
revocation is one `UPDATE`, which sees the rows that were committed when it began
(`Snapshot`) and waits for those that a rotation has locked. `ended`, `overlapped`
and `forked` are history: without them no property could say when the code keeps
what its comments promise. It keeps it unless calls overlap: two refreshes of one
token that both find it valid both rotate it (`auth.service.ts:146`), and a
rotation that has passed its check survives a logout that runs at the same time
(`auth.repository.ts:77`), although `auth.service.ts:187` says that the whole
family is revoked. `EndedStaysEnded` and `OneLiveToken` excuse these overlaps by
name: they show that nothing else goes wrong.

`BrowserSessions` adds the `api-client`: `req` is where each request of a page is,
`refreshing` the flag `isRefreshing` of each tab (a module variable, so every tab has
its own), `page` what the tab shows, `jar` the cookies all tabs share. A cookie is
set and the page's code continues in one step, because nothing of the client runs
in between; an answer to a page that is gone still sets cookies (`Unheard`). The
dashboard's client is the same code.

Nothing in the repository deletes users, checks the stored `expiresAt`, reads
`replacedByHash` or calls `deleteExpiredRefreshTokens`, so none of this is modelled.
Neither interface calls the logout of all devices, which is why it comes from
another device (`LogOutAll`).

### RateLimit, ApiKeys and Requests

`limiter` are the members of the sorted sets of Redis, as places in `admissions`, the
history of all requests let in. The script gets its time from the process that
runs it, so a request carries a reading at most `Slack` behind Redis' own time:
that process's clock may be slow or the request may have waited.

`tenant` is the row: the number of its current key and whether it is active.
`apiCache` holds the cached row for each key with its time of expiry. An administrator's
call reads the tenant and updates it later, whatever has become of it (`admin`).
A call that missed the cache stores what it read (`StoreRow`), although the row may
have changed; `unsettled` remembers when that happened. Nothing deletes an entry,
neither a rotation nor a deactivation, so a call may be authorized by a key that was
rotated minutes ago. `PROJECT_PLAN.md:75` and the dialog of the dashboard
(`copy.ts:20`) say that the old key is invalid immediately. The code does not do
that, and no property here says that it does: `KeyJudgedByRecentRow` is what the code
keeps, and all it keeps. A wrong judgement is over one lifetime of the cache after the
row changed, or after the last call stored a row that it had read before the change.

`Requests` follows one call through `IdempotencyMiddleware`, `RateLimitGuard` (the only
global guard), `ApiKeyStrategy` and the handler, in this order, as NestJS runs
middleware before guards: an answer that is cached by idempotency key is given
before anything else is looked at. `FindKey` merges the lookup that misses with the
query behind it, since only a step of somebody else could come between and may as
well come before. A client means one transfer; the web form draws a new
idempotency key after every error, a program keeps its own. `cached` are the keys with a
cached answer, `excused` those of which an answer did not get into the cache or has
expired, `doubted` the clients that were left without an answer or with a wrong one.

A repeated request is answered from the cache only when the first has been answered: a
duplicate that overlaps gets an error (422) and not, as `SYSTEM_DESIGN.md:443` says,
the original response. `DuplicateIsExplained` says that this, an answer that was not
stored, and its expiry are all that leads there.
The modules describe one tenant, although the cache key of the middleware does not
contain the tenant, so that keys of two tenants are told apart only by their being
random. Left out are the expiry of an API key after a year, the timestamp of its last use,
the webhook secret, and the tenant of the system, which cannot be switched off.

### BalanceCache, TransferPage, Exports, Wallets and CustomerViews

Each of the first four is one thing a customer or an administrator looks at, with the
actions that change it; `CustomerViews` joins them to the consumers (`work`), so that
one `Post`, `Complete` or `Emit` of a consumer is what invalidates a balance, changes a
page's status or sends its event.

* `getBalance` reads two sums in two queries without a transaction and stores their
  difference; the consumer deletes the entry after its commits. A posting between
  the queries may even make the sum negative. A hit changes nothing and is no action.
  Amounts are one unit each, which is enough to tell a balance from another one.
* A page reads the transfer and then opens a stream to one process (`Loads`, `Connects`).
  An event reaches only the streams of the process that handles `TRANSFER_COMPLETED`,
  and there is no event for FAILED. The `EventSource` connects again when a stream
  ends, but not when it is refused.
* An export pages from the newest row to the oldest after the cursor of the page
  before; `createdAt` is when the row's transaction began, so that rows may turn up
  behind the cursor. If the client leaves while the export waits for `drain`, it
  waits for ever (`Stalls`, `transfer.service.ts:224`). The route modelled is the
  administrator's: `GET /transfers/export` is never reached, since
  `@Get(':id')` is declared before it (`transfer.controller.ts:118` and `:152`).
* `createWallet` looks for a wallet of the currency and creates one if there is none,
  with more attempts if the number it drew is taken. No index forbids a second one.

`BalanceExplained`, `WaitIsExplained` and `OneWallet` name the ways in which a balance
is old, a page waits for nothing or a wallet is doubled, and show that there is no
other. That a balance may be old for a short time is what `SYSTEM_DESIGN.md:442`
says; that pages wait and wallets are doubled is not what the repository's texts say.

A consumer that stops after its journal commit is called again and can only fail
(finding 2), and so does a `TRANSFER_COMPLETED` that is retried, since it comes back as
an initiated transfer (finding 5): hence `Stop`, `StopNotice` and the stage `again`.

## The runs

| Run | Instance | Shows |
|---|---|---|
| `transfer_tx` | 3 wallets with 3 units each, 4 transfers of 2 units, one delivery each, 1 retry; about 21 000 states | all properties of `TransferTx` |
| `transfer_tx_copies` | 2 transfers, 2 deliveries each, no retry | finding 1 |
| `transfer_pipeline` | 1 transfer, 2 interchangeable processes, 1 retry, 1 fault; about 1.1 million states | the safety of the pipeline; a completion is announced once by its handler, and repeated to the notification queue no more than `MAX_RETRIES` times |
| `pipeline_settles` | 1 transfer, 2 processes, the program's 3 retries, no fault; about 63 000 states | every accepted transfer ends |
| `pipeline_failed` | 1 transfer, 1 process | finding 2 |
| `pipeline_outbox` | 1 transfer, 1 process, 1 fault | finding 3 |
| `pipeline_retries` | 1 transfer, 1 process, 1 retry, no fault | finding 5 |
| `notifications` | a notice of a tenant with or without a webhook and one of another event, 2 processes, 1 replay, the program's 1 retry, 1 fault; about 221 000 states | the webhooks, dead letters and replay; without faults every notice ends |
| `replay_twice` | 1 notice, 1 process, 2 replays | finding 4 |
| `sessions` | 1 user, 2 tabs with 3 requests of which one may be the logout button's, 2 calls on the server, 3 tokens, 1 fault; the clock ticks once, past the expiry of the session | one live token, ended sessions stay ended, nobody waits in vain, no false alarm |
| `requests` | a form and a program with one API key, 2 calls, 1 administrator's command, a limit of 2 in a window of 2 with a slack of 1, 3 requests in all, 1 fault of each kind; about 1.85 million states | the limit, a bound on how stale a cached tenant can be, one transfer per intent, true answers |
| `views` | 3 transfers of which the second debits, 2 processes, 2 calls of `getBalance`, the pages of two transfers, pages of one row, 2 filters, 2 calls of `createWallet` | what is shown is right, or wrong for a named reason |

Why these bounds are enough to be interesting. In `transfer_tx` one wallet can
pay for one of two transfers but not both, a crossing transfer brings in one unit
at another rate so that the second becomes payable exactly when the first is
given up or the third settles, two calls share an idempotency key while they lock
different wallets, and a fourth call is invalid. All cycles of two and three
transactions occur. The properties of `TransferTx` that matter are proved
for all constants besides. In the pipeline messages of different transfers do
not affect each other except through the order of a worker's batch, so one
transfer in two processes shows the duplicates, the redelivery while an orphaned
handler still runs, and the second worker that publishes the same row. One fault
in each place is what the design documents discuss; two are out of reach of a
run of a few minutes.

In `sessions` two tabs are what it takes for two refreshes of one cookie, two
requests in one tab for a queue, two calls on the server for a logout that meets a
rotation, and a third token for a family that forks. In `requests` three requests are
what it takes to exceed a limit of two, to repeat a request while it is served, and
to make a form try again; the clock runs as long as a lifetime of the cache, so that
an entry and the window expire within the run. In `views` the debit can be paid only
after the credit, a row can turn up behind an export's cursor, and two sums can be
read around one posting. There the views are looked at one at a time (`OneAtATime`):
no view changes another or a consumer, so their combinations would add
states and no behaviour. `ViewsProofs` has the properties without this bound.

Symmetry is used only where no liveness is checked. Deadlock is not checked,
since the system stops when all transfers are answered and settled.

### Fairness

`TransferTx` assumes that a call that is not blocked runs on, that PostgreSQL's
deadlock detector runs, and that a handler, once called, runs on. It promises
nothing about deliveries. `TransferPipeline` assumes that while there is work,
somebody does some of it: the worker polls every minute, the consumers are
subscribed, delays expire. `Notifications` assumes the same of its handlers and of
replays that have begun. No fairness is assumed for `Recover`, because nothing
in the program reconnects.

The other modules assume none and check no liveness. That a request which waits for a
refresh is heard is stated as safety: somebody in its tab is there to end the wait
(`WaitersAreHeard`); that this one goes on is up to `fetch`, which has no timeout in
the client.

### What the runs found

1. `NoOverdraft` with two deliveries of one message: one gives up and releases
   the reservation, another call spends the funds, the other delivery posts.
2. `FailedMeansUnposted`: once the journal is committed no retry gets past the
   unique index, as the ledger service replaces the database error that the
   consumer looks for. The transfer ends FAILED with its money moved.
3. `AtLeastOnce`: an outbox row that failed once is never read again.
4. `ReplayedOnce`: two replays of one dead letter that overlap both find it
   unreplayed and both send it.
5. `RetriesComeBack`: all delay queues return to `transfer.initiated`. A completion
   that its consumer retries is handled as a new transfer, fails at the journal, and
   ends FAILED. `README.md:269-276` of the repository has three retries and a dead
   letter queue for this consumer as well; it gets neither.

### Where the text says more

Here the code departs from what the repository says of it as well. The models have
each of these behaviours; the property named bounds it, or excuses it by name and
shows that nothing else goes wrong. None of them shows that the text is right.

* A rotated API key works until its cached row expires (`KeyJudgedByRecentRow`);
  `PROJECT_PLAN.md:75` and the dashboard's `copy.ts:20` say that it is invalid
  immediately.
* Between the posting of a debit and the status update the amount is both in the
  balance and in the reservations, and a call may be refused that the wallet can pay
  for; `transfer.repository.ts:46-47` says that the reservations are those whose debit
  has not posted yet. It errs on the safe side (`NoOverdraft`, `SnapshotHolds`).
* The update to FAILED has no guard and overwrites a COMPLETED that pages were told
  of, which `use-transfer.ts:9` takes for final. This too is a FAILED transfer whose
  money moved (finding 2).
* The update to FAILED comes after the ack and the dead letter, and its error is
  swallowed. A crash or an error in between leaves the transfer INITIATED and its
  amount reserved, with a dead letter (`AccountedFor`) that nobody consumes;
  `transfer-initiated.consumer.ts:220-223` says that the reservation must be released.
* A dead letter whose insert failed or was cut off has no `DlqEvent`
  (`DeadLettersListed`), and those of the initiated consumer never get one: neither
  `scheduleRetryOrDlq` nor anything it calls inserts it. `README.md:278` says that
  failed messages are persisted to that table.
* A request that is repeated while the first is served gets an error
  (`DuplicateIsExplained`), not the original response of `SYSTEM_DESIGN.md:443`.
* A refresh that found its token valid before a logout inserts the next token after
  it (`EndedStaysEnded`); `auth.service.ts:187` says that the whole family is revoked.
* A page that reads INITIATED and connects after the event, or to a process that did
  not handle it, waits although it listens, and no page is told of a failure
  (`WaitIsExplained`); `PROJECT_PLAN.md:370` has updates appear without a refresh.
* Two overlapping calls of `createWallet` give a user two wallets of one currency
  (`OneWallet`), which the check at `wallet.service.ts:37-42` is there to prevent.

Other excuses contradict no text of the repository: two refreshes of one token fork
a family (`forked`), a crossed or lost answer lets an honest browser end its own
session, a balance is stored late, a request that joins the refresh queue while
a failed refresh signs out is left unanswered with the page it belongs to, and
a retried completion makes a second webhook. The notes of the hazards in
`PROJECT.json` say so one by one.

## What is proved

`TransferTxProofs` proves, from the assumptions named in the modules (finitely
many transfers, wallets for sources and destinations, natural amounts and
opening balances, a natural number of retries):

* `TypeCorrect`: `Spec => []TypeOK`.
* `SnapshotsHold`: `Spec => []SnapshotHolds`. `SnapshotHolds` is not inductive:
  that a posting cannot commit while a call holds the wallet needs `LocksExclude`
  (a transaction past its lock excludes all others on that wallet), and that
  a status update only ends reservations needs `RowsCommitted` (a row exists
  exactly when its call was accepted). With `Decided` they make up `LockInv`.
* `NeverOverdrawn`: `Spec => []NoOverdraft`, if a message is delivered once.
  `FundsInv` adds `PostedOrPending`: a transfer whose entries are not posted is
  still INITIATED unless its only delivery gave up. The assumption is needed:
  finding 1 is what happens without it.
* `PostingsNeverDeadlock`: a posting is on no cycle of the waits-for graph,
  because whoever waits for one is at its first statement and holds nothing.
* `PromiseKept`: `Spec => KeepsPromise`, with the same assumption.

* `KeysAreUnique`: `Spec => []OneTransferPerKey`. `KeysClaimedOnce` says that one
  call at most has claimed a key, from its insert on, and not only once it committed.

`CountingProofs` has the lemmas on sums and on bags. A sum is the cardinality of a set
of units, so that monotonicity and union come from the library's theorems on
finite sets and no induction is needed. `Load(B, w)` is the number of copies in the bag `B`,
each counted with the weight `w` of its message; it is the cardinality of a set
of numbered pairs. What a step does to it when it takes, replaces or adds copies
(`LoadSplit`, `LoadChange`, `LoadAdd`), what two bags carry together (`SumLoad`), how a
load divides among the parts of a bag (`PartsLoad`) and what becomes of it when every message
turns into another one, as when a channel closes (`MovedLoad`), follow without
induction as well. Three of the proof modules use them.

`TransferPipelineProofs` proves every invariant of `TransferPipeline`, for any
transfers, processes, retries and faults. `RealInv`: only a posted transfer has a handler
past its journal or a completion message. `DeadLetterInv`: a handler that holds its message
has not acknowledged it, and one that is about to mark a transfer FAILED has its message
kept. `AccountedInv` follows a message from the outbox to its end: a flush
that is about to mark a row published has written its frame, and a frame is in a
queue, held, or lost.

* `RepeatsAreBounded`: `Spec => []CompletionRepeats`. `Ahead(x)` is what a copy of `x` may yet
  send through the topic exchange, from its place and its retry header. `RepeatInv`: for
  a posted transfer, the repeats so far, the announcement, and what all copies have ahead of them
  (`Due`, a load) are together at most `MaxRetries + 1`. Crashes and broken
  channels are where this could fail, because they copy messages: a message is queued again while its
  orphaned handler runs on. But an orphan that has a retry to publish finds its channel
  closed, and the redelivered message has no more ahead of it than it had before.
* `CompletionAnnouncedOnce`: only one handler of `transfer.initiated` publishes the
  completion of a transfer, although several may run, since the others fail at the journal.

`NotificationsProofs` proves every invariant of `Notifications`. `TypeOK`,
`NoticeAccountedFor` and `ReplayedWasSent` (a call of `replayEvent` that is about to mark
its row has sent it) ask whether a message is there. `DeadLettersListed` and `OneRetry`
count the copies of equal messages, as loads of `CountingProofs`. `BagInv`: finitely many distinct messages, each counted at least
once.

* `DeadLettersAreListed`. `ListedInv` counts, for a notice that no crash or
  failed insert is recorded for, the dead letters in the queue and on their way on one side,
  the rows and the inserts under way on the other. It names the two counts as loads;
  what is proved of each step is which of the four counts it moves.
* `RetriedOnce`. `RetryInv`: as long as nothing failed, the calls of the webhook made so far and
  those that each message still has ahead of it (`Left`, from its place and
  retry header) are at most `MaxRetries + 1` for each announcement and each replay.
  `OneRetry` alone is not inductive, since it says nothing of the messages
  under way. That no fault happened also means that every process is up, so no message
  is redelivered.

`SessionsProofs` proves the three properties of `Sessions` for any number of users,
calls and tokens, for clients that send any token they were ever given
(`SessionsSpec`; no assumption about the browser). The inductive invariant
`SessionsInv` says, besides the types, that a token which is being rotated is its
family's only live one unless the family forked, that what a revocation has in its
snapshot is all there is unless a rotation overlaps, and that tokens inherit their
expiry.

`BrowserSessionsProofs` proves every property of the run `sessions`, for any tabs,
requests and faults. The client only takes steps that keep `SessionsInv`. `TabInv`: in
each tab at most one request refreshes, `isRefreshing` is set while it does, and only
while some request of the tab refreshes or signs out. `CalmInv` is behind `NoFalseAlarm`: as long as no calls crossed and
nothing failed, one request at most is in flight, the API serves no other, and neither
the cookie nor a call has a token that was rotated.

`RequestsProofs` proves every property of the run `requests`, for any clients, calls,
limits and lifetimes. `Requests` implements `RateLimitSpec` and `ApiKeysSpec`
(`Implements`), so `RateHolds` and `StaleEntriesExpire` are proved there on their own.
`KeyJudged` is the bound on the age of a judgement, not the immediate invalidation
that the documents promise. `RateInv` is why the limit holds: whatever was let in
within a window less the slack is still a member of its sorted set, and no set grows
past the limit. `KeysInv` bounds the expiry of an entry that contradicts the table.
For the rest, `ControlOK` relates the calls to the clients that wait for them,
`KeyedInv` the handler and the cache to the transfers of their key, and `ClientsInv`
what a client was told to what there is.

`ViewsProofs` proves every property of the run `views`, for any transfers, calls,
processes, filters and page sizes. `CustomerViews` implements `BalanceSpec`, `ExportSpec`
and `WalletsSpec`. `BalanceInv`: the sums of a call that no posting crossed are the
journal's. `ExportInv`: what an export wants and has not written lies before its
cursor, and all it has written lies after. `PageInv` relates a page to the stage of its
transfer. That a page has a last row is proved with the library's theorem on
well-founded sets, so that no induction over data is needed.

Every invariant and action property of the passing runs is proved. Only model-checked:
the refuted statements of the findings; and liveness (`EveryCallAnswered`, `Settles`,
`NoticeSettles`), which TLAPS does not cover.

## Not modelled

* Money conversion (`money.utils.ts`, `fx-rate.service.ts`): what could go wrong is the
  rounding of IEEE doubles (`Math.round(amount * 10 ** decimals)`), which integers
  cannot express. Amounts are natural numbers in the models, and a conversion is
  any relation between the two amounts of a transfer.
* Tenant scoping: a filter on every query of a request. The modules describe one tenant.
* Rows of equal `createdAt`, whose order is the database's, a filter by a status that
  changes while an export runs, and the lists of the user interfaces, which ask for
  one page at a time with the same query.
* The activity feeds of the dashboard, which list what they are sent and keep no status.
* Creation and profile of tenants, registration: single updates.
* Message bodies that do not parse, which no publisher of the program sends.
* Health checks, rendering, seeds and scripts, and the generated Prisma client: no
  state of their own.
