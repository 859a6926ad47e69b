# Relay: a TLA+ model of the chat

Relay is a one-to-one chat made of three TypeScript services (auth, social,
chat), a WebSocket gateway in Go and a React client.  The services own separate
Postgres databases and talk through RabbitMQ (a topic exchange `domain.events`
and a work queue of inbound messages) and Redis pub/sub (frames to a user's
gateways).  Everything runs in several replicas, nothing spans two statements in
a transaction, every queue is at-least-once, and the frames to a client are
at-most-once: what can go wrong is the order in which the statements of different
handlers, the frames and the answers of queries fall.  These modules state
what the code nevertheless guarantees, and where it guarantees less than its
specifications (`src/specs/*.spec.md`, `src/REQUIREMENTS.md`) say.

## The system and what is modelled of it

| Component | State | Operations | Hard behaviour | What makes it correct | Module |
| --- | --- | --- | --- | --- | --- |
| chat-service, friend-event consumer | `friends_read_model`, `conversations.state` | upsert an event, close or reopen the conversation | overlapping handlers, redelivery, reordering, crash between the two statements | the row is the newest event; no event is lost; the conversation follows the row | `FriendProjection` |
| chat-service, `SendMessage` | `conversations`, `messages` | gate, create the conversation, insert, publish three frames, reject | a removal or another send between any two awaits, redelivery, retries | one row per key, frames agree with it, nothing passes a closed gate, every send is answered | `SendMessage`, `ChatService` |
| chat-service, receipts (and the marks of the web client) | `message_receipts`, `receipts` of the open thread | record, push the update, fetch | duplicates and reordering on every hop | marks only advance, read is within delivered, nothing is invented or lost | `Receipts` |
| social-service, friend requests | `friend_requests`, `friendships` | send, accept, reject, remove; emit an event after each | concurrent handlers of one pair, death between statements | each request answered once, at most one pending per direction, events match what was committed | `FriendRequests` |
| auth-service, sessions, and the web client's token store | `refresh_tokens`; a session per tab and in local storage, refreshes in flight | log in, rotate, detect reuse, revoke the family; adopt, sign out, storage events | two uses of a token, logout during a rotation, a lost answer, a late one | at most one good token per family; a revoked family stays dead; tabs agree; a refresh ends | `Sessions` |
| web, relay socket, with the gateway's read loop | browser sockets, timers, focus | connect, authenticate, ping, time out, reconnect, online, stop | events of a superseded socket, links that die in silence | one attempt at a time, nothing left after stop, focus reported, link replaced | `RelaySocket` |
| gateway, hub, registry and connections | groups, Redis subscriptions, outgoing buffers | register, unregister, pump, fan out, write | asynchronous subscription, last leave racing a first join, full buffers, dead links | no frame lost in the hub, in order and once, siblings not held up | `Delivery` |
| gateway, presence registry and feed, with the page that watches | Redis ZSET and keys with a TTL, a watch | register, focus, heartbeat, remove, expire, watch, notify | expiry without notice, read-then-publish races, pumps that outlive their subscription | the watcher ends up with the effective status | `Presence` |
| web, conversation thread, delivery receipts, query caches | thread, cached queries, marks emitted | optimistic send, ack, echo, received, reject, history merge, remount, refetch | every order of ack, echo, frame and history; stale caches; a dropped link | one entry per message, none of the old ones missing, marks follow | `Conversation` |
| platform, RabbitMQ | connections, channels | publish, dispatch, ack, nack, reconnect | redelivery while the old handler runs on | at least once, except what is nacked | in `FriendProjection`, `SendMessage`, `Receipts` |

The components not listed (password hashing, rendering, configuration, typing) are
in `PROJECT.json` with the reason they are left out.

How they interact: a use case of social-service commits and then publishes an
event; chat-service's consumer folds it into its own read-model and gates
conversations with it; the gateway puts a client's messages and receipts on the
work queue; chat-service answers with frames on the user's Redis channel, which
the hub of each gateway with a connection of that user relays; the web client
merges frames with what it fetches over HTTP.

## The modules

**`ChatTables`** declares the two rows chat-service keeps of a pair of users.
Every statement is keyed by the canonical pair (`pairKey`, `canonicalPair`), so
rows of different pairs never meet and one pair stands for all.

**`LatestEvent`** is the promise of the read-model (AC-G1) in one action: the row
is the newest of the events folded in.

**`FriendProjection`** is the consumer that keeps it.  A worker is one delivery in
flight (prefetch times replicas); `dispatch` starts a handler without waiting
for the last one, so `Apply` (the conditional upsert), `TouchConversation`
(close or reopen) and `Ack` of different workers interleave.  `Nack`, `Crash`
and `LoseConnection` are the failures: a nack drops the event, a crash requeues
it, a lost connection requeues it while the handler runs on and its later ack
is void.  `Publish` assumes of the publisher only that ids are unique.

**`SendMessage`** is the inbound consumer for `message.send`, one action per await
(`FindConversation`, `CheckFriends`, `CreateConversation`, `Insert`,
`PublishOutbound`, `RejectSend`), with the same failures.  The three frames of a
message are published in order, each swallowed if it fails, so that any of them may
be missing (`Emit`); a crash may get any prefix of them out.  `Enqueue` repeats an envelope up to `MaxCopies` times, as a
client that retries with its key would (the comment at `handler.go:376` expects
one; the present web client never does, so redelivery is the retry that occurs).

**`ChatService`** composes the two consumers over the shared rows.

**`Receipts`** is `RecordReceipt` for one recipient of one conversation, with the
sender's marks: updates may be lost, late or overtaken by an answer to
`GET receipts`.

**`Befriending`** is the contract of social-service for a pair: a request is
answered at most once, at most one is pending per direction, an acceptance
makes friends at most once.

**`FriendRequests`** is social-service itself, one action per statement: handlers
of `SendFriendRequest`, `AcceptFriendRequest`, `RejectFriendRequest` and
`RemoveFriend` interleave, die and fail to publish anywhere.  `log` holds the
events in the order of their ids, that is, of their minting: the clocks of the
replicas are taken to agree.

**`FriendFeed`** puts the two services one behind the other.  `Social` is a step of
`FriendRequests`; what it appends to the log is published to the queue of
`FriendProjection` if one of the two bound routing keys matches (`Routed`), with its
place in the log for an eventId (`Notice`).  That ids are unique is therefore so by
construction, in the model as with UUIDv7 in the code, and no property claims it.  `Consumer` is a step of the projection.
The queue is taken to be bound before the first event: the exchange drops
what is emitted before chat-service was ever started.

**`Sessions`** is one browser: tabs over one local storage, their HTTP requests, and
the auth-service's table.  The server half is one action per statement (`Find`, with
the check behind it, `Revoke`, `Save`, `Kill` for the revocation of a family);
`Accepted` and `Refused` are the answers, applied to whatever session the tab has
by then.  A `Call` is a request in flight; one whose tab gave up or reloaded goes
on at the server (`NoTab`).  `StorageEvent` delivers what another tab has stored.
Faults: a token that expires, a failed statement, a lost answer, a reload.

**`RelaySocket`** is the class of that name with every handle it keeps: the
connects that await a token (`waits`), the retry, handshake, heartbeat and pong
timers, the current socket, and each browser socket ever opened, since the events
of an old one still reach its handlers (`Closed`).  `OpenFails` is a constructor that
throws.  `up` and `down` are the frames on
the wire, `gateway` how far the gateway has got.  `Die` silences a link without a
close: only the timers can tell.

**`Delivery`** is one gateway for one user.  `Accept` to `Deregister` are the handler
of a socket (`authenticate`, `Register`, `auth_ok`, the deferred teardown);
`Subscribed` is Redis taking the subscription, `Take` and `Put` the pump, which copies
the group under the lock and enqueues outside it, one socket at a time; `Write` is
the writer.  `Unregister` of the last socket cancels the subscription, whose pump
may still find a message (`Take` of a closed one).

**`Presence`** is the Redis entries of one user's connections, their change notices,
each of which is two reads and a publish (`Look`, `Publish`), and one friend's watch,
which subscribes and then reads (`Watch`, `Subscribed`, `LookFirst`).  Each subscription
has a pump, which copies the sinks of whatever watch there is by then (`Take`) and
enqueues outside the lock (`Fanout`).  `Unwatch` cancels the subscription and not its
pump: that may still take a message, or hold one it has copied the sinks for, and hand
it to the watch that follows, or see the cancellation (`End`).  `Lapse` is a time to
live that passes: the member and the key of an entry have one each.

**`Conversation`** is one conversation in one tab: the queries (`resolved`, `history`,
`list`), each idle, asked or read but not yet shown; the thread the page builds
from history and frames (`Upserted`, `Merged` are the reducer's cases); and the marks
it sends.  `Persist`, `Reject` and `PartnerSends` stand for `SendMessage`; the frames
arrive in any order and `Drop`, `LinkDown` and `LoseSend` lose them.  `Mount` starts
from the cache, as the keyed page does, and `Age` passes the `staleTime`.

The `..._proofs` modules hold the theorems, the `MC...` modules the small instances
TLC checks.

## What the runs check

| Run | Instance | What it shows |
| --- | --- | --- |
| `projection` | 3 events, 2 workers, 2 faults; from a fresh pair or an established one | refinement of `LatestEvent`; `ConvergesToNewest`; `SerialAgreement`; `EventuallyFolded` |
| `projection_agreement` | the same without faults | **violated**: `Agreement`, AC-G2 and AC-G3 as written |
| `chat_service` | 2 events, 1 projection worker, 1 key sent twice, 2 send workers, 1 fault | frames match rows, closed conversations bar sends, no thread without friendship, only an acceptance reopens, every send is answered and handled |
| `chat_retry` | one send worker, no fault | **violated**: `RetryReturnsOriginal`, AC-M4 as written |
| `friend_feed` | 2 users, 2 requests, 2 handlers, 1 death or failed publish, 5 events, 1 projection worker | refinement of `Befriending`; `AnnouncedOnce`; `SerialConsistency`; end to end, `GateFollowsFriendship` |
| `event_order` | the same without deaths | **violated**: `NewestEventTells`, AC-E5 as written |
| `receipts` | 3 receipts and a stranger's, 2 workers, 1 fault | `ReadWithinDelivered`, `MarksAreEarned`, `NoReceiptLost`, `MarksNeverRegress` |
| `sessions` | 3 refresh tokens, 2 tabs, 2 requests in flight, 1 fault | `SerialFamilies`, `TabsAgree`, `ExtinctForGood`, `RefreshSettles` |
| `relay_socket` | 5 browser sockets, 2 faults, 1 online event, 1 change of focus | `OneAttempt`, `FocusIsReported`, `LinkComesBack` |
| `delivery` | 2 sockets, 2 subscriptions, 2 frames, a buffer of 2, 1 dead link | `NothingLost`, `OrderedOnce`, `EveryFrameSettles` |
| `presence` | 2 connections, 2 subscriptions at once, 2 changes of focus, 1 fault | `WatcherConverges` |
| `conversation` | 2 messages, 1 of them own, a page of history of 1, 1 fault | `ShownOnce`, `NothingOldMissed`, `MarksKeepUp` |

Each passing run but `projection` also checks its module's type invariant; that of
`FriendProjection` is part of `ChatTypeOK`.

The violated ones, briefly:

* `Agreement`: an acceptance's upsert, a removal's upsert and close, then the
  acceptance's reopen.  The read-model says removed, the conversation stays open
  and `SendMessage` accepts messages between people who are no longer friends.
* `RetryReturnsOriginal`: the gate runs before the idempotent insert, so once the
  conversation has closed a repeated envelope of a persisted message is rejected.
* `NewestEventTells`: an acceptance commits, a removal commits and announces, the
  acceptance announces.  The larger eventId says "accepted" of a pair that is not
  friends, and last-writer-wins keeps it.

### Where the properties stop

Several properties except behaviours the code really has.  Each exception is a
history variable that the offending step sets, so the property shows that nothing
else breaks it.  What happens in them:

* `raced` (`Sessions`): two tabs refresh at once, or a refresh is sent again while
  the lost one still runs.  Find, check, revoke and save are separate statements, so
  both rotate and the family has two good tokens; or a logout revokes the family
  before a rotation inserts the successor, which survives.  Within the exception
  `ExtinctForGood` still holds: once nothing is on its way, a dead family stays
  dead.  Tabs that refresh one after the other with one token look like theft, and
  the second signs the user out.
* `crossed` (`RelaySocket`): an `online` event calls `connect` while another waits for
  its token or its socket (`relay-socket.ts:186`).  Two sockets are then opened,
  the first is nobody's, and its close clears the timers of the second.
  `LinkComesBack` holds all the same.  The comment at `relay-socket.ts:77` trusts
  the route guard to unmount a client without a session; the guard runs before a
  navigation only, so such a client stays, and an online event has it ask again.
  `LinkComesBack` ends at that point.
* `overtaken` (`Delivery`): the pump of a closed subscription takes one more message
  and serves the group that has been made since, so that a socket gets an older frame
  after a newer one.  It gets none twice (`OrderedOnce`): a frame reaches the channel of
  one subscription only.  Frames published between `auth_ok` and the
  confirmation of the subscription reach nobody; `due` does not count them.
* `astray` (`Presence`): a change is written while an older read of another is under
  way, or while the friend is not subscribed or its first read is older, or while the
  pump of a cancelled subscription still has a notice; a first read begins while an
  older read or notice is on its way; a read or notice fails; or an entry lapses.
  The older status is then shown for good, that is, until the next change or watch.  A lapse is announced to nobody, although
  `presence.go:4` calls the TTL self-healing: the friend sees a crashed gateway's
  user as online until the next change.
* `mixed` (`Conversation`): history brings an own message before the ack or echo has
  told the page its id.  The row has no `clientMsgId`, so it is a second entry, and
  the ack turns the bubble into the same message again.
* `unheard`: a frame that was dropped, or a message that fell between the first
  read of the list and the first `live` link, which reads nothing again.  `floor`: a
  thread opened again within the `staleTime` starts from a cached page of history
  that no frame has updated and nothing refetches, so what came meanwhile, even what the page
  itself had shown, is missing (REQUIREMENTS 8.3 wants a catch-up from a cursor).
  `broken`: a query that failed, its retry included.

Three more the properties do not reach.  A read mark counts as emitted even if the
socket refused it, and is not repeated (`useConversation.ts:185`); `MarksKeepUp` says
that it was emitted.  A send the gateway cannot enqueue stays "sending" for ever:
`handler.go:376` expects the client to retry, and it does not (`LoseSend`).  A thread
that the partner starts while the page is open is not known to the page until the
query is stale: until then its frames are not this page's, and it emits nothing
(the condition `Known`).

### Bounds, and why they are enough

Two workers or handlers are what every race here needs: each hazard is between
two executions, and a third only repeats one of the roles.  Three events are an
acceptance, a removal and a re-friending, with ids in any order.  One fault
(two in `projection`) reaches every crash point of one execution, and with two a
redelivery that crashes again.  One key with two copies gives two concurrent
executions of one idempotency key; rows of different keys meet only in the
conversation, whose races the two copies already show.  Two requests can cross,
and can befriend, remove and re-friend.  `MaxFaults`, `MaxSendFaults`,
`MaxCrashes` and `MaxCopies` are the bounds on counters, each in a guard and
named; TLC's search is finite and exhaustive under them.  Users, requests and
handlers of `FriendRequests` are interchangeable and are checked with symmetry;
that run has no liveness property.  Five events are a friendship accepted, removed
and accepted again, with the requests; a handler that would emit a sixth stays
where it is.

Of the client and gateway modules, two of a kind again make every race: two tabs or
two requests over one token, two sockets of a user with the two subscriptions that
follow one another, two connections whose changes cross and a watch that follows a
cancelled one, whose pump runs on; a message of each side. Three tokens are a login,
its rotation, and a second rotation or a new login. `Room` keeps a token back for
every request that will issue one, so the bound on tokens stops requests before they
are sent and never a request half way. Five sockets are what two faults, an online
event and the first connection can open. A buffer of two overflows with `auth_ok` and
two frames; a page of one message makes the second fall off it. `MaxFrames`,
`MaxOnline`, `MaxFocus`, `MaxRows` and `MaxMine` bound what users do, each in a guard.

Deadlock is not checked: each of these systems really comes to rest, once the
bounded events, sends and faults are used up and the queues are empty.

### Fairness

`FairSpec` and `ChatFairSpec` ask weak fairness of the steps of a delivery that
goes well, per worker (`Handle`, `Process`): the broker keeps delivering while a
worker has prefetch to spare, and Node's event loop keeps running a handler whose
awaited statement has answered.  Nothing is asked of publishers, clients and
faults.  A crash ends a task and leaves the worker idle, that is, restarted: the
consumers reconnect in an endless loop (`runConnectLoop`).

`Sessions` asks it of `Serve` (every statement and every HTTP request answers or
fails) and of `StorageEvent` (the browser's own queue); nobody has to refresh, log in
or out.  `RelaySocket` asks it of timers that are set, of `getToken`, of the events the
browser has for a socket, and of the gateway reading what has arrived; a timeout
has to fire only where the link is dead, and nothing asks for `Stop`, `Online` or
`Drop`.  `Delivery` asks it of goroutines that can run and of Redis answering a
subscription; peers come and go, and frames are published, as they like.
`Presence` and `Conversation` state no liveness: their properties speak of states
in which nothing is under way.

## What is proved

Each result below holds for every value of the constants: any set of events,
requests, receipts, workers and handlers, any bound on faults.  The named
`ASSUME`s on the constants are all that is assumed; TLC evaluates them in the
runs.  In each module `Invariant` (`Spec => []IInv`) comes first, with a lemma per
step, and the rest follows from it; none of the properties is inductive by
itself.

`ChatService_proofs`, first the friend-event consumer by itself (`Spec` of
`FriendProjection`): `ProjTypeCorrect` (`TypeOK`), `Convergence` (`ConvergesToNewest`),
`SerialAgreementHolds` (`SerialAgreement`) and `Implements`, the refinement of
`LatestEvent`.  `ConvergesToNewest` speaks of a drained queue only, and says nothing of
how it got there; the invariant `ProjInv` adds where an event is in the meantime
(`Accounted`: folded, queued, in a live handler that has not applied it, or nacked)
and that nothing else is ever folded in (`Known`), besides that the row is the newest
of what was folded (`Register!IsLatest(readModel, seen)`).  Those three and the types
are `Consumed`.  `SerialAgreement` needs to know in which step of the only handler the
conversation may lag behind the row (`Serial`).

`FriendRequests_proofs`: `TypeCorrect` (`TypeOK`), `AnnouncedOnceHolds`
(`AnnouncedOnce`), `SerialConsistencyHolds` and `Implements`, the refinement of
`Befriending`.  The invariant is
about debts: a handler that has committed something owes its event until it is in
the log.  One handler at most owes an event, and none owes what is in the log
(`OwedOnce`); what is owed or in the log speaks of something committed, a removal
of a friendship that is gone and whose acceptance no handler is still carrying
out (`Committed`); an acceptance is in the log, owed, or of a handler that failed
(`Followed`).  The lemmas `QuietStep`, `SameDebts` and `NewDebt` say what a step that
leaves the debts alone, or adds one, preserves; each step of the code is then an
instance.  In the refinement, an acceptance is due while a handler is accepting
it, and that there is only one such handler (`AcceptedByOne`) is what makes the
insert of the friendship, or the death of that handler, a step of the contract.
`SerialConsistency` needs a second invariant on top of it (`Serially`): a handler
that is alone finds the pair settled, and `SerialAt` says for each of its steps what
it has unsettled and how, up to the event that settles it again.

The second half of the module is about `FriendFeed`: `FeedIsSocial` and
`FeedIsProjection`, that either service behaves in the composition as it does alone, so
that everything proved of `FriendRequests` and of `FriendProjection` holds there too (the
lemma `NothingHeldBack` says that the guard of `Publish`, a new id, stops no step of
social-service, which `Notice` makes so); and
`GateFollowsFriendshipHolds`, end to end: at rest, `isActive` in chat-service is
`areFriends` in social-service.  The link is the invariant `Mirrors`, that chat-service was
sent the transitions of the log and nothing else.  With it, `SerialConsistency` (the
newest transition tells whether the pair is friends) and `ConvergesToNewest` (the row
is the newest event sent) speak of one event.  `ConvergesToNewest` is
cited from `ChatService_proofs`, instantiated as `Gate`; that module's sends, which the
theorem does not mention, are replaced by constants there.

`Receipts_proofs`: `TypeCorrect` (`TypeOK`), `ReadWithinDeliveredHolds`,
`MarksAreEarnedHolds`, `NoReceiptLostHolds` and `MarksNeverRegressHolds`.  The merge of
marks is the least upper bound in a partial order (`MergeIsJoin`); the invariant
says that every copy of the row on its way to the sender is one the row has
reached (`Rows`), and that whatever is queued or handled was reported (`Known`).

Then the two consumers together (`ChatSpec`): `ChatTypeCorrect` (`ChatTypeOK`),
`FramesMatchRowsHolds`,
`ClosedBarsSendsHolds`, `EverySendAnsweredHolds`, `NoThreadWithoutFriendshipHolds` and
`OnlyAcceptReopensHolds`; and, because no step of `SendMessage` touches what `Consumed`
speaks of, `ChatConvergence` and `ChatImplements`, the convergence and the refinement of
`LatestEvent` under the composition (`SerialAgreement` is not among them: a
send that has passed its friendship check may create the conversation after a removal).  The set of keys is taken to be
finite (`KeyAssumption`), because ids are minted by counting rows.  The invariant
follows an envelope through its executions: those that hold a copy and the queue
together never exceed what was enqueued (`Counted`), which is what types the queue;
one about to publish has the id of its row (`Stored`), so that frames cannot
disagree with it even if the execution that inserted the row died; a barred one is
still before the gate (`Barred`); an unanswered envelope is queued, or held by an execution
that is not yet done (`Answers`); and a conversation is about to be created
only after an acceptance has been folded in (`Friendly`).

`Sessions_proofs`: `TypeCorrect` (`TypeOK`), `SerialFamiliesHolds`, `ExtinctForGoodHolds`
and `TabsAgreeHolds`, after `BasicHolds`: tokens are issued in order, and what a
request knows of the token it presents is in the table.  A family that was never
raced has at most one request at its tokens, and what that request has read of the
family is still so when it writes (`Serial`); a rotation therefore revokes the one good
token before it saves the next.  `ExtinctForGood` needs no such premise: only a
`Save` makes a token good, and only of a request that has passed its check.

`Delivery_proofs`: `TypeCorrect` (`TypeOK`), `NothingLostHolds` and `OrderedOnceHolds`.
The invariant says where each frame due to a socket of the group is: kept by the
socket (received, buffered or dropped), waiting in the channel of the group's
subscription, or carried by a pump on its way to that socket (`NoneLost`); and that
nothing is due to a socket before it is in the group (`Fresh`), so that one that joins
owes nothing to the past.  For the order (`Order`) the frames of a socket lie on a
line: received, buffered, carried to it, waiting, each part newer than the one
before; this needs that one pump at most carries to a socket, that of the group if
the socket is in it (`OnePump`), which is what an overtaking pump breaks.  That no
frame comes twice is an invariant of its own (`Once`) and needs no such premise: a frame
is in the channel or with the pump of one subscription (`OneHome`), since one is live when
it is published; no socket has it while it is in the channel (`Unopened`), nor a socket that
the pump has yet to serve (`Unserved`).

`Presence_proofs`: `TypeCorrect` (`TypeOK`) and `WatcherConvergesHolds`.  As long as the
run has not gone astray, a read under way knows the entries as they are (`Truthful`),
no cancelled pump holds a notice once the first read has begun (`NoneLeft`), and the last
thing the friend will be shown is right (`EndsRight`): a change is still to be announced on
a live subscription, or the newest notice of the pump, in its channel or its hands
(`LastOf`), is true, or there is none and the first read is under way or already shown
and true.  `EndIInv`, `TakeIInv` and `FanoutIInv` rest on `OtherPump`: what the pump of
another subscription does changes nothing in a run that is not astray.  The next change
that is announced undisturbed, or the next first read, ends `astray`, which is why the
invariant is about the last word only.

`RelaySocket_proofs`: `TypeCorrect` (`TypeOK`), `OneAttemptHolds` and
`FocusIsReportedHolds`.  The invariant (`Alone`): there is one connect, one pending
retry or one socket that is opening, open or closing, that socket is `ws` until
`stop()`, and a handshake timer is of it; `Ended` says what is left after `stop()`.
`FocusInvariant` follows the words about the focus through the wire: before
`auth_ok` is handled only the token was sent, afterwards the last word on the wire,
or the gateway's own state if there is none, is the present focus.

`Conversation_proofs`: `TypeCorrect` (`TypeOK`), `ShownOnceHolds`, `NothingOldMissedHolds`
and `MarksKeepUpHolds`, for any number of messages and any size of page.  None of the
three is inductive, because each speaks of a page at rest or of one message.
`ShownOnce` needs to know of every entry, with or without an id, what it stands for: an entry
with an id has the `clientMsgId` of that row or none (`Sound`), a `clientMsgId` is in one row
at most and then not on its way any more (`OwnOnce`), an ack tells of an own row and a rejection
of a `clientMsgId` that never gets one (`FramesTell`); then one entry at most is about one
message (`OnceEach`), and none that was handled or is cached goes away (`Held`).
`ArrivedOnce` is the lemma that carries it: whichever matching entry the reducer updates,
the result holds the message once.  `NothingOldMissed` needs to know what brings a missing
message: what a query has read, or is fresh, is as recent as the last time the caches went
stale (`Recent`), and a page that lacks something older has a query under way (`OldComes`).  For
the marks, the mark never runs ahead of the thread (`Marked`), which only grows (`LatestGrows`),
and an unacked newest message is announced by a frame, being read by the list, or due to be read
when the link comes back (`AckComes`).

Model-checked only: all liveness (`EventuallyFolded`,
`EverySendHandled`, `RefreshSettles`, `LinkComesBack`, `EveryFrameSettles`): TLAPS 1.4.5
reasons neither about fairness nor about `ENABLED`.

## What is left

1. Several watchers of one user, and several users in one hub.
2. Older pages of history, once a page of the client asks for them.

## Not modelled

Message text, formatting and validation beyond "the body is bad"; the order of
message ids in `SendMessage`, which only tells them apart (`Receipts` and
`Conversation` order them); live pushes of social-service, whose frames only make a
client read its lists again; typing signals, which a timer corrects at either end;
unread counts and the order of the list; registration; the lazy channel of the
gateway's publisher; the closed state of a thread and pages of history beyond the
first; writes of presence entries that fail; several watchers of one user; shutdown
(`Close` of hub and feed); the broker's own failures (a durable queue with
persistent messages is taken not to lose any).
