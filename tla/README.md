# A verification of lierc

lierc's backend is an IRC bouncer in several programs. `liercd` keeps the users'
IRC connections, `lierc-logger` stores what they receive, `lierc-notify` sends
mail and pushes for highlights, and `lierc-identd` answers the servers' ident
queries. They talk over nsqd, Postgres and HTTP. The modules here are translated
from the Go source; TLC checks them on small instances, and TLAPS proves the main
safety properties for every value of the constants.

## Inventory

| component | source | state | operations | interacts with |
|---|---|---|---|---|
| client lifecycle | `pkg/lierc/connection.go`, `client.go` | the attempt (`conn`, `socket`, `attemptDone`), `sender`, `timer`, status, `Registered`, `quitting`, `stopped`, `gaveUp`, `Retries` | `connect`, `onConnected`, `finishSetup`, `endAttempt`, `setStatus`, `Destroy` | irc-go (callbacks), the sink |
| send queue | `sender.go` | queue, limiter, context | `Send`, `run`, `Stop` | lifecycle, handlers, API |
| event handlers | `events.go`, `channel.go` | channels, nicks, modes, topics, `requestedNick`, `regNick`, `regTries` | one handler per command, `run`, `publishEffects` | irc-go's reader, sink |
| config sync | `client.go:347-397`, `events.go`, `logger.go:251-273`, `store.go` | `Config` in memory, the saved config | `configChanged`, `handleConfig`, `MergeConfig` | publish queue, nsqd, Postgres |
| manager and API | `pkg/liercd/manager.go` | `Clients` | create, destroy, raw, status, portmap, `Shutdown` | clients, publisher, identd |
| publisher | `pkg/liercd/publisher.go`, `cmd/liercd/main.go` | queue, `pending` | `Enqueue`, `Run`, `Flush` | nsqd |
| logger | `pkg/logger` | log and private tables, highlight patterns | `handleChat`, `handleMulti`, `handleConfig`, `publish`, `reloadHighlights` | nsqd, Postgres |
| notifier | `pkg/notify` | `Notifications`, `Last`, timers, limiter | `Accumulate`, a timer's function, `Send` | nsqd, Postgres, the API's stats, mail and push services |
| identd | `cmd/lierc-identd` | connection slots, `down` | `serveIdent`, `handle`, `lookup` | the portmaps of two liercds |
| dialing | `dial.go`, `dialguard.go` | none | the guarded dial, TLS | net |
| parsing | `message.go`, `isupport.go`, `config.go` | none | conversions of text | all |

What is hard to get right, and to test:

- **The client.** Connect's error and irc-go's disconnect callback both report
  the end of an attempt; the reconnect timer fires while the end is still being
  published; `Destroy` comes in at any point, possibly twice (a command and
  `Shutdown`); `statusMu` and `c.Lock` are taken in turn, with the client unlocked
  between deciding on a status and publishing it. It is correct when subscribers
  see a legal sequence of statuses, each attempt ends once, no two overlap, the
  send queue is never that of a dead attempt, `Destroy` returns with everything
  down, and a lost connection is tried again.
- **The raw command** looks at the client four times without holding its lock.
  It is correct when a message shows up once in the log, nothing is sent before
  the connection is set up, and a nick the server takes is saved.
- **The manager** uses one map from many goroutines. It is correct when a client
  is on the map for as long as it may be connected, and a clean exit leaves none
  of the listed clients open.
- **The publisher** retries, and is stopped in the middle of it. It is correct
  when events arrive in order and none it accepted disappears unreported.
- **The notifier** gathers highlights under timers that are reset, may have two
  notifications of a user on their way, and dies of any error. It is correct when
  a highlight is sent at most once and is not forgotten, and when the rate limit
  holds.
- **Config sync and the logger** see redelivered and reordered messages, and
  failures between two writes. Correct when the saved config ends up as liercd's,
  each message is stored before it is shown, and stored once unless nsqd could not
  know.
- **The highlight patterns** are a copy of words in the database, refreshed by
  notices that a connection to it may lose. Correct when the copy is stale only as
  long as a notice is on its way.
- **Registration nicks** are a chain of fallbacks. Correct when it ends.
- **Channel state** follows the server's messages over connections that come and
  go. Correct when it and the saved channels agree with what was received.
- **identd** asks two liercds, either of which may be down. Correct when it never
  denies a connection of the one it could not read, nor one that is up, to the server
  at the other end.

`PROJECT.json` lists the hazards line by line, with the properties that cover them.

## Modules

### Connection, StatusFeed, ClientLife

`Connection` is the life of one `IRCClient`. Attempts are numbered; every
goroutine of the code has a program counter: the goroutine of `connect` and the
disconnect callback of each attempt (`Reports`, `pc`), the reconnect callbacks
(`callback`), and the callers of `Destroy` (`dpc`). A section under `c.Lock` is
one action. A section under `statusMu` is two, since the sink is called with the
client unlocked: the first takes `statusMu` and decides, the second publishes and
releases it; any other section that needs `statusMu` waits (`Lock`, `~statusMu`).
`sender`, which is atomic, is read and written outside both. `wire` is an
attempt's socket with irc-go's reader on it: open, closed by us, ended. Dial,
registration and reader may succeed, fail or end at any time: that is external.

| action | code |
|---|---|
| `TimerFires`, `BeginAttempt` | the `AfterFunc` of `endAttempt`, `Start`, `connect` up to its `Unlock` |
| `DialSucceeds`, `DialFails`, `RegistrationEnds`, `RegistrationFails` | what `conn.Connect` does |
| `OnConnected`, `StoreSender`, `SendConnected`, `OnConnectedTooLate` | `onConnected` |
| `FinishSetup` | the end of `connect`, `finishSetup` |
| `OnWelcome`, `Stop`, `GiveUp` | the handlers that change the lifecycle |
| `DropSender` ... `CloseDone` | `endAttempt`, in its order |
| `DecideClosing` ... `SwapSender` | `Destroy` |

`StatusFeed` is the abstract specification: which status may follow which, seen
from outside. After "Closing connection" nothing says connected or reconnecting;
"Connected" follows only "Connecting" or "Reconnecting in"; a stopped client's
reason is followed by nothing but "Closing connection". `Connection` implements it
with `shown <- published`.

`ClientLife` is the other abstract specification: the client as the rest of liercd relies
on it, in six phases. `ClientPhases` has which may follow which (`Follows`) and when a
`Destroy` may return (`Over`); a client that is quitting or has stopped neither sets an
attempt up nor begins one. `Connection` implements it with `Phase`: waiting while the last
attempt's `done` is closed, closing from there back to when `endAttempt` took `c.conn`,
open while `c.socket` is set, accepted or dialing before. `Manager`'s clients move by the
same `Follows`.

### RawCommand

`RawCommand` extends `Connection` with handlers of the raw action. Each look at
the client is an action: `Accept`/`Refuse`, `RequestNick`, `CapEnabled`,
`SendLoads` (the atomic load of the sender) and `SendQueues`/`SendDrops`, `Echo`.
`ClientStep` is any step of the connection together with what it does to the
request: `connect` clears `requestedNick`, the end of an attempt takes its lines
along. The server answers NICK lines in order, accepting or refusing.

### Manager

`Manager` is the map of clients, the handlers of create and destroy with the CREATE
and DELETE events they queue, and `Shutdown`, whose loop reads the map without the
lock. Each of a handler's looks at the map is an action; `StepAfter` is their order.
A client is here what `ClientLife` says of one, which `Connection` implements: it connects
again and again once started, until it is quitting; `Destroy` returns when it is down.
`phase` tells a connection the server has accepted from one that liercd has set up
(`c.socket`), which is what the portmap shows. That a client may also stop is left out:
it then does less. A listed id maps to a client number,
so that two clients of one id are told apart.

### Identd

`Identd` extends `Manager` with the servers' questions: each asker takes a slot or is
turned away (`Asks`, `TurnedAway`), and `lookup` reads the two urls in turn. One is
`Manager`'s liercd, at either place, which may have ended; the other is any liercd
that does not have the connection. A read may fail (`FetchFails`, remembered in
`failed`), find nobody there (`FetchRefused`), or answer with the portmap of that
moment (`FetchReads`, `FetchMatches`). Only the server at the other end gets a match:
`strangers` are the askers with another address than the portmap's entry. `Nameless` are
the clients of whose user `cleanUser` leaves nothing, and who are answered NO-USER though
they were found (`UserReply`). A url whose failure was seen before is not told
apart from one that fails now: `down` only keeps the log quiet.

### Publisher, Outbox

`Publisher` is the queue, `Run`, `publish` and `Flush`, with `main`'s stop. nsqd
may refuse an event, take it, or take it and still look as if it had refused it;
the topic therefore shows an immediate repeat once. `Outbox` is what the queue
promises: in order, none skipped, at most `Capacity` waiting. `Publisher`
implements it with what is in hand and queued as `waiting`.

### Notifier

`Notifier` is one user of lierc-notify. `Accumulate` is a loop over highlights
(`Take`, `CountStreams`, then `AccumulateRemoves` or `AddNotification`); the
function of each notification's timer has a program counter of its own (`run`).
A notification is named for its first highlight. `recent` (what was sent less than the
limit ago), `forgotten` (those of them sent before the process last died), `deliveries`
and `outcome` are history. `Dies` is every panic: the database, the stats of the API
and the mail server failing, and `UserRateLimit` reading a map that another send
writes. What waited is lost with the process, and so is `n.Last`: what was sent remains
recent, but the new process does not know of it.

### ConfigSync, NsqChannel

`ConfigSync` follows a change of a client's own config. `Change` is a handler
under the lock, `PublishEffects` and `QueueDrops` what `publishEffects` comes to
once the client is unlocked, `HandleConfig` and `HandleConfigFails` the logger's
handler with its `MergeConfig`. A change is known by its number, which stands for
the whole value of the field, as the code sends it. `NsqChannel` is external:
nsqd's channel and go-nsq's consumer, with one message in flight, deferral,
redelivery and the give-up at `MaxAttempts`; `Logger` uses it too.

### Logger, Highlights

`Logger` is `handleChat` and `handleMulti`. What classification makes of a message is
its `route`, chosen freely; `Steps` is what the handler does for each route, in its
order, and one action does one step: `InsertPrivate`, `Match`, `InsertMessage`,
`Publishes`, `PublishesHighlight`. Each may fail, and a write that failed may have been
done. An error before the insert's end gives the message back to nsqd; one after it is
only logged. `Crash` is a death of the process between any two steps. The topics share
only the database, so a behaviour shows one topic. `orphans` and `unsure` are history.

`Highlights` is where `l.highlights` comes from: `Start` loads the patterns and then
listens; each notice has the goroutine load them again. A load is a query
(`QuerySucceeds`, `QueryFails`) and a `Replace`, with edits in between. pq's listener
may drop, misses what is sent meanwhile, and sends a nil notice when it is back. The
saved words are known by their version; some versions (`Blank`) have no pattern.

### RegistrationNick, Session

`RegistrationNick` is `registrationNickRefused`: a nick is how many characters it
keeps of a name and how many underscores follow, which is all the code looks at.
The server refuses a nick as taken or not allowed, naming it, cut to any length, or
not (`Refusal`). `Session` extends it with what follows registration: each action is
one message of the server, as what is so on the server (`members`, `currentNick`)
and what the handler does to `channels`, `saved`, `configNick` and `requestedNick`.
The server's side needs no queue: a client's state depends on the messages it got,
so the server is taken as of the last of them. A NAMES reply takes several steps and
may be cut short by the end of the connection. As in the code, `channels` is not
cleared between connections. Another user may have the configured nick.

| action | code |
|---|---|
| `Connect`, `EndAttempt` | what `connect` resets, and `endAttempt` |
| `StopOnConfigured`, `StopOrGiveUp`, `TryNext` | `registrationNickRefused` |
| `WeJoin`, `SheJoins` | `onJoin`, `addConfigChannel` |
| `Part`, `Kick` | `onPart`, `onKick`, `removeConfigChannel` |
| `Quit`, `ChangeNick` | `onQuit`, `onNick` |
| `Names353`, `EndOfNames`, `AskNames` | `onNames`, `onEndOfNames` |
| `RequestNick`, `RequestRefused` | `RequestNick`, `endNickRequest` |

## Runs

| run | instance | checks | what it shows |
|---|---|---|---|
| `connection` | 2 attempts, 1 Destroy | `PublishedIsStatus`, `EndedOnce`, `NeverStranded`, `SenderIsLive`, `DestroyedIsDown`, `StopReasonShown`, `ImplementsFeed`, `ImplementsLife`, `DestroyReturns`, `LostIsRetried` | every interleaving of the four kinds of goroutines; Destroy returns whatever the server does; a lost connection is retried |
| `raw_command` | 2 attempts, 1 request | `EchoedOnce`, `QueuedOnceSetUp`, `TakenNickIsSaved` | the attempt may end between any two looks |
| `raw_two_nicks` | 1 attempt, 2 requests | `TakenNickIsSaved` is violated | the second nick request replaces the first |
| `identd` | 1 id, 3 commands, 2 clients, 2 askers, 1 slot | `EventsAgree`, `RunningIsListed`, `ShutdownClosesListed`, `NoUserIsTrue` | create and destroy of one id may overlap, Shutdown at any time; a question may come at any time, from anyone, and a server's own is answered truly, if the user has a name to send (the second client's has none) |
| `identd_accept` | 1 client, 1 asker | `AcceptedIsFound` is violated | a question asked at the accept comes before the portmap has the connection |
| `manager_retries` | 1 id, 4 commands, any overlap | `RunningIsListed` is violated | two creates at once leave a client off the map |
| `publisher` | 6 events, a queue of 3 | `NothingLost`, `ExitReportsLoss`, `ImplementsOutbox`, `Delivered` | failures and a stop at every point |
| `notifier` | 4 highlights | `NotifiedOnce`, `NothingForgotten`, `LimitHoldsAlone`, `Settled` | overlapping notifications, resets of fired timers, deaths; the limit is passed only by a notification on its way next to another, or after a death |
| `config_sync` | 3 changes, 2 tries | `StaleForAReason`, `OnlyRetriesGoBack`, `Handled` | the saved config is stale, or goes back, only for the reasons named |
| `logger` | 2 messages, 2 tries, 1 crash | `UnstoredForAReason`, `PublishedIsStored`, `StoredTwiceForAReason`, `ConversationIsCurrent`, `Settled` | any step may fail, any answer may be lost, the process may die anywhere, the connection may be deleted; a message goes unstored only when it was given up or its connection was gone |
| `highlights` | 3 edits, 2 notices | `PatternsStaleForAReason`, `PatternsFollow` | notices, drops, failed reloads and restarts in any order |
| `session` | 2 names of 2 characters, 2 tries, 2 channels, any number of connections | `NicksAreMembers`, `MultiReachesItsChannels`, `NeverTwice`, `SavedFollowsJoined`, `OnlyAskedNickIsSaved` | channels, nicks and saved settings follow the server's messages under any nick |

### Bounds, and why they are enough

- Two attempts: the code tells apart the current attempt and the one before
  (`c.conn != conn`, `CompareAndSwap(s, nil)`, `<-done`); a third adds no new pair,
  since `AttemptsDoNotOverlap` leaves at most one not over. One Destroy, because of the
  liveness; a second one (a command's and `Shutdown`'s) changes nothing for the safety
  properties and the refinement, which are proved for any number of them.
- One request with two attempts shows what a client's life does to a request; two
  requests with one attempt show what they do to each other.
- Two clients over one id are enough for a client and its successor; ids do not touch
  each other but in `Shutdown`, whose loop has two clients to visit even so. Three
  commands: a create, a destroy over it, and a third. Two askers for one slot: one is
  turned away. Two urls are what the code's deployment has.
- Six events and a queue of three: the queue fills, drops and empties again.
- Four highlights: two notifications on their way, one waiting and one in hand.
- Three changes of two fields: one delivered again, a later one of its field, and one
  of the other field. Two tries: a message is delivered again, and given up.
- Two messages in the logger: one delivered again after the other was handled. One
  crash next to it, since a failure can already repeat a delivery without it.
- Three edits: one during a load, one during an outage, one after it.
- Two names of two characters are enough for a fallback, a cut, the end of what can be
  dropped, and another user with the configured nick; two channels, for one joined
  again on this connection next to one that was not. Names and channels are
  interchangeable.

The proofs hold without these bounds (attempts, Destroys, requests, events, queue
size, ids, handlers, askers, slots, messages, tries, crashes, edits, notices, names and
channels, highlights and changes are arbitrary).

### Assumptions about the environment

- **Prompt** (`RawCommand`): no attempt begins while a request is between its
  registered check and its send. Those are a few unblocked instructions; the next
  attempt is at least `retryUnit` (15 s) after the end of the last.
- **Overlaps** (`Manager`): which commands for one id are under way at once. The
  passing run and the proofs exclude two creates and two destroys of one id
  (`NoRetries`), which `manager_retries` allows.
- **Take** (`Notifier`): a fired timer's function gets to the map within the
  database and API calls of one highlight. Without it the function could remove a
  later notification than its own (see the hazards).
- `ConfigSync`: nsqd's first deliveries are in order, and a connection's last handler
  has published before the next connection's first one begins (that reader has ended
  its loop before the retry's 15 s are over).
- `ConfigSync`: the connection has its row as long as changes of it are on their way.
  `MergeConfig` of a deleted one changes nothing and is no error
  (`pkg/logger/store.go:142-151`).
- `Notifier`: what nsqd delivers again to `handleHighlight` is outside; a highlight is
  one that was taken from the queue.
- `Logger`: a message's route and whether a pattern matches it are free; whether the
  insert finds the connection is decided by the connection's row alone.
- `Highlights`: two cases that the code has no answer to are named and not excluded
  (`missed`): a NOTIFY between `Start`'s load and its `Listen`, and a reload whose query
  failed. After either, the patterns stay old until the next notice.
- `Identd`: the other liercd never has the connection that is asked about, and a portmap
  read is the state of one moment.
- `Session`: a server sends our JOIN and its NAMES reply, and any NAMES reply, in one go;
  names have no underscores of their own; no NICK names the very nick its sender has,
  for which `onNick` would add the entry and delete it at once
  (`pkg/lierc/events.go:428-433`).
- irc-go gives a connection's lines to one reader, in order, reports a lost socket
  through the disconnect callback, and calls it for an attempt that did register.

### Fairness

`Connection`: goroutines are scheduled, mutexes are handed on, timers fire, a dial
and a registration time out (`guardedDialer`'s 30 s, `ircTimeout`), and a reader
notices that its socket was closed; that is weak fairness of each goroutine's
steps. Nothing is assumed of the server: it may stay silent for ever, and
`ServerDrops` has no fairness. `Publisher`: its goroutine is scheduled, and nsqd
does not refuse events for ever (strong fairness of `PublishSucceeds`), which is what the retry
in `publish` waits for. `Notifier`: its goroutines are scheduled, a timer that
is not reset fires, and calls of the database, the API and the mail server return, though
the `http.Client` for the API's stats has no timeout (`cmd/lierc-notify/main.go:40`): if
it waited for ever, so would `Accumulate`, and `Settled` would not hold. `ConfigSync`: the reader and the consumer are scheduled, and nsqd
delivers what it has (strong fairness of `Consume` for each message, since it is
disabled while another is in flight). That a merge succeeds is not assumed: `Handled`
allows giving up. `Logger`: the same, with weak fairness of the handler's steps; no step
is assumed to succeed. `Highlights`: a query and `Listen` return, the goroutine runs,
pq's listener connects again, and the API's NOTIFY follows its edit. Restarts, drops and
failures have no fairness, and may go on for ever: `PatternsFollow` names them.

## Proofs

| module | assumes | inductive invariant | proves |
|---|---|---|---|
| `ClientProofs`, `Connection` | at least one attempt | `IInv`: who holds `statusMu` and what it will publish; attempts are numbered without gaps and only the last is not over; one report carries out an end; the reader starts after `onConnected`; a pending reconnect excludes a live attempt; where `sender` points | `TypeOK`, `PublishedIsStatus`, `EndedOnce`, `SenderIsLive`, and `AttemptsDoNotOverlap` and `StoppedStaysDown`, which `ImplementsLife` contains |
| the same, `StatusFeed`, `ClientLife` | the same | on top of it `StatusIInv`: what a destroyed or stopped client still has to tear down, and what the goroutine that holds `statusMu` may publish after what was published last | `DestroyedIsDown`, `StopReasonShown`, and that it implements `StatusFeed`; with `LifeInv` (what `onConnected` finds if the attempt is still the client's), that it implements `ClientLife`; with `EndToComeInv`, `RetryToComeInv`, `HolderInv` (who will end the attempt, begin the next, unlock the mutex), `NeverStranded` |
| the same, `RawCommand` | the same, Prompt | `RawIInv`: what remains true between a handler's looks: an accepted request sees the attempt it was accepted for or none, and the sender it loads has the caps it read. `NickInv`: a NICK the server has yet to answer is the one the client was told of | `RawTypeOK`, `EchoedOnce`, `QueuedOnceSetUp`; with one request, `TakenNickIsSaved` |
| `ManagerProofs` | `NoRetries` | what a create and a destroy under way for an id may rely on: nothing else lists or unlists it; what the events say meanwhile; what Shutdown found is visited, listed or down. For identd: a connection on the portmap stays there until it ends (`AskInv`) | `TypeOK`, `RunningIsListed`, `ShutdownClosesListed`, `EventsAgree`, `NoUserIsTrue` |
| `PublisherProofs` | sizes are natural numbers | when an event is in hand, that events are numbered as accepted, and `NothingLost` | `TypeOK`, `NothingLost`, `ExitReportsLoss`, and that it implements `Outbox` |
| `NotifierProofs` | the number of highlights is natural, Take | `MapInv`: how a notification grows old: armed as long as it is on the map and its timer has not fired, and once its function has taken it off the map nothing is added to it or arms it again; `MessagesInv`, `DeliveriesInv`: notifications share no highlight, and what is not sent yet was never delivered; `LimitInv`: what is recorded is on record | `TypeOK`, `NotifiedOnce`, `NothingForgotten`, `LimitHoldsAlone` |
| `ConfigSyncProofs` | sizes are natural numbers | `OrderInv`: a change still ahead of the logger is later than all it was given; `TraceInv`: none is lost without a trace; `ConfigInv`, `FinishedInv`: what nsqd takes for handled is saved, or overwritten by a later change or one delivered again | `TypeOK`, `StaleForAReason`, `OnlyRetriesGoBack` |
| `LoggerProofs` | sizes are natural numbers | `NsqInv`: first deliveries are in order, so a message on its first is the last one seen; `HandlerInv`: with an insert ahead nothing of this delivery is stored, with none ahead the message is or its connection was gone; `FinishedInv`: so is what was handled; `WayInv`: what nsqd has delivered is in hand, deferred, handled, or given up at the last try | `TypeOK`, `UnstoredForAReason`, `PublishedIsStored`, `StoredTwiceForAReason`, `ConversationIsCurrent` |
| `HighlightsProofs` | at least one notice fits | the same property for what a reload has read and not put in place yet | `TypeOK`, `PatternsStaleForAReason` |
| `SessionProofs` | names have a length, `""` is no channel | `IInv`: what was tried is longer, in characters, or has no more underscores than the last nick; a channel we are in is saved and listed, and the list and the rest of a reply under way make up its members | `NeverTwice`, `NicksAreMembers`, `MultiReachesItsChannels`, `SavedFollowsJoined`, `OnlyAskedNickIsSaved` |

None of the properties is inductive by itself. `EndedOnce`, for instance, needs
`AttemptInv`: two reports of an attempt cannot both find `c.conn` to be theirs because the
first has cleared it, and it never comes back since attempts are numbered upward.
`NothingLost` needs the numbering, or the event just taken from the queue could be
taken for the copy a failed publish left on the topic. `ConversationIsCurrent` needs nsqd's
order of first deliveries: a message that takes the conversation's place is either not
older than any stored one, or was delivered before.

Every invariant and action property that a passing run checks is proved. Only
model-checked are the liveness properties (`DestroyReturns`, `LostIsRetried`, `Delivered`,
`Handled`, `PatternsFollow`, `Settled` of `Notifier` and of `Logger`): liveness under
fairness is out of the prover's reach. `NeverStranded` is the part of `DestroyReturns` and
`LostIsRetried` that a proof reaches: whoever waits, there is a goroutine left, or a timer,
that does what is waited for. `TakenNickIsSaved` is proved of one request, since
it is false of two (`raw_two_nicks`).

## What disagrees with the code's own comments

- `RequestNick` "records that the user asked the server for nick, so taking it
  updates the config" (`pkg/lierc/client.go:338`). There is one `requestedNick`:
  a second NICK under way replaces it, and if the server takes the first it is not
  saved (`raw_two_nicks`).
- A client is "listed before it connects" because "one not listed yet is answered
  NO-USER" (`pkg/liercd/manager.go:238`). Two creates of one id at once both find
  none; the second takes the first client off the map, and it goes on connecting,
  unlisted, beyond the reach of destroy and `Shutdown` (`manager_retries`).
- A client is started "once the client can be found (liercd lists it first): the server
  may look the connection up, through identd, as soon as it accepts it"
  (`pkg/lierc/client.go:150`). It is listed, but `PortMap` has its ports only once
  `onConnected` has set `c.socket`, after TLS and two locks; a server that asks before is
  told NO-USER (`identd_accept`).

Met while modelling, without a run of their own:

- `SetUserRateLimit` "sets how long to wait before notifying the same user again"
  (`pkg/notify/notifier.go:51`). The limit is looked up before a send and recorded after
  it, and `n.Last` is in memory only. So two notifications on their way at once both go
  out, and so does one after a restart, which any panic leads to, with nothing else on its
  way. `LimitHoldsAlone` names the two cases, and shows that there is no other.
- `publish`: "the message is already stored, and retrying it would store it twice"
  (`pkg/logger/logger.go:275-276`). A message whose connection has no row is published
  too, with id 0, and is never stored (`logger.go:208-220`, `236-247`); `PublishedIsStored`
  names it (`orphans`).
- A message that is to be stored and fails `MaxAttempts` times, go-nsq's 5 by default, is
  given up and lost, though `handleChat` returns the error to have it retried; a database
  that is away for long is enough. `UnstoredForAReason` names it.
- `create` publishes CREATE after `Start`, with nothing to hold a destroy back
  (`pkg/liercd/manager.go:241-244`): the DELETE of a destroy that overlaps it may be
  published first, and CREATE remains the last word on a client that is gone.
  `EventsAgree` names the case.
- `onQuit` is "published to the channels the nick was in" (`pkg/lierc/events.go:331`).
  `c.Channels` is not cleared, so on a new connection a QUIT or NICK is also published to
  a channel of an earlier one that was not joined again, if the nick was in it then.
  `MultiReachesItsChannels` names the case, and shows that no other channel is reached.
- `TestReplyCleansUser` (`cmd/lierc-identd/main_test.go:256-260`) has NO-USER answered for
  a user that was found but has no name to send, while `lookup` "returns errNoUser only
  when every portmap was read". `NoUserIsTrue` is about users that have one.
- `handleConfig`: "A failure is retried: merging the same fields again is harmless"
  (`pkg/logger/logger.go:253`). It is, unless a later change of the field was merged
  before the retry, which then puts the older value back until the field changes
  again. `OnlyRetriesGoBack` shows that nothing else does so.
- "Message is too old, discarding." (`pkg/notify/notifier.go:224-227`): the loop prints it
  and goes on with the message.
- `Start` loads the highlights before it listens (`pkg/logger/logger.go:102-103`): words
  saved in between are not seen until the next notice (`missed` in `Highlights`).

## Not modelled, and why

- Dialing, address blocking, TLS, message and ISUPPORT parsing, `rawLine`,
  `quitMessage`: sequential functions on text, which unit tests cover.
- The bodies of mails and pushes and the I/O of their services: `Notifier` has
  that they take time, may fail, and may end the process.
- `trackedConn` and log lines only choose wording.
- The API's status answer and its refusal of unknown actions, which only read.
- Modes and topics: each handler sets one value of a channel from one message.
- The send queue's own goroutine and limiter: that a line is queued or dropped is in
  `RawCommand`. irc-go's writes are outside.
- Which command gets which route, and what a highlight pattern matches: functions of one
  message that table tests cover; `Logger` allows every route and either match.
- `parsePort`, the format of identd's replies, and of `cleanUser` all but that it may
  leave nothing. An older liercd's portmap, whose entries have no address.
- The notifier's preferences, dead subscriptions and the global limiter's wait.
- How a handler computes a config field from the one before, edits of the saved config
  by the API, and a restart of liercd from it: `ConfigSync` has liercd's own changes.
- Everything the plan below still has.

## Plan

In the order of what matters most, with the runs and the theorems each is to bring.

1. **Done**: `Connection`/`StatusFeed`/`ClientLife`, `Publisher`/`Outbox`, `RawCommand`, `Manager` with
   `Identd`, `Logger`, `Highlights`, `Session`, `Notifier` and `ConfigSync`, and the proofs
   of all their safety properties.
2. **Proofs to come**: of the modules below, as they are written.
3. **ConfigSync**: its composition with `Publisher`'s queue, and an edit by the API in
   between.
4. **Sender**: the queue's goroutine, limiter and `Stop` against concurrent `Send`,
   and that an attempt's lines go to its own connection only.
