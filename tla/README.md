# play: TLA+ models, checks and proofs

This directory holds a verification project for `play`, the C++ networking and
application framework in `src/play`. It contains TLA+ modules translated from
the source, TLC configurations that check them on small instances, theorems
checked by TLAPS, and `PROJECT.json`, which ties every definition to the lines
it models.

## 1. Inventory

`play` is a template library on top of asio. A server accepts sessions, a client
owns one, a pulse distributes what sessions receive to subscribers, runners
execute everything, and a sample application (`sample/alpha`), a test bot
(`ensure`) and a copy of nanodbc (`db`) are built on them or beside them.

| component | state it keeps | operations | talks to | hard behaviour |
|---|---|---|---|---|
| session (`net/session.*`) | socket, two send buffers and which one accumulates, `sending_`, the receive buffer, the protocol | `start`, `send`, `handle_send`, `handle_recv`, `recv_frames`, `handle_close`, `close` | protocol (encode, decode, handshake), handler (`on_established`, `on_receive`, `on_closed`) | application threads and runner threads at once; `mutex_` covers only the send side; close races; partial transfers; exceptions |
| protocol, sodium, codecs (`net/protocol/*`, `serializer`) | keys, nonces, handshake state | `accepted`, `connected`, `handshake`, `encode`, `decode`, `closed` | session, the peer's protocol | messages cut and joined by the socket, counters of the two ends that must not drift apart |
| client (`net/client.*`) | `session_` | `connect`, `reconnect`, `handle_connect`, `on_closed`, `close` | session, pulse | completions applied to whatever `session_` is; retries; close and connect at once |
| server (`net/server.*`) | acceptor, `sessions_` | `start`, `start_accept`, `handle_accept`, `on_closed`, `stop` | session, pulse | the accept loop and the ways it can end; descriptors reused as handles |
| pulse (`net/pulse.*`, `pulse_fb.*`) | children, subscriptions, interests at the root, calls waiting for answers | `as_child`, `with_session`, `subscribe`, `dispatch`, `stop`, `call` | server, client, runner, application | a tree used by several owners, pointers to children kept at the root, calls crossing a close |
| runner (`net/runner*`) | io_context, threads, strands | `post`, `stop`, `run` | everyone | order of posted work, swallowed exceptions |
| timer_service, object_pool | timers, a pool of their memory | `once`, `repeat`, `cancel` | runner, bots | cancelled handlers that still run, on recycled memory |
| ensure | a tree of acts per bot | `activate`, `update`, `deactivate`, `jump`, `next`, `exit`, `find` | timer, runner | signals raised while the tree is walked, composites activated again |
| snowflake, actor containers, indexes (`base`, `app`) | last sequence, actors by id, by name, by session | `next`, `add`, `del`, `link`, `find` | services | widths, reads through an erased iterator, indexes out of step |
| alpha front and back | users, proxies, rooms | login, logout, kick out, rooms | pulse calls between processes | answers after a disconnect, losses in the middle of a login |
| db (`nanodbc`) | connection, count of transactions, statement, parameters, rowset and position | connect, transactions, prepare, bind, execute, move, read, search the catalog | the driver | what is remembered of the driver's state, calls in any order, rowsets, asynchronous calls |

The properties that make each part correct:

- session: the bytes sent are the bytes committed, in order, none lost; what is
  received is handled completely; the handler is told of the establishment
  before frames, and once of the close; the loss of the peer is noticed.
- protocol: what one end hears is what the other sent, however the bytes are cut.
- client: `handle_connect()` works on the session that connected; none is
  started twice or forgotten; a lost connection is replaced.
- server: exactly one accept is under way; it never uses an acceptor that is
  gone; established sessions are told apart by their handles; a closed session
  leaves the map; every connection is accepted.
- pulse: who subscribed is known at the root and gets an event exactly once;
  nobody is reached after `stop()`; no pointer outlives its pulse.
- pulse call: each caller gets its own answer or one error, and eventually one
  of them.
- timers and bots: a handler is called with its own timer, repetition goes on
  until it is cancelled, only acts below active acts are active, a stopped bot is
  quiet.
- containers: ids differ, an index leads to an actor that has the key, and an
  actor is found by its keys.
- alpha: every login is answered.
- db: autocommit follows the transactions and nothing rolled back becomes durable,
  what a statement believes of the driver is so, nulls are sent and read as they
  are, and moves over rowsets are those over single rows.

## 2. Modules

Each module states at its top who runs concurrently and what the data is
abstracted to. Every action is one critical section, one handler, or one stretch
of a handler between two points where another thread can act.

| module | models | state, and what it stands for |
|---|---|---|
| `Session` | `session<Protocol>` with the part of a protocol the session depends on | `bufs`, `acc`, `tx`: `send_bufs_`, `acc_buf_index_`, `sending_`; `sendOp`, `recvOp`: the outstanding asio operations; `arrived`, `consumed`: `recv_buf_`; `pc`: where `start()`, `handle_send()`, `handle_recv()` stand; `snd`: threads inside `send()` |
| `Channel`, `FrameChannel`, `MCChannel` | two ends of one socket with `stream_protocol`, `plain_protocol` or `secure_protocol`, the sodium handshake and cipher, `length_delimited` and `serializer`; what a connection promises | `hs`: `sodium_handshake` of each end; `wire`, `buf`: bytes under way and in `recv_buf_`; `sent`, `got`: histories |
| `Client` | `client<Protocol>` and an application that connects again on close | `current`: `session_`; `connects`, `completions`: the connects and their queued handlers; `closing`: `on_closed()` between notification and reset |
| `Server` | `server<Protocol>` | `stage`: where a session stands in the accept loop; `fd`, `handle`: its descriptor and `handle_`; `sessions`: `sessions_`; `known`: what the pulse was told |
| `Pulse`, `MCPulse` | the tree of pulses: binding, subscriptions, interests, dispatch, stop, destruction | `childs`, `subs`, `self`, `interests`: the members of those names; `showing`: a `subscribe()` between its two critical sections; `last`: the handlers posted by the latest `dispatch()` |
| `PulseCall`, `MCPulseCall` | `pulse_fb::call()`, `pulse::call()`, `call_receive()`, `call_closed()` | `calls`, `pairs`: `calls_`, `call_pairs_`; `pc`: where each call stands between its locks; `tasks`: handlers posted to the runner |
| `Timer` | `timer_service` and `object_pool` | `timers`: `set_` of each slot, the pool, the references, the outstanding waits |
| `Flow` | the acts of `ensure` as operators on a record, recursive as the calls are | `acts`: every act made, its parent, children, `active_`, index |
| `Bot`, `MCBot` | `bot` and `ensure` over `Timer` and `Flow`, with two more users of the timer service | `flow`, `bot`, `runner`, `timers` |
| `Index` | the maps of `actor_container` and `index`, as operators | |
| `ActorContainer` | a container of actors in use, with the ids of `dynamic_snowflake` | `seq`: `seq_`; `acts`: the actors; `held`: those somebody else holds; `container`: `actors_` and the indexes |
| `Lobby` | the login of alpha: clients, `lobby_runner` and its actors, `user_master` and its proxies, the session between them | `acts`, `users`: actors and `users_`; `pulse`, `calling`: `pulse_back_` with its calls, and the call between its send and its registration; `link`, `f2b`, `b2f`: the session and its frames; `back`: `user_master` |
| `Connection` | `connection` and `transaction` of nanodbc, the driver's transactions | `conn`, `txs`, `link`, `handles` |
| `Statement` | `statement` and `table_valued_parameter` over `Connection` | `stmt`: `statement_impl`; `drv`: the driver's side; `tvp`: the table |
| `Cursor`, `RowCursor` | `result`; a cursor over single rows, what it promises | `cur`: the driver's cursor; `res`: `result_impl`; `ret`: the last answer; `hist`: the last call |
| `Odbc`, `MCOdbc` | the composition of the four, and the searches of `catalog` as a result of one row at a time | `of`: the statement of the result |
| `SessionProofs`, `ChannelProofs`, `ClientProofs`, `ServerProofs`, `PulseProofs`, `PulseCallProofs`, `ContainerProofs` | the theorems about each | |
| `OdbcProofs` | the theorems about connections, statements and results, all of the composition | |

How the modules meet. `Session` says when and how often `on_established()` and
`on_closed()` are called, and `Client`, `Server` and `PulseCall` start from that
(in `Client` and `PulseCall` a close may be notified twice when there are two
runner threads, as `Session` shows). `Session` keeps the threads and buffers and
leaves out what bytes say; `Channel` keeps what they say and takes a send or a
completed receive as one step, which `StreamInOrder` and `InFlightStable` justify.
`Bot` composes `Timer` and `Flow`, `ActorContainer` and `Lobby` use `Index`, and
`Odbc` composes `Statement` (which extends `Connection`) with `Cursor`: a move of a
result sets the asynchronous mode of its statement and fails once the handle, the
link or the driver's readiness is gone, and everything else goes on beside it.

Two abstract specifications are shown to be implemented: `Channel` implements
`FrameChannel` (`ImplementsFrames`; the mapping takes an established end for one
that is up), and `Odbc` implements `RowCursor` (`ImplementsRows`; the mapping is
the first row of the rowset plus the position in it, and an asynchronous move
takes effect with `complete_next()`). `RowCursor` says of each call which row it
leads to, by its name and argument; where the code does not get there because of
the size of its rowsets, it says under which size the call does.

Abstractions worth knowing:

- In `Session` a byte is its position in the commit order and every message is
  `FrameLen` bytes; in `Channel` a byte is a digit with the key and nonce it was
  enciphered with, and the fields of a header have few digits of base `Base`.
- The kernel, the peer, the network, libsodium and the ODBC driver are external:
  they do what the code relies on and fail where the code expects it.
- An exception in a handler ends the handler where it is thrown; the runner logs
  it and goes on (`thread_runner::run()`).
- `PLAY_CHECK` only logs, as in a build with `NDEBUG`. In `PulseCall` a failed
  check of `call_receive()`, and in `Client` the one of `reconnect()`, is recorded
  in `check`, in `Flow` that of `act_serial` in `odd`, and the code goes on; in
  `Client` and `Server` the use of an empty pointer is recorded in `fault`, and the
  model stops there.
- Reads of memory that was freed (`actor_container::del()`, timers in recycled
  slots) are choices over what the build can produce.
- Handlers of the application are not modelled, only that they are posted or
  called, except in `Bot` and `Lobby`, which are about them.
- In `Flow` names are not prefixes of one another, and `odd` remembers what has
  happened that acts are not written for, which `FlowSound` goes by.
- In `Odbc` a search needs a statement that was executed without parameters, one
  column of each result set is followed, `skip()` goes forward, a fetch begun by
  `async_next()` is completed before the result is used otherwise, and whoever
  opens, prepares or executes a statement anew makes a new result.
- `Lobby` has all of the login, but what follows the first one is out of reach:
  services are handed `null_session`, and the front ends there.

Risks. Four uses of nanodbc that the application has to avoid, and that nothing in
the code tells from the others, are members of the constant `Risks` of `Statement`,
guarded at the one place where they matter: to connect or disconnect under live
transactions or open statements (`reconnect`), to prepare another query on an open
statement (`reprepare`), a driver that cannot describe a parameter (`undescribed`),
and to bind a parameter while a table is open, or a column while it is not
(`focus`). The runs leave them out, and section 5 says what each refutes. No risk
concerns results or transactions themselves.

## 3. Runs

Deadlock is not checked: every system here comes to rest once the bounded
environment has nothing left to do, and what must not stop early is stated as a
liveness property.

| run | instance | what it shows |
|---|---|---|
| `session_secure` | 2 senders, 2 threads, a handshake of 2 messages, frames of 2 bytes, 3 messages in, bad input | until a transfer is partial the stream is in order, the buffer in flight is never touched, the receive loop leaves no complete frame, frames come after `on_established()` |
| `session_single` | 2 senders, 1 thread, no handshake, frames of 2 bytes, 3 messages in, bad input, fair | no byte lost, one close, no frame handled after it, what is received is handled, the loss of the peer closes the session |
| `channel_frames` | all three protocols, 2 messages of 1 or 2 digits, all segmentations, 2 nonces, resets, fair | the channel implements `FrameChannel`, what is under way decodes to what is missing, what is sent arrives |
| `client_single` | 1 thread, 4 sessions, 2 posted connects, fair | session and connect belong together, and a lost connection is replaced |
| `server_loop` | 1 thread, 5 sessions, 3 connections, 1 failed accept, 3 descriptors, fair | one accept at a time, distinct handles, every connection accepted |
| `pulse_tree` | root, two children, one of them final, two more below, 2 subscriptions each, owners that stop children first | interests, exactly one delivery, silence after `stop()` |
| `call_single` | 3 calls, 2 of them on one topic, 1 thread, closes with and without a notification, fair | answers find their caller, nobody is reported an error for an answered call or twice, and every call is settled once the close is notified |
| `bot` | 1080 flows, every combination of the signals of 6 acts, each of a bot alone; one flow of a bot that shares 3 slots with a repeating and a single timer, references dropped at any time; fair | what is left of the hierarchy of acts, that a stop reaches all of it, a slot is one timer's, timers fire, go on and fall silent |
| `container` | 3 actors, 2 indexes, 2 keys, 5 ids over a sequence of 4 | ids, and what the indexes lead to |
| `odbc` | 2 transactions, 1 statement, batches of 2, result sets of 3, 0 and 2 rows, rowsets of 1 and 2 | transactions are counted, the mark for rollback is honoured by destructors, the statement knows its driver, moves are those over single rows, nulls those of the row |
| `client_reset_race` | 2 threads, 2 sessions | a violation of `SessionPresent`, section 5 |
| `lobby_null_session` | 2 clients, 1 loss of the session between front and back, fair | a violation of `LoginAnswered`, section 5 |

Why the bounds are enough. In `Session` two senders make every order of two
appends around one buffer switch; three messages are the handshake and one frame;
frames of two bytes make a message arrive in two parts. In `Channel` two messages
may both be of one end, so that frames are joined, cut and enciphered under
nonces that wrap, or one of each end, crossing; header fields of two digits are
cut in the middle. In `Client` four sessions are a first connection, two
replacements and one more for connects posted by the application; in `Server`
three connections on three descriptors reuse a descriptor while two others are
open. A tree with a child, a sibling
and a grandchild has every relation of two pulses to one another. Two calls on one
topic and one on another make queues of two and answers that belong to others. The
flows of `MCBot` enter serial and parallel acts again, leave a parallel act from
either of its acts, exit below it, and name an act nobody registered; twenty acts
are more than two rounds through all of them make. Three timers over three slots
reuse one. Five ids over a sequence of four repeat, three actors over two keys
share one. In `Odbc` two transactions nest, overlap or follow one another; three
rows are more than a rowset and not a multiple of it, and an empty result set lies
between two others; features are explored in the combinations of `Uses`, each of
which holds the ones that share state.

Fairness.

- `Session`: runner threads serve queued completions and finish what they began,
  the kernel completes the operations it can, and a thread inside `send()` leaves
  it. Nobody has to send, close or answer.
- `Channel`: an accepted or connected socket is started, and bytes that arrived
  complete the outstanding receive.
- `PulseCall`: a call that was begun is carried through, and posted work is done.
- `Client`: the same for the runner; strong fairness of `Accepted` says that a
  server that is asked again and again accepts some time, which `reconnect()`
  relies on: it retries without end.
- `Server`: the same for the runner, and the kernel accepts what is connected.
- `Bot`: a wait ends, and a runner that is not stopped calls its handler. This is
  weak fairness with its enabling condition written out.
- `Lobby`: the runners of both processes do what is posted, the back's server is
  reached again after a loss. Clients and the network may do nothing.

A refutation of a liveness property is under the same fairness.

Each property has a mutant in `PROJECT.json`: a plausible fault in a definition,
kept beside it, under which the run's own configuration violates the property.

## 4. Theorems

Each is proved for all values of the constants that satisfy the module's
`ASSUME`, plus what the theorem assumes.

| theorem | states | assuming | inductive invariant |
|---|---|---|---|
| `SessionProofs!TypeCorrect` | `TypeOK` | | |
| `StreamOrder` | `StreamInOrder` | | `OrderInv`, until a transfer is partial: both buffers hold consecutive positions, the one being sent right after what the kernel took, the other right after that |
| `InFlight` | `InFlightStable` | | `TypeOK` |
| `ClosedTwiceAtMost` | `ClosedAtMostTwice` | | `CloseInv`: a handler that notified has ended its chain of operations for good: `sending_` stays set, and only `handle_recv()` arms the next receive |
| `ClosedOnceSingle` | `ClosedOnce` | one thread | `OnceInv`: handlers exclude one another, so the second finds the socket closed |
| `EstablishedOnceSingle` | `EstablishedOnce` | one thread, or no handshake | `EstablishedInv`: who will notify is decided by `consumed` and where `start()` stands |
| `EstablishedBeforeFrames` | `EstablishedFirst` | | `FirstInv`: `recv_frames()` runs only after the notification, unless the protocol was closed before its last handshake message, or nothing was negotiated and `start()` is about to notify |
| `FramesAreDrained` | `FramesDrained` | | `DrainInv`: the handshake branch of `handle_recv()` is taken by an established protocol only after `closed()`, so the branch that arms the next receive comes from `recv_frames()` |
| `NoLateFrame` | `NoFrameAfterClosed` | one thread | `LiveFramesInv`: the notification closes the protocol, and `recv_frames()` runs on one that is live |
| `NoByteLost` | `NothingLost` | | itself, restated by lengths and elements of the three places a byte can be in (`Kept`), so that the order partial transfers break does not matter |
| `ChannelProofs!ChannelTypes` | `TypeOK` | | `IInv`, below |
| `HandshakeNeverThrows` | `threw` stays empty | | `IInv` |
| `NeverOutOfStep` | `InFlightDecodes` | | `IInv`, and what `RecvFrames` does with any cut of a history |
| `ChannelImplementsFrames` | `ImplementsFrames`, the refinement of `FrameChannel` | | `IInv`; a step sends, hears the next messages, establishes or closes an end, or is a stutter |
| `ClientProofs`: `SessionAlwaysPresent`, `ConnectsAreCurrent`, `SessionStartedOnce`, `NoConnectionForgotten` | `SessionPresent`, `ConnectsCurrent`, `StartedOnce`, `NoneForgotten` | one thread, stopped before `close()` | `ClientInv`: while the runner works there is at most one connect, it belongs to `session_`, whose socket is open and which is not started; only `session_` is open; `on_closed()` under way is that of `session_`, which is closed |
| `ServerProofs!AcceptsOneByOne` | `OneAccept` | | `LoopInv`: sessions not made are in no stage, and without an acceptor nothing loops before `stop()` |
| `AcceptorIsPresent` | `AcceptorPresent` | runner stopped before `stop()` | `LoopInv` |
| `DistinctHandles` | `HandlesDistinct` | one thread | `HandleInv`: a session told established is open under its own descriptor, or being closed by the one thread, during which nothing is established |
| `PulseProofs!TypeCorrect` | `TypeOK` | | |
| `EverySubscriptionKnown` | `AllHeard` | | `ShowingInv`, `HeardInv`: a subscription is at the root or being shown, by a pulse in use |
| `ReachesOnce` | `ExactlyOnce` | | `AllHeard` and the shape of the tree: the groups the two passes of the root post to never overlap |
| `NoDanglingInterest`, `StoppedIsSilent` | `DirectInterestsAlive`, `SilentAfterStop` | children stopped first | `KnownInv`: an entry for a child of the root belongs to a pulse that is alive, not stopped and remembers the interest, so that its `unbind_child()` will find it |
| `ParentsOutlive` | `ParentAlive` | children stopped first | `BoundInv`: a bound pulse is among the children of a live parent, and only a pulse without children is stopped |
| `PulseCallProofs!TypeCorrect` | `TypeOK` | | |
| `ReportedOnce` | `FailedOnce` | | `CallerInv`: a caller is in one queue at most once and only before it is reported |
| `NumbersMatch` | `Numbered` | | `CallerInv` and itself |
| `BoundedSubscriptions` | `SubscribedOncePerThread` | | `SubsInv`: subscriptions made and about to be made are at most the threads at work |
| `ChecksNeverFail` | `ChecksHold` | one thread; each request topic has a response topic of its own (`Paired`) | `WiredInv`: a caller waits only for a response that will be posted; `TaskInv`: `call_closed()` is the last task; `LineInv`, `QueueInv`: the order of `calls_` is the order in which requests went out, and the responses received and not yet handled are those of its front |
| `NeverFalseError` | `NoFalseError` | the same, and no application subscription to a response topic | the same |
| `OdbcProofs!StatementTypes` | `TypeOK` | | |
| `CountsTransactions` | `TransactionsCounted` | no `reconnect` | `CountInv`: autocommit is the driver's default until a transaction begins, and one that was not begun is not committed |
| `HonoursMark` | `MarkHonoured` | no `reconnect` | `CountInv`, and that the driver has a link only while the connection believes so |
| `StatementsAreSound` | `StatementSound` | no `reconnect`, `reprepare`, `undescribed`, `focus` | `SoundInv`: a statement is open exactly while its handle is allocated, its description is that of the driver's query, and `open_tvp_`, the table and the driver's focus agree |
| `WalksRowByRow` | `ImplementsRows`, the refinement of `RowCursor` | | `PlaceInv`: `result_impl` knows the rowset the driver is on and is at a position of it, unless `next_result()` made the place unknown; `AsyncInv`: between `async_next()` and `complete_next()` the fetch executes and the place is the old one, or it is done and `at_end_` tells of an end, or it failed |
| `NullsAreOfRow` | `NullsOfRow` | | `NullInv`: the indicators are those of the rowset, or were set by the one `SQLGetData` of its row |
| `ContainerProofs!ContainerTypes` | `TypeOK` | | |
| `IdsAreDistinct` | `IdsDistinct` | | `IdInv`: numbers are given once, and can be read off an id while they fit below the time |
| `IndexIsSound` | `IndexSound` | | `KeptInv`: an actor is kept under its id; `EntryInv`: an entry, stale or not, was made for an actor of that key and id |
| `OwnKeysFind` | `FoundUnderOwn` | | `OwnInv`: an actor of the container is linked under every key that no other actor was made with |

The proofs about `db` need two assumptions that the code gives without saying so:
a process makes finitely many transactions, and a rowset has at least one row.
TLC refutes the property when any one of the risks named in its row is allowed
(section 5); `WalksRowByRow` and `NullsAreOfRow` assume none. `Paired` is a
discipline of the application too: `pulse_fb::call()` finds the callers by the
response's topic.

`Channel` has no hypothesis beyond its `ASSUME`: fields of at least one digit, a
length field that counts further than the two cells a handshake message is
abstracted to, and a limit of `send()` that the length field can hold.

`IInv` of `Channel` says of each direction (`Link`) that there is a history of it:
the bytes `A` ever written, the place `cut[i]` where message `i` ends, whether it
was enciphered and the nonce `nc[i]` after it. `Opened` says which bytes of `A` are
the key and the sealed nonce of the handshake; `History` says what header and body
lie between two cuts; `UnderWay` says that the receive buffer and the wire hold
what follows the last message taken, all of it unless the sender closed. The nonce
of the sender is the last of `nc`, that of the receiver the one at the message it
hears next, and each end has drawn what the other will use. So a segment only
moves a boundary within `A` (`LinkMoves`), `send()` extends `A` at its end, and
the handler of a receive moves the place of the reader. `KeysAgree` adds that the
keys an end derived are those of the far end, crossed.

What `RecvFrames`, `Serialize` and `Deserialize` compute is proved by induction
over sets of numbers: the claim for `n` becomes membership of `n` in a set, and
that a set which holds 0 and with a number the next is all of `Nat`
(`SetInduction`) comes from the least element of its complement. The library's
induction theorems, whose parameter is an operator, are not needed. The lemmas
along the way are facts of the codecs in their own right: a number written in
digits is read back (`Deserialize` of `Serialize`), a decoder asks for more bytes
on every proper prefix of a frame and finds exactly the frame on any longer
buffer, and the cipher undoes itself under the same key and nonce.

`IndexSound` and `FoundUnderOwn` need one another's parts: an entry that `del()`
left behind for a destroyed actor may lead to a later actor with the same id, and
what keeps it from shadowing an actor is that it was made for an actor of that
key (`EntryInv`), so that it is in the way only of actors that share the key.

`ClosedAtMostTwice`, `EstablishedOnce`, `StartedOnce`, `AcceptorPresent`,
`ParentAlive`, `Numbered` and `SubscribedOncePerThread` are proved for all
constants and not checked by a run.

Left to TLC, and why:

- all liveness (`Received`, `PeerLossNoticed`, `Restored`, `Served`, `Settled`,
  `FramesArrive`, `TimersFire`): fairness is beyond this prover;
- `FlowSound`, `StopReachesAll` and `SlotsDistinct` of `Bot`: `Flow` is recursive
  as the code is, and a proof cannot reach a recursive operator.

## 5. What the models show about the code

Two runs end in a violation of what the repository says of itself, each with a
finding in `PROJECT.json` that quotes it:

- `client_reset_race`: on two threads `client::on_closed()` resets `session_` after
  it notified; the application's `connect()` comes in between, its new session is
  destroyed, and `handle_connect()` uses an empty pointer, against the
  `PLAY_CHECK(session_)` of `client.ipp:52`.
- `lobby_null_session`: `dispatch()` hands `null_session` to a child that subscribed
  without `with_session()` (`pulse.ipp:475`); the services of alpha subscribe like
  that and keep what they are handed, and the front ends at the first login, which
  is never answered.

Other statements of the documents, comments, assertions and tests are formulas of
the modules too, and no run claims them: TLC refutes each of them when it takes the
place of the properties in the configuration named here.

| formula | configuration | what the code does | who says otherwise |
|---|---|---|---|
| `Session!ClosedOnce` | `session_single`, `Threads = 2` | a failed send and a failed receive both pass the `is_open()` of `handle_close()` (`session.ipp:259`): `on_closed()` is called twice. `ClosedAtMostTwice` is proved | `session.md:74` |
| `Session!CloseTold` | `session_single` | `close()`, and `recv_frames()` and `send()` where they throw, close the socket and notify nobody (`session.ipp:303`) | `session.md:75`, `:78` |
| `Server!ClosedRemoved` | `server_loop` | sessions are entered under handle 0 and erased under their descriptor: a closed one stays in `sessions_` (`server.ipp:142`) | `server.ipp:85`, `server.hpp:34` |
| `Client!ReconnectsClosed` | `client_single` | the socket of a failed connect is open when `reconnect()` checks that it is not; the check fails at every retry | `client.ipp:53` |
| `PulseCall!Settled` | `call_single`, `Threads = 2` | `call()` sends before it registers: a close in between is reported to nobody (`pulse_fb.ipp:58`) | `pulse.hpp:127` |
| `PulseCall!ReportedWhenClosed` | `call_single` | a close nobody is notified of is reported to no caller | `pulse.hpp:127` |
| `Bot!StoppedQuiet` | `bot` | the handler of the cancelled timer updates a stopped bot, and a jump activates acts again (`timer_service.ipp:20`) | `act_ensure.hpp:85` |
| `Bot!StartsAtFirst` | `bot` | a serial act that had advanced is entered again at its old index (`act_composite.cpp:20`) | `act_serial.cpp:9`, `test.md:24` |
| `Bot!JumpDeactivates` | `bot` | after an act has jumped out of a parallel act its sibling is still updated and jumps too: acts are active below one that is not (`act_parallel.cpp:23`) | `flow.md:13` |
| `Bot!OwnTimer` | `bot` | a handler is called with the timer that got the slot of its own (`timer_service.ipp:21`) | `test_timer.cpp:34` |
| `ActorContainer!NoDangling` | `container` | `del()` reads the keys of the actor it has destroyed, and an index keeps an entry (`actor_container.ipp:66`) | `actor_container.hpp:46` |
| `ActorContainer!AllFound` | `container` | `del()` of the first actor of a key takes the entry away that the second would need (`index.ipp:14`) | `actor_container.hpp:12` |
| `ActorContainer!IdsUnique` | `container` | ids repeat once the sequence reaches the bits of the time (`dynamic_snowflake.hpp:41`) | `dynamic_snowflake.hpp:11` |
| `Connection!UncommittedLost` | `odbc` | the last `commit()` commits what an inner transaction, destroyed uncommitted, has marked for rollback (`nanodbc.cpp:1420`) | `nanodbc.h:461` |
| `Statement!NullsAsMeant` | `odbc` | a null sentry without flags, and the flag of a single string, are ignored (`nanodbc.cpp:2266`) | `nanodbc.h:531` |
| `Cursor!Backward` | `odbc` | `last()` and `prior()` land on the first row of a rowset (`nanodbc.cpp:3111`) | `nanodbc.h:1658`, `:1681` |
| `Cursor!AtEndTrue` | `odbc` | `at_end()` is true on rows that are not the last (`nanodbc.cpp:3175`) | `nanodbc.h:1699` |
| `Cursor!IsNullTrue` | `odbc` | after a fetch that threw `is_null()` denies a null (`nanodbc.cpp:3545`) | `nanodbc.h:1831` |

What holds in their place is said by the passing runs: `StopReachesAll` allows a bot
to become active again only by a late update or by acts that were not nested any
more; `FlowSound` names for each part of the hierarchy which misuse ends it;
`IndexSound` lasts until `del()` has destroyed an actor; `MarkHonoured` says that
destructors, unlike `commit()`, look at the mark; `NullsOfRow` lasts until a fetch
has thrown.

Other properties hold for part of the uses. The constant to change, and the
property that fails then:

| constant | use | refutes |
|---|---|---|
| `Session` | the remainder of a partial transfer is sent after later bytes | `StreamInOrder` without its `~partial` |
| `HandshakeSteps = 0`, `Threads = 2` | `start()` arms the receive, and a frame is handled on another thread before it notifies (`session.ipp:53`) | `EstablishedFirst` without its last disjunct |
| `HandshakeSteps = 2`, fair | two handshake messages in one block: the second waits for more input (`session.ipp:237`); an exception in the handshake | `Received`; `PeerLossNoticed` |
| `Server`: `Threads = 2` | a descriptor reused before the close of its former session is told | `HandlesDistinct` |
| `Pulse` | a destroyed grandchild stays in the root's interests: `unbind_child()` drops interests only for children of the root (`pulse.ipp:383`) | `InterestsAlive` |
| `PulseCall`: `Threads = 2` | two calls subscribe to one response topic at once, and a response counts twice | `ChecksHold` |
| `AppSubs = {"res1"}` | a call answered through a subscription of the application is not taken off | `NoFalseError` |
| `Statement`: `reconnect` | `connect()` under live transactions keeps their count, on a link with autocommit on; statements keep handles of the former link | `TransactionsCounted`, `MarkHonoured`, `StatementSound` |
| `reprepare`, `undescribed` | another query, or a driver that cannot describe one: the old or empty description stays | `StatementSound` |
| `focus` | a parameter bound while a table is open | `StatementSound` |

Of results, `RowCursor` and `NullsOfRow` say for which size of rowsets a promise
is kept. What they leave open: where `skip()` lands with rowsets of several rows;
the place after `next_result()` with such rowsets, until `first()` or `move()`;
what `complete_next()` answers then, and that it may deny a row once `at_end_` is
set; and unbound columns, which with such rowsets are read from the first row.

A strand timer is the other known limit: `repeat()` on a strand waits once and is
not armed again (`timer_service.ipp:43`), so that a bot is updated once by its
timer and then by `update()` alone. `TimersFire` therefore asks repetition only of
timers without a strand.

## 6. Not modelled, and the plan

- Rooms of alpha. `room_master` never forwards `req_create` to a runner,
  `room_syn_runner_up` is never sent, without runners the refusal goes over a
  pulse without a session (`room_master.cpp:44-50`), and `room_runner.cpp:60`
  dereferences `res.room`, which is null. No room outlives its creation, so there
  is no behaviour to state properties of. `doc/construction/app/alpha/room.md:46`
  describes a timeout of reservations that the code does not have.
- The second login of a name (`lobby_user_actor.cpp:24`) and a send to several
  fronts (`session_container.hpp:42`) have no property of their own: the front does
  not survive the first login. `AllFound` is about the index they rest on.
- nanodbc: the conversions of single values, `variant_row_cached_result` (built on
  Windows only), `implementation_row_descriptor`, `list_drivers()` and
  `list_datasources()`, `get_info()`, the variants of COM, lookups of columns by
  name, negative `skip()`, the text of errors.
- `blackboard` (nothing reads it), `observer_ptr`, logging, string and JSON
  helpers, the loading of configurations, generated flatbuffers code, and the
  tests.

Still worth modelling: a runner of its own with strands, so that `Session`,
`Client` and `PulseCall` share it, and a composition of `Client` and `Server` over
one network. Still worth proving: the timers of `Bot` without its
flow, which needs `SlotsDistinct` stated in a module that does not reach `Flow`.
