# Verification of python-can-helix

TLA+ models of the `can_helix` package (`src/can_helix/`), the python-can
interface for Helix CAN backends, with TLC configurations and TLAPS proofs.

A Helix backend is a device that is reached over HTTP (login, channel
configuration) and over a WebSocket (CAN frames), both encrypted end to end.
The package is small, but it is a library of threads: application threads that
construct, use and shut down buses, one WebSocket thread for each shared
connection, and the garbage collector, which runs finalisers on either.

## 1. Inventory

| Component | Source | State | Operations |
|---|---|---|---|
| Connection registry and reference counting | `connection.py` 82-275, 402-478 | `_instances`, `_ref_count`, `_ref_lock`, `_ws`, `_ws_thread`, `_connected` | `get_instance`, `acquire`, `release`, `_connect`, `_disconnect`, `_remove_instance`, `on_open`, `on_error`, `on_close` |
| Receive path | `connection.py` 277-331, 480-556; `bus.py` 550-570 | `_subscribers`, `_all_channel_subscribers`, `_dropped_messages`, `_recv_queue` | `subscribe`, `unsubscribe`, `_handle_binary_message`, `_dispatch_to_subscribers`, `_recv_internal` |
| Send path and nonces | `bus.py` 572-587; `connection.py` 333-374; `crypto.py` 212-283 | `_send_lock`, `_nonce_counter` | `send`, `encrypt_ws`, `_next_nonce` |
| Binary CAN codec | `protocol.py` | none | `encode_can_tx`, `decode_can_rx`, `decode_message`, `is_can_rx_message` |
| Life of a bus | `bus.py` 400-504, 641-665 | `_shutdown_flag`, `_connection_manager`, `_rest_client` | constructor, `shutdown`, python-can's finaliser |
| Authentication and sessions | `auth.py`, `session.py`, `bus.py` 60-140 | keys, session token, ticket, `_auth_client` | key exchange, `login`, `get_ws_ticket`, `logout`, `close` |
| REST client for channels | `bus.py` 140-350 | the channel configuration on the device | `set_bitrate`, `open_channel`, `close_channel`, `bus_on`, `bus_off`, `state` |
| Cryptographic primitives | `crypto.py` 41-210, 285-372 | keys, HTTP nonce counter | X25519, HKDF, AES-GCM, ChaCha20-Poly1305 |

How they interact:

- `HelixBus.__init__` takes a REST client (its own, or the one of a
  `HelixSession`), asks the registry for the manager of its backend, session and
  batch mode, calls `acquire` (which connects on the first reference) and
  `subscribe`. `shutdown` does `unsubscribe` and `release`. python-can calls
  `shutdown` again from `__del__`.
- `_connect` mints a ticket by REST, starts the WebSocket thread and waits up to
  10 s for its `on_open`; `on_message` of that thread decrypts, decodes and puts
  frames into the queues of the buses, which `recv` empties in other threads.
- `send` encodes, encrypts and writes in the thread of the caller.
- Managers of one session share one `CryptoSession`, hence one nonce counter.

What is hard here: `get_instance` and `acquire` are two critical sections, so
managers come and go between them; `release` joins a thread while it holds a
lock; a constructor can fail half way and is finalised all the same; the
WebSocket thread holds weak references and may be the one that finalises a bus;
handshakes race with time-outs; queues fill up; the connection is lost while
somebody is inside `send` or `recv`.

What makes each component correct:

- *registry*: sessions never mix; the count is exact; the WebSocket is opened
  for the first bus, shared, and closed after the last and no earlier;
  constructors and `shutdown` end; one WebSocket for each key.
- *receive*: each bus gets the frames of its channel, in order, once; every
  frame is queued or counted as dropped; bad records cost only themselves;
  nothing arrives after `unsubscribe`; `recv` with a timeout and `shutdown` end.
- *send*: nonces are unique and ascend on a wire; messages are not torn; a call that
  returns has written its message once, one that raises has not; `send` ends.
- *codec*: what is encoded can be decoded, padded to the next legal length and no
  further, and forwarded unchanged.
- *life of a bus*: what a constructor took is given back once, however it ended and
  whoever shuts down; a bus made with a session never falls back to an unencrypted
  connection or client; calls on a bus end in an answer or an error of the library,
  or, only if a shutdown or a close of the session overlaps them, an `AttributeError`.
- *session, REST*: the password goes to the pinned device only; no session is left
  on the device; a session outlives its buses and no bus outlives its session;
  calls end, and fail with an error of the library unless the session is closed under
  them; `set_bitrate` keeps the timing parameters that it was not given (`can_fd` and
  `silent` it overwrites).

`PROJECT.json` lists the components, the hazards with their lines, and for every
definition the lines it models.

## 2. Modules

| Module | Content |
|---|---|
| `SharedLink` | abstract specification: one link for each key, opened for the first user, closed with the last |
| `HelixConnection` | registry, reference counts, WebSocket threads, constructors and shutdowns of buses |
| `HelixConnection_proofs` | theorems about it |
| `HelixLink_proofs` | the refinement of `SharedLink`, and what holds of an application with one thread; extends `HelixConnection_proofs` |
| `HelixReceive` | WebSocket thread, subscriber sets, queues, `recv`, end of a bus |
| `HelixReceive_proofs` | theorems about it |
| `HelixCodec` | the codec as operators on messages and records |
| `HelixCodec_proofs` | the round trip, for all lengths |
| `HelixSend` | `send` of several threads over managers that come and go; extends `HelixCodec` |
| `HelixSend_proofs` | theorems about it |
| `HelixSession` | one session and the buses on it: login, REST calls, `set_bitrate`, close by several threads |
| `HelixSession_proofs` | theorems about it |
| `HelixBus` | one bus: its constructor, REST calls and shutdowns of several threads, a session closed meanwhile |
| `HelixBus_proofs` | theorems about it |
| `MCHelixBus`, `MCHelixConnection`, `MCHelixReceive`, `MCHelixSend`, `MCHelixSession` | instances for TLC |

### HelixConnection

One element of `Buses` is one `HelixBus`. A constructor makes at most one manager
and one WebSocket, so both are named by the bus that made them; `instances`,
`refCount`, `refLock`, `ws`, `wsThread`, `connected` and `subscribers` are the
fields of the managers, `sock` and `closing` the life of a WebSocketApp, `pc` the
place in the constructor or in `shutdown`. A step is what happens between two
points at which another thread can see a difference: a critical section or a
blocking call. `acquire` is the steps `Acquire`, `BuildConnectUrlFails`,
`Connect`, `ConnectTimeout` and `UndoAcquire`; `release` is `ReleaseShared`, or
`ReleaseLast`, `Join` and `RemoveInstance`, over which `refLock` is held.
`acquire` holds `_ref_lock` only to count, and connects without it.

Faults are a constant: a ticket that cannot be had, a handshake that fails or
hangs, a connection that drops, a thread that outlasts the join. Application
threads are concurrent or, with `SingleThreaded`, one.

Abstractions: the two assignments of `_connect` and the start of its thread are one
step; the `_shutdown` event, which nothing reads, is left out; the finaliser of a
constructor that failed runs at any later time.

### HelixReceive

One manager. The WebSocket thread reads a message (`Receive`), walks its records
(`Walk`, `StartDispatch`), and under `_subscribers_lock` runs the loop of
`_dispatch_to_subscribers` for the set of the channel and then for the set of all
channels, one subscriber at a time: `Dereference` makes the temporary strong
reference of `bus_ref()`, `Put` ends the turn. A bus ends by `Shutdown` or by
`DropBus`, when its last reference goes; if the loop holds its temporary reference
at that moment it is finalised there (`FinalizeHere`). `recv` is `Recv`, `Check`,
`Get` and `TimeOut`. A record is a frame of a channel, one that is skipped, or one
cut off by the end of the message. A message that cannot be decrypted is dropped as
a whole. Message filters are python-can's and left out.

### HelixCodec and HelixSend

A payload is the number of its bytes and of the zeros that pad it; arbitration id,
channel and timestamp are copied in both directions and left out. `TooLong` is the
16-bit length of `encode_message`, which `encode_can_tx` calls last. `Echo`,
external, is what a backend reports for a frame it has sent.

`HelixSend` follows a call of `send` through its tests and locks: `Send`,
`CheckConnected`, `Encrypt` (one nonce, under the lock of the cipher),
`ReadSocket`, `TakeLock`, and writing in two halves, `WriteFirst` and `WriteRest`,
so that a second writer could come between. `WriteFails` is the exception of
`ws.send`. What `HelixConnection` does in detail is five short actions here: any
WebSocket of the manager is lost or fails to open (`Lose`), `_ws` is closed and cleared
(`Disconnect`), the event is cleared whatever WebSocket has ended (`ClearConnected`),
`_ws` is overwritten by a new one (`Connect`), and any WebSocket that opens sets the
event (`OnOpen`).
That another thread shuts the bus down shows as `SendRefused`. `NoncesAscend` is
about one thread: of two, the one that drew its nonce later may write first
(`connection.py:356` draws it before the lock), which the property allows and the
model contains.

### HelixSession

One `HelixSession`, its `HelixRestClient` and that one's `HelixAuthClient`, which are
made together; `sessionClient`, `authClient` and `token` are the fields that close
clears, and `busClient` is the reference of a bus. No lock protects them, so every
test and every use of one is a step: `Route` and `ReadClient` are the test and the
use of `_auth_client` in `_get` and `_post`, `CheckToken` and `ReadToken` those of
`_session_token`, and close is `Close`, `EnterClose`, `Logout`, `Forget`,
`DropAuthClient`, `ReleaseClient`, in any number of threads. A request and its
answer are one step that succeeds or fails. `pin` and `device` stand for the
fingerprints, `credentials` remembers for whom the password was encrypted.

`set_bitrate` is two requests, each with all these steps: it reads the channel's
configuration, goes on without it if that fails, and writes `Merged`. A configuration
has three parameters, one of each kind: `baud` is always given; `point` is given or
kept from what was read, like every timing parameter; `silent` is written from an
argument that `HelixBus.set_bitrate` cannot pass on, so it becomes False (`can_fd`
likewise becomes whatever the bus was made with). Every other call (`open_channel`,
`state`, ...) is one request that changes nothing in the library and is one of
`ReadOps`. `get_ws_ticket` (`TicketOps`) differs in what it does without login.
`OtherClient` writes the configuration for anybody else, `Expire` ends the session on
the device.

Abstractions: the two reads of the bus's own reference in `_ensure_rest_client` are
one step; a call that it refuses changes nothing and is left out; that an answer to
the second request is lost after the device followed it makes no difference to the
state.

### HelixBus

One bus, between the two modules above: what the manager and the session do inside
a call is there, and here one step. The fields of a bus have no lock, so every read
of one that another thread may change is a step: `_ensure_rest_client` is `Ensure`,
which tests `_rest_client`, and `Return`, which reads it again; the request is `Send`,
which tests the client's `_auth_client`, `UseClient`, which reads it again and tests
`_session_token`, and `UseToken`, which reads that again; `shutdown` is
`Shutdown` (the guard), `Mark`, `Unsubscribe`, `Release`, `Close`, `CloseOwn` and
`Forget`. `life` is the place in the constructor: `Adopt` and `ReadSession` are the
two reads of `session.rest_client`, `ReadCrypto` the four of `_auth_client` behind the
two uses of `crypto_session`, and `InitParent`, `ConfigureBitrate`, `GetInstance`,
`Acquire`, `Subscribe` the rest. A constructor that raises is finalised (`Finalize`)
in any thread, with the attributes it had made until then: without `_shutdown_flag`
the finaliser stops at an `AttributeError` that python-can suppresses, without
`_connection_manager` it gives nothing back.

`has` is what the bus holds: the keys to ask for a manager with, the manager, the
subscription. `refs` counts its references at the manager, below zero when too many
were given back; `session` goes from "open" over "logged out" and "closing" to
"closed", because the close of a session first takes the token away, then the client's
`_auth_client` and then the session's client. `marks`
and `overlapped` are history: a thread passed the guard of `shutdown` while another
stood between guard and flag ("raced"), the session was being closed during the
constructor ("disturbed"), another thread was in `shutdown`, or the session was being
closed, during a call. The
properties need them as exceptions; each exception is a behaviour that the model has.

### Where the models meet

`HelixConnection` has constructors and shutdowns of many buses with one thread each;
`HelixBus` has one bus with many threads. `HelixReceive`, `HelixSend` and
`HelixSession` each take one of the three things a bus uses, with the others in short:
`Lose` and `Disconnect` in `HelixSend`, `Send` in `HelixBus`, `busClient` in
`HelixSession`. `HelixConnection` implements `SharedLink`, which is what the other
modules assume of it.

## 3. Runs

Passing runs:

| Run | Instance | Shows |
|---|---|---|
| `connection_faulty` | 3 buses, 2 sessions, concurrent, all faults | `FedByOwnSession`: no bus receives from a WebSocket of another session; `RefAccounting`: the count is the number of holders, minus references that failed constructors gave back twice; `NeverCutOff`: no WebSocket is closed under a bus unless a reference was given back twice (`Overdrawn`); `ClosedWithLast`: a manager that nobody holds has no live WebSocket, unless one of its constructors failed (such a WebSocket may be left over for good); `FlagTruthful`: `is_connected` is set only while a WebSocket of the manager is open or its `on_close` is due, and it is set while the only WebSocket the manager ever had is open and no reference was given back twice (of managers that reconnected the second half says nothing: `on_close` of an old WebSocket may clear the event) |
| `connection_single` | 3 buses, 2 keys, one thread, drops and slow threads | `ImplementsSharedLink`: the whole implements `SharedLink`, fairness included; `RegisteredWhileHeld` |
| `connection_live` | 2 buses, concurrent, all faults | `ConstructionEnds`, `ShutdownEnds` |
| `receive_bus` | bus of one channel, bus of all, 2 channels, 2 records | `RoutedByChannel`, `InOrder`, `DropsCounted`, `RestOfBatchKept`, `QuietAfterUnsubscribe`, `RecvEnds`, `ShutdownCompletes` |
| `send_threads` | 2 threads on 1 manager, 2 calls each, 2 WebSockets | `NoncesUnique`, `NoncesAscend`, `WireNotTorn`, `SentExactlyOnce`, `WireDecodes`, `SendEnds` |
| `session_shared` | 1 bus, 2 closing threads, 2 devices, another client | `PinRespected`, `LoginAccounted`, `SessionOutlivesBuses`, `CrashOnlyWhileClosing`, `TimingKept`: a timing parameter that `set_bitrate` was not given stays as it was read, if the read succeeded and nobody wrote meanwhile; `CallEnds` |
| `bus_life` | 1 bus with or without a session, 3 threads, 2 calls each, a close | `GivenBackOnce`: a reference is given back once, unless two threads race through the guard (`bus.py:646`) or `acquire` had given it back itself; `NothingLeftBehind`: after a shutdown neither reference nor subscription is left; `SealedUnlessClosed`, `NoLegacyFallback`: no way from a session to an unencrypted WebSocket or client, except a close during the constructor; `CrashOnlyWhenOverlapped`: an `AttributeError` gets out of a shutdown only if another overlaps it, out of a REST call only if a shutdown or a close of the session does, and never out of `state` |

Runs that TLC refutes, each with the line of the repository it contradicts (the
`findings` of `PROJECT.json`):

| Run | Property | What happens |
|---|---|---|
| `connection_race` | `OneSocketPerKey` | A constructor looks its manager up; the last release of another bus unregisters it; the constructor connects it all the same, beside the manager that the next constructor registers: two WebSockets for one key (`connection.py:93`). |
| `connection_second_release` | `NoSecondRelease` | `acquire` raises and gives its reference back; the finaliser's `shutdown` finds `_connection_manager` assigned and releases again: the count goes to -1, against the purpose of the guard at `bus.py:643`. A bus that joined the manager while it was connecting is cut off by this. |
| `connection_reconnect` | `NewBusReconnects` | The connection is lost while two buses hold the manager. The application follows "Create a new Bus instance to reconnect" (`connection.py:351`) and replaces one: it joins the dead manager and does not connect. |
| `receive_drop` | `CollectionEnds` | The application drops its last reference while the WebSocket thread dereferences the weak one; the finaliser runs in the WebSocket thread and waits for the lock that thread holds. The manager never receives again. |
| `session_closed` | `ClosedSessionRefused` | A bus keeps its reference to the REST client when the session is closed. `_ensure_rest_client` has a message for that case (`bus.py:511`) and never gives it: the client has no `_auth_client` any more and sends the call as a plain request of the mode "No session: unauthenticated client (legacy backends only)" (`bus.py:513`). |

Bounds. Three buses are the fewest for the race of `connection_race` (one leaves,
one is between look-up and count, one comes after) and leave one more than any
pair of threads needs; each bus lives once, so the models are finite without a
bound on steps. Liveness of `HelixConnection` takes two buses: a thread can only
wait for one holder of `_ref_lock` and one WebSocket thread. Queues have one place
and two records are sent, so that queues overflow, one message holds both, or each
has its own; `MaxRecords` and `MaxBatch` name these bounds. `MaxSends` = 2 with two
threads makes four encryptions, one more than `NonceLimit` = 3 allows; `MaxSockets`
= 2 allows one reconnect, which is what a stale `ws` needs. Messages have the
lengths where the codec decides differently: 8, 9, 12 and 65 bytes of one thread, 64
of the other.
Buses of one session do not write the session's fields, and meet only in the
channel configuration, where `OtherClient` (`MaxOthers` = 1) stands for the second
one; so `session_shared` has one bus with one call of every kind (`MaxCalls` = 1),
and two closing threads, which do meet. The safety properties of that run are also
proved, for every number of each.
In `bus_life` three threads are one more than a race needs: two may meet at the guard
of `shutdown` while the third is in a REST call, or one may still be in a shutdown
when the next two begin. Two calls each let a thread come back to a bus that it has
shut down. Its safety properties are proved too, for every number of both.
`connection_faulty` and `bus_life`, which check no liveness, use symmetry among buses
of equal configuration and among threads.

Deadlock is checked in every run that checks safety: a state in which all buses are
down, or all calls are made, steps to itself (`Finished`).

## 4. Fairness

The operating system schedules threads that can run: weak fairness for what an
application thread does inside a constructor, `shutdown`, `recv` or `send`, and for
the WebSocket thread inside a message. Locks are held for bounded time, and the
bounded number of calls makes weak fairness enough at a lock. A blocking call with a
time-out ends by itself (the 10 s of `_connect`, the 2 s of the join, the timeout
of `recv`). Nothing is assumed of the application, which need not start anything,
nor of the network, except that a handshake or a teardown ends in runs that leave
out the fault that lets it hang.

## 5. Proofs

All theorems hold for every value of the constants under the assumptions named in
the modules.

- `HelixConnection_proofs`. `TypeCorrect`. `OwnSession` (`FedByOwnSession`): the
  invariant `KeyInv` says that registry, bus and manager agree on the key, and a
  key contains the session. `Accounting` (`RefAccounting`): every step adds at most
  one holder or takes one away, together with the count; `RaisedInv` says which
  buses have raised, so that the second return of a reference is told from the
  first. `CutOff` (`NeverCutOff`): `Accounting` makes the last reference the last holder
  unless the count is behind the holders, which only the second return of a
  reference does, and the property excepts that (`Overdrawn`); it needs no
  assumption on the network. `Closed` (`ClosedWithLast`): `CloseInv`, as long as no
  constructor of a manager failed, `_ws` is the WebSocket that goes on, a manager that
  nobody holds has none, and a constructor that connects is alone. `ClosedWithLast`
  is not inductive: the last release closes `_ws`, so `_ws` must be the right one.
  `Truthful` (`FlagTruthful`): `OnlyInv`, the only WebSocket of a manager is its `_ws`
  until it is told to close, and nobody opens another during the join, after which
  `_disconnect` clears the event; `LockInv`, whoever is in `_disconnect` holds
  `_ref_lock`.
- `HelixLink_proofs`. Its theorems assume `Sequential`: one application thread, no
  ticket and no handshake that fails. Connections may be lost and threads outlast the
  join. `Reachable` collects what holds then: `SoleInv`, one bus at a time is under
  construction or in `shutdown`, none raises; `RegistryInv`, a bus that is not shut
  down has the registered manager, and one that is being taken down has no holder;
  `CreatorInv`, who connects created the manager. From these, `SharesLink`: `Spec`
  implements `Link!Spec`. `LinkStep` maps every step: `Acquire` is `Enter`, the two
  releases are `Leave`, `OnOpen` is `Open`, `Drop` is `Lose`, all others stutter; the
  values of `users` and `link` are those of `Sharing` and `LinkState` (`LinkIs`), so
  that no step has to count WebSockets. `Registered` (`RegisteredWhileHeld`) is part of
  `RegistryInv`. `OneSocket` proves of such an application what `connection_race`
  refutes of concurrent ones: only threads that race break the promise of one
  WebSocket for each key.
- `HelixReceive_proofs`, for any buses (finitely many), channels, messages, threads
  and queue size. `TypeCorrect`; the others from `ReceiveInv`, the conjunction of
  `SubInv` (a bus is in the set of its channel from `subscribe` to `unsubscribe`
  unless it was collected, and a dispatch runs over the present set), `NumberInv`
  (what lies ahead is younger than the frame under way, and that one younger than
  what was dispatched before), `OfferInv` (what is dispatched to a bus is of its
  channel), `GivenInv` and `InOrder` (what a bus was given was dispatched to it, in
  order, before the frame that is pending), `DueInv` (what a bus is due was
  dispatched or lies ahead) and `CountInv` (`_dropped_messages` against the frames
  that will stay missing, in the midst of a dispatch too). `FramesInOrder`,
  `FramesRouted`, `BatchesKept` and `LossesCounted` follow; none of their properties is
  inductive, as none says what a dispatch under way will still do. `QueueQuiet` is
  an action property: a bus that is down is in no set, so no `Put` is for it.
- `HelixCodec_proofs`. `CodecRoundTrip`: for data frames of any length, what
  `encode_can_tx` accepts `decode_can_rx` accepts back, padded to the next length of
  the table and no further; encoding the result gives the same record.
- `HelixSend_proofs`. `TypeCorrect`. `Nonces` (`NoncesUnique`): `NonceInv`, all nonces
  used lie below the counter. `Decodes` (`WireDecodes`): `Encoded`, what is under way
  is the encoding of the message, and `CodecRoundTrip`. `WireWhole` (`WireNotTorn`):
  `WireInv`, whoever writes holds the `_send_lock` of the manager; a first half at
  the end of an open WebSocket belongs to a thread that goes on writing; nothing
  was written to a WebSocket before it opened. `WireNotTorn` alone is not
  inductive: it does not say who owns an unfinished message. `Ascend`
  (`NoncesAscend`): `SealOrder`, a thread's later calls have the later nonces, all
  below the counter, and `WireOrder`, its calls are on every wire in their order.
  `ExactlyOnce` (`SentExactlyOnce`): `SentInv`, a call that returned has one end on the
  wires of its manager, any other none, and a thread inside `send` has not returned
  from its present call.
- `HelixSession_proofs`. `TypeCorrect`; `Pinned`, `Accounted` and `Outlives` from
  `SessionInv`, which the buses cannot disturb: what was negotiated has passed the
  pin (`PinInv`), and a thread past its logout leaves no session behind
  (`LoggedOut`), which `LoginAccounted` needs because the token is forgotten later
  than the request is made. `Crashes` and `Merges`, action properties, from
  `CallInv`: a thread past a test still finds the field or is in a call that a close
  has met (`Watched`), and an undisturbed `set_bitrate` has the present configuration
  in hand (`Fresh`).

- `HelixBus_proofs`. `TypeCorrect`. `NoLegacy` and `Sealed`: `IdleInv`, nobody calls a
  bus that its constructor has not returned, and `SealInv`, what an undisturbed
  constructor with a session has found at each place. `Crashes`: `CrashInv`, whoever
  is past the test of a field that is None by then is overlapped, by a shutdown or by
  a close of the session (`LossKnown`), which only meets REST calls (`UsesClient`),
  and overlaps of shutdowns are recorded on both sides (`OverlapKnown`). `Once` and
  `NothingLeft` share `RefInv`: a constructor holds a reference only at `Subscribe`
  (`Unused`), one that failed leaves none (`Gone`), a bus that is up has its own until
  a shutdown sets the flag (`Counted`, `Unmarked`); from then on a thread is on its
  way to give it back (`OnItsWay`), as long as nobody has raced the only one
  (`Alone`), and the reference is there until it does (`Owed`). `GivenBackOnce` alone
  is not inductive: it does not say how many threads are about to release.

Every safety property of a passing run is a theorem. Only model-checked are the
liveness properties (`ConstructionEnds`, `ShutdownEnds`, `RecvEnds`,
`ShutdownCompletes`, `SendEnds`, `CallEnds`) and the fairness of `Link!FairSpec` in
`ImplementsSharedLink`, of which `SharesLink` proves the rest: they speak of fairness
and of enabled steps, which the prover does not handle.

## 6. Not modelled

- Cryptography itself: keys, AEAD and key derivation are the library's.
  A nonce, which is this package's business, is modelled.
- `get_session`, `change_password`, `refresh_session` and a `HelixAuthClient` that the
  application uses by itself; the answers of the REST calls other than
  `set_bitrate`; several sessions on one device.
- Remote frames on the way back: whether a record for a remote request carries
  data is the backend's choice, so the round trip is stated for data frames.
- Configuration detection, logging, text messages, examples, packaging.
- The answers of `state` when a bus is down or its request fails: it may still report
  ACTIVE. What is modelled is that it never raises.
- The adoption of a ticket provider by a manager that exists (`connection.py` 115-125):
  `HelixConnection` lets any attempt to mint a ticket fail instead.
- A WebSocket that opens after its constructor gave up waiting and was torn down
  (`connection.py:457`) is in `HelixConnection` as a handshake that ends late; what
  the backend does with two of one session is not.
- The wait of a `recv` without timeout, which nothing ends when the connection is
  lost: the model contains it, `RecvEnds` is about calls with a timeout.

Differences between documents and code that no run states, because what the document
promises has no counterpart in the code or, as the last one, is seen in one assignment:

- `auth.py:11` names "Automatic re-authentication on session expiry"; an expired
  session is an error of the next request, and nothing logs in again.
- `HelixSession` announces `AuthError` for a failed login; `_init_auth` (`bus.py` 91-94)
  turns every failure into `CanInitializationError`.
- After `shutdown` of a bus with a session, a REST call is refused with "The HelixSession
  backing this bus has been closed", although only the bus was; without a session
  the same call makes a new client, which no later `shutdown` closes.
- `set_bitrate` reads the channel's state "to use as defaults" (`bus.py:216`), but writes
  `can_fd` and `silent` from its arguments, which are False by default, and a bus cannot
  pass `silent` at all: setting the bitrate of a channel that somebody has made
  listen-only makes it active. `HelixSession` models that (`Merged`); its property
  `TimingKept` is about the timing parameters only.

## 7. Plan

1. Done: `HelixConnection` with `SharedLink`, `HelixReceive`, `HelixCodec`,
   `HelixSend`, `HelixSession`, `HelixBus`, their runs, proofs of every safety
   property that these check, and the safety part of the refinement of `SharedLink`.
2. `OneSocketPerKey` and `RegisteredWhileHeld` for concurrent applications whose buses
   never let a count go to zero; the parts of `SharedLink` that failures leave true.
3. The codec of `decode_message` over sequences of records, and the HTTP half of
   `crypto.py` with its own nonces.
4. `HelixSession` composed with `HelixConnection`: tickets are minted at connect
   time through the client of a session that may be closed by then.
