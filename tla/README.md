# Verification of msomeip

TLA+ models of the SOME/IP stack in `src/` (C++17), the TLC configurations that
check them on small instances, and TLAPS proofs of the properties that matter
most. Paths below are relative to the repository.

## 1. Inventory

| component | sources | state | operations | threads that touch it |
|---|---|---|---|---|
| Application: requests | `src/application.cpp`, `include/msomeip/application.h` | `session_id_`, `pending_requests_` (request id -> promise, timestamp, timeout), `running_` | `send_request`, `send_request_no_return`, `handle_message`, `cleanup_expired_requests`, `start`, `stop` | callers (under `session_mutex_`), the receive threads (serialised by `Runtime::handlers_mutex_`), whoever calls `stop` |
| Application: dispatch, events, fields | same | `method_handlers_`, `event_handlers_`, `event_configs_`, `fields_` | registration, `handle_message` dispatch, `offer_event`, `notify_event`, `offer_field`, `set_field_value` | callers, receive threads |
| Service discovery | `src/sd/service_discovery.cpp` | `local_services_`, `discovered_services_`, `eventgroups_`, `find_requests_` (all under `services_mutex_`), `pending_subscriptions_` (under `subscriptions_mutex_`) | offer / stop offer / find / subscribe / unsubscribe / eventgroup calls, the four entry handlers, the worker's TTL check, cyclic offers and retries | callers, UDP receive thread, SD worker |
| SD entries and options | `src/sd/service_entry.cpp` | none | `serialize`, `deserialize` | - |
| Transport protocol (TP) | `src/tp/*.cpp`, `include/msomeip/tp/*.h` | `buffers_` (request id -> segments, total size, last flag, time of the first segment) | `TpSegmenter::segment`, `add_segment`, `is_complete`, `reassemble`, `cleanup_expired` | receive threads |
| TCP transport | `src/transport/tcp_transport.cpp` | `connections_`, `endpoint_to_connection_`, `next_connection_id_`, `running_`, the sockets and one thread per connection | `listen`, `connect`, `disconnect`, `start`, `stop`, `send_to`, `send_to_endpoint`, accept and receive threads | callers, accept thread, one receive thread per connection |
| UDP transport | `src/transport/udp_transport.cpp` | socket, `running_`, one receive thread | `init`, `start`, `stop`, `send_to` | callers, receive thread |
| Runtime | `src/runtime.cpp` | `service_handlers_`, `running_`, `initialized_` | `init`, `start`, `stop`, `send_message`, routing of received messages | callers, receive threads |
| Shared-memory agent | `src/shm_agent.cpp` | command and response rings in shared memory, `sequence_`, `pending_requests_`, `response_queue_` | `connect`, `disconnect`, `send_command` and its users, `lookup_*`, `process_responses` | callers, agent worker, routing daemon (external) |
| Skeleton and proxy | `src/service_base.cpp` | method, getter, setter and event tables, `available_` | `offer`, `stop_offer`, `call_method`, `get_field`, `set_field`, event and field handlers | callers, receive threads |
| Message and payload codecs | `src/message/*.cpp` | none / read position | `serialize`, `deserialize`, typed `append` and `get` | - |

### How the parts interact

`Runtime` owns the two transports, service discovery, the reassembler and the
shared-memory agent, and hands itself to every `Application`. A request goes
`Application::send_request` -> `ServiceDiscovery::get_service_endpoints` ->
`Runtime::send_message` (-> `TpSegmenter`) -> a transport. A message comes up a
transport's receive thread -> `Runtime::on_*_message_received` (->
`TpReassembler`) -> `ServiceDiscovery::process_sd_message` or, under
`handlers_mutex_`, a registered handler such as `Application::handle_message`.
Service discovery calls back into the application (availability, subscription)
and sends through a callback. There is no queue between these layers: a receive
thread runs the handler, and the mutexes above are all that orders the threads.

Some observations about how the parts are joined bear on the models:

- `Application::init` registers its handler for service 0, instance 0, and
  `Runtime` looks handlers up by the ids of the message, so `handle_message` is
  reached by messages for (0, 0) and by whoever calls it (it is public). The
  models start at `handle_message`.
- `Runtime` does not set `ServiceDiscovery`'s send callback; the owner of the
  object has to (`set_send_message_callback`). The models are of an object that
  has one.
- SD messages are sent as one bare entry, without the header that
  `process_sd_message` parses, and with method ids 0x8001 to 0x8008 where
  `Runtime` expects 0x8100. Peers are therefore the environment of the SD
  models: any entry may arrive at any time.
- A deserialized message has instance 0xFFFF, so a handler registered for
  another instance, as `Application::init` does with (0, 0), is not found by
  `Runtime`. `Dispatch` starts where a handler is registered for what arrives.
- `ServiceSkeleton::init` registers for method 0 only, and `handle_message` gives
  notifications to event handlers, never to method handlers: the skeleton's
  field getters and setters (`service_base.cpp` 163-208) are not reached.
- Nothing writes `ShmAgent::response_queue_`: `lookup_subscribers` always ends
  by its time-out, and the number it files (line 377) is never the one it sends
  (line 98).

### What is hard here

Interleavings: callers, one receive thread per transport and per TCP connection,
the SD worker. `send_to` keeps `connections_mutex_` over a send that may block,
`stop` over joins, and processes share the rings of the shared-memory agent.
State is read under one mutex and used under another, or after
it was released (`close_connection`, `handle_offer_service`, `send_request`,
`set_field_value`, `add_segment` / `reassemble`). UDP loses, repeats and
reorders. Time-outs race late answers. Session numbers, TTLs and TP offsets have
16 and 24 bits. `PROJECT.json` lists each such place under "hazards", with the
properties that watch it.

What makes each component correct:

| component | properties |
|---|---|
| requests | every future is settled, once, by the answer to its own request, a time-out or `stop` |
| offers and discovery | the last thing the network and the application were told about a service is true; a silent peer is found out; offers are repeated |
| subscriptions | an acknowledged subscriber is notified, once; a wanted subscription is asked for |
| TCP connections | every connection has a thread that will close it; the endpoint map and the connection table agree; `stop` returns |
| TP | segments partition the payload; what is reassembled is a whole message; a whole message is reassembled |
| shared-memory agent | the rings are bounded FIFOs; commands are numbered in the order of the ring; the last word on a service is the daemon's, as far as the agent gets it |
| dispatch, fields, skeleton, proxy | no circle of threads waiting for each other's mutexes; an offer is in both tables or in none and its notifications go to its subscribers; the last notification of a field is its value; the threads `Runtime::start` and the connections started have ended when `Runtime::stop` returns |
| framing, codecs | whole frames arrive in order, unchanged, however they are read; a payload reads back as it was written; SD messages are understood |

## 2. Modules

| module | models | run module, configurations |
|---|---|---|
| `Requests` | request side of `Application` | `MC_Requests`: `MC_Requests.cfg`, `MC_RequestsStop.cfg` |
| `RequestsProofs` | theorems about `Requests` | |
| `ServiceDiscovery` | offers, discovery, worker | `MC_ServiceDiscovery`: `MC_ServiceDiscovery.cfg` |
| `ServiceDiscoveryProofs` | theorems about `ServiceDiscovery` | |
| `EventSubscription` | eventgroups, subscriptions, event calls of `Application` | `MC_EventSubscription`: `MC_EventSubscription.cfg`, `...Notify.cfg` |
| `EventSubscriptionProofs` | theorems about `EventSubscription` | |
| `TcpTransport` | connections of `TcpTransport` | `MC_TcpTransport`: `MC_TcpTransport.cfg`, `...Stop.cfg` |
| `TcpTransportProofs` | theorems about `TcpTransport` | |
| `TpSegmenter` | `TpSegmenter::segment` as operators | through `TpReassembly` |
| `TpReassembly` | `TpReassembler` and its users | `MC_TpReassembly`: `MC_TpReassembly.cfg`, `...Own.cfg` |
| `TpProofs` | theorems about the two | |
| `BoundedFifo` | what a ring in shared memory promises (abstract) | as properties of `ShmAgent` |
| `ShmAgent` | `ShmAgent`, with the daemon as environment | `MC_ShmAgent`: `MC_ShmAgent.cfg` |
| `ShmAgentProofs` | theorems about `ShmAgent`, the refinement of `BoundedFifo` among them | |
| `Dispatch` | `Runtime`, `Application`, skeleton, proxy, SD, UDP and TCP threads and their mutexes | `MC_Dispatch`: `MC_Dispatch.cfg` |
| `DispatchProofs` | theorems about `Dispatch` | |
| `Payload`, `Message`, `SdMessage` | the codecs, as operators | through `Wire` |
| `Wire` | TCP framing, the SD path of a datagram | `MC_Wire`: `MC_Wire.cfg` |
| `WireProofs` | theorems about the codecs and `Wire` | |

Variables keep the names of the members they stand for. An action is a critical
section, or a whole call where the code holds one mutex throughout. A definition
commented "Mutant of X" is a deliberately wrong form of X; nothing uses it. It
is what X is replaced by to see that a property notices.

**Requests.** A call is the number of its draw from `session_id_`.
`send_request` holds `session_mutex_` to its end, so `session_mutex_`, `step`
and `endpoints` are the one call inside it: `SendRequest` (draw and register),
`GetServiceEndpoints`, `SendSucceeds` / `SendFails` for each endpoint,
`NotReachable`. `HandleResponse` / `HandleOther` and then
`CleanupExpiredRequests` are the two critical sections of `handle_message`.
`promise[k]` is the state of a promise, with "broken" for one destroyed unset.
`set_value` on a completed promise throws: `raised` records who met that. From a
receive thread it ends the process (`Alive`). `origin`, `sent`, `replies`,
`unreachable` are history or network. Responses, once sent, may be delivered any
number of times, late or never. The time stamp the clean-up reads just before
its lock is read inside it here.

**ServiceDiscovery.** `services_mutex_` is the service whose `offer_service`
sleeps with the mutex. `announced` is the last entry sent for a service, `view`
what the availability handler was last told. `receiver` holds the one entry the
receive thread works on, with the seconds since its time stamp (`pause`).
`find_requests_` is kept although nothing reads it. The worker goes round
"wait", "ttl", "offers"; its third duty, retries, is in `EventSubscription`,
which shares no state with this module but `local_services_` and `running_`.

**EventSubscription.** One node in both roles. `subscribers` is
`EventgroupInfo::subscribers`. `acked` and `wiped` are history: who was told its
subscription is in force, and which lists the server's own calls dropped.
`attempts` counts SUBSCRIBE entries; nothing bounds them, as `retry_count` is
never incremented, and no property says so. The loops over endpoint options and
over the queue are functions on the number of turns taken (`AddSubscribers`,
`Without`).

**TcpTransport.** One record per thread says where it is; `receiver[i]` is the
receive thread of connection i. `stop` keeps `connections_mutex_` over its loop
and `send_to` over its sends (`SendBegins`, `SendReturns`), everyone else for one
step. The sends have no timeout: a peer that does not read holds up every thread
that needs the mutex, so nothing makes `SendReturns` happen, and
`PeerCloseIsNoticed` has as its premise that at some time the sends cease
(`SendsCease`). `disconnect` may be called for any id, that of a connection still
being set up included. `AssignReceiver` is
`connections_[id]->receive_thread = std::thread(...)` after the thread has
started: with the connection gone, it dereferences null (`crashed`).

**TpSegmenter, TpReassembly.** `segment` is the loop that cuts; the copy made of
a payload that fits, and the empty list for a type without a TP counterpart, are
left out. Segments are pieces known by message and place. Because the size of a
moved-from vector is 0, `total_size` is the offset of the last segment, and only
a message that ends with an empty segment can complete; the constant `EmptyTail`
says which messages a peer ends that way, so that the rest of the code is
exercised too. `Reached` is what the loop of `is_complete` has in
`expected_offset` behind segments that lie one behind the other.

**ShmAgent.** `commands` and `responses` are the rings with their `count`,
`read_index` and `write_index`; `lock` is the lock in shared memory, which
`shm_lock` may fail to get in time. `call[c]` is where a caller is between the
check, the lock, the store and the notification; `owner` is the thread in
`disconnect`. A caller that holds the lock when `disconnect` closes the memory
faults (`SendFaults`): the code does not wait for callers. The ring operations
are shown to implement `BoundedFifo` through `INSTANCE BoundedFifo WITH queue <-
Contents(...)` (`RingsAreFifos`): every step of the agent or the daemon is a
`Put`, a `Take` or leaves the abstract queue alone. The daemon is external: it
serves commands in order under the lock and announces changes. So are other
agents. The memory has one name (`mrouting_shm` by default), every process that
connects to it pops whatever response is next, and one notification wakes one
worker: `OtherTakes` and `OtherWakes` take responses and notifications at any
time, and `missed` is history, the services whose last announcement another
agent took. Of these this agent knows nothing, and `ViewFollowsRegistry` says
nothing; for the others it is not this agent that loses an announcement. The
lock may also be refused because another process has it. `sequence_` is 32 bits
wide; its bound is far below the wrap.

**Dispatch.** A thread is the sequence of steps it still has to take (`todo`),
and `Body`, `HandleMessage`, `Route` and `Round` give the functions of the code
as such sequences: `Under(m, steps)` is a scope with a `lock_guard` on m. A
critical section that neither locks nor calls anything inside is one step, and
an unlock happens with the step before it: both only leave out interleavings in
which no other thread could tell the difference, since whatever the step touches
is guarded by the mutex it holds. Handlers are the user's (`RunHandler`): they
return at once or make a call of `Reentry`. `IsCall` and `IsArrival` say which
calls the API has and which messages there are; scenarios, `Reentry` and
`Arrivals` are sets of those.

`event_configs_` has one entry for an event id, whatever the service;
`eventgroups_` is keyed by service and eventgroup (`Group`). So an offer is an
event id with its group, and calls for other services meet it in one table and
not in the other. `offered` and `disturbed` are history: the offers not yet
withdrawn, and those one of four calls touched whose keys collide with theirs: an
`offer_event` or `subscribe_event` of the same event id for another service or
eventgroup, a `stop_offer_event` of that id for another service, and a
`stop_offer_event` of the service itself for another event configured with the
same id of an eventgroup. `OfferStands` says that nothing else parts the tables.
The collision itself is in the model as in the code: a node that offers an event
and subscribes to another service's event of the same id sends its notifications
to the other service's list from then on.

`last[f][p]` is what the subscribers listed in group p were sent last of field f:
`Notify` writes it for the group in the configuration and for no other, as
`notify_event` asks for those subscribers; a new list has been sent nothing.
`alone` is history: the last change of the field overlapped no other, and no
`subscribe_event` has redirected it since. Overlapping setters may notify in the
other order than they stored, so `NotifiedIsStored` leaves them out.

`running_` is `Runtime`'s. `told` are the background threads whose transport or
`ServiceDiscovery` has its own flag set, `alive` those that have not ended.
`Runtime::stop` stops the SD worker, the UDP thread and the TCP transport, each
by a `Halt` and a `JoinThread`; `TcpTransport::stop` takes `connections_mutex_`
between them (`Shut`), and while it joins (`Closing`) no connection is made and
the TCP thread cannot end, as in the code. One connection stands for all: it
comes (`Connect`) and goes (`PeerCloses`), and with it its thread; the tables
are `TcpTransport`'s. So `StoppedIsQuiet` says that these threads have ended
when `stop` returns, not that it returns: with a connection open it may not
(`StopReturns`). `NoCircularWait` is about the eleven mutexes and the joins, not
about `connections_mutex_`. The worker of `ShmAgent` is started by `init` and
stopped by nobody but the agent's own `disconnect`: it goes on after
`Runtime::stop` and is not among the threads. `Start` is one step: a `stop`
between the parts of `start` is not modelled.

What `Reentry` may not contain is as telling as what it may. Under
`services_mutex_` (subscription handler, and availability handler when a TTL
expires) no call that takes `services_mutex_` or `event_configs_mutex_`:
`find_service`, `notify_event`, `subscribe_event`, `send_request`. Under
`handlers_mutex_`, `methods_mutex_` or `events_mutex_` (message handlers) no
registration in that table and no `Runtime::stop`, which would join its own
thread; under the proxy's `events_mutex_` no `unsubscribe_event` of the proxy.
Behind this is one order: `Rank` numbers the mutexes so that the code takes them
upwards only, `HookLevel` gives each kind of handler the rank from which it may
take mutexes, and `HandlersKeepOrder` says that what `Reentry` allows keeps to
it. `MC_Dispatch` assumes it, so TLC evaluates it on the instance; the theorems
about `Dispatch` hold for every `Reentry` that satisfies it. `FieldsAreSet` says
that users notify of a field by setting it and not by `notify_event` with its id,
which the code would let pass; `MC_Dispatch` assumes that too.

**Wire.** Bytes are bytes. `stream` is what was written and not yet read; the
receive thread reads the length as a whole and the rest in portions of any size.
Its loop ends at a message that is too long, when the peer has closed and all is
read (`EndOfStream`), and, with frames still unread, when this side stops or
disconnects or `recv` fails (`ConnectionEnds`, which sets `lost`). `short` is
the first message of which `send_to` wrote only a part: it returns false and
leaves the connection open, and the next frame is then read as the rest of this
one, so the properties of the stream are about the messages before it. `HearSd`
takes an SD message of a peer through `serialize`, `deserialize`, the test in
`on_udp_message_received` and the parser. `append` has no overload for strings;
an application writes the length and the bytes that `get_string` reads (`Put`).
`Payload` keeps integers as their bytes, so that 64-bit values need no
arithmetic; the length of a frame is a number, and all from 2^30 on are one
(`Huge`), so messages to send are below it (`Sendable`, part of the module's
assumption, as is their protocol version, the only one the library writes). The
assumption also says that items, entries and options are such as the code can
build (`Item`, `AnyEntry`, `AnyOption`) and that SD messages too are shorter
than `Huge`; how many of them there are is open.

## 3. Runs

Passing runs take from a few seconds to two or three minutes (`dispatch`) with two
workers.

| run | bounds | shows |
|---|---|---|
| `requests` | 2 session numbers, 3 calls, 1 endpoint; 81 k states | the four safety properties and, with fairness, `FutureIsSettled` |
| `discovery` | 2 local services with TTL 1 or 4 on a wire of 4 values, 1 remote service with TTL 0 or 1; 81 k states | what network and application were told is right; silence is noticed; offers are repeated |
| `subscription` | 2 events in one group, 2 groups, 2 peers, up to 2 endpoint options, 2 queued subscriptions; 200 k states | lists without duplicates or losses; subscriptions are sent |
| `tcp` | 2 callers, the accept thread, 2 connections, 1 endpoint; 409 k states | every connection is served, the map is current, peers' closes are noticed if the sends cease |
| `tp` | 2 messages of 3 to 5 bytes in segments of 2, one with an empty tail, 2 receive threads; 7 k states | partition; only whole messages are delivered |
| `shm` | 2 callers, 1 service, rings of 2 slots, 3 numbers, other agents; 286 k states | rings are FIFOs (refinement), numbers ascend, the application's view follows the daemon but for what others took, `disconnect` returns, responses are handled |
| `dispatch` | 2 user threads in 6 scenarios, 2 events (one a field), 2 services with one eventgroup each, 2 methods, 6 kinds of messages, a TCP connection in one scenario; 318 k states | no circular wait, offers stand but for colliding keys, fields and notifications agree, `stop` has joined the threads when it returns |
| `wire` | 2 of 4 messages (16, 25, 28, 29 bytes, limit 28), short writes at 3 places, the connection ended anywhere, 19 SD messages; 138 k states | frames, payloads and SD messages come out as they went in |
| `requests_stop` | violation of `StopCompletesAllPending` | `stop` throws after an unreachable request |
| `subscription_notify` | violation of `NotifyReachesAcked` | offering an event drops its subscribers |
| `tcp_stop` | violation of `StopReturns` | `stop` and a receive thread wait for each other |
| `tp_own` | violation of `CompletionIsReported` | messages cut by `TpSegmenter` never complete |

Why the bounds are enough. `requests`: one call more than session numbers makes
a number wrap onto a call that may be pending, which is the only way two calls
meet; the theorems remove the bound. `discovery`: services of one kind do not
share state except the mutex and the receive thread; TTL 4 on a wire of 4 values
is the TTL that becomes 0. Ages are capped one past the largest TTL. `MaxPause`
1 lets an entry be a second old when it is stored; `ViewIsBacked` is stated for
that (an entry held up longer can be stored expired, reported gone, and then
reported there). `tcp`: a stale mapping needs two connections to one endpoint.
`tp`: three segments have a first, a middle and a last; two threads race for the
completion. `shm`: three numbers wrap a ring of two slots and let one call fill
it for another; a lookup uses two. Callers send REGISTER_SERVICE and lookups:
the agent treats the other commands alike but for their payload. `dispatch`: a
scenario is a set of calls per user thread, made once each in any order; the six
bring together the calls that share tables (offer, withdraw and subscribe one
event id for two services while the runtime starts; set and offer a field; do so
while another service's event of its id is subscribed to and offered; install
method handlers, then event handlers, while messages arrive) and `Runtime::stop`
with handlers under way and a connection that comes and goes. Registered
handlers are not removed again in them. `wire`: two frames have one boundary
between them; a cut in the prefix, right behind it and in the message are the
places that differ; the messages are below, at and above the limit.

Deadlock checking is off for `requests` (calls are bounded, and an exception in
a receive thread ends the process) and for the `tcp` runs (connection ids are
bounded, a null dereference ends the process, and `stop` does deadlock: that is
the run `tcp_stop`), for `shm` (numbers are bounded, a fault ends the process),
`dispatch` (calls are bounded; waiting in a circle is the property
`NoCircularWait`) and `wire` (sends are bounded).

Fairness. `requests`: the call inside `send_request` and the rest of
`handle_message` go on, and time passes; the service, the network and the user
owe nothing, and `FutureIsSettled` assumes in its own statement that messages
keep coming in. `discovery`: time passes and threads run; strong fairness only
where a thread waits for `services_mutex_`, which others hold for one call at a
time and release again and again. `subscription`: the worker goes round. `tcp`:
threads that are not blocked run, and `recv` returns once its connection has
ended; a send of `send_to` need not return, and no thread is promised the mutex
while others take turns with it: hence the premise `SendsCease`. `shm`: callers
in `send_command`, the worker and the owner in `disconnect` go on, and the
worker gets the lock if it asks again and again while it is free again and
again; the daemon and the other agents owe nothing. That a notification comes
and that the lock is had are premises of `ResponsesAreHandled`: it shows that
the worker then empties the ring. `wire`: the receive thread reads what there
is.

Seen while modelling, beyond the violation runs:

- `retry_count` is compared with `repetition_max` and never incremented
  (`service_discovery.cpp` 537): an unanswered SUBSCRIBE is repeated on every
  round of the worker.
- `close_connection` unmaps an endpoint in a second critical section and may
  remove the mapping of a newer connection (`tcp_transport.cpp` 361); the
  exception is spelled out in `MappingIsCurrent`.
- TP segments for TCP carry up to 4095 bytes and headers, and unsegmented
  payloads of 4081 to 4095 bytes make frames above 4096: the receiver ends the
  connection for either.
- An SD message without an options length is ignored with all its entries, and
  options behind one of an unknown type are dropped.
- `ShmAgent` treats SUBSCRIPTION_ACK and SUBSCRIPTION_NACK alike.
- `event_configs_` is keyed by event id alone (`application.cpp` 132, 224, 236):
  subscribing to, offering or withdrawing an event of another service with the id
  of one's own changes where `notify_event` sends, although `application.h` 98
  says "send to all subscribers".
- The worker of `ShmAgent` is not stopped by `Runtime::stop`.
- `send_to` holds `connections_mutex_` over a send without a time-out
  (`tcp_transport.cpp` 202).

## 4. Proofs

Proved for every value of the constants that satisfies the module's named
assumption; listed are the properties the runs check.

| module | proved | further assumption |
|---|---|---|
| `RequestsProofs` | `TypeOK`, `NoOrphanedFuture`, `AnswerMatchesSession`, `BrokenOnlyByWrap`, `DoubleSetOnlyAfterFailedSend` | |
| `ServiceDiscoveryProofs` | `TypeOK`, `AnnouncementIsCurrent`, `DiscoveredIsReported`, `ViewIsBacked` | |
| `EventSubscriptionProofs` | `TypeOK`, `SubscribedOnce`, `AckedIsKept` | |
| `TcpTransportProofs` | `TypeOK`, `ConnectionIsServed`, `MappingIsCurrent`, and `JoinedNeedsMutex` | |
| `TpProofs` | `Partition` of every payload, `SegmentsPartition`, `TypeOK`, `DeliveredIntact` | for the last, `MaxSize < OffsetValues` |
| `ShmAgentProofs` | `TypeOK`, `SequencesAscend`, `ViewFollowsRegistry`, and `RingsAreFifos` (refinement) | |
| `DispatchProofs` | `TypeOK`, `NoCircularWait`, `OfferStands`, `StoppedIsQuiet`, `NotifiedIsStored` | `HandlersKeepOrder`; for the last, `FieldsAreSet` |
| `WireProofs` | `CodecRoundTrip`, `TypeOK`, `FramesIntact`, `FittingIsDelivered`, `ItemsReadBack`, `SdIsUnderstood` | |

Each module has an inductive invariant `IInv`, which TLC checked as well
on the instance of the run, and one step per action. What
each had to add to the properties:

**Requests.** A response is matched by session number, so what is needed is how
numbers relate to draws: `Window` says that a call made fewer than `SessionCount`
draws ago has the number `session_id_` had then, `Apart` follows from it (equal
numbers are `SessionCount` draws apart), `Filed` that an entry of the table is
stored under its own number, `Answered` that responses go to equal numbers,
`Caller` that the call inside `send_request` is the newest, `Settled` that a
completed call still in the table comes from a failed send.

**ServiceDiscovery.** `AnnouncementIsCurrent` speaks of a free mutex only.
`OfferInv` says what holds while `offer_service` sleeps with it: every service
but its own is announced as it is offered. For `ViewIsBacked`,
`CallbackIsBacked` says that an offer whose handler has still to be called is in
the table and not older than the receive thread has held it, so that the worker
cannot have found it expired.

**EventSubscription.** The two properties are inductive with the types. The work
is in the loops: `AddSubscribers` keeps a list without duplicates, keeps who is
on it and adds who is not, `Without` keeps the queue a sequence and no longer.

**TcpTransport.** `ThreadsKnow` says what a thread between two critical sections
may rely on about its connection, `OneSetsUp` that no two threads set up the
same one, `IdsAreDrawn` that an id not yet drawn is nowhere and that only a
connection in the table owns its thread, `AcceptorRests` and `StopVisits` where
`stop` finds the others, `MutexHeld` that the mutex belongs to `stop` or to one
`send_to`. From these follows more than the violation of `StopReturns` shows on
its instance: whenever `stop` joins a receive thread, that thread has not ended
and needs `connections_mutex_`, which `stop` holds (`JoinNeverReturns`).

**TP.** That `segment` partitions a payload is an argument about division
rounded up: `CountBounds` gives (n - 1) * max < size <= n * max, `TurnOfLoop`
what one turn of the loop produces. For `DeliveredIntact` the pieces of a
message are listed by offset (`Lists`): a set of them in which every piece
starts where the ones below it end (`Reached`) has, with a piece, all that come
before it, so with the last piece it is the whole message. The invariant adds
that a buffer holds pieces of its own request only, and the last one if it says
so (`BufferHolds`). The assumption is needed: once offsets wrap in their 24
bits, two segments of a message have the same offset.

**ShmAgent.** The write index follows from the read index and the count
(`Aligned`), so that `Push` appends to `Contents` and `Pop` takes its head; what
is left speaks of sequences. `CommandsMove` and `ResponsesMove` say what a step
may do to either ring, which is also the refinement step by step. `Ascending`
puts all numbers in the ring below the next, `Informed` says of every service
that its last announcement on its way tells what is registered, and of one
without any on its way that the view is right unless another agent took the last
(`missed`): `ViewFollowsRegistry` is that case. `CallsCarry` keeps the numbers
within the bound.

**Dispatch.** A thread holds a mutex exactly when its `todo` has an unlock of it
with no lock before (`Open`), and whatever a step takes is above what is open
there (`WellFormed`). The functions of the code are blocks, which close what
they open (`BlockAt`, one lemma for each call); a block in front of a
well-formed sequence leaves it well-formed if it starts above what is open. So a
waiting thread needs a mutex above all it holds, and of a set of threads that
wait for each other's mutexes the one that needs the highest waits for nobody in
the set. Joins do not close a circle: a thread that joins holds nothing, and the
threads joined never join (`Above` rank 0). `OffersInv` allows the moment
between the two tables (`Pending`) only to the holder of `event_configs_mutex_`,
and `OfferingInv` says that the eventgroup it is about to offer is the one it
configured.

For `StoppedIsQuiet` and `NotifiedIsStored`, `Kinds` says what kind of function a
thread is in: one that changes no field, one that stores and notifies of at most
one value of one field, or `Runtime::stop`. `ThreadsEnd` then says that a
background thread lives only while `running_` is set or some user has still to
join it, and that its transport runs only while `running_` is set or some user
has still to halt and then join it (`Halts`): so a connection made during `stop`
starts a thread only as long as the join is to come. `FieldsAgree` says that of a
field changed by one thread at a time at most one notification is on its way
(`Late`: stored, not yet sent), with the value of the field, and that without one
the subscribers listed in the configured eventgroup were sent that value or
nothing (`Told`). A list that was dropped has nobody on it who was sent anything
(`ListsInv`), and `OfferingInv` keeps an offer under way from forgetting another
list than the one it fills.

**Wire.** `CodecRoundTrip` goes through the header byte by byte: numbers are
their low byte and the rest (`Halves`). For the stream, `Track` gives every
whole frame a place, counted from what is unread, so that what was read has
negative places; `InStep` says that, as long as it is in front of the first
short write, the receive thread stands before the next frame or inside it, with
the right length and a buffer that is the front of the message. `InStep` is
about a thread that runs, so an end of the loop by `ConnectionEnds` only has to
set `lost`. `TrackRead`, `TrackSend` and `TrackGrows` say what reading, a whole
frame and a short write do to the places.

Payloads and SD messages are put together from parts one behind the other.
`Joined` describes the data after each part, `PartsLie` where each part lies in
the whole. For the items, `After` gives the reader after n rounds in closed
form: as long as the next item lies in front of the cut, its position is behind
item n and it has the first n values, and from then on it has failed;
`ReadRound` shows that a round of the reader keeps to it. For SD messages, all
entries have 16 bytes and all options 12, so their places are multiples
(`Records`, `SdLayout`); `EntryReadAt` and `OptionReadAt` read one of them, and
`KnownUpTo` describes the options in front of the first of an unknown type,
where the parser stops.

Induction is by a set in the place of the predicate, from the well-foundedness of
the natural numbers (`LeastNumber`, `BoundedInduction`): the theorems of the
library with an operator as a parameter cannot be used by the installed provers.
It yields what the recursive functions of the models compute, turn by turn
(`LoopExists`).

All leaves were also checked with a weaker axiom for `Len` than the prover's own,
which lets a function with domain 1 .. n have a length without being a sequence.

Only model-checked: the liveness properties (`FutureIsSettled`,
`SilentServiceIsReported`, `OffersAreRepeated`, `SubscriptionIsRequested`,
`PeerCloseIsNoticed`, `ResponsesAreHandled`, `DisconnectReturns`,
`SentIsDelivered`), which are beyond the prover, as is ENABLED. Every invariant
of a passing run is a theorem.

## 5. Not modelled

Left out for good: logging, socket options and addresses, the contents of
endpoints, versions, the random choice of the initial delay, IPv6 and
configuration options, the examples and tests, and:

- `Runtime`'s construction (`get`, `create`, `init`): it runs once, on one thread.
- The field getters and setters of the skeleton: no message reaches them.
- `ShmAgent::lookup_service_endpoints`: it reads a table whose layout only the
  daemon, which is not in the repository, defines.
- Data races on a `std::map` (`retry_pending_subscriptions` reads `eventgroups_`
  without its mutex, the skeleton iterates `events_` without its own) and the
  receive thread's pointer to an erased `Connection`: they have no defined
  outcome a model could check. `disconnect` from two threads at once is of that
  kind too.
- The skeleton's and proxy's destructors against calls still under way.
- What other processes that share the memory of the shared-memory agent do with
  what they take from it, and their own commands but for the daemon's reaction.
- `connections_mutex_` in `Dispatch`, except while `TcpTransport::stop` joins: a
  send over TCP from under another mutex keeps both as long as its peer does not
  read (`tcp_transport.cpp` 202). Only the wait inside `TcpTransport` is modelled.
