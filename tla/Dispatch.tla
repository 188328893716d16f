------------------------------ MODULE Dispatch ------------------------------
(***************************************************************************)
(* The threads that meet inside Runtime, Application, ServiceSkeleton,     *)
(* ServiceProxy and ServiceDiscovery, and the mutexes they take there.     *)
(* User threads call the API; the receive threads of the transports route  *)
(* messages to handlers, the worker of ServiceDiscovery makes its rounds.  *)
(* One TCP connection stands for all; its tables are TcpTransport's, and   *)
(* of connections_mutex_ only what Runtime::stop does under it is here.    *)
(* The worker of ShmAgent is started by Runtime::init, not stopped by      *)
(* Runtime::stop, and takes none of the mutexes here; it is ShmAgent's.    *)
(* Handlers run under the mutexes of whoever calls them and may call the   *)
(* API again: Reentry names the calls each kind of handler makes.          *)
(*                                                                         *)
(* A thread is the sequence of steps it still has to take.  A step locks   *)
(* or unlocks a mutex, changes a table, looks something up or calls a      *)
(* handler.  A critical section without a call or a lock inside is one     *)
(* step, possible while nobody holds its mutex; an unlock happens with the *)
(* step before it.                                                         *)
(*                                                                         *)
(* What the requests and subscription tables hold is the matter of         *)
(* Requests and EventSubscription; here their mutexes matter.              *)
(***************************************************************************)
EXTENDS Integers, Sequences, SequencesExt

CONSTANTS User,            \* threads that call the API
          Receiver, TcpReceiver, SdWorker,   \* threads of the library
          Nobody,          \* holder of a free mutex
          Service,         \* services, of this node and of others
          GroupId,         \* ids of eventgroups
          Event,           \* ids of events
          Field,           \* those that are fields of the application
          Method,          \* ids of methods
          SkeletonMethod,  \* 0, for which ServiceSkeleton::init registers
          Value,           \* field values
          Blank,           \* value of a field nobody has set
          None,            \* no entry in a table
          Arrivals,        \* messages that arrive: kind and id
          Scenarios,       \* API calls the user threads make, each once
          Reentry          \* API calls each kind of handler makes

Background == {Receiver, TcpReceiver, SdWorker}
Thread == User \cup Background

\* An eventgroup is known by its service and its id, an event by its id alone.
Group == Service \X GroupId

Mutex == {"handlers_mutex_",                        \* Runtime
          "methods_mutex_", "events_mutex_", "fields_mutex_",
          "event_configs_mutex_", "session_mutex_",
          "requests_mutex_",                        \* Application
          "services_mutex_", "subscriptions_mutex_",\* ServiceDiscovery
          "skeleton mutex_", "proxy events_mutex_"}

\* Kinds of handlers users install.
Hook == {"method", "skeleton method", "event", "proxy event",
         "subscription", "available", "expired"}

\* The calls of the API, and the messages that may arrive.
IsCall(c) ==
    /\ c = [do |-> c.do, on |-> c.on, val |-> c.val]
    /\ \/ c.do \in {"notify_event", "set_field_value"} /\ c.on \in Event /\ c.val \in Value
       \/ /\ c.do \in {"offer_event", "offer_field", "subscribe_event",
                       "skeleton_offer", "proxy_subscribe"}
          /\ c.on \in Event
          /\ c.val \in Group
       \/ /\ c.do \in {"stop_offer_event", "skeleton_stop_offer"}
          /\ c.on \in Event
          /\ c.val \in Service
       \/ c.do = "proxy_unsubscribe" /\ c.on \in Event /\ c.val = None
       \/ c.do = "event_handler" /\ c.on \in Event /\ c.val = "user"
       \/ c.do = "method_handler" /\ c.on \in Method /\ c.val \in BOOLEAN
       \/ c.do = "register_method" /\ c.on \in Method /\ c.val = None
       \/ /\ c.do \in {"service_handler", "on_service_available"}
          /\ c.on = None
          /\ c.val \in BOOLEAN
       \/ /\ c.do \in {"unsubscribe_event", "send_request", "send_request_no_return",
                       "send_response", "register_field", "call_method",
                       "connect", "runtime_start", "runtime_stop"}
          /\ c.on = None
          /\ c.val = None

IsArrival(m) ==
    \/ m[1] = "request" /\ m[2] \in Method
    \/ m[1] = "event" /\ m[2] \in Event
    \/ m[1] = "SD subscribe" /\ m[2] \in Group
    \/ m[1] \in {"response", "SD offer"} /\ m[2] = None

ASSUME DispatchAssumption ==
    /\ Receiver # SdWorker /\ TcpReceiver \notin {Receiver, SdWorker}
    /\ Background \cap User = {}
    /\ Nobody \notin Thread
    /\ Field \subseteq Event
    /\ SkeletonMethod \in Method
    /\ Blank \notin Value
    /\ None \notin Value \cup {Blank} \cup Group \cup Mutex
    /\ \A m \in Arrivals : IsArrival(m)
    /\ \A s \in Scenarios : DOMAIN s = User /\ \A u \in User : \A c \in s[u] : IsCall(c)
    /\ DOMAIN Reentry = Hook /\ \A h \in Hook : \A c \in Reentry[h] : IsCall(c)

VARIABLES held,               \* holder of each mutex
          todo,               \* the steps each thread still has to take
          calls,              \* the calls each user thread still has to make
          running_,           \* Runtime::running_
          told,               \* background threads whose transport or
                              \* ServiceDiscovery runs
          alive,              \* background threads that have not ended
          service_handlers_,  \* a handler is registered for the service
          method_handlers_,   \* Application's, by method
          event_handlers_,    \* Application's, by event: whose it is
          skeleton_methods,   \* method_handlers_ of the skeleton
          proxy_events,       \* event_handlers_ of the proxy
          available_,         \* ServiceProxy::available_
          event_configs_,     \* eventgroup of each configured event
          eventgroups_,       \* eventgroups ServiceDiscovery has
          fields_,            \* value of each field, None for no field
          offered,            \* events on offer, with the eventgroup given
          disturbed,          \* those a call for something else has touched
          last,               \* value of each field the subscribers listed in
                              \* each eventgroup were sent last
          alone               \* the field's last change overlapped no other,
                              \* and no subscribe_event redirected it since

life == <<running_, told, alive>>
handlers == <<service_handlers_, method_handlers_, event_handlers_,
              skeleton_methods, proxy_events, available_>>
events == <<event_configs_, eventgroups_, offered, disturbed>>
fields == <<fields_, last, alone>>
vars == <<held, todo, calls, life, handlers, events, fields>>

Init ==
    /\ held = [m \in Mutex |-> Nobody]
    /\ todo = [t \in Thread |-> <<>>]
    /\ calls \in Scenarios
    /\ running_ = FALSE
    /\ told = {}
    /\ alive = {}
    /\ service_handlers_ = FALSE
    /\ method_handlers_ = {}
    /\ event_handlers_ = [e \in Event |-> None]
    /\ skeleton_methods = {}
    /\ proxy_events = {}
    /\ available_ = FALSE
    /\ event_configs_ = [e \in Event |-> None]
    /\ eventgroups_ = {}
    /\ fields_ = [f \in Field |-> None]
    /\ offered = {}
    /\ disturbed = {}
    /\ last = [f \in Field |-> [p \in Group |-> None]]
    /\ alone = [f \in Field |-> TRUE]

-----------------------------------------------------------------------------
(* Steps.                                                                  *)

Step(do, on, val) == [do |-> do, on |-> on, val |-> val]

Lock(m) == Step("lock", m, None)
Unlock(m) == Step("unlock", m, None)
Section(m) == Step("section", m, None)   \* lock, a table not modelled, unlock
Handler(h) == Step("handler", h, None)

Under(m, steps) == <<Lock(m)>> \o (steps \o <<Unlock(m)>>)

-----------------------------------------------------------------------------
(* The functions of the code as sequences of steps.                        *)

\* Application::notify_event: the configuration is looked up and get_subscribers
\* asked while event_configs_mutex_ is held.
NotifyEvent(e, v) == Under("event_configs_mutex_", <<Step("notify", e, v)>>)

\* Mutant of SetFieldValue: the value is not stored.
SetFieldValueUnstored(e, v) == NotifyEvent(e, v)

\* Application::set_field_value: fields_mutex_ is released before the
\* notification.
SetFieldValue(e, v) == <<Step("store_field", e, v)>> \o NotifyEvent(e, v)

\* Mutant of OfferEvent: the eventgroup is offered before the lock is taken.
OfferEventEarly(e, p) ==
    <<Step("offer_group", e, p)>>
        \o Under("event_configs_mutex_", <<Step("store_config", e, p)>>)

\* Application::offer_event.
OfferEvent(e, p) ==
    Under("event_configs_mutex_",
          <<Step("store_config", e, p), Step("offer_group", e, p)>>)

\* Application::offer_field.
OfferField(e, p) ==
    Under("fields_mutex_", <<Step("new_field", e, None)>> \o OfferEvent(e, p))

\* Application::stop_offer_event.
StopOfferEvent(e, s) ==
    Under("event_configs_mutex_",
          <<Step("drop_group", e, s), Step("erase_config", e, s)>>)

\* Application::subscribe_event when no ShmAgent takes the subscription.
SubscribeEvent(e, p) ==
    Under("event_configs_mutex_",
          <<Step("store_client", e, p), Section("subscriptions_mutex_")>>)

\* Application::unsubscribe_event.
UnsubscribeEvent == <<Section("subscriptions_mutex_")>>

\* Application::send_request: pending_requests_, then get_service_endpoints.
SendRequest ==
    Under("session_mutex_", <<Section("requests_mutex_"), Section("services_mutex_")>>)

\* Application::send_request_no_return.
SendRequestNoReturn == Under("session_mutex_", <<Section("services_mutex_")>>)

\* Application::send_response and send_error_response: get_service_endpoints.
SendResponse == <<Section("services_mutex_")>>

\* ServiceSkeleton::offer and stop_offer, for a skeleton with the event e.
SkeletonOffer(e, p) == <<Section("services_mutex_")>> \o OfferEvent(e, p)
SkeletonStopOffer(e, s) == <<Section("services_mutex_")>> \o StopOfferEvent(e, s)

\* ServiceProxy::subscribe_event and unsubscribe_event.
ProxySubscribe(e, p) ==
    <<Step("proxy_event", e, TRUE), Step("event_handler", e, "proxy")>>
        \o SubscribeEvent(e, p)
ProxyUnsubscribe(e) == <<Step("proxy_event", e, FALSE)>> \o UnsubscribeEvent

\* ServiceProxy::call_method once available_ was true: the thread waits for the
\* answer until the time-out.
CallMethod == SendRequest \o <<Step("await", None, None)>>

\* ServiceSkeleton::register_field: getter, setter and configuration one after
\* the other.
RegisterField ==
    <<Section("skeleton mutex_"), Section("skeleton mutex_"), Section("skeleton mutex_")>>

\* ServiceDiscovery::stop, UdpTransport::stop.
Join(b) == <<Step("halt", b, None), Step("join", b, None)>>

\* TcpTransport::stop: the accept thread is joined before the lock is taken,
\* and the lock is held while the receive thread is joined.
StopTcp ==
    <<Step("halt", TcpReceiver, None), Step("shut", TcpReceiver, None),
      Step("join", TcpReceiver, None)>>

\* Mutant of StopThreads: the receive thread is not joined.
StopThreadsUnjoined == Join(SdWorker) \o <<Step("halt", Receiver, None)>> \o StopTcp

\* The rest of Runtime::stop once running_ was true.
StopThreads == Join(SdWorker) \o (Join(Receiver) \o StopTcp)

\* The steps of an API call.  Calls that are one critical section or one
\* atomic exchange are steps themselves.
Body(c) ==
    CASE c.do = "notify_event" -> NotifyEvent(c.on, c.val)
      [] c.do = "set_field_value" -> SetFieldValue(c.on, c.val)
      [] c.do = "offer_event" -> OfferEvent(c.on, c.val)
      [] c.do = "offer_field" -> OfferField(c.on, c.val)
      [] c.do = "stop_offer_event" -> StopOfferEvent(c.on, c.val)
      [] c.do = "subscribe_event" -> SubscribeEvent(c.on, c.val)
      [] c.do = "unsubscribe_event" -> UnsubscribeEvent
      [] c.do = "send_request" -> SendRequest
      [] c.do = "send_request_no_return" -> SendRequestNoReturn
      [] c.do = "send_response" -> SendResponse
      [] c.do = "skeleton_offer" -> SkeletonOffer(c.on, c.val)
      [] c.do = "skeleton_stop_offer" -> SkeletonStopOffer(c.on, c.val)
      [] c.do = "register_field" -> RegisterField
      [] c.do = "proxy_subscribe" -> ProxySubscribe(c.on, c.val)
      [] c.do = "proxy_unsubscribe" -> ProxyUnsubscribe(c.on)
      [] OTHER -> <<c>>

\* Application::handle_message.  Notifications of kind "event" carry the id of
\* an event, requests that of a method.
HandleMessage(kind, id) ==
    (CASE kind = "response" -> <<Section("requests_mutex_")>>
       [] kind = "event" -> Under("events_mutex_", <<Step("event", id, None)>>)
       [] kind = "request" -> Under("methods_mutex_", <<Step("method", id, None)>>))
    \o <<Section("requests_mutex_")>>   \* cleanup_expired_requests

\* Mutant of HandleOfferService: the handler is called under the lock.
HandleOfferServiceLocked == Under("services_mutex_", <<Handler("available")>>)

\* ServiceDiscovery::handle_offer_service: update_service_info, the handler.
HandleOfferService == <<Section("services_mutex_"), Handler("available")>>

\* ServiceDiscovery::handle_subscribe_eventgroup.
HandleSubscribeEventgroup(p) ==
    Under("services_mutex_", <<Handler("subscription"), Step("accept", p, None)>>)

\* Runtime::on_tcp_message_received, and the end of on_udp_message_received.
RouteToService(kind, id) == Under("handlers_mutex_", <<Step("route", kind, id)>>)

\* Runtime::on_udp_message_received.
Route(kind, id) ==
    CASE kind = "SD offer" -> HandleOfferService
      [] kind = "SD subscribe" -> HandleSubscribeEventgroup(id)
      [] OTHER -> RouteToService(kind, id)

\* A round of ServiceDiscovery::worker_thread: check_ttl_expiration,
\* send_periodic_offers, retry_pending_subscriptions.
Round ==
    Under("services_mutex_", <<Handler("expired")>>)
        \o <<Section("services_mutex_"), Section("subscriptions_mutex_")>>

-----------------------------------------------------------------------------
At(t, do) == todo[t] # <<>> /\ Head(todo[t]).do = do
On(t) == Head(todo[t]).on
Val(t) == Head(todo[t]).val

Free(m) == held[m] = Nobody

\* Thread t is left with steps s and the mutexes are held as in h, but for the
\* unlocks at the front of s.
GoOnWith(t, s, h) ==
    LET next == SelectInSeq(s, LAMBDA x : x.do # "unlock")
        n == IF next = 0 THEN Len(s) ELSE next - 1
    IN  /\ todo' = [todo EXCEPT ![t] = SubSeq(s, n + 1, Len(s))]
        /\ held' = [m \in Mutex |-> IF \E i \in 1 .. n : s[i].on = m THEN Nobody ELSE h[m]]

\* Thread t has taken its step, or takes the given ones instead.
Done(t) == GoOnWith(t, Tail(todo[t]), held)
Replace(t, steps) == GoOnWith(t, steps \o Tail(todo[t]), held)

-----------------------------------------------------------------------------
(* Any thread.                                                             *)

Acquire(t) ==
    /\ At(t, "lock") /\ Free(On(t))
    /\ GoOnWith(t, Tail(todo[t]), [held EXCEPT ![On(t)] = t])
    /\ UNCHANGED <<calls, life, handlers, events, fields>>

EnterSection(t) ==
    /\ At(t, "section") /\ Free(On(t))
    /\ Done(t)
    /\ UNCHANGED <<calls, life, handlers, events, fields>>

\* A handler of the user returns at once or makes one call.
RunHandler(t) ==
    /\ At(t, "handler")
    /\ \/ Done(t)
       \/ \E c \in Reentry[On(t)] : Replace(t, Body(c))
    /\ UNCHANGED <<calls, life, handlers, events, fields>>

-----------------------------------------------------------------------------
(* Tables of handlers.                                                     *)

\* Runtime::register_service_handler and unregister_service_handler.
RegisterServiceHandler(t) ==
    /\ At(t, "service_handler") /\ Free("handlers_mutex_")
    /\ service_handlers_' = Val(t)
    /\ Done(t)
    /\ UNCHANGED <<calls, life, method_handlers_, event_handlers_, skeleton_methods,
                   proxy_events, available_, events, fields>>

\* Mutant of RegisterMethodHandler: the handler goes where the id belongs.
RegisterMethodHandlerSwapped(t) ==
    /\ At(t, "method_handler") /\ Free("methods_mutex_")
    /\ method_handlers_' = method_handlers_ \cup {Val(t)}
    /\ Done(t)
    /\ UNCHANGED <<calls, life, service_handlers_, event_handlers_, skeleton_methods,
                   proxy_events, available_, events, fields>>

\* Application::register_method_handler and unregister_method_handler;
\* ServiceSkeleton::init registers SkeletonMethod.
RegisterMethodHandler(t) ==
    /\ At(t, "method_handler") /\ Free("methods_mutex_")
    /\ method_handlers_' = IF Val(t) THEN method_handlers_ \cup {On(t)}
                           ELSE method_handlers_ \ {On(t)}
    /\ Done(t)
    /\ UNCHANGED <<calls, life, service_handlers_, event_handlers_, skeleton_methods,
                   proxy_events, available_, events, fields>>

\* Application::set_event_handler, by the user or for the proxy.
SetEventHandler(t) ==
    /\ At(t, "event_handler") /\ Free("events_mutex_")
    /\ event_handlers_' = [event_handlers_ EXCEPT ![On(t)] = Val(t)]
    /\ Done(t)
    /\ UNCHANGED <<calls, life, service_handlers_, method_handlers_, skeleton_methods,
                   proxy_events, available_, events, fields>>

\* ServiceSkeleton::register_method.
RegisterMethod(t) ==
    /\ At(t, "register_method") /\ Free("skeleton mutex_")
    /\ skeleton_methods' = skeleton_methods \cup {On(t)}
    /\ Done(t)
    /\ UNCHANGED <<calls, life, service_handlers_, method_handlers_, event_handlers_,
                   proxy_events, available_, events, fields>>

\* event_handlers_ in ServiceProxy::subscribe_event and unsubscribe_event.
SetProxyEvent(t) ==
    /\ At(t, "proxy_event") /\ Free("proxy events_mutex_")
    /\ proxy_events' = IF Val(t) THEN proxy_events \cup {On(t)}
                       ELSE proxy_events \ {On(t)}
    /\ Done(t)
    /\ UNCHANGED <<calls, life, service_handlers_, method_handlers_, event_handlers_,
                   skeleton_methods, available_, events, fields>>

\* Application::on_service_available and ServiceProxy::on_service_available.
SetAvailable(t) ==
    /\ At(t, "on_service_available")
    /\ available_' = Val(t)
    /\ Done(t)
    /\ UNCHANGED <<calls, life, service_handlers_, method_handlers_,
                   event_handlers_, skeleton_methods, proxy_events, events, fields>>

-----------------------------------------------------------------------------
(* Calls through the proxy.                                                *)

TestAvailable(t) ==
    /\ At(t, "call_method")
    /\ Replace(t, IF available_ THEN CallMethod ELSE <<>>)
    /\ UNCHANGED <<calls, life, handlers, events, fields>>

\* future.wait_for returns, with an answer or without.
Await(t) ==
    /\ At(t, "await")
    /\ Done(t)
    /\ UNCHANGED <<calls, life, handlers, events, fields>>

-----------------------------------------------------------------------------
(* Routing.                                                                *)

\* The look into service_handlers_.
RouteMessage(t) ==
    /\ At(t, "route")
    /\ Replace(t, IF service_handlers_ THEN HandleMessage(On(t), Val(t)) ELSE <<>>)
    /\ UNCHANGED <<calls, life, handlers, events, fields>>

\* The look into method_handlers_; ServiceSkeleton::handle_method_call.
RouteMethod(t) ==
    /\ At(t, "method")
    /\ Replace(t,
         CASE On(t) \notin method_handlers_ -> SendResponse
           [] On(t) = SkeletonMethod ->
                Under("skeleton mutex_", <<Step("skeleton", On(t), None)>>)
           [] OTHER -> <<Handler("method")>>)
    /\ UNCHANGED <<calls, life, handlers, events, fields>>

\* The look into the method_handlers_ of the skeleton.
RouteSkeleton(t) ==
    /\ At(t, "skeleton")
    /\ Replace(t, (IF On(t) \in skeleton_methods
                   THEN <<Handler("skeleton method")>> ELSE <<>>) \o SendResponse)
    /\ UNCHANGED <<calls, life, handlers, events, fields>>

\* The look into event_handlers_; ServiceProxy::on_event_received.
RouteEvent(t) ==
    /\ At(t, "event")
    /\ Replace(t,
         CASE event_handlers_[On(t)] = None -> <<>>
           [] event_handlers_[On(t)] = "user" -> <<Handler("event")>>
           [] event_handlers_[On(t)] = "proxy" ->
                Under("proxy events_mutex_", <<Step("proxy", On(t), None)>>))
    /\ UNCHANGED <<calls, life, handlers, events, fields>>

\* The look into the event_handlers_ of the proxy.
RouteProxy(t) ==
    /\ At(t, "proxy")
    /\ Replace(t, IF On(t) \in proxy_events THEN <<Handler("proxy event")>> ELSE <<>>)
    /\ UNCHANGED <<calls, life, handlers, events, fields>>

-----------------------------------------------------------------------------
(* Events.                                                                 *)

\* Nobody listed in eventgroup p has been sent anything.
Forget(p) == [f \in Field |-> [last[f] EXCEPT ![p] = None]]

\* event_configs_ has one entry for an event id, whatever the service.
StoreConfig(t) ==
    LET e == On(t)  p == Val(t) IN
    /\ At(t, "store_config")
    /\ event_configs_' = [event_configs_ EXCEPT ![e] = p]
    /\ offered' = offered \cup {<<e, p>>}
    /\ disturbed' = (disturbed \cup {o \in offered : o[1] = e}) \ {<<e, p>>}
    /\ Done(t)
    /\ UNCHANGED <<calls, life, handlers, eventgroups_, fields>>

\* ServiceDiscovery::offer_eventgroup, with no subscribers.
OfferGroup(t) ==
    /\ At(t, "offer_group") /\ Free("services_mutex_")
    /\ eventgroups_' = eventgroups_ \cup {Val(t)}
    /\ last' = Forget(Val(t))
    /\ Done(t)
    /\ UNCHANGED <<calls, life, handlers, event_configs_, offered, disturbed,
                   fields_, alone>>

\* ServiceDiscovery::stop_offer_eventgroup with the service of the caller and
\* the id of the eventgroup found in the configuration, if there is one.
DropGroup(t) ==
    LET e == On(t)
        c == event_configs_[e]
        p == <<Val(t), c[2]>>
    IN
    /\ At(t, "drop_group")
    /\ \/ /\ c = None
          /\ UNCHANGED <<eventgroups_, disturbed, last>>
       \/ /\ c # None /\ Free("services_mutex_")
          /\ eventgroups_' = eventgroups_ \ {p}
          /\ disturbed' = disturbed \cup {o \in offered : o[1] # e /\ o[2] = p}
          /\ last' = Forget(p)
    /\ Done(t)
    /\ UNCHANGED <<calls, life, handlers, event_configs_, offered, fields_, alone>>

\* The caller's offers of the event are withdrawn; another service's offer of
\* the same event id loses its configuration.
EraseConfig(t) ==
    LET e == On(t)
        withdrawn == {o \in offered : o[1] = e /\ o[2][1] = Val(t)}
    IN
    /\ At(t, "erase_config")
    /\ event_configs_' = [event_configs_ EXCEPT ![e] = None]
    /\ offered' = offered \ withdrawn
    /\ disturbed' = (disturbed \cup {o \in offered : o[1] = e}) \ withdrawn
    /\ Done(t)
    /\ UNCHANGED <<calls, life, handlers, eventgroups_, fields>>

\* subscribe_event writes into the table notify_event reads.
StoreClient(t) ==
    LET e == On(t)  p == Val(t) IN
    /\ At(t, "store_client")
    /\ event_configs_' = [event_configs_ EXCEPT ![e] = p]
    /\ disturbed' = disturbed \cup {o \in offered : o[1] = e /\ o[2] # p}
    /\ alone' = [f \in Field |-> alone[f] /\ f # e]
    /\ Done(t)
    /\ UNCHANGED <<calls, life, handlers, eventgroups_, offered, fields_, last>>

\* A subscription is accepted, or refused.
AcceptSubscriber(t) ==
    /\ At(t, "accept")
    /\ eventgroups_' \in {eventgroups_, eventgroups_ \cup {On(t)}}
    /\ Done(t)
    /\ UNCHANGED <<calls, life, handlers, event_configs_, offered, disturbed, fields>>

-----------------------------------------------------------------------------
(* Fields.                                                                 *)

\* No other thread is changing field f.
Alone(t, f) ==
    \A u \in Thread \ {t} : \A i \in DOMAIN todo[u] :
        todo[u][i].on = f => todo[u][i].do \notin {"store_field", "notify"}

\* A new FieldInfo: nobody was sent a value of it.
NewField(t) ==
    /\ At(t, "new_field")
    /\ fields_' = [fields_ EXCEPT ![On(t)] = Blank]
    /\ last' = [last EXCEPT ![On(t)] = [p \in Group |-> None]]
    /\ alone' = [alone EXCEPT ![On(t)] = Alone(t, On(t))]
    /\ Done(t)
    /\ UNCHANGED <<calls, life, handlers, events>>

\* The critical section of set_field_value; a field not offered is left alone.
StoreField(t) ==
    /\ At(t, "store_field") /\ Free("fields_mutex_")
    /\ fields_' = [fields_ EXCEPT ![On(t)] = IF @ = None THEN @ ELSE Val(t)]
    /\ alone' = [alone EXCEPT ![On(t)] = Alone(t, On(t))]
    /\ Done(t)
    /\ UNCHANGED <<calls, life, handlers, events, last>>

\* The rest of notify_event under event_configs_mutex_: the subscribers asked
\* for are those of the eventgroup in the configuration, if it exists.
Notify(t) ==
    LET f == On(t)
        p == event_configs_[f]
    IN
    /\ At(t, "notify")
    /\ p # None => Free("services_mutex_")
    /\ last' = IF f \in Field /\ p \in eventgroups_
               THEN [last EXCEPT ![f][p] = Val(t)] ELSE last
    /\ Done(t)
    /\ UNCHANGED <<calls, life, handlers, events, fields_, alone>>

-----------------------------------------------------------------------------
(* Runtime::start and stop, and the background threads.                    *)

Start(t) ==
    /\ At(t, "runtime_start")
    /\ running_' = TRUE
    /\ told' = IF running_ THEN told ELSE Background
    /\ alive' = IF running_ THEN alive ELSE alive \cup {Receiver, SdWorker}
    /\ Done(t)
    /\ UNCHANGED <<calls, handlers, events, fields>>

Stop(t) ==
    /\ At(t, "runtime_stop")
    /\ running_' = FALSE
    /\ Replace(t, IF running_ THEN StopThreads ELSE <<>>)
    /\ UNCHANGED <<calls, told, alive, handlers, events, fields>>

Halt(t) ==
    /\ At(t, "halt")
    /\ told' = told \ {On(t)}
    /\ Done(t)
    /\ UNCHANGED <<calls, running_, alive, handlers, events, fields>>

\* TcpTransport::stop takes connections_mutex_ and shuts the sockets down.
Shut(t) ==
    /\ At(t, "shut")
    /\ Done(t)
    /\ UNCHANGED <<calls, life, handlers, events, fields>>

\* connections_mutex_ is held by a stop that joins the receive thread.
Closing == \E t \in Thread : At(t, "join") /\ On(t) = TcpReceiver

JoinThread(t) ==
    /\ At(t, "join") /\ On(t) \notin alive
    /\ Done(t)
    /\ UNCHANGED <<calls, life, handlers, events, fields>>

\* A message for a TCP endpoint makes a connection, unless there is one, and
\* starts its receive thread; so does the accept thread for a peer.  A thread
\* started while TcpTransport does not run ends at once.
Connect(t) ==
    /\ At(t, "connect") /\ ~Closing
    /\ alive' = IF TcpReceiver \in told THEN alive \cup {TcpReceiver} ELSE alive
    /\ Done(t)
    /\ UNCHANGED <<calls, running_, told, handlers, events, fields>>

\* The test of the loop condition in the receive threads and worker_thread; the
\* thread goes on to block in recvfrom, recv or wait_for.  A TCP receive thread
\* needs connections_mutex_ to end.
LoopTest(b) ==
    /\ b \in alive /\ todo[b] = <<>>
    /\ \/ /\ b \in told
          /\ todo' = [todo EXCEPT ![b] = <<Step("block", None, None)>>]
          /\ UNCHANGED alive
       \/ /\ b \notin told
          /\ b = TcpReceiver => ~Closing
          /\ alive' = alive \ {b}
          /\ UNCHANGED todo
    /\ UNCHANGED <<held, calls, running_, told, handlers, events, fields>>

\* A datagram arrives, or a message on the connection; SD messages find no
\* handler there.
Receive(b, kind, id) ==
    /\ At(b, "block")
    /\ \/ b = Receiver /\ Replace(b, Route(kind, id))
       \/ /\ b = TcpReceiver /\ kind \in {"request", "response", "event"}
          /\ Replace(b, RouteToService(kind, id))
    /\ UNCHANGED <<calls, life, handlers, events, fields>>

\* shutdown wakes the receive threads; wait_for returns in the worker, which
\* looks at running_ again.
Wake(b) ==
    /\ At(b, "block")
    /\ b = Receiver => b \notin told
    /\ b = TcpReceiver => Closing
    /\ Replace(b, IF b = SdWorker /\ b \in told THEN Round ELSE <<>>)
    /\ UNCHANGED <<calls, life, handlers, events, fields>>

\* The peer closes the connection: recv fails and the thread ends.
PeerCloses ==
    /\ At(TcpReceiver, "block") /\ ~Closing
    /\ todo' = [todo EXCEPT ![TcpReceiver] = <<>>]
    /\ alive' = alive \ {TcpReceiver}
    /\ UNCHANGED <<held, calls, running_, told, handlers, events, fields>>

-----------------------------------------------------------------------------
\* A user thread makes one of its calls.
Begin(u) ==
    /\ todo[u] = <<>>
    /\ \E c \in calls[u] :
          /\ todo' = [todo EXCEPT ![u] = Body(c)]
          /\ calls' = [calls EXCEPT ![u] = @ \ {c}]
    /\ UNCHANGED <<held, life, handlers, events, fields>>

GoOn(t) ==
    \/ Acquire(t) \/ EnterSection(t) \/ RunHandler(t)
    \/ RegisterServiceHandler(t) \/ RegisterMethodHandler(t)
    \/ SetEventHandler(t) \/ RegisterMethod(t) \/ SetProxyEvent(t)
    \/ SetAvailable(t) \/ TestAvailable(t) \/ Await(t)
    \/ RouteMessage(t) \/ RouteMethod(t) \/ RouteSkeleton(t) \/ RouteEvent(t)
    \/ RouteProxy(t)
    \/ StoreConfig(t) \/ OfferGroup(t) \/ DropGroup(t) \/ EraseConfig(t)
    \/ StoreClient(t) \/ AcceptSubscriber(t)
    \/ NewField(t) \/ StoreField(t) \/ Notify(t)
    \/ Start(t) \/ Stop(t) \/ Halt(t) \/ Shut(t) \/ JoinThread(t) \/ Connect(t)

Next ==
    \/ \E u \in User : Begin(u)
    \/ \E t \in Thread : GoOn(t)
    \/ \E b \in Background : LoopTest(b) \/ Wake(b)
    \/ \E b \in Background, m \in Arrivals : Receive(b, m[1], m[2])
    \/ PeerCloses

Spec == Init /\ [][Next]_vars

-----------------------------------------------------------------------------
(* Properties.                                                             *)

TypeOK ==
    /\ held \in [Mutex -> Thread \cup {Nobody}]
    /\ DOMAIN todo = Thread
    /\ \A t \in Thread : \A i \in DOMAIN todo[t] :
          DOMAIN todo[t][i] = {"do", "on", "val"}
    /\ DOMAIN calls = User
    /\ \E s \in Scenarios : \A u \in User : calls[u] \subseteq s[u]
    /\ running_ \in BOOLEAN
    /\ told \subseteq Background /\ alive \subseteq Background
    /\ service_handlers_ \in BOOLEAN
    /\ method_handlers_ \subseteq Method
    /\ event_handlers_ \in [Event -> {None, "user", "proxy"}]
    /\ skeleton_methods \subseteq Method
    /\ proxy_events \subseteq Event
    /\ available_ \in BOOLEAN
    /\ event_configs_ \in [Event -> Group \cup {None}]
    /\ eventgroups_ \subseteq Group
    /\ fields_ \in [Field -> Value \cup {Blank, None}]
    /\ disturbed \subseteq offered /\ offered \subseteq Event \X Group
    /\ last \in [Field -> [Group -> Value \cup {None}]]
    /\ alone \in [Field -> BOOLEAN]

\* The mutex thread t needs for its next step.
Needs(t) ==
    IF todo[t] = <<>> THEN None
    ELSE CASE Head(todo[t]).do \in {"lock", "section"} -> On(t)
           [] Head(todo[t]).do = "service_handler" -> "handlers_mutex_"
           [] Head(todo[t]).do = "method_handler" -> "methods_mutex_"
           [] Head(todo[t]).do = "event_handler" -> "events_mutex_"
           [] Head(todo[t]).do = "register_method" -> "skeleton mutex_"
           [] Head(todo[t]).do = "proxy_event" -> "proxy events_mutex_"
           [] Head(todo[t]).do = "store_field" -> "fields_mutex_"
           [] Head(todo[t]).do \in {"offer_group", "drop_group", "notify"} ->
                "services_mutex_"
           [] OTHER -> None

WaitsFor(t, u) ==
    \/ Needs(t) \in Mutex /\ held[Needs(t)] = u
    \/ At(t, "join") /\ On(t) = u /\ u \in alive

\* The order in which the code takes its mutexes.
Rank(m) ==
    CASE m = "handlers_mutex_" -> 0
      [] m \in {"methods_mutex_", "events_mutex_"} -> 1
      [] m \in {"skeleton mutex_", "proxy events_mutex_"} -> 2
      [] m \in {"session_mutex_", "fields_mutex_"} -> 3
      [] m \in {"event_configs_mutex_", "requests_mutex_"} -> 4
      [] m = "services_mutex_" -> 5
      [] m = "subscriptions_mutex_" -> 6

\* The rank from which a handler may take mutexes, given those it runs under.
HookLevel(h) ==
    CASE h = "available" -> 0
      [] h \in {"method", "event"} -> 2
      [] h \in {"skeleton method", "proxy event"} -> 3
      [] h \in {"subscription", "expired"} -> 6

\* The lowest rank among the mutexes a step takes, at once or in the steps that
\* come in its place; -1 if it waits for a thread, 7 if it takes none.
Level(x) ==
    CASE x.do \in {"lock", "section"} -> Rank(x.on)
      [] x.do = "handler" -> HookLevel(x.on)
      [] x.do \in {"runtime_stop", "halt", "shut", "join"} -> -1
      [] x.do \in {"service_handler", "block"} -> 0
      [] x.do \in {"method_handler", "event_handler", "route"} -> 1
      [] x.do \in {"register_method", "proxy_event", "method", "event"} -> 2
      [] x.do \in {"store_field", "call_method", "skeleton", "proxy"} -> 3
      [] x.do \in {"offer_group", "drop_group", "notify"} -> 5
      [] OTHER -> 7

\* Steps s take no mutex below rank l.
Above(s, l) == \A i \in DOMAIN s : s[i].do # "unlock" => l <= Level(s[i])

\* Handlers keep to the order: what they call takes only mutexes above the
\* ones they run under, and they do not stop the runtime.
HandlersKeepOrder ==
    \A h \in Hook : \A c \in Reentry[h] : Above(Body(c), HookLevel(h))

\* Users notify of a field only by setting it.
FieldsAreSet ==
    LET IsSet(c) == c.do = "notify_event" => c.on \notin Field
    IN  /\ \A s \in Scenarios, u \in User : \A c \in s[u] : IsSet(c)
        /\ \A h \in Hook : \A c \in Reentry[h] : IsSet(c)

\* No threads wait for each other in a circle, and none for itself, whatever
\* calls users make and handlers make under the mutexes of Runtime,
\* Application, skeleton, proxy and ServiceDiscovery, as long as handlers keep
\* to Reentry.  That a TCP receive thread waits for connections_mutex_ while
\* TcpTransport::stop joins it is left to TcpTransport.
NoCircularWait ==
    \A S \in (SUBSET Thread) \ {{}} : \E t \in S : \A u \in S : ~WaitsFor(t, u)

\* What offer_event told Application and ServiceDiscovery stands: while no
\* call is half way, an offered event is configured with its eventgroup and
\* ServiceDiscovery has that eventgroup, however calls for other events and
\* other services interleave.  It is lost to the four calls whose keys collide:
\* an offer_event or subscribe_event for the same event id with another service
\* or eventgroup, a stop_offer_event for the same event id and another service,
\* and a stop_offer_event of the service for an event configured with the same
\* id of an eventgroup.
OfferStands ==
    Free("event_configs_mutex_") =>
        \A o \in offered \ disturbed :
            event_configs_[o[1]] = o[2] /\ o[2] \in eventgroups_

\* The subscribers notify_event reaches now were last sent the value of the
\* field, or nothing since they were listed, while nobody is changing or
\* offering it.  Two cases are left out: set_field_value stores and notifies in
\* two critical sections, so overlapping setters may notify in the other order;
\* and a subscribe_event for the same id turns notify_event to other
\* subscribers, who learn the value with the next change.
NotifiedIsStored ==
    \A f \in Field :
        /\ fields_[f] # None /\ alone[f] /\ \A t \in Thread : Alone(t, f)
        /\ Free("event_configs_mutex_") /\ event_configs_[f] # None
        => last[f][event_configs_[f]] \in {None, fields_[f]}

\* Once Runtime::stop has returned, the threads that Runtime::start and the TCP
\* connections started have ended, and none of them calls a handler: the worker
\* of ServiceDiscovery, the UDP receive thread and the TCP receive thread.  With
\* a connection open TcpTransport::stop may not return (see TcpTransport); the
\* worker of ShmAgent is not among these threads and goes on.
StoppedIsQuiet ==
    /\ ~running_
    /\ \A u \in User : ~At(u, "halt") /\ ~At(u, "shut") /\ ~At(u, "join")
    => alive = {} /\ \A b \in Background : todo[b] = <<>>
=============================================================================
