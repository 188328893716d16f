---------------------------- MODULE MC_Dispatch ----------------------------
EXTENDS Dispatch, TLC

CONSTANTS u1, u2, s1, s2, g1, e1, f1, m0, m1, v1, v2

\* Eventgroups of the service of this node and of another one.
Own == <<s1, g1>>
Other == <<s2, g1>>

Messages ==
    {<<"request", m0>>, <<"request", m1>>, <<"response", None>>, <<"event", e1>>,
     <<"SD offer", None>>, <<"SD subscribe", Own>>}

Do(op) == Step(op, None, None)

\* Both events are in one eventgroup; u1 owns the runtime.  Threads offer,
\* withdraw and subscribe the same event id for two services; threads set a
\* field that one of them offers; handlers of methods, then of events, are
\* installed while messages arrive; the runtime is stopped while a TCP connection
\* comes and goes and messages arrive on both transports.
Scripts ==
    { u1 :> {Do("runtime_start"), Step("skeleton_offer", e1, Own)}
      @@ u2 :> {Step("skeleton_stop_offer", e1, s1), Step("subscribe_event", e1, Other)},
      u1 :> {Step("set_field_value", f1, v1), Step("offer_field", f1, Own),
             Step("proxy_unsubscribe", e1, None)}
      @@ u2 :> {Step("set_field_value", f1, v2), Step("offer_event", e1, Own),
                Step("stop_offer_event", e1, s1), Do("register_field")},
      u1 :> {Step("set_field_value", f1, v1), Step("offer_field", f1, Own),
             Step("offer_event", f1, Other)}
      @@ u2 :> {Step("subscribe_event", f1, Other), Step("set_field_value", f1, v2),
                Step("stop_offer_event", f1, s1), Do("send_request")},
      u1 :> {Do("runtime_start"), Step("service_handler", None, TRUE),
             Step("method_handler", m0, TRUE)}
      @@ u2 :> {Step("register_method", m0, None), Step("method_handler", m1, TRUE)},
      u1 :> {Do("runtime_start"), Step("service_handler", None, TRUE)}
      @@ u2 :> {Step("proxy_subscribe", e1, Other), Step("event_handler", e1, "user"),
                Step("on_service_available", None, TRUE)},
      u1 :> {Do("runtime_start"), Do("runtime_stop")}
      @@ u2 :> {Do("connect"), Step("service_handler", None, TRUE)} }

\* Handlers that run under services_mutex_ must not come back to it, nor wait
\* for event_configs_mutex_; the others may call whatever takes none of the
\* mutexes they run under.
HandlerCalls ==
    [h \in Hook |->
        CASE h = "expired" -> {Step("on_service_available", None, FALSE)}
          [] h = "subscription" -> {Do("unsubscribe_event")}
          [] h = "available" -> {Step("subscribe_event", e1, Other)}
          [] h = "method" -> {Do("send_response"), Do("send_request_no_return")}
          [] h = "skeleton method" -> {Step("set_field_value", f1, v1)}
          [] h = "event" -> {Do("call_method")}
          [] h = "proxy event" -> {Step("notify_event", e1, v1)}]

\* These handlers keep to the order of the mutexes.
ASSUME HandlerCallsKeepOrder == HandlersKeepOrder

\* Nobody notifies of the field but by setting it.
ASSUME FieldIsSet == FieldsAreSet
=============================================================================
