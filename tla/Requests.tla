------------------------------ MODULE Requests ------------------------------
(***************************************************************************)
(* The request side of Application (src/application.cpp): session numbers, *)
(* the table of pending requests, and the promise each send_request call   *)
(* leaves with its caller.                                                 *)
(*                                                                         *)
(* A call is named by the number of its draw from session_id_: call k is   *)
(* the k-th send_request or send_request_no_return of the application.     *)
(* The client id is fixed for a runtime, so a request id is its session    *)
(* number.  send_request holds session_mutex_ from its first line to its   *)
(* return, so one call at most is inside it, whatever thread made it;      *)
(* requests_mutex_ protects single critical sections, which are the        *)
(* actions below.  The receive threads reach handle_message one at a time  *)
(* (Runtime holds handlers_mutex_ around the handler), but a response and  *)
(* the clean-up that follows it are two critical sections.                 *)
(***************************************************************************)
EXTENDS Integers

CONSTANTS SessionCount,   \* number of session ids, 2^16 in the code
          MaxDraws,       \* bound on the calls of one behaviour
          MaxEndpoints    \* bound on the endpoints usable for one request

ASSUME RequestsAssumption ==
    /\ SessionCount \in Nat \ {0}
    /\ MaxDraws \in Nat
    /\ MaxEndpoints \in Nat

VARIABLES
    session_id_,        \* the next session number
    drawn,              \* session numbers drawn so far
    session,            \* session[k]: the number call k drew
    session_mutex_,     \* the call inside send_request, or NoCall
    step,               \* where that call is
    endpoints,          \* endpoints it has left to try
    pending_requests_,  \* session number -> pending call, or NoCall
    promise,            \* state of each call's promise
    origin,             \* origin[k]: the call whose response completed call k
    expired,            \* calls whose timeout has elapsed
    sent,               \* calls whose request went out
    replies,            \* calls some response to which is on the network
    receiver,           \* "idle", or "cleanup" inside handle_message
    running_,
    unreachable,        \* calls that took the E_NOT_REACHABLE exit
    raised              \* who met std::future_error from set_value

vars == <<session_id_, drawn, session, session_mutex_, step, endpoints,
          pending_requests_, promise, origin, expired, sent, replies,
          receiver, running_, unreachable, raised>>

sending == <<session_mutex_, step, endpoints>>
sessions == <<session_id_, drawn, session>>

NoCall == 0
Call == 1 .. MaxDraws
Session == 0 .. SessionCount - 1

\* ReturnCode of the message a promise was completed with; "none" for a call
\* without a promise, "unset" for an open one, "broken" for a promise that was
\* destroyed unset.
Completed == {"RESPONSE", "E_NOT_OK", "E_NOT_REACHABLE", "E_TIMEOUT"}
PromiseState == Completed \cup {"none", "unset", "broken"}

\* Mutants of NextSession: a counter that does not wrap, and one that wraps a
\* number too early.
NextSessionUnwrapped(s) == s + 1
NextSessionNarrow(s) == IF s >= SessionCount - 2 THEN 0 ELSE s + 1

\* SessionId is a uint16_t: session_id_++ wraps to 0.
NextSession(s) == IF s = SessionCount - 1 THEN 0 ELSE s + 1

\* The calls the table of pending requests holds.
Registered == {k \in Call : pending_requests_[session[k]] = k}

\* An exception that leaves a receive thread ends the process
\* (std::terminate); one that leaves send_request or stop goes to the caller.
Alive == "receiver" \notin raised

\* Mutant of Expired: the comparison with the timeout is reversed.
ExpiredReversed == Registered \ expired

\* The pending requests with elapsed > timeout.
Expired == Registered \cap expired

\* promise.set_value on the calls of a set.
Complete(S, code) ==
    promise' = [k \in Call |-> IF k \in S THEN code ELSE promise[k]]

\* Mutants of Erase: the table keeps what was completed, or loses everything.
EraseNothing(S) == UNCHANGED pending_requests_
EraseAll(S) == pending_requests_' = [s \in Session |-> NoCall]

\* pending_requests_.erase on the calls of a set.
Erase(S) ==
    pending_requests_' = [s \in Session |->
        IF pending_requests_[s] \in S THEN NoCall ELSE pending_requests_[s]]

Init ==
    /\ session_id_ = NextSession(0)
    /\ drawn = 0
    /\ session = [k \in Call |-> 0]
    /\ session_mutex_ = NoCall
    /\ step = "idle"
    /\ endpoints = 0
    /\ pending_requests_ = [s \in Session |-> NoCall]
    /\ promise = [k \in Call |-> "none"]
    /\ origin = [k \in Call |-> NoCall]
    /\ expired = {}
    /\ sent = {}
    /\ replies = {}
    /\ receiver = "idle"
    /\ running_ = FALSE
    /\ unreachable = {}
    /\ raised = {}

-----------------------------------------------------------------------------
(* Callers. *)

\* msg->set_session_id(session_id_++)
DrawSession(k) ==
    /\ k = drawn + 1
    /\ drawn' = k
    /\ session' = [session EXCEPT ![k] = session_id_]
    /\ session_id_' = NextSession(session_id_)

\* pending_requests_[id] = pending: a pending request still stored under the
\* same id loses its last owner, and its promise is broken.
Register(k) ==
    LET old == pending_requests_[session_id_] IN
    /\ pending_requests_' = [pending_requests_ EXCEPT ![session_id_] = k]
    /\ promise' = [j \in Call |->
                     CASE j = k -> "unset"
                       [] j # k /\ j = old /\ promise[j] = "unset" -> "broken"
                       [] OTHER -> promise[j]]

\* send_request up to the registration of the pending request.
SendRequest(k) ==
    /\ Alive
    /\ session_mutex_ = NoCall
    /\ DrawSession(k)
    /\ Register(k)
    /\ session_mutex_' = k
    /\ step' = "lookup"
    /\ UNCHANGED <<endpoints, origin, expired, sent, replies, receiver,
                   running_, unreachable, raised>>

\* send_request_no_return: it draws a session number, leaves no promise, and
\* its message goes out or not.  A service without the method answers it all
\* the same, with E_UNKNOWN_METHOD (the last branch of handle_message).
SendRequestNoReturn(k) ==
    /\ Alive
    /\ session_mutex_ = NoCall
    /\ DrawSession(k)
    /\ sent' \in {sent, sent \cup {k}}
    /\ UNCHANGED <<sending, pending_requests_, promise, origin, expired,
                   replies, receiver, running_, unreachable, raised>>

\* get_service_endpoints: the endpoints of the requested protocol that service
\* discovery knows at this moment.
GetServiceEndpoints ==
    /\ Alive
    /\ step = "lookup"
    /\ endpoints' \in 0 .. MaxEndpoints
    /\ step' = "send"
    /\ UNCHANGED <<sessions, session_mutex_, pending_requests_, promise, origin,
                   expired, sent, replies, receiver, running_, unreachable,
                   raised>>

\* Runtime::send_message succeeds on an endpoint: send_request returns.
SendSucceeds ==
    /\ Alive
    /\ step = "send"
    /\ endpoints > 0
    /\ sent' = sent \cup {session_mutex_}
    /\ session_mutex_' = NoCall
    /\ step' = "idle"
    /\ endpoints' = 0
    /\ UNCHANGED <<sessions, pending_requests_, promise, origin, expired,
                   replies, receiver, running_, unreachable, raised>>

\* Runtime::send_message fails on an endpoint: the loop tries the next one.
SendFails ==
    /\ Alive
    /\ step = "send"
    /\ endpoints > 0
    /\ endpoints' = endpoints - 1
    /\ UNCHANGED <<sessions, session_mutex_, step, pending_requests_, promise,
                   origin, expired, sent, replies, receiver, running_,
                   unreachable, raised>>

\* No endpoint, or none that works: the promise is completed, outside
\* requests_mutex_, and the pending request stays in the table.
NotReachable ==
    LET k == session_mutex_ IN
    /\ Alive
    /\ step = "send"
    /\ endpoints = 0
    /\ unreachable' = unreachable \cup {k}
    /\ \/ /\ promise[k] = "unset"
          /\ Complete({k}, "E_NOT_REACHABLE")
          /\ UNCHANGED raised
       \/ /\ promise[k] # "unset"
          /\ raised' = raised \cup {"send_request"}
          /\ UNCHANGED promise
    /\ session_mutex_' = NoCall
    /\ step' = "idle"
    /\ UNCHANGED <<sessions, endpoints, pending_requests_, origin, expired,
                   sent, replies, receiver, running_>>

-----------------------------------------------------------------------------
(* The receive thread. *)

\* handle_message for a response to call q.  Responses are delayed, reordered,
\* lost and duplicated by UDP: any reply may be delivered at any later time,
\* any number of times.
HandleResponse(q) ==
    LET k == pending_requests_[session[q]] IN
    /\ Alive
    /\ receiver = "idle"
    /\ q \in replies
    /\ \/ /\ k = NoCall
          /\ receiver' = "cleanup"
          /\ UNCHANGED <<promise, origin, pending_requests_, raised>>
       \/ /\ k # NoCall
          /\ promise[k] = "unset"
          /\ Complete({k}, "RESPONSE")
          /\ Erase({k})
          /\ origin' = [origin EXCEPT ![k] = q]
          /\ receiver' = "cleanup"
          /\ UNCHANGED raised
       \/ /\ k # NoCall
          /\ promise[k] # "unset"
          /\ raised' = raised \cup {"receiver"}
          /\ UNCHANGED <<receiver, promise, origin, pending_requests_>>
    /\ UNCHANGED <<sessions, sending, expired, sent, replies, running_,
                   unreachable>>

\* handle_message for an event or a method call: no effect on requests before
\* the clean-up at its end.
HandleOther ==
    /\ Alive
    /\ receiver = "idle"
    /\ receiver' = "cleanup"
    /\ UNCHANGED <<sessions, sending, pending_requests_, promise, origin,
                   expired, sent, replies, running_, unreachable, raised>>

\* cleanup_expired_requests, the last thing handle_message does.
CleanupExpiredRequests ==
    /\ Alive
    /\ receiver = "cleanup"
    /\ \/ /\ \A k \in Expired : promise[k] = "unset"
          /\ Complete(Expired, "E_TIMEOUT")
          /\ Erase(Expired)
          /\ receiver' = "idle"
          /\ UNCHANGED raised
       \/ /\ \E k \in Expired : promise[k] # "unset"
          /\ raised' = raised \cup {"receiver"}
          /\ UNCHANGED <<receiver, promise, pending_requests_>>
    /\ UNCHANGED <<sessions, sending, origin, expired, sent, replies, running_,
                   unreachable>>

-----------------------------------------------------------------------------
(* Start and stop. *)

Start ==
    /\ Alive
    /\ ~running_
    /\ running_' = TRUE
    /\ UNCHANGED <<sessions, sending, pending_requests_, promise, origin,
                   expired, sent, replies, receiver, unreachable, raised>>

\* stop: completes every pending request with E_NOT_OK and empties the table.
\* On a promise that is already complete set_value throws: the requests the
\* loop met before it (in the table's own order) are complete, the table is
\* left as it was, and the exception leaves stop.
Stop ==
    LET open == {k \in Registered : promise[k] = "unset"} IN
    /\ Alive
    /\ running_
    /\ running_' = FALSE
    /\ \/ /\ open = Registered
          /\ Complete(Registered, "E_NOT_OK")
          /\ Erase(Registered)
          /\ UNCHANGED raised
       \/ /\ open # Registered
          /\ \E S \in SUBSET open : Complete(S, "E_NOT_OK")
          /\ raised' = raised \cup {"stop"}
          /\ UNCHANGED pending_requests_
    /\ UNCHANGED <<sessions, sending, origin, expired, sent, replies, receiver,
                   unreachable>>

-----------------------------------------------------------------------------
(* Environment: the service, the network and the clock. *)

\* The service answers a request it received.
ServiceResponds(k) ==
    /\ k \in sent \ replies
    /\ replies' = replies \cup {k}
    /\ UNCHANGED <<sessions, sending, pending_requests_, promise, origin,
                   expired, sent, receiver, running_, unreachable, raised>>

\* The timeout of a pending request elapses (steady_clock).
TimeoutElapses(k) ==
    /\ k \in Registered \ expired
    /\ expired' = expired \cup {k}
    /\ UNCHANGED <<sessions, sending, pending_requests_, promise, origin, sent,
                   replies, receiver, running_, unreachable, raised>>

Next ==
    \/ \E k \in Call : SendRequest(k)
    \/ \E k \in Call : SendRequestNoReturn(k)
    \/ GetServiceEndpoints
    \/ SendSucceeds
    \/ SendFails
    \/ NotReachable
    \/ \E q \in Call : HandleResponse(q)
    \/ HandleOther
    \/ CleanupExpiredRequests
    \/ Start
    \/ Stop
    \/ \E k \in Call : ServiceResponds(k)
    \/ \E k \in Call : TimeoutElapses(k)

Spec == Init /\ [][Next]_vars

\* The clock runs and threads that can run do: a call inside send_request
\* finishes, and handle_message reaches its end.  Nothing is assumed of the
\* service, the network or the user.
Fairness ==
    /\ WF_vars(CleanupExpiredRequests)
    /\ \A k \in Call : WF_vars(TimeoutElapses(k))
    /\ WF_vars(GetServiceEndpoints)
    /\ WF_vars(SendSucceeds \/ SendFails \/ NotReachable)

FairSpec == Spec /\ Fairness

-----------------------------------------------------------------------------
(* Properties. *)

\* The type of every variable.
TypeOK ==
    /\ session_id_ \in Session
    /\ drawn \in 0 .. MaxDraws
    /\ session \in [Call -> Session]
    /\ session_mutex_ \in Call \cup {NoCall}
    /\ step \in {"idle", "lookup", "send"}
    /\ endpoints \in 0 .. MaxEndpoints
    /\ pending_requests_ \in [Session -> Call \cup {NoCall}]
    /\ promise \in [Call -> PromiseState]
    /\ origin \in [Call -> Call \cup {NoCall}]
    /\ expired \subseteq Call
    /\ sent \subseteq Call
    /\ replies \subseteq Call
    /\ receiver \in {"idle", "cleanup"}
    /\ running_ \in BOOLEAN
    /\ unreachable \subseteq Call
    /\ raised \subseteq {"send_request", "receiver", "stop"}

\* Every future still waiting belongs to a request the table can find again
\* under the session number it went out with: neither a response, a clean-up,
\* a stop nor a later send_request drops a pending request without settling
\* its promise.
NoOrphanedFuture ==
    \A k \in Call : promise[k] = "unset" => pending_requests_[session[k]] = k

\* handle_message matches responses by request id alone.  A response to one
\* call completes another one only if at least SessionCount calls lie between
\* them: session numbers must wrap before a late or duplicated response can be
\* taken for somebody else's.
AnswerMatchesSession ==
    \A k \in Call :
        promise[k] = "RESPONSE" =>
            \/ origin[k] = k
            \/ k - origin[k] >= SessionCount
            \/ origin[k] - k >= SessionCount

\* A caller meets std::future_error (broken promise) only when session numbers
\* wrapped onto its request while it was still pending.
BrokenOnlyByWrap ==
    \A k \in Call : promise[k] = "broken" => drawn - k >= SessionCount

\* set_value is called on a completed promise (std::future_error out of
\* send_request, stop or a receive thread) only after some send_request took
\* its E_NOT_REACHABLE exit, which leaves the completed request in the table.
DoubleSetOnlyAfterFailedSend == raised # {} => unreachable # {}

\* A request whose answer is lost is settled: as long as messages keep coming
\* in (clean-up runs only behind one), every future is completed or broken,
\* or a receive thread has ended the process.
FutureIsSettled ==
    []<><<HandleOther>>_vars =>
        \A k \in Call : promise[k] = "unset" ~> (promise[k] # "unset" \/ ~Alive)

\* stop completes "all pending requests with error" and returns: it never
\* leaves with an exception.
StopCompletesAllPending == "stop" \notin raised
=============================================================================
