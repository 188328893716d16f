--------------------------- MODULE RequestsProofs ---------------------------
(***************************************************************************)
(* Requests for any number of session ids, calls and endpoints: the proofs *)
(* of its type invariant and of its four safety properties.                *)
(***************************************************************************)
EXTENDS Requests, TLAPS

\* The calls made so far.
Made == 1 .. drawn

\* Who is inside send_request: only the newest call can be.
Caller ==
    /\ step = "idle" <=> session_mutex_ = NoCall
    /\ session_mutex_ # NoCall => session_mutex_ = drawn
    /\ \A k \in Call : promise[k] # "none" => k <= drawn
    /\ sent \subseteq Made
    /\ replies \subseteq Made

\* Session numbers as a window that slides over the draws: a call made fewer
\* than SessionCount draws ago has the number session_id_ had then.
Window ==
    \A k \in Made :
        drawn + 1 - k < SessionCount =>
            \/ session[k] = session_id_ - (drawn + 1 - k)
            \/ session[k] = session_id_ - (drawn + 1 - k) + SessionCount

\* Two calls with the same number are SessionCount draws apart.
Apart ==
    \A j, k \in Made :
        j < k /\ session[j] = session[k] => k - j >= SessionCount

\* An entry of the table is a call stored under its own number.
Filed ==
    \A s \in Session :
        LET k == pending_requests_[s] IN
        k # NoCall => k \in Made /\ session[k] = s /\ promise[k] # "none"

\* Every response went to a call with the number of the call it answers.
Answered ==
    \A k \in Call :
        promise[k] = "RESPONSE" =>
            k \in Made /\ origin[k] \in Made /\ session[origin[k]] = session[k]

\* A completed call is still in the table only after a failed send.
Settled ==
    \A k \in Call :
        /\ promise[k] # "none"
        /\ promise[k] # "unset"
        /\ pending_requests_[session[k]] = k
        => unreachable # {}

\* The inductive invariant.
IInv ==
    /\ TypeOK
    /\ Caller
    /\ Window
    /\ Apart
    /\ Filed
    /\ Answered
    /\ NoOrphanedFuture
    /\ BrokenOnlyByWrap
    /\ Settled
    /\ DoubleSetOnlyAfterFailedSend
-----------------------------------------------------------------------------

USE RequestsAssumption DEF Call, Session, NoCall, Made

\* The parts of TypeOK by what they speak of.
SessionsType ==
    /\ session_id_ \in Session
    /\ drawn \in 0 .. MaxDraws
    /\ session \in [Call -> Session]

\* A draw keeps the window, and no call that is still in it has the number
\* drawn.
LEMMA DrawKeepsWindow ==
    ASSUME SessionsType, Window, Apart, NEW k \in Call, DrawSession(k)
    PROVE  /\ SessionsType'
           /\ Window'
           /\ Apart'
           /\ \A j \in Made : session[j] = session_id_ => drawn + 1 - j >= SessionCount
<1> USE DEF SessionsType, DrawSession
<1>1. SessionsType'
  BY DEF NextSession
<1>2. \A j \in Made : session[j] = session_id_ => drawn + 1 - j >= SessionCount
  <2> SUFFICES ASSUME NEW j \in Made, session[j] = session_id_,
                      drawn + 1 - j < SessionCount
               PROVE  FALSE
    OBVIOUS
  <2>1. \/ session[j] = session_id_ - (drawn + 1 - j)
        \/ session[j] = session_id_ - (drawn + 1 - j) + SessionCount
    BY DEF Window
  <2>2. session_id_ \in Int /\ drawn + 1 - j \in Int /\ drawn + 1 - j > 0
    OBVIOUS
  <2> HIDE DEF DrawSession, SessionsType
  <2> QED
    BY <2>1, <2>2
<1>3. \A j \in Made : session'[j] = session[j]
  OBVIOUS
<1>4. session'[k] = session_id_ /\ k = drawn + 1 /\ drawn' = k
  OBVIOUS
<1>5. Window'
  <2> SUFFICES ASSUME NEW j \in Made', drawn' + 1 - j < SessionCount
               PROVE  \/ session'[j] = session_id_' - (drawn' + 1 - j)
                      \/ session'[j] = session_id_' - (drawn' + 1 - j) + SessionCount
    BY DEF Window
  <2>1. CASE j = k
    BY <2>1, <1>4 DEF NextSession
  <2>2. CASE j # k
    <3>1. j \in Made /\ drawn + 1 - j < SessionCount
      BY <2>2, <1>4
    <3>2. \/ session[j] = session_id_ - (drawn + 1 - j)
          \/ session[j] = session_id_ - (drawn + 1 - j) + SessionCount
      BY <3>1 DEF Window
    <3>3. session[j] \in Session
      BY <3>1
    <3>4. session'[j] = session[j]
      BY <3>1, <1>3
    <3> QED
      BY <3>1, <3>2, <3>3, <3>4, <1>4 DEF NextSession
  <2> QED
    BY <2>1, <2>2
<1>6. Apart'
  <2> SUFFICES ASSUME NEW i \in Made', NEW j \in Made',
                      i < j, session'[i] = session'[j]
               PROVE  j - i >= SessionCount
    BY DEF Apart
  <2>1. CASE j = k
    BY <2>1, <1>2, <1>3, <1>4
  <2>2. CASE j # k
    <3>1. i \in Made /\ j \in Made
      BY <2>2, <1>4
    <3> QED
      BY <3>1, <1>3 DEF Apart
  <2> QED
    BY <2>1, <2>2
<1> QED
  BY <1>1, <1>2, <1>5, <1>6

\* What set_value on a set of calls, and erasing them, do to the typed tables.
LEMMA CompleteType ==
    ASSUME TypeOK, NEW S \in SUBSET Call, NEW code \in Completed, Complete(S, code)
    PROVE  promise' \in [Call -> PromiseState]
  BY DEF TypeOK, PromiseState, Complete

LEMMA EraseType ==
    ASSUME TypeOK, NEW S \in SUBSET Call, Erase(S)
    PROVE  /\ pending_requests_' \in [Session -> Call \cup {NoCall}]
           /\ \A k \in Call : pending_requests_'[session[k]] = k
                <=> pending_requests_[session[k]] = k /\ k \notin S
  BY DEF TypeOK, Erase

\* The invariant holds before the first call.
LEMMA InitEstablishesIInv == Init => IInv
<1> SUFFICES ASSUME Init PROVE IInv
  OBVIOUS
<1>1. TypeOK
  <2>1. session_id_ \in Session /\ drawn \in 0 .. MaxDraws /\ endpoints \in 0 .. MaxEndpoints
    BY DEF Init, NextSession
  <2>2. session \in [Call -> Session] /\ promise \in [Call -> PromiseState]
    BY DEF Init, PromiseState
  <2> QED
    BY <2>1, <2>2 DEF Init, TypeOK
<1>2. Caller /\ Window /\ Apart /\ Filed
  BY DEF Init, Caller, Window, Apart, Filed
<1>3. Answered /\ NoOrphanedFuture /\ BrokenOnlyByWrap
  BY DEF Init, Answered, NoOrphanedFuture, BrokenOnlyByWrap
<1>4. Settled /\ DoubleSetOnlyAfterFailedSend
  BY DEF Init, Settled, DoubleSetOnlyAfterFailedSend
<1> QED
  BY <1>1, <1>2, <1>3, <1>4 DEF IInv

\* Every step of every thread preserves the invariant.
LEMMA NextPreservesIInv == IInv /\ [Next]_vars => IInv'
<1> SUFFICES ASSUME IInv, [Next]_vars PROVE IInv'
  OBVIOUS
<1> USE DEF IInv
<1>1. CASE \E k \in Call : SendRequest(k)
  <2> PICK k \in Call : SendRequest(k)
    BY <1>1
  <2>1. DrawSession(k) /\ Register(k)
    BY DEF SendRequest
  <2>2. /\ SessionsType' /\ Window' /\ Apart'
        /\ \A j \in Made : session[j] = session_id_ => drawn + 1 - j >= SessionCount
    BY <2>1, DrawKeepsWindow DEF TypeOK, SessionsType
  <2>3. TypeOK'
    BY <2>2 DEF TypeOK, SessionsType, PromiseState, SendRequest, DrawSession, Register
  <2>4. Caller'
    BY DEF TypeOK, Caller, SendRequest, DrawSession, Register
  <2>5. Filed'
    BY DEF TypeOK, Filed, Caller, SendRequest, DrawSession, Register
  <2>6. Answered'
    BY DEF TypeOK, Answered, SendRequest, DrawSession, Register
  <2>7. NoOrphanedFuture'
    BY DEF TypeOK, NoOrphanedFuture, Filed, Caller, SendRequest, DrawSession, Register
  <2>8. BrokenOnlyByWrap'
    <3> SUFFICES ASSUME NEW j \in Call, promise'[j] = "broken"
                 PROVE  drawn' - j >= SessionCount
      BY DEF BrokenOnlyByWrap
    <3>1. drawn' = drawn + 1 /\ drawn \in Int /\ SessionCount \in Int
      BY <2>1 DEF TypeOK, DrawSession
    <3>2. CASE promise[j] = "broken"
      BY <3>1, <3>2 DEF BrokenOnlyByWrap
    <3>3. CASE promise[j] # "broken"
      <4>1. j # k /\ j = pending_requests_[session_id_]
        BY <2>1, <3>3 DEF Register
      <4>2. j \in Made /\ session[j] = session_id_
        BY <4>1 DEF TypeOK, Filed
      <4> QED
        BY <2>2, <3>1, <4>2
    <3> QED
      BY <3>2, <3>3
  <2>9. Settled' /\ DoubleSetOnlyAfterFailedSend'
    BY DEF TypeOK, Settled, DoubleSetOnlyAfterFailedSend, Filed, Caller,
           SendRequest, DrawSession, Register
  <2> QED
    BY <2>2, <2>3, <2>4, <2>5, <2>6, <2>7, <2>8, <2>9
<1>2. CASE \E k \in Call : SendRequestNoReturn(k)
  <2> PICK k \in Call : SendRequestNoReturn(k)
    BY <1>2
  <2> USE DEF SendRequestNoReturn, sending
  <2>1. DrawSession(k)
    OBVIOUS
  <2>2. SessionsType' /\ Window' /\ Apart'
    BY <2>1, DrawKeepsWindow DEF TypeOK, SessionsType
  <2>3. TypeOK'
    BY <2>2 DEF TypeOK, SessionsType
  <2>4. Caller' /\ Filed'
    BY DEF TypeOK, Caller, Filed, DrawSession
  <2>5. /\ \A j \in Made : session'[j] = session[j]
        /\ \A j \in Made : j \in Made'
        /\ UNCHANGED <<promise, origin, pending_requests_>>
    BY DEF TypeOK, DrawSession
  <2>6. Answered'
    BY <2>5 DEF Answered
  <2>7. NoOrphanedFuture'
    BY <2>5 DEF TypeOK, NoOrphanedFuture, Caller
  <2>8. BrokenOnlyByWrap'
    BY DEF TypeOK, BrokenOnlyByWrap, DrawSession
  <2>9. Settled' /\ DoubleSetOnlyAfterFailedSend'
    BY DEF TypeOK, Settled, DoubleSetOnlyAfterFailedSend, Caller, DrawSession
  <2> QED
    BY <2>2, <2>3, <2>4, <2>6, <2>7, <2>8, <2>9
<1>3. CASE GetServiceEndpoints
  <2>1. TypeOK' /\ Caller'
    BY <1>3 DEF TypeOK, Caller, GetServiceEndpoints, sessions
  <2>2. Window' /\ Apart' /\ Filed' /\ Answered'
    BY <1>3 DEF Window, Apart, Filed, Answered, GetServiceEndpoints, sessions
  <2>3. NoOrphanedFuture' /\ BrokenOnlyByWrap'
    BY <1>3 DEF NoOrphanedFuture, BrokenOnlyByWrap, GetServiceEndpoints, sessions
  <2>4. Settled' /\ DoubleSetOnlyAfterFailedSend'
    BY <1>3 DEF Settled, DoubleSetOnlyAfterFailedSend, GetServiceEndpoints, sessions
  <2> QED
    BY <2>1, <2>2, <2>3, <2>4
<1>4. CASE SendSucceeds
  <2>1. TypeOK' /\ Caller'
    BY <1>4 DEF TypeOK, Caller, SendSucceeds, sessions
  <2>2. Window' /\ Apart' /\ Filed' /\ Answered'
    BY <1>4 DEF Window, Apart, Filed, Answered, SendSucceeds, sessions
  <2>3. NoOrphanedFuture' /\ BrokenOnlyByWrap'
    BY <1>4 DEF NoOrphanedFuture, BrokenOnlyByWrap, SendSucceeds, sessions
  <2>4. Settled' /\ DoubleSetOnlyAfterFailedSend'
    BY <1>4 DEF Settled, DoubleSetOnlyAfterFailedSend, SendSucceeds, sessions
  <2> QED
    BY <2>1, <2>2, <2>3, <2>4
<1>5. CASE SendFails
  <2>1. TypeOK' /\ Caller'
    BY <1>5 DEF TypeOK, Caller, SendFails, sessions
  <2>2. Window' /\ Apart' /\ Filed' /\ Answered'
    BY <1>5 DEF Window, Apart, Filed, Answered, SendFails, sessions
  <2>3. NoOrphanedFuture' /\ BrokenOnlyByWrap'
    BY <1>5 DEF NoOrphanedFuture, BrokenOnlyByWrap, SendFails, sessions
  <2>4. Settled' /\ DoubleSetOnlyAfterFailedSend'
    BY <1>5 DEF Settled, DoubleSetOnlyAfterFailedSend, SendFails, sessions
  <2> QED
    BY <2>1, <2>2, <2>3, <2>4
<1>6. CASE NotReachable
  <2>1. TypeOK'
    <3>1. promise' \in [Call -> PromiseState]
      BY <1>6 DEF TypeOK, PromiseState, Completed, NotReachable, Complete
    <3>2. session_mutex_ \in Call
      BY <1>6 DEF TypeOK, Caller, NotReachable
    <3> QED
      BY <1>6, <3>1, <3>2 DEF TypeOK, NotReachable, sessions
  <2>2. Caller'
    BY <1>6 DEF TypeOK, Caller, Filed, NotReachable, Complete, sessions
  <2>3. Window' /\ Apart'
    BY <1>6 DEF Window, Apart, NotReachable, Complete, sessions
  <2>4. Filed'
    BY <1>6 DEF TypeOK, Filed, NotReachable, Complete, sessions
  <2>5. Answered'
    BY <1>6 DEF TypeOK, Answered, Filed, Caller, NotReachable, Complete, sessions
  <2>6. NoOrphanedFuture'
    BY <1>6 DEF TypeOK, NoOrphanedFuture, Filed, NotReachable, Complete, sessions
  <2>7. BrokenOnlyByWrap'
    BY <1>6 DEF TypeOK, BrokenOnlyByWrap, NotReachable, Complete, sessions
  <2>8. Settled'
    BY <1>6 DEF TypeOK, Settled, Filed, NotReachable, Complete, sessions
  <2>9. DoubleSetOnlyAfterFailedSend'
    BY <1>6
    DEF TypeOK, DoubleSetOnlyAfterFailedSend, Settled, Filed, NotReachable, Complete, sessions
  <2> QED
    BY <2>1, <2>2, <2>3, <2>4, <2>5, <2>6, <2>7, <2>8, <2>9
<1>7. CASE \E q \in Call : HandleResponse(q)
  <2> PICK q \in Call : HandleResponse(q)
    BY <1>7
  <2> DEFINE k == pending_requests_[session[q]]
  <2> USE DEF sessions, sending
  <2>0. session[q] \in Session /\ k \in Call \cup {NoCall} /\ q \in Made
    BY DEF TypeOK, Caller, HandleResponse
  <2>1. CASE k = NoCall \/ promise[k] # "unset"
    <3>1. UNCHANGED <<promise, origin, pending_requests_>>
      BY <2>1 DEF HandleResponse
    <3>2. TypeOK' /\ Caller'
      BY <3>1 DEF TypeOK, Caller, HandleResponse
    <3>3. Window' /\ Apart' /\ Filed' /\ Answered'
      BY <3>1 DEF Window, Apart, Filed, Answered, HandleResponse
    <3>4. NoOrphanedFuture' /\ BrokenOnlyByWrap' /\ Settled'
      BY <3>1 DEF NoOrphanedFuture, BrokenOnlyByWrap, Settled, HandleResponse
    <3>5. DoubleSetOnlyAfterFailedSend'
      BY <2>0, <2>1 DEF TypeOK, DoubleSetOnlyAfterFailedSend, Settled, Filed, HandleResponse
    <3> QED
      BY <3>2, <3>3, <3>4, <3>5
  <2>2. CASE k # NoCall /\ promise[k] = "unset"
    <3>1. /\ k \in Made /\ k \in Call /\ session[k] = session[q]
      BY <2>0, <2>2 DEF Filed, TypeOK
    <3>2. /\ Complete({k}, "RESPONSE") /\ Erase({k})
          /\ origin' = [origin EXCEPT ![k] = q]
          /\ UNCHANGED raised
      BY <2>2 DEF HandleResponse
    <3>3. promise' = [promise EXCEPT ![k] = "RESPONSE"]
      BY <3>2, <3>1 DEF Complete, TypeOK
    <3>4. promise' \in [Call -> PromiseState]
      BY <3>1, <3>2, CompleteType DEF Completed
    <3>5. /\ pending_requests_' \in [Session -> Call \cup {NoCall}]
          /\ \A j \in Call : pending_requests_'[session[j]] = j
                <=> pending_requests_[session[j]] = j /\ j # k
      BY <3>1, <3>2, EraseType
    <3>6. TypeOK'
      BY <3>1, <3>2, <3>4, <3>5 DEF TypeOK, HandleResponse
    <3>7. Caller' /\ Window' /\ Apart'
      BY <3>1, <3>3 DEF TypeOK, Caller, Window, Apart, HandleResponse
    <3>8. Filed'
      BY <3>1, <3>2, <3>3 DEF TypeOK, Filed, Erase, HandleResponse
    <3>9. Answered'
      BY <2>0, <3>1, <3>2, <3>3 DEF TypeOK, Answered, HandleResponse
    <3>10. NoOrphanedFuture' /\ BrokenOnlyByWrap' /\ Settled'
      BY <3>1, <3>3, <3>5 DEF TypeOK, NoOrphanedFuture, BrokenOnlyByWrap, Settled, HandleResponse
    <3>11. DoubleSetOnlyAfterFailedSend'
      BY <3>2 DEF DoubleSetOnlyAfterFailedSend, HandleResponse
    <3> QED
      BY <3>6, <3>7, <3>8, <3>9, <3>10, <3>11
  <2> QED
    BY <2>1, <2>2
<1>8. CASE HandleOther
  <2>1. TypeOK' /\ Caller'
    BY <1>8 DEF TypeOK, Caller, HandleOther, sessions, sending
  <2>2. Window' /\ Apart' /\ Filed' /\ Answered'
    BY <1>8 DEF Window, Apart, Filed, Answered, HandleOther, sessions, sending
  <2>3. NoOrphanedFuture' /\ BrokenOnlyByWrap'
    BY <1>8 DEF NoOrphanedFuture, BrokenOnlyByWrap, HandleOther, sessions, sending
  <2>4. Settled' /\ DoubleSetOnlyAfterFailedSend'
    BY <1>8 DEF Settled, DoubleSetOnlyAfterFailedSend, HandleOther, sessions, sending
  <2> QED
    BY <2>1, <2>2, <2>3, <2>4
<1>9. CASE CleanupExpiredRequests
  <2> USE <1>9 DEF sessions, sending
  <2>0. /\ Expired \in SUBSET Call
        /\ \A k \in Expired : pending_requests_[session[k]] = k
    BY DEF Expired, Registered
  <2>1. CASE \A k \in Expired : promise[k] = "unset"
    <3>1. /\ Complete(Expired, "E_TIMEOUT")
          /\ Erase(Expired)
          /\ UNCHANGED raised
      BY <2>1 DEF CleanupExpiredRequests
    <3>2. promise' \in [Call -> PromiseState]
      BY <2>0, <3>1, CompleteType DEF Completed
    <3>3. /\ pending_requests_' \in [Session -> Call \cup {NoCall}]
          /\ \A j \in Call : pending_requests_'[session[j]] = j
                <=> pending_requests_[session[j]] = j /\ j \notin Expired
      BY <2>0, <3>1, EraseType
    <3>4. TypeOK'
      BY <3>1, <3>2, <3>3 DEF TypeOK, CleanupExpiredRequests
    <3>5. Caller' /\ Window' /\ Apart'
      BY <2>1, <3>1 DEF TypeOK, Caller, Complete, Window, Apart, CleanupExpiredRequests
    <3>6. Filed'
      BY <3>1 DEF TypeOK, Filed, Erase, Complete, CleanupExpiredRequests
    <3>7. Answered' /\ BrokenOnlyByWrap'
      BY <3>1 DEF TypeOK, Answered, BrokenOnlyByWrap, Complete, CleanupExpiredRequests
    <3>8. NoOrphanedFuture' /\ Settled'
      BY <3>1, <3>3 DEF TypeOK, NoOrphanedFuture, Settled, Complete, CleanupExpiredRequests
    <3>9. DoubleSetOnlyAfterFailedSend'
      BY <3>1 DEF DoubleSetOnlyAfterFailedSend, CleanupExpiredRequests
    <3> QED
      BY <3>4, <3>5, <3>6, <3>7, <3>8, <3>9
  <2>2. CASE \E k \in Expired : promise[k] # "unset"
    <3>1. UNCHANGED <<promise, pending_requests_, receiver>>
      BY <2>2 DEF CleanupExpiredRequests
    <3>2. TypeOK' /\ Caller'
      BY <3>1 DEF TypeOK, Caller, CleanupExpiredRequests
    <3>3. Window' /\ Apart' /\ Filed' /\ Answered'
      BY <3>1 DEF Window, Apart, Filed, Answered, CleanupExpiredRequests
    <3>4. NoOrphanedFuture' /\ BrokenOnlyByWrap' /\ Settled'
      BY <3>1 DEF NoOrphanedFuture, BrokenOnlyByWrap, Settled, CleanupExpiredRequests
    <3>5. PICK k \in Expired : promise[k] # "unset"
      BY <2>2
    <3>6. k \in Call /\ pending_requests_[session[k]] = k /\ session[k] \in Session
      BY <2>0 DEF TypeOK
    <3>7. promise[k] # "none"
      BY <3>6 DEF Filed
    <3>8. DoubleSetOnlyAfterFailedSend'
      BY <3>5, <3>6, <3>7 DEF DoubleSetOnlyAfterFailedSend, Settled, CleanupExpiredRequests
    <3> QED
      BY <3>2, <3>3, <3>4, <3>8
  <2> QED
    BY <2>1, <2>2
<1>10. CASE Start
  <2>1. TypeOK' /\ Caller'
    BY <1>10 DEF TypeOK, Caller, Start, sessions, sending
  <2>2. Window' /\ Apart' /\ Filed' /\ Answered'
    BY <1>10 DEF Window, Apart, Filed, Answered, Start, sessions, sending
  <2>3. NoOrphanedFuture' /\ BrokenOnlyByWrap'
    BY <1>10 DEF NoOrphanedFuture, BrokenOnlyByWrap, Start, sessions, sending
  <2>4. Settled' /\ DoubleSetOnlyAfterFailedSend'
    BY <1>10 DEF Settled, DoubleSetOnlyAfterFailedSend, Start, sessions, sending
  <2> QED
    BY <2>1, <2>2, <2>3, <2>4
<1>11. CASE Stop
  <2> DEFINE open == {k \in Registered : promise[k] = "unset"}
  <2> USE <1>11 DEF sessions, sending
  <2>0. /\ Registered \in SUBSET Call
        /\ \A k \in Registered : pending_requests_[session[k]] = k
    BY DEF Registered
  <2>1. CASE open = Registered
    <3>1. /\ Complete(Registered, "E_NOT_OK")
          /\ Erase(Registered)
          /\ UNCHANGED raised
      BY <2>1 DEF Stop
    <3>2. promise' \in [Call -> PromiseState]
      BY <2>0, <3>1, CompleteType DEF Completed
    <3>3. /\ pending_requests_' \in [Session -> Call \cup {NoCall}]
          /\ \A j \in Call : pending_requests_'[session[j]] = j
                <=> pending_requests_[session[j]] = j /\ j \notin Registered
      BY <2>0, <3>1, EraseType
    <3>4. TypeOK'
      BY <3>1, <3>2, <3>3 DEF TypeOK, Stop
    <3>5. Caller' /\ Window' /\ Apart'
      BY <2>1, <3>1 DEF TypeOK, Caller, Complete, Window, Apart, Stop
    <3>6. Filed'
      BY <3>1 DEF TypeOK, Filed, Erase, Complete, Stop
    <3>7. Answered' /\ BrokenOnlyByWrap'
      BY <3>1 DEF TypeOK, Answered, BrokenOnlyByWrap, Complete, Stop
    <3>8. NoOrphanedFuture' /\ Settled'
      BY <3>1, <3>3 DEF TypeOK, NoOrphanedFuture, Settled, Complete, Stop
    <3>9. DoubleSetOnlyAfterFailedSend'
      BY <3>1 DEF DoubleSetOnlyAfterFailedSend, Stop
    <3> QED
      BY <3>4, <3>5, <3>6, <3>7, <3>8, <3>9
  <2>2. CASE open # Registered
    <3>1. PICK S \in SUBSET open : Complete(S, "E_NOT_OK")
      BY <2>2 DEF Stop
    <3>2. UNCHANGED pending_requests_
      BY <2>2 DEF Stop
    <3>3. S \in SUBSET Call /\ \A k \in S : promise[k] = "unset"
      BY <2>0
    <3>4. promise' \in [Call -> PromiseState]
      BY <3>1, <3>3, CompleteType DEF Completed
    <3>5. PICK k \in Registered : promise[k] # "unset"
      BY <2>2
    <3>6. unreachable # {}
      BY <2>0, <3>5 DEF TypeOK, Filed, Settled
    <3>7. TypeOK'
      BY <3>2, <3>4 DEF TypeOK, Stop
    <3>8. Caller' /\ Window' /\ Apart'
      BY <3>1, <3>3 DEF TypeOK, Caller, Complete, Window, Apart, Stop
    <3>9. Filed' /\ Answered' /\ BrokenOnlyByWrap'
      BY <3>1, <3>2 DEF TypeOK, Filed, Answered, BrokenOnlyByWrap, Complete, Stop
    <3>10. NoOrphanedFuture'
      BY <3>1, <3>2 DEF TypeOK, NoOrphanedFuture, Complete, Stop
    <3>11. Settled' /\ DoubleSetOnlyAfterFailedSend'
      BY <3>6 DEF Settled, DoubleSetOnlyAfterFailedSend, Stop
    <3> QED
      BY <3>7, <3>8, <3>9, <3>10, <3>11
  <2> QED
    BY <2>1, <2>2
<1>12. CASE \E k \in Call : ServiceResponds(k)
  <2> PICK k \in Call : ServiceResponds(k)
    BY <1>12
  <2>1. TypeOK' /\ Caller'
    BY DEF TypeOK, Caller, ServiceResponds, sessions, sending
  <2>2. Window' /\ Apart' /\ Filed' /\ Answered'
    BY DEF Window, Apart, Filed, Answered, ServiceResponds, sessions, sending
  <2>3. NoOrphanedFuture' /\ BrokenOnlyByWrap'
    BY DEF NoOrphanedFuture, BrokenOnlyByWrap, ServiceResponds, sessions, sending
  <2>4. Settled' /\ DoubleSetOnlyAfterFailedSend'
    BY DEF Settled, DoubleSetOnlyAfterFailedSend, ServiceResponds, sessions, sending
  <2> QED
    BY <2>1, <2>2, <2>3, <2>4
<1>13. CASE \E k \in Call : TimeoutElapses(k)
  <2> PICK k \in Call : TimeoutElapses(k)
    BY <1>13
  <2>1. TypeOK' /\ Caller'
    BY DEF TypeOK, Caller, TimeoutElapses, sessions, sending
  <2>2. Window' /\ Apart' /\ Filed' /\ Answered'
    BY DEF Window, Apart, Filed, Answered, TimeoutElapses, sessions, sending
  <2>3. NoOrphanedFuture' /\ BrokenOnlyByWrap'
    BY DEF NoOrphanedFuture, BrokenOnlyByWrap, TimeoutElapses, sessions, sending
  <2>4. Settled' /\ DoubleSetOnlyAfterFailedSend'
    BY DEF Settled, DoubleSetOnlyAfterFailedSend, TimeoutElapses, sessions, sending
  <2> QED
    BY <2>1, <2>2, <2>3, <2>4
<1>14. CASE UNCHANGED vars
  <2>1. TypeOK' /\ Caller'
    BY <1>14 DEF TypeOK, Caller, vars
  <2>2. Window' /\ Apart' /\ Filed' /\ Answered'
    BY <1>14 DEF Window, Apart, Filed, Answered, vars
  <2>3. NoOrphanedFuture' /\ BrokenOnlyByWrap'
    BY <1>14 DEF NoOrphanedFuture, BrokenOnlyByWrap, vars
  <2>4. Settled' /\ DoubleSetOnlyAfterFailedSend'
    BY <1>14 DEF Settled, DoubleSetOnlyAfterFailedSend, vars
  <2> QED
    BY <2>1, <2>2, <2>3, <2>4
<1> QED
  BY <1>1, <1>2, <1>3, <1>4, <1>5, <1>6, <1>7, <1>8, <1>9, <1>10,
     <1>11, <1>12, <1>13, <1>14 DEF Next

-----------------------------------------------------------------------------
(* Theorems. *)

\* The inductive invariant holds in every reachable state.
THEOREM Invariance == Spec => []IInv
  BY InitEstablishesIInv, NextPreservesIInv, PTL DEF Spec

\* Every variable of the request table and of the calls keeps its type.
THEOREM TypeCorrect == Spec => []TypeOK
<1>1. IInv => TypeOK
  BY DEF IInv
<1> QED
  BY <1>1, Invariance, PTL

\* A waiting future is always one the table can find: no code path of
\* handle_message, cleanup_expired_requests, stop or send_request drops a
\* pending request and leaves its promise open.
THEOREM FuturesAreFiled == Spec => []NoOrphanedFuture
<1>1. IInv => NoOrphanedFuture
  BY DEF IInv
<1> QED
  BY <1>1, Invariance, PTL

\* A response completes a call other than its own only across a wrap of the
\* session numbers, for any number of session ids.
THEOREM AnswersMatch == Spec => []AnswerMatchesSession
<1>1. IInv => AnswerMatchesSession
  <2> SUFFICES ASSUME IInv, NEW k \in Call, promise[k] = "RESPONSE", origin[k] # k
               PROVE  k - origin[k] >= SessionCount \/ origin[k] - k >= SessionCount
    BY DEF AnswerMatchesSession
  <2>1. /\ drawn \in Nat /\ k \in Made /\ origin[k] \in Made
        /\ session[origin[k]] = session[k]
    BY DEF IInv, TypeOK, Answered
  <2>2. origin[k] < k \/ k < origin[k]
    BY <2>1
  <2> QED
    BY <2>1, <2>2 DEF IInv, Apart
<1> QED
  BY <1>1, Invariance, PTL

\* A promise is destroyed unset only when session numbers wrapped onto it.
THEOREM BrokenByWrap == Spec => []BrokenOnlyByWrap
<1>1. IInv => BrokenOnlyByWrap
  BY DEF IInv
<1> QED
  BY <1>1, Invariance, PTL

\* Without a failed send nobody sets a promise twice.
THEOREM DoubleSetNeedsFailedSend == Spec => []DoubleSetOnlyAfterFailedSend
<1>1. IInv => DoubleSetOnlyAfterFailedSend
  BY DEF IInv
<1> QED
  BY <1>1, Invariance, PTL
=============================================================================
