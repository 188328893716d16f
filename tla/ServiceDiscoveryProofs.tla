----------------------- MODULE ServiceDiscoveryProofs -----------------------
(***************************************************************************)
(* ServiceDiscovery for any services, TTLs, delays and pauses: its type    *)
(* invariant and its three safety invariants.  Offering and discovering    *)
(* share no variable but the mutex, so each has an inductive invariant of  *)
(* its own.                                                                *)
(***************************************************************************)
EXTENDS ServiceDiscovery, TLAPS

\* While offer_service sleeps with the mutex only its own service may be out of
\* date, and that one is offered.
Current(s) ==
    announced[s] \in IF local_services_[s] = None THEN {None, 0}
                     ELSE {WireTtl(local_services_[s])}

OfferInv ==
    /\ \A s \in LocalService : s # services_mutex_ => Current(s)
    /\ ~Free => local_services_[services_mutex_] # None

\* An offer whose handler is still to be called is in the table, with the TTL
\* it came with, and no older than the time the receive thread has held it.
CallbackIsBacked ==
    receiver.at = "callback" =>
        LET d == discovered_services_[receiver.service] IN
        /\ receiver.ttl > 0
        /\ d.ttl = receiver.ttl
        /\ d.age <= receiver.pause

\* With short pauses the handler's late call never speaks of a service that is
\* gone, and none believed available is unknown.
Backed == MaxPause <= 1 => CallbackIsBacked /\ \A s \in RemoteService : view[s] => Known(s)

\* The inductive invariant.
IInv == TypeOK /\ OfferInv /\ DiscoveredIsReported /\ Backed
-----------------------------------------------------------------------------

\* The TTL of an entry fits the field it is sent in.
LEMMA WireTtlType == \A t \in Nat : WireTtl(t) \in 0 .. WireTtlValues - 1
  BY ServiceDiscoveryAssumption DEF WireTtl

\* Types of what offers speak of.
OfferOK ==
    /\ services_mutex_ \in LocalService \cup {NoService}
    /\ local_services_ \in [LocalService -> ConfigTtl \cup {None}]
    /\ announced \in [LocalService -> 0 .. WireTtlValues - 1 \cup {None}]
    /\ find_requests_ \subseteq RemoteService

\* Types of what discovery speaks of.
DiscoveryOK ==
    /\ discovered_services_ \in
         [RemoteService -> [ttl : 0 .. MaxTtl, age : Nat] \cup {Unknown}]
    /\ receiver \in [at : {"update", "callback"}, service : RemoteService,
                     ttl : 0 .. MaxTtl, pause : 0 .. MaxPause] \cup {Idle}
    /\ view \in [RemoteService -> BOOLEAN]

WorkerOK ==
    /\ worker \in {"none", "wait", "ttl", "offers"}
    /\ since_offer \in 0 .. CyclicDelay
    /\ running_ \in BOOLEAN

\* Offers sent for what is offered are current, and disturb nothing else.
LEMMA OffersAreCurrent ==
    ASSUME OfferOK, NEW S \in SUBSET LocalService, SendOffers(S),
           UNCHANGED local_services_
    PROVE  /\ announced' \in [LocalService -> 0 .. WireTtlValues - 1 \cup {None}]
           /\ \A s \in LocalService : Current(s) => Current(s)'
           /\ \A s \in S : local_services_[s] # None => Current(s)'
  <1>1. ASSUME NEW s \in LocalService, local_services_[s] # None
        PROVE  WireTtl(local_services_[s]) \in 0 .. WireTtlValues - 1
    BY <1>1, WireTtlType, ServiceDiscoveryAssumption DEF OfferOK
  <1>2. announced' \in [LocalService -> 0 .. WireTtlValues - 1 \cup {None}]
    BY <1>1 DEF SendOffers, OfferOK
  <1> QED
    BY <1>2 DEF SendOffers, Current

\* Offering: application threads, answers to FIND_SERVICE, cyclic offers.
LEMMA OfferStep ==
    ASSUME OfferOK, OfferInv, [Next]_vars
    PROVE  OfferOK' /\ OfferInv'
  <1> USE DEF OfferInv, OfferOK
  <1>0. NoService \notin LocalService /\ None \notin ConfigTtl
    BY ServiceDiscoveryAssumption DEF None
  <1>1. ASSUME UNCHANGED <<services_mutex_, local_services_, announced>>,
               find_requests_' \subseteq RemoteService
        PROVE  OfferOK' /\ OfferInv'
    BY <1>1 DEF Current, Free
  <1>2. ASSUME NEW s \in LocalService, NEW t \in ConfigTtl, OfferService(s, t)
        PROVE  OfferOK' /\ OfferInv'
    BY <1>0, <1>2 DEF OfferService, Free, Current
  <1>3. ASSUME OfferServiceSend PROVE OfferOK' /\ OfferInv'
    <2>1. PICK m \in LocalService : m = services_mutex_
      BY <1>3 DEF OfferServiceSend, Free
    <2>2. /\ services_mutex_' = NoService
          /\ SendOffers({m})
          /\ UNCHANGED <<local_services_, find_requests_>>
          /\ local_services_[m] # None
      BY <1>3, <2>1 DEF OfferServiceSend
    <2>3. /\ announced' \in [LocalService -> 0 .. WireTtlValues - 1 \cup {None}]
          /\ \A s \in LocalService : Current(s) => Current(s)'
          /\ Current(m)'
      BY <2>1, <2>2, OffersAreCurrent
    <2> QED
      BY <1>0, <2>1, <2>2, <2>3 DEF Free
  <1>4. ASSUME NEW s \in LocalService, StopOfferService(s)
        PROVE  OfferOK' /\ OfferInv'
    BY <1>0, <1>4, ServiceDiscoveryAssumption DEF StopOfferService, Free, Current
  <1>5. ASSUME NEW S \in SUBSET LocalService, SendOffers(S),
               UNCHANGED <<services_mutex_, local_services_, find_requests_>>
        PROVE  OfferOK' /\ OfferInv'
    <2>1. /\ announced' \in [LocalService -> 0 .. WireTtlValues - 1 \cup {None}]
          /\ \A s \in LocalService : Current(s) => Current(s)'
      BY <1>5, OffersAreCurrent
    <2> QED
      BY <1>5, <2>1 DEF Free
  <1>6. ASSUME NEW s \in RemoteService, FindService(s) \/ StopFindService(s)
        PROVE  OfferOK' /\ OfferInv'
    BY <1>1, <1>6 DEF FindService, StopFindService
  <1>7. ASSUME NEW S \in SUBSET LocalService, HandleFindService(S)
        PROVE  OfferOK' /\ OfferInv'
    BY <1>5, <1>7 DEF HandleFindService
  <1>8. ASSUME SendPeriodicOffers PROVE OfferOK' /\ OfferInv'
    BY <1>1, <1>5, <1>8 DEF SendPeriodicOffers
  <1>9. CASE UNCHANGED vars
    BY <1>1, <1>9 DEF vars
  <1>10. CASE Next
    BY <1>1, <1>2, <1>3, <1>4, <1>6, <1>7, <1>8, <1>10 DEF Next, offering,
       HandleOfferService, UpdateServiceInfo, NotifyAvailable, Start, Stop,
       WorkerWakes, CheckTtlExpiration, Tick
  <1> QED
    BY <1>9, <1>10

\* The worker keeps its types.
LEMMA WorkerStep ==
    ASSUME WorkerOK, [Next]_vars
    PROVE  WorkerOK'
  <1> USE DEF WorkerOK
  <1>1. ASSUME UNCHANGED working PROVE WorkerOK'
    BY <1>1 DEF working
  <1>2. CASE Start \/ Stop \/ WorkerWakes \/ CheckTtlExpiration
    <2>1. since_offer' \in 0 .. CyclicDelay
      BY <1>2, ServiceDiscoveryAssumption DEF Start, Stop, WorkerWakes, CheckTtlExpiration
    <2>2. worker' \in {"none", "wait", "ttl", "offers"} /\ running_' \in BOOLEAN
      BY <1>2 DEF Start, Stop, WorkerWakes, CheckTtlExpiration
    <2> QED
      BY <2>1, <2>2
  <1>3. CASE SendPeriodicOffers
    BY <1>3, ServiceDiscoveryAssumption DEF SendPeriodicOffers
  <1>4. CASE Tick
    BY <1>4, ServiceDiscoveryAssumption DEF Tick
  <1>5. CASE UNCHANGED vars
    BY <1>1, <1>5 DEF vars, working
  <1>6. CASE Next
    BY <1>1, <1>2, <1>3, <1>4, <1>6 DEF Next, OfferService, OfferServiceSend,
       StopOfferService, FindService, StopFindService, HandleFindService,
       HandleOfferService, UpdateServiceInfo, NotifyAvailable
  <1> QED
    BY <1>5, <1>6

-----------------------------------------------------------------------------
DiscoveryInv == DiscoveryOK /\ DiscoveredIsReported /\ Backed

\* Discovery: the receive thread's three steps, expiry, and the passing of time.
LEMMA DiscoveryStep ==
    ASSUME DiscoveryInv, [Next]_vars
    PROVE  DiscoveryInv'
  <1> USE DEF DiscoveryInv, DiscoveryOK
  <1>0. MaxTtl \in Nat /\ MaxPause \in Nat
    BY ServiceDiscoveryAssumption
  <1>1. ASSUME UNCHANGED discovery PROVE DiscoveryInv'
    BY <1>1 DEF discovery, DiscoveredIsReported, Backed, CallbackIsBacked, Known
  <1>2. ASSUME NEW s \in RemoteService, NEW t \in 0 .. MaxTtl,
               HandleOfferService(s, t)
        PROVE  DiscoveryInv'
    <2>1. /\ receiver = Idle
          /\ receiver' = [at |-> "update", service |-> s, ttl |-> t, pause |-> 0]
          /\ UNCHANGED <<discovered_services_, view>>
      BY <1>2 DEF HandleOfferService
    <2>2. DiscoveryOK'
      BY <1>0, <2>1
    <2>3. DiscoveredIsReported'
      BY <2>1 DEF DiscoveredIsReported, Idle
    <2>4. Backed'
      BY <2>1 DEF Backed, CallbackIsBacked, Known
    <2> QED
      BY <2>2, <2>3, <2>4
  <1>3. ASSUME UpdateServiceInfo PROVE DiscoveryInv'
    <2> DEFINE e == receiver
    <2>1. /\ e \in [at : {"update"}, service : RemoteService,
                    ttl : 0 .. MaxTtl, pause : 0 .. MaxPause]
          /\ discovered_services_' = [discovered_services_ EXCEPT
                 ![e.service] = [ttl |-> e.ttl, age |-> e.pause]]
          /\ receiver' = IF e.ttl > 0 THEN [e EXCEPT !.at = "callback"] ELSE Idle
          /\ view' = view
      BY <1>3 DEF UpdateServiceInfo, HandlerDue, Idle
    <2>2. DiscoveryOK'
      BY <1>0, <2>1
    <2>3. DiscoveredIsReported'
      BY <2>1 DEF DiscoveredIsReported, Idle
    <2>4. Backed'
      BY <1>0, <2>1 DEF Backed, CallbackIsBacked, Known, Idle, None
    <2> QED
      BY <2>2, <2>3, <2>4
  <1>4. ASSUME NotifyAvailable PROVE DiscoveryInv'
    <2>1. /\ receiver \in [at : {"callback"}, service : RemoteService,
                           ttl : 0 .. MaxTtl, pause : 0 .. MaxPause]
          /\ view' = [view EXCEPT ![receiver.service] = TRUE]
          /\ receiver' = Idle
          /\ discovered_services_' = discovered_services_
      BY <1>4 DEF NotifyAvailable, Idle
    <2>2. DiscoveryOK'
      BY <2>1
    <2>3. DiscoveredIsReported'
      BY <2>1 DEF DiscoveredIsReported, Idle
    <2>4. Backed'
      BY <1>0, <2>1 DEF Backed, CallbackIsBacked, Known, Idle, None
    <2> QED
      BY <2>2, <2>3, <2>4
  <1>5. ASSUME CheckTtlExpiration PROVE DiscoveryInv'
    <2>1. /\ view' = [s \in RemoteService |-> ~TtlExpired(s) /\ view[s]]
          /\ discovered_services_' = [s \in RemoteService |->
                IF TtlExpired(s) THEN Unknown ELSE discovered_services_[s]]
          /\ receiver' = receiver
      BY <1>5 DEF CheckTtlExpiration
    <2>2. DiscoveryOK'
      BY <2>1
    <2>3. DiscoveredIsReported'
      BY <2>1 DEF DiscoveredIsReported, Unknown, None
    <2>4. ASSUME MaxPause <= 1, Backed PROVE CallbackIsBacked'
      <3>1. CASE receiver.at = "callback"
        <4> DEFINE s == receiver.service  d == discovered_services_[s]
        <4>1. /\ s \in RemoteService /\ receiver.pause <= 1
              /\ receiver.ttl > 0 /\ receiver.ttl \in 0 .. MaxTtl
              /\ d.ttl = receiver.ttl
              /\ d.age <= receiver.pause
              /\ receiver.pause \in 0 .. MaxPause
          BY <1>0, <2>4, <3>1 DEF Backed, CallbackIsBacked, Idle
        <4>2. d.age \in Int
          BY <4>1 DEF Unknown
        <4>3. ~TtlExpired(s)
          BY <1>0, <4>1, <4>2 DEF TtlExpired
        <4> QED
          BY <2>1, <4>1, <4>3 DEF CallbackIsBacked
      <3> QED
        BY <2>1, <3>1 DEF CallbackIsBacked
    <2>5. ASSUME NEW s \in RemoteService, view'[s], view[s] => Known(s)
          PROVE  Known(s)'
      BY <2>1, <2>5 DEF Known
    <2>6. Backed'
      BY <2>1, <2>4, <2>5 DEF Backed
    <2> QED
      BY <2>2, <2>3, <2>6
  <1>6. ASSUME Tick PROVE DiscoveryInv'
    <2>1. /\ receiver # Idle => receiver.pause < MaxPause
          /\ receiver' = IF receiver = Idle THEN Idle
                         ELSE [receiver EXCEPT !.pause = receiver.pause + 1]
          /\ discovered_services_' = [s \in RemoteService |->
                IF Known(s) /\ discovered_services_[s].age < MaxAge
                THEN [discovered_services_[s] EXCEPT !.age = discovered_services_[s].age + 1]
                ELSE discovered_services_[s]]
          /\ view' = view
      BY <1>6 DEF Tick
    <2>2. DiscoveryOK'
      BY <1>0, <2>1 DEF Known, Unknown
    <2>3. /\ receiver'.at = receiver.at
          /\ receiver'.service = receiver.service
          /\ receiver'.ttl = receiver.ttl
          /\ \A s \in RemoteService :
                discovered_services_'[s].ttl = discovered_services_[s].ttl
      BY <2>1 DEF Unknown
    <2>4. DiscoveredIsReported'
      BY <2>1, <2>3 DEF DiscoveredIsReported
    <2>5. CallbackIsBacked => CallbackIsBacked'
      BY <1>0, <2>1, <2>3 DEF CallbackIsBacked, Idle, Known, Unknown, MaxAge
    <2>6. Backed'
      BY <2>1, <2>3, <2>5 DEF Backed, Known
    <2> QED
      BY <2>2, <2>4, <2>6
  <1>7. CASE UNCHANGED vars
    BY <1>1, <1>7 DEF vars, discovery
  <1>8. CASE Next
    BY <1>1, <1>2, <1>3, <1>4, <1>5, <1>6, <1>8 DEF Next, OfferService,
       OfferServiceSend, StopOfferService, FindService, StopFindService,
       HandleFindService, Start, Stop, WorkerWakes, SendPeriodicOffers
  <1> QED
    BY <1>7, <1>8

-----------------------------------------------------------------------------
\* A discovery that was never started satisfies the invariant.
LEMMA InitIInv == Init => IInv
  <1> SUFFICES ASSUME Init PROVE IInv
    OBVIOUS
  <1>1. TypeOK
    <2>1. OfferOK
      BY DEF Init, OfferOK
    <2>2. view \in [RemoteService -> BOOLEAN] /\ running_ \in BOOLEAN
      BY Zenon DEF Init
    <2>3. /\ discovered_services_ \in
               [RemoteService -> [ttl : 0 .. MaxTtl, age : Nat] \cup {Unknown}]
          /\ receiver = Idle
          /\ worker = "none"
      BY DEF Init
    <2>4. since_offer \in 0 .. CyclicDelay
      BY ServiceDiscoveryAssumption DEF Init
    <2> QED
      BY <2>1, <2>2, <2>3, <2>4 DEF OfferOK, TypeOK
  <1>2. OfferInv
    BY DEF Init, OfferInv, Current, Free
  <1>3. DiscoveredIsReported /\ Backed
    BY DEF Init, DiscoveredIsReported, Backed, CallbackIsBacked, Unknown, Idle, None
  <1> QED
    BY <1>1, <1>2, <1>3 DEF IInv

\* Every reachable state satisfies the inductive invariant.
LEMMA Invariance == Spec => []IInv
  <1>1. IInv <=> OfferOK /\ OfferInv /\ DiscoveryInv /\ WorkerOK
    BY DEF IInv, TypeOK, OfferOK, DiscoveryInv, DiscoveryOK, WorkerOK
  <1>2. IInv' <=> OfferOK' /\ OfferInv' /\ DiscoveryInv' /\ WorkerOK'
    BY DEF IInv, TypeOK, OfferOK, DiscoveryInv, DiscoveryOK, WorkerOK
  <1>3. IInv /\ [Next]_vars => IInv'
    BY <1>1, <1>2, OfferStep, DiscoveryStep, WorkerStep
  <1> QED
    BY <1>3, InitIInv, PTL DEF Spec

-----------------------------------------------------------------------------
(* The theorems.                                                           *)

\* The variables keep their types; every TTL sent fits its field.
THEOREM TypeCorrect == Spec => []TypeOK
  <1>1. IInv => TypeOK
    BY DEF IInv
  <1> QED
    BY <1>1, Invariance, PTL

\* The last entry sent about a service is the truth about it whenever no
\* offer_service is at work, for any services and TTLs.
THEOREM LastEntryIsCurrent == Spec => []AnnouncementIsCurrent
  <1>1. IInv => AnnouncementIsCurrent
    BY ServiceDiscoveryAssumption DEF IInv, OfferInv, Current, Free, AnnouncementIsCurrent
  <1> QED
    BY <1>1, Invariance, PTL

\* A service on offer has been reported, or its report is under way
\* (handle_offer_service, check_ttl_expiration).
THEOREM OfferIsReported == Spec => []DiscoveredIsReported
  <1>1. IInv => DiscoveredIsReported
    BY DEF IInv
  <1> QED
    BY <1>1, Invariance, PTL

\* With pauses of at most a second the late call of the availability handler
\* never resurrects a service.
THEOREM AvailableIsKnown == Spec => []ViewIsBacked
  <1>1. IInv => ViewIsBacked
    BY DEF IInv, Backed, ViewIsBacked
  <1> QED
    BY <1>1, Invariance, PTL
=============================================================================
