-------------------------- MODULE ServiceDiscovery --------------------------
(***************************************************************************)
(* Offers and discovery in one ServiceDiscovery object                     *)
(* (src/sd/service_discovery.cpp): the services this node offers, the      *)
(* services it has discovered, and what it tells the network and its       *)
(* application about them.  Event subscriptions are in EventSubscription.  *)
(*                                                                         *)
(* Three kinds of threads meet here: application threads (offer, stop      *)
(* offer, find), the UDP receive thread (one entry of one SD message at a  *)
(* time) and the worker.  services_mutex_ makes every step below atomic,   *)
(* with two exceptions that are modelled: offer_service sleeps while it    *)
(* holds the mutex, and handle_offer_service takes its time stamp before   *)
(* and calls the availability handler after its critical section.  The     *)
(* worker's own time stamp, taken just before its critical section, is     *)
(* read inside it: an entry that expires in between waits one more round.  *)
(*                                                                         *)
(* Peers are the environment: any entry with any TTL may arrive at any     *)
(* time.  A tick is one second; ages are whole seconds, as                 *)
(* duration_cast<seconds> makes them.                                      *)
(***************************************************************************)
EXTENDS Integers

CONSTANTS LocalService,   \* services this node may offer
          RemoteService,  \* services other nodes may offer
          NoService,      \* no service
          ConfigTtl,      \* values of ServiceConfig::ttl
          WireTtlValues,  \* number of values of an entry's TTL, 2^24 in the code
          MaxTtl,         \* bound on the TTL of received entries
          CyclicDelay,    \* cyclic_offer_delay in ticks
          MaxPause        \* ticks the receive thread may be held up in one entry

ASSUME ServiceDiscoveryAssumption ==
    /\ NoService \notin LocalService \cup RemoteService
    /\ ConfigTtl \subseteq Nat
    /\ WireTtlValues \in Nat \ {0}
    /\ MaxTtl \in Nat
    /\ CyclicDelay \in Nat
    /\ MaxPause \in Nat

VARIABLES
    services_mutex_,      \* the service whose offer_service sleeps with the
                          \* mutex, or NoService
    local_services_,      \* TTL of each offered service, or None
    announced,            \* TTL of the last OFFER_SERVICE entry sent, or None
    find_requests_,       \* services looked for
    discovered_services_, \* [ttl, age] of each known service, or Unknown
    receiver,             \* the entry in the receive thread's hands
    view,                 \* what the availability handler was told last
    worker,               \* where the worker thread is
    since_offer,          \* ticks since the last cyclic offer
    running_

vars == <<services_mutex_, local_services_, announced, find_requests_,
          discovered_services_, receiver, view, worker, since_offer, running_>>

offering == <<local_services_, announced, find_requests_>>
discovery == <<discovered_services_, receiver, view>>
working == <<worker, since_offer, running_>>

None == -1
MaxAge == MaxTtl + 1
Unknown == [ttl |-> None, age |-> 0]
Idle == [at |-> "idle", service |-> NoService, ttl |-> 0, pause |-> 0]

Free == services_mutex_ = NoService
Known(s) == discovered_services_[s].ttl # None

\* Mutant of WireTtl: no truncation, the value the codec never produces.
WireTtlUntruncated(t) == t

\* ServiceEntry::serialize keeps the low 24 bits of a TTL.
WireTtl(t) == t % WireTtlValues

\* Mutants of TtlExpired: the TTL is taken for milliseconds, and an entry
\* expires in the second its TTL ends.
TtlExpiredInMs(s) ==
    Known(s) /\ discovered_services_[s].age > 1000 * (1 + discovered_services_[s].ttl)
TtlExpiredEarly(s) ==
    Known(s) /\ discovered_services_[s].age >= discovered_services_[s].ttl

\* elapsed > ttl
TtlExpired(s) ==
    Known(s) /\ discovered_services_[s].age > discovered_services_[s].ttl

Init ==
    /\ services_mutex_ = NoService
    /\ local_services_ = [s \in LocalService |-> None]
    /\ announced = [s \in LocalService |-> None]
    /\ find_requests_ = {}
    /\ discovered_services_ = [s \in RemoteService |-> Unknown]
    /\ receiver = Idle
    /\ view = [s \in RemoteService |-> FALSE]
    /\ worker = "none"
    /\ since_offer = 0
    /\ running_ = FALSE

-----------------------------------------------------------------------------
(* Application threads. *)

\* Mutant of SendOffers: whether the service is offered is not looked at.
SendOffersOfAll(S) ==
    announced' = [s \in LocalService |->
                    IF s \in S THEN WireTtl(1) ELSE announced[s]]

\* send_offer_service for each offered service of a set.
SendOffers(S) ==
    announced' = [s \in LocalService |->
                    IF s \in S /\ local_services_[s] # None
                    THEN WireTtl(local_services_[s]) ELSE announced[s]]

\* offer_service: the service is stored, and the mutex kept for the initial
\* delay ...
OfferService(s, t) ==
    /\ Free
    /\ local_services_' = [local_services_ EXCEPT ![s] = t]
    /\ services_mutex_' = s
    /\ UNCHANGED <<announced, find_requests_, discovery, working>>

\* ... after which the initial offer goes out.
OfferServiceSend ==
    /\ ~Free
    /\ SendOffers({services_mutex_})
    /\ services_mutex_' = NoService
    /\ UNCHANGED <<local_services_, find_requests_, discovery, working>>

\* stop_offer_service: an offer with TTL 0, then the service is forgotten.
StopOfferService(s) ==
    /\ Free
    /\ local_services_[s] # None
    /\ announced' = [announced EXCEPT ![s] = 0]
    /\ local_services_' = [local_services_ EXCEPT ![s] = None]
    /\ UNCHANGED <<services_mutex_, find_requests_, discovery, working>>

FindService(s) ==
    /\ Free
    /\ find_requests_' = find_requests_ \cup {s}
    /\ UNCHANGED <<services_mutex_, local_services_, announced, discovery,
                   working>>

StopFindService(s) ==
    /\ Free
    /\ find_requests_' = find_requests_ \ {s}
    /\ UNCHANGED <<services_mutex_, local_services_, announced, discovery,
                   working>>

-----------------------------------------------------------------------------
(* The UDP receive thread. *)

\* handle_find_service: every offered service the entry matches (one service,
\* or all instances of it for instance 0xFFFF) is offered again.
HandleFindService(S) ==
    /\ Free
    /\ receiver = Idle
    /\ SendOffers(S)
    /\ UNCHANGED <<services_mutex_, local_services_, find_requests_, discovery,
                   working>>

\* handle_offer_service until it asks for the mutex: last_update is now.
HandleOfferService(s, t) ==
    /\ receiver = Idle
    /\ receiver' = [at |-> "update", service |-> s, ttl |-> t, pause |-> 0]
    /\ UNCHANGED <<services_mutex_, offering, discovered_services_, view,
                   working>>

\* Mutant of HandlerDue: an offer with the shortest TTL is not reported.
HandlerDueLate(t) == t > 1

\* availability_handler_ is called for offers, not for stop offers.
HandlerDue(t) == t > 0

\* update_service_info.  A stop offer is stored too, and its service stays in
\* the table with TTL 0 until the worker finds it expired.
UpdateServiceInfo ==
    LET e == receiver IN
    /\ Free
    /\ e.at = "update"
    /\ discovered_services_' = [discovered_services_ EXCEPT
                                  ![e.service] = [ttl |-> e.ttl, age |-> e.pause]]
    /\ receiver' = IF HandlerDue(e.ttl) THEN [e EXCEPT !.at = "callback"] ELSE Idle
    /\ UNCHANGED <<services_mutex_, offering, view, working>>

\* The end of handle_offer_service: availability_handler_(..., true), without
\* the mutex.
NotifyAvailable ==
    /\ receiver.at = "callback"
    /\ view' = [view EXCEPT ![receiver.service] = TRUE]
    /\ receiver' = Idle
    /\ UNCHANGED <<services_mutex_, offering, discovered_services_, working>>

-----------------------------------------------------------------------------
(* The worker thread. *)

Start ==
    /\ ~running_
    /\ worker = "none"
    /\ running_' = TRUE
    /\ worker' = "wait"
    /\ since_offer' = 0
    /\ UNCHANGED <<services_mutex_, offering, discovery>>

\* stop: the worker leaves its loop at its next look at running_, and a start
\* has to wait for it (join).
Stop ==
    /\ running_
    /\ running_' = FALSE
    /\ UNCHANGED <<services_mutex_, offering, discovery, worker, since_offer>>

\* 100 ms are over, or stop woke the worker up.
WorkerWakes ==
    /\ worker = "wait"
    /\ worker' = IF running_ THEN "ttl" ELSE "none"
    /\ UNCHANGED <<services_mutex_, offering, discovery, since_offer, running_>>

\* check_ttl_expiration: the handler is called inside the critical section.
CheckTtlExpiration ==
    /\ Free
    /\ worker = "ttl"
    /\ view' = [s \in RemoteService |-> ~TtlExpired(s) /\ view[s]]
    /\ discovered_services_' =
         [s \in RemoteService |->
            IF TtlExpired(s) THEN Unknown ELSE discovered_services_[s]]
    /\ worker' = "offers"
    /\ UNCHANGED <<services_mutex_, offering, receiver, since_offer, running_>>

\* Mutant of SendPeriodicOffers: the next time is never computed.
SendPeriodicOffersNever ==
    /\ worker = "offers"
    /\ worker' = "wait"
    /\ UNCHANGED <<services_mutex_, offering, discovery, since_offer, running_>>

\* The worker's look at next_offer_time and send_periodic_offers.
SendPeriodicOffers ==
    /\ worker = "offers"
    /\ worker' = "wait"
    /\ \/ /\ since_offer < CyclicDelay
          /\ UNCHANGED <<announced, since_offer>>
       \/ /\ since_offer >= CyclicDelay
          /\ Free
          /\ SendOffers(LocalService)
          /\ since_offer' = 0
    /\ UNCHANGED <<services_mutex_, local_services_, find_requests_, discovery,
                   running_>>

-----------------------------------------------------------------------------
\* A second passes.  Ages are capped at MaxAge, which is past every TTL, and
\* since_offer at CyclicDelay, where the offer is due.
Tick ==
    /\ receiver # Idle => receiver.pause < MaxPause
    /\ since_offer' = IF since_offer < CyclicDelay THEN since_offer + 1
                                                   ELSE since_offer
    /\ receiver' = IF receiver = Idle THEN Idle
                                      ELSE [receiver EXCEPT !.pause = @ + 1]
    /\ discovered_services_' =
         [s \in RemoteService |->
            IF Known(s) /\ discovered_services_[s].age < MaxAge
            THEN [discovered_services_[s] EXCEPT !.age = @ + 1]
            ELSE discovered_services_[s]]
    /\ UNCHANGED <<services_mutex_, offering, view, worker, running_>>

Next ==
    \/ \E s \in LocalService, t \in ConfigTtl : OfferService(s, t)
    \/ OfferServiceSend
    \/ \E s \in LocalService : StopOfferService(s)
    \/ \E s \in RemoteService : FindService(s)
    \/ \E s \in RemoteService : StopFindService(s)
    \/ \E S \in SUBSET LocalService : HandleFindService(S)
    \/ \E s \in RemoteService, t \in 0 .. MaxTtl : HandleOfferService(s, t)
    \/ UpdateServiceInfo
    \/ NotifyAvailable
    \/ Start
    \/ Stop
    \/ WorkerWakes
    \/ CheckTtlExpiration
    \/ SendPeriodicOffers
    \/ Tick

Spec == Init /\ [][Next]_vars

\* Threads that can run do, and time passes.  The receive thread and the worker
\* are not passed over for ever on services_mutex_: application threads hold it
\* for one call at a time.
Fairness ==
    /\ WF_vars(OfferServiceSend)
    /\ SF_vars(UpdateServiceInfo)
    /\ WF_vars(NotifyAvailable)
    /\ WF_vars(WorkerWakes)
    /\ SF_vars(CheckTtlExpiration)
    /\ SF_vars(SendPeriodicOffers)
    /\ WF_vars(Tick)

FairSpec == Spec /\ Fairness

-----------------------------------------------------------------------------
(* Properties. *)

\* The type of every variable.
TypeOK ==
    /\ services_mutex_ \in LocalService \cup {NoService}
    /\ local_services_ \in [LocalService -> ConfigTtl \cup {None}]
    /\ announced \in [LocalService -> 0 .. WireTtlValues - 1 \cup {None}]
    /\ find_requests_ \subseteq RemoteService
    /\ discovered_services_ \in
         [RemoteService -> [ttl : 0 .. MaxTtl, age : Nat] \cup {Unknown}]
    /\ receiver \in [at : {"update", "callback"}, service : RemoteService,
                     ttl : 0 .. MaxTtl, pause : 0 .. MaxPause] \cup {Idle}
    /\ view \in [RemoteService -> BOOLEAN]
    /\ worker \in {"none", "wait", "ttl", "offers"}
    /\ since_offer \in 0 .. CyclicDelay
    /\ running_ \in BOOLEAN

\* The network's last word on a service is the truth about it: whenever no
\* offer_service is at work, the last entry sent carries the TTL the service
\* is offered with (as far as 24 bits hold it), and 0 if it is not offered any
\* more.  Initial offers, answers to FIND_SERVICE, cyclic offers and stop
\* offers come from three threads.
AnnouncementIsCurrent ==
    Free =>
        \A s \in LocalService :
            announced[s] \in IF local_services_[s] = None THEN {None, 0}
                             ELSE {WireTtl(local_services_[s])}

\* The application has been told of every service that is on offer: the
\* worker's "unavailable" never overtakes a newer "available" for good.
DiscoveredIsReported ==
    \A s \in RemoteService :
        /\ discovered_services_[s].ttl > 0
        /\ ~(receiver.at = "callback" /\ receiver.service = s)
        => view[s]

\* What the application believes available, the table knows: the late call of
\* the availability handler after the mutex is released does not resurrect a
\* service the worker has just reported gone.  This needs the receive thread
\* not to be held up in one entry for more than a second.
ViewIsBacked ==
    MaxPause <= 1 => \A s \in RemoteService : view[s] => Known(s)

\* A peer that falls silent, without a stop offer or with a lost one, is
\* reported unavailable in the end.
SilentServiceIsReported ==
    \A s \in RemoteService :
        (/\ <>[]running_
         /\ <>[][\A t \in 0 .. MaxTtl : ~HandleOfferService(s, t)]_vars)
        => <>[]~view[s]

\* Cyclic offers go out again and again for as long as the worker runs (each
\* starts the interval anew), however application threads, the receive thread
\* and the sleeping offer_service compete for the mutex.
OffersAreRepeated ==
    <>[]running_ => []<><<since_offer' < since_offer>>_vars
=============================================================================
