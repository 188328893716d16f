------------------------- MODULE EventSubscription -------------------------
(***************************************************************************)
(* Event subscriptions: the eventgroup and subscription tables of          *)
(* ServiceDiscovery (src/sd/service_discovery.cpp) and the event calls of  *)
(* Application (src/application.cpp) that use them.  One node is modelled  *)
(* in both roles.  As a server it offers events and accepts the            *)
(* subscriptions of peers; as a client it keeps asking for the eventgroups *)
(* it wants until somebody acknowledges them.                              *)
(*                                                                         *)
(* An eventgroup is named with its service and instance, an endpoint       *)
(* stands for address, port and protocol.  event_configs_mutex_,           *)
(* services_mutex_ and subscriptions_mutex_ make each call one step.       *)
(***************************************************************************)
EXTENDS Integers, Sequences, FiniteSets, SequencesExt

CONSTANTS Event,           \* events this node may offer
          Eventgroup,
          Service,
          GroupOf,         \* EventConfig::eventgroup_id of each event
          ServiceOf,       \* the service of each eventgroup
          Peer,            \* endpoints that subscribe
          RepetitionMax,   \* Config::repetition_max
          MaxOptions,      \* bound on the endpoint options of one SD message
          MaxPending,      \* bound on the length of pending_subscriptions_
          MaxAttempts      \* bound on the SUBSCRIBE entries counted

ASSUME EventSubscriptionAssumption ==
    /\ GroupOf \in [Event -> Eventgroup]
    /\ ServiceOf \in [Eventgroup -> Service]
    /\ RepetitionMax \in Nat
    /\ MaxOptions \in Nat
    /\ MaxPending \in Nat
    /\ MaxAttempts \in Nat

VARIABLES
    local_services_,         \* services on offer
    event_configs_,          \* events on offer
    eventgroups_,            \* eventgroups with an EventgroupInfo
    subscribers,             \* their subscriber endpoints, in order
    acked,                   \* peers whose last answer was an ACK
    wiped,                   \* eventgroups that lost subscribers to a call of
                             \* the server's own application
    pending_subscriptions_,  \* eventgroups this node waits for
    attempts,                \* SUBSCRIBE entries sent since the subscription
    running_

vars == <<local_services_, event_configs_, eventgroups_, subscribers, acked,
          wiped, pending_subscriptions_, attempts, running_>>

server == <<local_services_, event_configs_, eventgroups_, subscribers, acked,
            wiped>>
client == <<pending_subscriptions_, attempts>>

\* The endpoint options an SD message may carry; none is legal.
Options == BoundedSeq(Peer, MaxOptions)

Init ==
    /\ local_services_ = {}
    /\ event_configs_ = {}
    /\ eventgroups_ = {}
    /\ subscribers = [g \in Eventgroup |-> <<>>]
    /\ acked = [g \in Eventgroup |-> {}]
    /\ wiped = {}
    /\ pending_subscriptions_ = <<>>
    /\ attempts = [g \in Eventgroup |-> 0]
    /\ running_ = FALSE

-----------------------------------------------------------------------------
(* Server. *)

OfferService(s) ==
    /\ local_services_' = local_services_ \cup {s}
    /\ UNCHANGED <<event_configs_, eventgroups_, subscribers, acked, wiped,
                   client, running_>>

\* stop_offer_service leaves the eventgroups of the service alone.
StopOfferService(s) ==
    /\ s \in local_services_
    /\ local_services_' = local_services_ \ {s}
    /\ UNCHANGED <<event_configs_, eventgroups_, subscribers, acked, wiped,
                   client, running_>>

\* The subscribers of an eventgroup are dropped with its EventgroupInfo.
DropSubscribers(g) ==
    /\ subscribers' = [subscribers EXCEPT ![g] = <<>>]
    /\ wiped' = IF subscribers[g] = <<>> THEN wiped ELSE wiped \cup {g}

\* Mutant of OfferEvent: the configuration is stored under the eventgroup.
OfferEventByGroup(e) ==
    /\ event_configs_' = event_configs_ \cup {GroupOf[e]}
    /\ eventgroups_' = eventgroups_ \cup {GroupOf[e]}
    /\ DropSubscribers(GroupOf[e])
    /\ UNCHANGED <<local_services_, acked, client, running_>>

\* offer_event, or offer_field: offer_eventgroup stores a new EventgroupInfo
\* over the one that may be there.
OfferEvent(e) ==
    /\ event_configs_' = event_configs_ \cup {e}
    /\ eventgroups_' = eventgroups_ \cup {GroupOf[e]}
    /\ DropSubscribers(GroupOf[e])
    /\ UNCHANGED <<local_services_, acked, client, running_>>

\* stop_offer_event: the whole eventgroup goes with the event.
StopOfferEvent(e) ==
    /\ e \in event_configs_
    /\ event_configs_' = event_configs_ \ {e}
    /\ eventgroups_' = eventgroups_ \ {GroupOf[e]}
    /\ DropSubscribers(GroupOf[e])
    /\ acked' = IF \E f \in event_configs_' : GroupOf[f] = GroupOf[e]
                THEN acked
                ELSE [acked EXCEPT ![GroupOf[e]] = {}]
    /\ UNCHANGED <<local_services_, client, running_>>

\* Mutants of AddSubscriber: no look for a duplicate, and a new list for every
\* subscription.
AddSubscriberTwice(list, p) == Append(list, p)
AddSubscriberAlone(list, p) == <<p>>

AddSubscriber(list, p) == IF Contains(list, p) THEN list ELSE Append(list, p)

\* The loop over the endpoint options.
AddSubscribers(list, ps) ==
    LET after[n \in 0 .. Len(ps)] ==
            IF n = 0 THEN list ELSE AddSubscriber(after[n - 1], ps[n])
    IN  after[Len(ps)]

\* handle_subscribe_eventgroup for a service on offer and a subscription
\* handler that accepts; ps are the endpoint options of the message.  The TTL
\* of the entry is not looked at, and the eventgroup need not have been offered.
AcceptSubscription(g, ps) ==
    /\ ServiceOf[g] \in local_services_
    /\ eventgroups_' = eventgroups_ \cup {g}
    /\ subscribers' = [subscribers EXCEPT ![g] = AddSubscribers(@, ps)]
    /\ acked' = [acked EXCEPT ![g] = @ \cup ToSet(ps)]
    /\ UNCHANGED <<local_services_, event_configs_, wiped, client, running_>>

\* The same when the handler refuses: a NACK, and no change of the tables, so
\* an earlier subscription of the same endpoints goes on.
RefuseSubscription(g, ps) ==
    /\ ServiceOf[g] \in local_services_
    /\ acked' = [acked EXCEPT ![g] = @ \ ToSet(ps)]
    /\ UNCHANGED <<local_services_, event_configs_, eventgroups_, subscribers,
                   wiped, client, running_>>

\* The endpoints notify_event sends an event to.
NotifyTargets(e) ==
    IF e \in event_configs_ THEN ToSet(subscribers[GroupOf[e]]) ELSE {}

-----------------------------------------------------------------------------
(* Client. *)

\* subscribe_eventgroup only queues: the worker sends the first SUBSCRIBE.
\* A second subscription to the same eventgroup is queued again.
SubscribeEventgroup(g) ==
    /\ Len(pending_subscriptions_) < MaxPending
    /\ pending_subscriptions_' = Append(pending_subscriptions_, g)
    /\ attempts' = [attempts EXCEPT ![g] = 0]
    /\ UNCHANGED <<server, running_>>

\* The erase-remove of eventgroup g from a list.
Without(list, g) ==
    LET kept[n \in 0 .. Len(list)] ==
            IF n = 0 THEN <<>>
            ELSE IF list[n] = g THEN kept[n - 1]
            ELSE Append(kept[n - 1], list[n])
    IN  kept[Len(list)]

Others(g) == Without(pending_subscriptions_, g)

\* unsubscribe_eventgroup: nothing is sent.
UnsubscribeEventgroup(g) ==
    /\ pending_subscriptions_' = Others(g)
    /\ UNCHANGED <<attempts, server, running_>>

\* handle_subscribe_eventgroup_ack: for an ACK and, as the TTL is not looked
\* at, for a NACK.
HandleSubscribeEventgroupAck(g) ==
    /\ pending_subscriptions_' = Others(g)
    /\ UNCHANGED <<attempts, server, running_>>

\* Mutant of MayRetry: the limit is met before the first SUBSCRIBE.
MayRetryNever(g) == FALSE

\* sub.retry_count < config_.repetition_max.  retry_count is 0 from
\* subscribe_eventgroup on: nothing increments it.
MayRetry(g) == 0 < RepetitionMax

\* retry_pending_subscriptions: one SUBSCRIBE for every queued subscription.
RetryPendingSubscriptions ==
    LET Sent(g) == Cardinality({i \in DOMAIN pending_subscriptions_ :
                                   pending_subscriptions_[i] = g /\ MayRetry(g)})
        Capped(n) == IF n > MaxAttempts THEN MaxAttempts ELSE n
    IN
    /\ running_
    /\ attempts' = [g \in Eventgroup |-> Capped(attempts[g] + Sent(g))]
    /\ UNCHANGED <<pending_subscriptions_, server, running_>>

Start ==
    /\ ~running_
    /\ running_' = TRUE
    /\ UNCHANGED <<server, client>>

Stop ==
    /\ running_
    /\ running_' = FALSE
    /\ UNCHANGED <<server, client>>

Next ==
    \/ \E s \in Service : OfferService(s)
    \/ \E s \in Service : StopOfferService(s)
    \/ \E e \in Event : OfferEvent(e)
    \/ \E e \in Event : StopOfferEvent(e)
    \/ \E g \in Eventgroup, ps \in Options : AcceptSubscription(g, ps)
    \/ \E g \in Eventgroup, ps \in Options : RefuseSubscription(g, ps)
    \/ \E g \in Eventgroup : SubscribeEventgroup(g)
    \/ \E g \in Eventgroup : UnsubscribeEventgroup(g)
    \/ \E g \in Eventgroup : HandleSubscribeEventgroupAck(g)
    \/ RetryPendingSubscriptions
    \/ Start
    \/ Stop

Spec == Init /\ [][Next]_vars

\* The worker comes round every 100 ms while it runs.
FairSpec == Spec /\ WF_vars(RetryPendingSubscriptions)

-----------------------------------------------------------------------------
(* Properties. *)

\* The type of every variable.
TypeOK ==
    /\ local_services_ \subseteq Service
    /\ event_configs_ \subseteq Event
    /\ eventgroups_ \subseteq Eventgroup
    /\ subscribers \in [Eventgroup -> Seq(Peer)]
    /\ acked \in [Eventgroup -> SUBSET Peer]
    /\ wiped \subseteq Eventgroup
    /\ pending_subscriptions_ \in Seq(Eventgroup)
    /\ Len(pending_subscriptions_) <= MaxPending
    /\ attempts \in [Eventgroup -> 0 .. MaxAttempts]
    /\ running_ \in BOOLEAN

\* A subscriber gets an event once: however often peers subscribe, are refused
\* and subscribe again, and services and events come and go, no endpoint is
\* twice in an eventgroup, and none is in an eventgroup that does not exist.
SubscribedOnce ==
    \A g \in Eventgroup :
        /\ IsInjective(subscribers[g])
        /\ g \notin eventgroups_ => subscribers[g] = <<>>

\* An acknowledged peer is on the list of its eventgroup unless the server's
\* own offer_event or stop_offer_event dropped the list: subscriptions of
\* other peers, refusals, and stopping and offering the service do not.
AckedIsKept ==
    \A g \in Eventgroup \ wiped : acked[g] \subseteq ToSet(subscribers[g])

\* notify_event sends to "all subscribers": to every peer that was told its
\* subscription is in force, as long as the event is offered.
NotifyReachesAcked ==
    \A e \in event_configs_ : acked[GroupOf[e]] \subseteq NotifyTargets(e)

\* A queued subscription is asked for, given up or answered, as long as the
\* worker runs.  This needs repetition_max > 0: with 0 not even the first
\* SUBSCRIBE is sent.
SubscriptionIsRequested ==
    \A g \in Eventgroup :
        RepetitionMax > 0 /\ <>[]running_ =>
            (Contains(pending_subscriptions_, g) ~>
                attempts[g] > 0 \/ ~Contains(pending_subscriptions_, g))
=============================================================================
