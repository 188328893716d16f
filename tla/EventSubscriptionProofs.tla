----------------------- MODULE EventSubscriptionProofs -----------------------
(***************************************************************************)
(* EventSubscription for any number of events, eventgroups, peers and      *)
(* endpoint options: its type invariant and its two safety invariants,     *)
(* which are inductive together.  What the two loops of the code compute   *)
(* is shown by induction over the number of rounds.                        *)
(***************************************************************************)
EXTENDS EventSubscription, WellFoundedInduction, FiniteSetTheorems, SequenceTheorems,
        TLAPS

-----------------------------------------------------------------------------
(* Induction, and what it gives for loops: a recursive function on 0 .. n, *)
(* which is how the specification writes a loop over n items, is the       *)
(* sequence of the states the loop goes through.                           *)

\* A set of numbers that is not empty has a least one.
LEMMA LeastNumber ==
    ASSUME NEW S \in SUBSET Nat, S # {}
    PROVE  \E n \in S : \A k \in S : n <= k
  <1>1. PICK n \in S : \A k \in S : <<k, n>> \notin OpToRel(<, Nat)
    BY WFMin, NatLessThanWellFounded
  <1>2. \A k \in S : ~(k < n)
    BY <1>1 DEF OpToRel
  <1> QED
    BY <1>2

\* Induction up to a bound, with a set in the place of the predicate.
LEMMA BoundedInduction ==
    ASSUME NEW N \in Nat, NEW S, 0 \in S,
           \A n \in 0 .. N - 1 : n \in S => n + 1 \in S
    PROVE  0 .. N \subseteq S
  <1> DEFINE T == {n \in 0 .. N : n \notin S}
  <1> SUFFICES ASSUME T # {} PROVE FALSE
    OBVIOUS
  <1>1. T \in SUBSET Nat
    OBVIOUS
  <1>2. PICK n \in T : \A k \in T : n <= k
    <2> HIDE DEF T
    <2> QED
      BY <1>1, LeastNumber
  <1>3. n # 0 /\ n - 1 \in 0 .. N - 1 /\ n - 1 \in 0 .. N
    OBVIOUS
  <1>4. n - 1 \in S
    BY <1>2, <1>3
  <1> QED
    BY <1>3, <1>4

\* step takes the states X of a loop of N rounds to states.
IsStep(X, N, step) == \A x \in X, n \in 1 .. N : step[<<x, n>>] \in X

\* f[0], ..., f[N] are the states of the loop begun with a.
IsRun(X, a, N, step, f) ==
    /\ f \in [0 .. N -> X]
    /\ f[0] = a
    /\ \A n \in 1 .. N : f[n] = step[<<f[n - 1], n>>]

\* Every loop has its states.
LEMMA LoopExists ==
    ASSUME NEW X, NEW a \in X, NEW N \in Nat, NEW step, IsStep(X, N, step)
    PROVE  \E f : IsRun(X, a, N, step, f)
  <1> USE DEF IsStep
  <1> DEFINE Run(f, k) ==
                 /\ f[0] = a
                 /\ \A n \in 1 .. k : f[n] = step[<<f[n - 1], n>>]
             S == {k \in 0 .. N : \E f \in [0 .. k -> X] : Run(f, k)}
  <1>1. 0 \in S
    <2> DEFINE f == [n \in 0 .. 0 |-> a]
    <2>1. f \in [0 .. 0 -> X] /\ Run(f, 0)
      OBVIOUS
    <2>2. 0 \in 0 .. N
      OBVIOUS
    <2> HIDE DEF f, Run
    <2> QED
      BY <2>1, <2>2
  <1>2. ASSUME NEW k \in 0 .. N - 1, k \in S PROVE k + 1 \in S
    <2>1. PICK f \in [0 .. k -> X] : Run(f, k)
      BY <1>2
    <2> DEFINE y == step[<<f[k], k + 1>>]
               g == [n \in 0 .. k + 1 |-> IF n = k + 1 THEN y ELSE f[n]]
    <2>2. y \in X
      <3>1. f[k] \in X /\ k + 1 \in 1 .. N
        OBVIOUS
      <3> QED
        BY <3>1
    <2>3. \A n \in 0 .. k + 1 : n # k + 1 => n \in 0 .. k
      OBVIOUS
    <2> HIDE DEF y
    <2>4. g \in [0 .. k + 1 -> X]
      BY <2>2, <2>3
    <2>5. /\ g[k + 1] = y
          /\ \A n \in 0 .. k : g[n] = f[n]
      OBVIOUS
    <2> HIDE DEF g
    <2>6. Run(g, k + 1)
      <3>1. g[0] = a
        BY <2>1, <2>5
      <3>2. ASSUME NEW n \in 1 .. k + 1 PROVE g[n] = step[<<g[n - 1], n>>]
        <4>1. CASE n = k + 1
          BY <2>5, <4>1 DEF y
        <4>2. CASE n \in 1 .. k
          <5>1. n \in 0 .. k /\ n - 1 \in 0 .. k
            BY <4>2
          <5>2. f[n] = step[<<f[n - 1], n>>]
            BY <2>1, <4>2
          <5> QED
            BY <2>5, <5>1, <5>2
        <4> QED
          BY <4>1, <4>2
      <3> QED
        BY <3>1, <3>2
    <2>7. k + 1 \in 0 .. N
      OBVIOUS
    <2> HIDE DEF Run
    <2> QED
      BY <2>4, <2>6, <2>7
  <1>3. N \in S
    <2> HIDE DEF S
    <2>1. 0 .. N \subseteq S
      BY <1>1, <1>2, BoundedInduction
    <2>2. N \in 0 .. N
      OBVIOUS
    <2> QED
      BY <2>1, <2>2
  <1> QED
    BY <1>3 DEF IsRun
-----------------------------------------------------------------------------
(* The loops.                                                              *)

\* One round of the loop over the endpoint options.
LEMMA OneSubscriber ==
    ASSUME NEW list \in Seq(Peer), NEW p \in Peer
    PROVE  /\ AddSubscriber(list, p) \in Seq(Peer)
           /\ ToSet(AddSubscriber(list, p)) = ToSet(list) \cup {p}
           /\ IsInjective(list) => IsInjective(AddSubscriber(list, p))
  <1>1. /\ Len(list) \in Nat
        /\ DOMAIN list = 1 .. Len(list)
        /\ list \in [1 .. Len(list) -> Peer]
    BY LenProperties
  <1>2. CASE Contains(list, p)
    BY <1>1, <1>2 DEF AddSubscriber, Contains, ToSet
  <1>3. CASE ~Contains(list, p)
    <2> DEFINE t == Append(list, p)  n == Len(list)
    <2>1. t = AddSubscriber(list, p)
      BY <1>3 DEF AddSubscriber
    <2>2. /\ t \in Seq(Peer)
          /\ DOMAIN t = 1 .. n + 1
          /\ \A i \in 1 .. n : t[i] = list[i]
          /\ t[n + 1] = p
      BY AppendProperties, LenProperties
    <2>3. \A i \in 1 .. n : list[i] # p
      BY <1>3 DEF Contains
    <2> HIDE DEF t, n
    <2>4. 1 .. n + 1 = (1 .. n) \cup {n + 1}
      BY <1>1 DEF n
    <2>5. ToSet(t) = ToSet(list) \cup {p}
      BY <1>1, <2>2, <2>4 DEF ToSet, n
    <2>6. IsInjective(list) => IsInjective(t)
      BY <1>1, <2>2, <2>3, <2>4 DEF IsInjective, n
    <2> QED
      BY <2>1, <2>2, <2>5, <2>6
  <1> QED
    BY <1>2, <1>3

\* The whole loop of handle_subscribe_eventgroup: the new list holds the old
\* subscribers and the new ones, each once.
LEMMA AllSubscribers ==
    ASSUME NEW list \in Seq(Peer), NEW ps \in Seq(Peer), IsInjective(list)
    PROVE  /\ AddSubscribers(list, ps) \in Seq(Peer)
           /\ ToSet(AddSubscribers(list, ps)) = ToSet(list) \cup ToSet(ps)
           /\ IsInjective(AddSubscribers(list, ps))
  <1> DEFINE N == Len(ps)
             F(g) == [n \in 0 .. N |->
                         IF n = 0 THEN list ELSE AddSubscriber(g[n - 1], ps[n])]
             f == CHOOSE g : g = F(g)
             First(n) == {ps[i] : i \in 1 .. n}
  <1>1. /\ N \in Nat
        /\ DOMAIN ps = 1 .. N
        /\ \A n \in 1 .. N : ps[n] \in Peer
    BY LenProperties, ElementOfSeq
  <1>2. \E g : g = F(g)
    <2> DEFINE step == [x \in Seq(Peer) \X (1 .. N) |-> AddSubscriber(x[1], ps[x[2]])]
    <2>1. \A s \in Seq(Peer), n \in 1 .. N :
             /\ step[<<s, n>>] = AddSubscriber(s, ps[n])
             /\ step[<<s, n>>] \in Seq(Peer)
      BY <1>1, OneSubscriber
    <2> HIDE DEF step, N
    <2>2. PICK g \in [0 .. N -> Seq(Peer)] :
             /\ g[0] = list
             /\ \A n \in 1 .. N : g[n] = step[<<g[n - 1], n>>]
      <3>1. N \in Nat /\ IsStep(Seq(Peer), N, step)
        BY <1>1, <2>1 DEF IsStep
      <3>2. \E g : IsRun(Seq(Peer), list, N, step, g)
        BY <3>1, LoopExists
      <3> QED
        BY <3>2 DEF IsRun
    <2>3. \A n \in 1 .. N : n \in 0 .. N /\ n - 1 \in 0 .. N
      BY <1>1
    <2>4. \A n \in 1 .. N : g[n] = AddSubscriber(g[n - 1], ps[n])
      BY <2>1, <2>2, <2>3
    <2>5. \A n \in 0 .. N : n # 0 => n \in 1 .. N
      BY <1>1
    <2>6. g = F(g)
      BY <2>2, <2>4, <2>5
    <2> QED
      BY <2>6
  <1>3. f = F(f)
    <2> HIDE DEF F
    <2> QED
      BY <1>2
  <1>4. AddSubscribers(list, ps) = f[N]
    BY DEF AddSubscribers
  <1> HIDE DEF f, N
  <1>5. /\ f[0] = list
        /\ \A n \in 1 .. N : f[n] = AddSubscriber(f[n - 1], ps[n])
    BY <1>1, <1>3
  <1> DEFINE S == {n \in 0 .. N : /\ f[n] \in Seq(Peer)
                                  /\ ToSet(f[n]) = ToSet(list) \cup First(n)
                                  /\ IsInjective(f[n])}
  <1>6. 0 \in S
    <2>1. First(0) = {}
      OBVIOUS
    <2> QED
      BY <1>1, <1>5, <2>1
  <1>7. ASSUME NEW n \in 0 .. N - 1, n \in S PROVE n + 1 \in S
    <2>1. /\ n + 1 \in 1 .. N /\ n + 1 \in 0 .. N
          /\ f[n + 1] = AddSubscriber(f[n], ps[n + 1])
          /\ ps[n + 1] \in Peer
      BY <1>1, <1>5
    <2>2. First(n + 1) = First(n) \cup {ps[n + 1]}
      <3>1. 1 .. n + 1 = (1 .. n) \cup {n + 1}
        BY <1>1
      <3> QED
        BY <3>1
    <2> HIDE DEF First
    <2>3. /\ f[n] \in Seq(Peer)
          /\ ToSet(f[n]) = ToSet(list) \cup First(n)
          /\ IsInjective(f[n])
      BY <1>7
    <2>4. /\ f[n + 1] \in Seq(Peer)
          /\ ToSet(f[n + 1]) = ToSet(f[n]) \cup {ps[n + 1]}
          /\ IsInjective(f[n + 1])
      <3> DEFINE t == f[n]  p == ps[n + 1]
      <3>1. t \in Seq(Peer) /\ p \in Peer /\ IsInjective(t)
        BY <2>1, <2>3
      <3> HIDE DEF t, p
      <3>2. /\ AddSubscriber(t, p) \in Seq(Peer)
            /\ ToSet(AddSubscriber(t, p)) = ToSet(t) \cup {p}
            /\ IsInjective(AddSubscriber(t, p))
        BY <3>1, OneSubscriber
      <3> QED
        BY <2>1, <3>2 DEF t, p
    <2> QED
      BY <2>1, <2>2, <2>3, <2>4
  <1>8. N \in S
    <2> HIDE DEF S
    <2> QED
      BY <1>1, <1>6, <1>7, BoundedInduction
  <1>9. First(N) = ToSet(ps)
    BY <1>1 DEF ToSet
  <1> QED
    BY <1>4, <1>8, <1>9

\* The erase-remove of unsubscribe_eventgroup and of the handler of an ACK
\* leaves exactly the other eventgroups.
LEMMA WithoutOne ==
    ASSUME NEW list \in Seq(Eventgroup), NEW h \in Eventgroup
    PROVE  /\ Without(list, h) \in Seq(Eventgroup)
           /\ Len(Without(list, h)) <= Len(list)
           /\ ToSet(Without(list, h)) = ToSet(list) \ {h}
  <1> DEFINE N == Len(list)
             After(t, n) == IF list[n] = h THEN t ELSE Append(t, list[n])
             F(g) == [n \in 0 .. N |-> IF n = 0 THEN <<>>
                                      ELSE IF list[n] = h THEN g[n - 1]
                                      ELSE Append(g[n - 1], list[n])]
             f == CHOOSE g : g = F(g)
             First(n) == {list[i] : i \in 1 .. n}
  <1>1. /\ N \in Nat
        /\ DOMAIN list = 1 .. N
        /\ \A n \in 1 .. N : list[n] \in Eventgroup
    BY LenProperties, ElementOfSeq
  <1>2. ASSUME NEW t \in Seq(Eventgroup), NEW n \in 1 .. N
        PROVE  /\ After(t, n) \in Seq(Eventgroup)
               /\ Len(After(t, n)) <= Len(t) + 1
               /\ Len(t) \in Nat /\ Len(After(t, n)) \in Nat
               /\ ToSet(After(t, n)) = ToSet(t) \cup ({list[n]} \ {h})
    <2> HIDE DEF N
    <2>1. list[n] \in Eventgroup
      BY <1>1
    <2> DEFINE e == list[n]  u == Append(t, e)  m == Len(t)
    <2>2. /\ u \in Seq(Eventgroup)
          /\ Len(u) = m + 1
          /\ DOMAIN u = 1 .. m + 1
          /\ \A i \in 1 .. m : u[i] = t[i]
          /\ u[m + 1] = e
          /\ m \in Nat
          /\ DOMAIN t = 1 .. m
      BY <2>1, AppendProperties, LenProperties
    <2> HIDE DEF e, u, m
    <2>3. 1 .. m + 1 = (1 .. m) \cup {m + 1}
      BY <2>2
    <2>4. ToSet(u) = ToSet(t) \cup {e}
      BY <2>2, <2>3 DEF ToSet
    <2>5. CASE e = h
      <3>1. After(t, n) = t
        BY <2>5 DEF e
      <3> QED
        BY <2>2, <2>5, <3>1 DEF m, e
    <2>6. CASE e # h
      <3>1. After(t, n) = u
        BY <2>6 DEF e, u
      <3>2. {e} \ {h} = {e}
        BY <2>6
      <3>3. m + 1 <= m + 1 /\ m + 1 \in Nat
        BY <2>2
      <3> HIDE DEF After
      <3> QED
        BY <2>2, <2>4, <3>1, <3>2, <3>3 DEF m, e
    <2> QED
      BY <2>5, <2>6
  <1> HIDE DEF N
  <1>3. \E g : g = F(g)
    <2> DEFINE step == [x \in Seq(Eventgroup) \X (1 .. N) |-> After(x[1], x[2])]
    <2> HIDE DEF After
    <2>1. \A t \in Seq(Eventgroup), n \in 1 .. N :
             /\ step[<<t, n>>] = After(t, n)
             /\ step[<<t, n>>] \in Seq(Eventgroup)
      BY <1>2
    <2> HIDE DEF step
    <2>2. PICK g : IsRun(Seq(Eventgroup), <<>>, N, step, g)
      <3>1. N \in Nat /\ IsStep(Seq(Eventgroup), N, step)
        BY <1>1, <2>1 DEF IsStep
      <3>2. <<>> \in Seq(Eventgroup)
        BY EmptySeq
      <3> QED
        BY <3>1, <3>2, LoopExists
    <2>3. \A n \in 1 .. N : n \in 0 .. N /\ n - 1 \in 0 .. N
      BY <1>1
    <2>4. /\ g \in [0 .. N -> Seq(Eventgroup)]
          /\ g[0] = <<>>
          /\ \A n \in 1 .. N : g[n] = After(g[n - 1], n)
      BY <2>1, <2>2, <2>3 DEF IsRun
    <2>5. \A n \in 0 .. N : n # 0 => n \in 1 .. N
      BY <1>1
    <2>6. g = F(g)
      BY <2>4, <2>5 DEF After
    <2> QED
      BY <2>6
  <1>4. f = F(f)
    <2> HIDE DEF F
    <2> QED
      BY <1>3
  <1>5. Without(list, h) = f[N]
    BY DEF Without, N
  <1> HIDE DEF f
  <1>6. /\ f[0] = <<>>
        /\ \A n \in 1 .. N : f[n] = After(f[n - 1], n)
    <2>1. 0 \in 0 .. N /\ \A n \in 1 .. N : n \in 0 .. N /\ n # 0
      BY <1>1
    <2>2. \A n \in 0 .. N : f[n] = IF n = 0 THEN <<>> ELSE After(f[n - 1], n)
      BY <1>4
    <2> HIDE DEF After
    <2> QED
      BY <2>1, <2>2
  <1> HIDE DEF After
  <1> DEFINE S == {n \in 0 .. N : /\ f[n] \in Seq(Eventgroup)
                                  /\ Len(f[n]) <= n
                                  /\ ToSet(f[n]) = First(n) \ {h}}
  <1>7. 0 \in S
    <2>1. First(0) = {} /\ ToSet(<<>>) = {}
      BY DEF ToSet
    <2>2. <<>> \in Seq(Eventgroup) /\ Len(<<>>) <= 0
      BY EmptySeq
    <2>3. 0 \in 0 .. N
      BY <1>1
    <2> HIDE DEF First
    <2> QED
      BY <1>6, <2>1, <2>2, <2>3
  <1>8. ASSUME NEW n \in 0 .. N - 1, n \in S PROVE n + 1 \in S
    <2>1. /\ n + 1 \in 1 .. N /\ n + 1 \in 0 .. N
          /\ f[n + 1] = After(f[n], n + 1)
      BY <1>1, <1>6
    <2>2. First(n + 1) = First(n) \cup {list[n + 1]}
      <3>1. 1 .. n + 1 = (1 .. n) \cup {n + 1}
        BY <1>1
      <3> QED
        BY <3>1
    <2> HIDE DEF First
    <2> DEFINE t == f[n]  k == n + 1
    <2>3. t \in Seq(Eventgroup) /\ Len(t) <= n /\ ToSet(t) = First(n) \ {h}
      BY <1>8
    <2> HIDE DEF t, k
    <2>4. /\ After(t, k) \in Seq(Eventgroup)
          /\ Len(After(t, k)) <= Len(t) + 1
          /\ Len(t) \in Nat /\ Len(After(t, k)) \in Nat
          /\ ToSet(After(t, k)) = ToSet(t) \cup ({list[k]} \ {h})
      <3>1. k \in 1 .. N
        BY <2>1 DEF k
      <3> QED
        BY <1>2, <2>3, <3>1
    <2>5. f[k] = After(t, k)
      BY <2>1 DEF t, k
    <2>6. ToSet(f[k]) = First(k) \ {h}
      BY <2>2, <2>3, <2>4, <2>5 DEF k
    <2>7. Len(f[k]) <= k
      BY <2>3, <2>4, <2>5 DEF k
    <2> QED
      BY <2>1, <2>4, <2>5, <2>6, <2>7 DEF k
  <1>9. N \in S
    <2> HIDE DEF S
    <2> QED
      BY <1>1, <1>7, <1>8, BoundedInduction
  <1>10. First(N) = ToSet(list)
    BY <1>1 DEF ToSet
  <1> QED
    BY <1>5, <1>9, <1>10 DEF N

-----------------------------------------------------------------------------
(* The inductive invariant.                                                *)

\* The tables of the server, and the rest.
ServerOK ==
    /\ local_services_ \subseteq Service
    /\ event_configs_ \subseteq Event
    /\ eventgroups_ \subseteq Eventgroup
    /\ subscribers \in [Eventgroup -> Seq(Peer)]
    /\ acked \in [Eventgroup -> SUBSET Peer]
    /\ wiped \subseteq Eventgroup

ClientOK ==
    /\ pending_subscriptions_ \in Seq(Eventgroup)
    /\ Len(pending_subscriptions_) <= MaxPending
    /\ attempts \in [Eventgroup -> 0 .. MaxAttempts]

\* What the server's tables are about.
ServerInv == ServerOK /\ SubscribedOnce /\ AckedIsKept

\* Endpoint options are sequences of peers.
LEMMA OptionsAreSequences == Options \subseteq Seq(Peer)
  <1> SUFFICES ASSUME NEW ps \in Options PROVE ps \in Seq(Peer)
    OBVIOUS
  <1>1. PICK n \in 0 .. MaxOptions : ps \in [1 .. n -> Peer]
    BY DEF Options, BoundedSeq, SeqOf
  <1>2. n \in Nat
    BY EventSubscriptionAssumption
  <1> QED
    BY <1>1, <1>2, SeqDef

\* The first subscription of an empty list is met by nobody.
LEMMA EmptyList ==
    <<>> \in Seq(Peer) /\ ToSet(<<>>) = {} /\ IsInjective(<<>>)
  BY EmptySeq DEF ToSet, IsInjective

\* Dropping the list of an eventgroup loses nobody unseen.
LEMMA DropKeeps ==
    ASSUME ServerInv, NEW h \in Eventgroup, DropSubscribers(h),
           local_services_' \subseteq Service,
           event_configs_' \subseteq Event,
           eventgroups_' \subseteq Eventgroup,
           eventgroups_ \subseteq eventgroups_' \cup {h},
           acked' \in [Eventgroup -> SUBSET Peer],
           \A g \in Eventgroup : acked'[g] \subseteq acked[g]
    PROVE  ServerInv'
  <1> USE DEF ServerInv, ServerOK
  <1>1. /\ subscribers' \in [Eventgroup -> Seq(Peer)]
        /\ subscribers'[h] = <<>>
        /\ \A g \in Eventgroup : g # h => subscribers'[g] = subscribers[g]
        /\ wiped \subseteq wiped' /\ wiped' \subseteq Eventgroup
        /\ h \notin wiped' => subscribers[h] = <<>>
    BY EmptyList DEF DropSubscribers
  <1>2. ServerOK'
    BY <1>1
  <1>3. SubscribedOnce'
    BY <1>1, EmptyList DEF SubscribedOnce
  <1>4. AckedIsKept'
    <2> SUFFICES ASSUME NEW g \in Eventgroup \ wiped'
                 PROVE  acked'[g] \subseteq ToSet(subscribers'[g])
      BY DEF AckedIsKept
    <2>1. acked[g] \subseteq ToSet(subscribers[g])
      BY <1>1 DEF AckedIsKept
    <2>2. subscribers'[g] = subscribers[g]
      BY <1>1
    <2> QED
      BY <2>1, <2>2
  <1> QED
    BY <1>2, <1>3, <1>4

\* The server keeps its tables in order.
LEMMA ServerStep ==
    ASSUME ServerInv, [Next]_vars
    PROVE  ServerInv'
  <1> USE DEF ServerInv, ServerOK
  <1>1. ASSUME UNCHANGED <<event_configs_, eventgroups_, subscribers, acked, wiped>>,
               local_services_' \subseteq Service
        PROVE  ServerInv'
    BY <1>1 DEF SubscribedOnce, AckedIsKept
  <1>2. ASSUME NEW s \in Service, OfferService(s) \/ StopOfferService(s)
        PROVE  ServerInv'
    BY <1>1, <1>2 DEF OfferService, StopOfferService
  <1>3. ASSUME NEW e \in Event, OfferEvent(e) PROVE ServerInv'
    <2>1. GroupOf[e] \in Eventgroup
      BY EventSubscriptionAssumption
    <2> QED
      BY <1>3, <2>1, DropKeeps DEF OfferEvent
  <1>4. ASSUME NEW e \in Event, StopOfferEvent(e) PROVE ServerInv'
    <2> DEFINE h == GroupOf[e]
    <2>1. h \in Eventgroup
      BY EventSubscriptionAssumption
    <2>2. /\ acked' \in [Eventgroup -> SUBSET Peer]
          /\ \A g \in Eventgroup : acked'[g] \subseteq acked[g]
      BY <1>4, <2>1 DEF StopOfferEvent
    <2>3. /\ DropSubscribers(h)
          /\ local_services_' = local_services_
          /\ event_configs_' = event_configs_ \ {e}
          /\ eventgroups_' = eventgroups_ \ {h}
      BY <1>4 DEF StopOfferEvent
    <2> HIDE DEF h
    <2> QED
      BY <2>1, <2>2, <2>3, DropKeeps
  <1>5. ASSUME NEW h \in Eventgroup, NEW ps \in Options, AcceptSubscription(h, ps)
        PROVE  ServerInv'
    <2> DEFINE new == AddSubscribers(subscribers[h], ps)
    <2>1. /\ new \in Seq(Peer)
          /\ ToSet(new) = ToSet(subscribers[h]) \cup ToSet(ps)
          /\ IsInjective(new)
          /\ ToSet(ps) \subseteq Peer
      <3>1. ps \in Seq(Peer) /\ subscribers[h] \in Seq(Peer) /\ IsInjective(subscribers[h])
        BY OptionsAreSequences DEF SubscribedOnce
      <3>2. ToSet(ps) \subseteq Peer
        BY <3>1, LenProperties, ElementOfSeq DEF ToSet
      <3> QED
        BY <3>1, <3>2, AllSubscribers
    <2>2. /\ subscribers' = [subscribers EXCEPT ![h] = new]
          /\ acked' = [acked EXCEPT ![h] = acked[h] \cup ToSet(ps)]
          /\ eventgroups_' = eventgroups_ \cup {h}
          /\ UNCHANGED <<local_services_, event_configs_, wiped>>
      BY <1>5 DEF AcceptSubscription
    <2> HIDE DEF new
    <2>3. ServerOK'
      BY <2>1, <2>2
    <2>4. SubscribedOnce'
      BY <2>1, <2>2 DEF SubscribedOnce
    <2>5. AckedIsKept'
      BY <2>1, <2>2 DEF AckedIsKept
    <2> QED
      BY <2>3, <2>4, <2>5
  <1>6. ASSUME NEW h \in Eventgroup, NEW ps \in Options, RefuseSubscription(h, ps)
        PROVE  ServerInv'
    <2>1. /\ acked' = [acked EXCEPT ![h] = acked[h] \ ToSet(ps)]
          /\ UNCHANGED <<local_services_, event_configs_, eventgroups_,
                         subscribers, wiped>>
      BY <1>6 DEF RefuseSubscription
    <2> QED
      BY <2>1 DEF SubscribedOnce, AckedIsKept
  <1>7. ASSUME UNCHANGED server PROVE ServerInv'
    BY <1>1, <1>7 DEF server
  <1>8. CASE UNCHANGED vars
    BY <1>7, <1>8 DEF vars, server
  <1>9. CASE Next
    BY <1>2, <1>3, <1>4, <1>5, <1>6, <1>7, <1>9 DEF Next, SubscribeEventgroup,
       UnsubscribeEventgroup, HandleSubscribeEventgroupAck,
       RetryPendingSubscriptions, Start, Stop
  <1> QED
    BY <1>8, <1>9

\* The client's queue stays within its bound, and so do the attempts counted.
LEMMA ClientStep ==
    ASSUME ClientOK, running_ \in BOOLEAN, [Next]_vars
    PROVE  ClientOK' /\ running_' \in BOOLEAN
  <1>0. MaxAttempts \in Nat /\ MaxPending \in Nat
    BY EventSubscriptionAssumption
  <1>1. ASSUME UNCHANGED client PROVE ClientOK'
    BY <1>1 DEF ClientOK, client
  <1>2. ASSUME NEW g \in Eventgroup, SubscribeEventgroup(g) PROVE ClientOK'
    <2>1. /\ pending_subscriptions_' \in Seq(Eventgroup)
          /\ Len(pending_subscriptions_') = Len(pending_subscriptions_) + 1
          /\ Len(pending_subscriptions_) \in Nat
      BY <1>2, AppendProperties, LenProperties DEF SubscribeEventgroup, ClientOK
    <2>2. Len(pending_subscriptions_') <= MaxPending
      BY <1>0, <1>2, <2>1 DEF SubscribeEventgroup
    <2>3. attempts' \in [Eventgroup -> 0 .. MaxAttempts]
      BY <1>0, <1>2 DEF SubscribeEventgroup, ClientOK
    <2> QED
      BY <2>1, <2>2, <2>3 DEF ClientOK
  <1>3. ASSUME NEW g \in Eventgroup,
               UnsubscribeEventgroup(g) \/ HandleSubscribeEventgroupAck(g)
        PROVE  ClientOK'
    <2> DEFINE p == pending_subscriptions_
    <2>1. pending_subscriptions_' = Without(p, g) /\ attempts' = attempts
      BY <1>3 DEF UnsubscribeEventgroup, HandleSubscribeEventgroupAck, Others
    <2>2. p \in Seq(Eventgroup) /\ Len(p) <= MaxPending /\ Len(p) \in Nat
      BY LenProperties DEF ClientOK
    <2>3. /\ Without(p, g) \in Seq(Eventgroup)
          /\ Len(Without(p, g)) <= Len(p)
          /\ Len(Without(p, g)) \in Nat
      BY <2>2, WithoutOne, LenProperties
    <2>4. Len(Without(p, g)) <= MaxPending
      BY <1>0, <2>2, <2>3
    <2> QED
      BY <2>1, <2>3, <2>4 DEF ClientOK
  <1>4. ASSUME RetryPendingSubscriptions PROVE ClientOK'
    <2> DEFINE Sent(g) == Cardinality({i \in DOMAIN pending_subscriptions_ :
                                   pending_subscriptions_[i] = g /\ MayRetry(g)})
               Capped(n) == IF n > MaxAttempts THEN MaxAttempts ELSE n
    <2>1. ASSUME NEW g \in Eventgroup PROVE Sent(g) \in Nat
      <3>1. /\ DOMAIN pending_subscriptions_ = 1 .. Len(pending_subscriptions_)
            /\ Len(pending_subscriptions_) \in Nat
        BY LenProperties DEF ClientOK
      <3>2. IsFiniteSet(DOMAIN pending_subscriptions_)
        BY <3>1, FS_Interval
      <3> QED
        BY <3>2, FS_Subset, FS_CardinalityType
    <2>2. /\ attempts' = [g \in Eventgroup |-> Capped(attempts[g] + Sent(g))]
          /\ pending_subscriptions_' = pending_subscriptions_
      BY <1>4 DEF RetryPendingSubscriptions
    <2> HIDE DEF Sent
    <2>3. ASSUME NEW g \in Eventgroup
          PROVE  Capped(attempts[g] + Sent(g)) \in 0 .. MaxAttempts
      BY <1>0, <2>1 DEF ClientOK
    <2> HIDE DEF Capped
    <2> QED
      BY <2>2, <2>3 DEF ClientOK
  <1>5. ClientOK'
    BY <1>1, <1>2, <1>3, <1>4 DEF Next, vars, client, OfferService,
       StopOfferService, OfferEvent, StopOfferEvent, AcceptSubscription,
       RefuseSubscription, Start, Stop
  <1>6. running_' \in BOOLEAN
    BY DEF Next, vars, OfferService, StopOfferService, OfferEvent,
       StopOfferEvent, AcceptSubscription, RefuseSubscription,
       SubscribeEventgroup, UnsubscribeEventgroup, HandleSubscribeEventgroupAck,
       RetryPendingSubscriptions, Start, Stop
  <1> QED
    BY <1>5, <1>6

\* The inductive invariant.
IInv == ServerInv /\ ClientOK /\ running_ \in BOOLEAN

\* It holds at the start.
LEMMA InitIInv == Init => IInv
  <1> SUFFICES ASSUME Init PROVE IInv
    OBVIOUS
  <1>1. ServerInv
    BY EmptyList DEF Init, ServerInv, ServerOK, SubscribedOnce, AckedIsKept
  <1>2. ClientOK
    BY EmptySeq, EventSubscriptionAssumption DEF Init, ClientOK
  <1> QED
    BY <1>1, <1>2 DEF Init, IInv

\* Every reachable state satisfies the inductive invariant.
LEMMA Invariance == Spec => []IInv
  <1>1. IInv /\ [Next]_vars => IInv'
    BY ServerStep, ClientStep DEF IInv
  <1> QED
    BY <1>1, InitIInv, PTL DEF Spec

-----------------------------------------------------------------------------
(* The theorems.                                                           *)

\* Tables, queue and counters keep their types and bounds.
THEOREM TypeCorrect == Spec => []TypeOK
  <1>1. IInv => TypeOK
    BY DEF IInv, ServerInv, ServerOK, ClientOK, TypeOK
  <1> QED
    BY <1>1, Invariance, PTL

\* handle_subscribe_eventgroup never lists an endpoint twice, whatever options
\* a message repeats, and no list outlives its eventgroup.
THEOREM ListedOnce == Spec => []SubscribedOnce
  <1>1. IInv => SubscribedOnce
    BY DEF IInv, ServerInv
  <1> QED
    BY <1>1, Invariance, PTL

\* An acknowledged peer stays listed until the server's own offer_event or
\* stop_offer_event drops the list.
THEOREM AckedStaysListed == Spec => []AckedIsKept
  <1>1. IInv => AckedIsKept
    BY DEF IInv, ServerInv
  <1> QED
    BY <1>1, Invariance, PTL
=============================================================================
