--------------------------- MODULE DispatchProofs ---------------------------
(***************************************************************************)
(* Dispatch for any users, calls, events and messages, and any handlers    *)
(* that keep to the order of the mutexes: its type invariant, that no      *)
(* threads wait in a circle, what of an offer stands, that the threads     *)
(* Runtime::stop joins have ended once it has returned, and that           *)
(* subscribers are told the value of a field.                              *)
(*                                                                         *)
(* The proof is about what a thread has still to do.  A mutex is open at a *)
(* place of that sequence if it is unlocked there or later without being   *)
(* locked in between; the thread holds exactly the mutexes open at the     *)
(* first place.  All sequences of the code are made of blocks, which leave *)
(* the mutexes as they find them, and a block in front of a sequence       *)
(* leaves it well-formed if it takes only mutexes above the open ones.     *)
(***************************************************************************)
EXTENDS Dispatch, WellFoundedInduction, SequenceTheorems, TLAPS

-----------------------------------------------------------------------------
(* Induction.                                                              *)

\* A set of numbers that is not empty has a least one.
LEMMA LeastNumber ==
    ASSUME NEW S \in SUBSET Nat, S # {}
    PROVE  \E n \in S : \A k \in S : n <= k
  <1>1. PICK n \in S : \A k \in S : <<k, n>> \notin OpToRel(<, Nat)
    BY WFMin, NatLessThanWellFounded
  <1>2. \A k \in S : ~(k < n)
    BY <1>1 DEF OpToRel
  <1> QED
    BY <1>2

\* Induction up to a bound, with a set in the place of the predicate.
LEMMA BoundedInduction ==
    ASSUME NEW N \in Nat, NEW S, 0 \in S,
           \A n \in 0 .. N - 1 : n \in S => n + 1 \in S
    PROVE  0 .. N \subseteq S
  <1> DEFINE T == {n \in 0 .. N : n \notin S}
  <1> SUFFICES ASSUME T # {} PROVE FALSE
    OBVIOUS
  <1>1. T \in SUBSET Nat
    OBVIOUS
  <1>2. PICK n \in T : \A k \in T : n <= k
    <2> HIDE DEF T
    <2> QED
      BY <1>1, LeastNumber
  <1>3. n # 0 /\ n - 1 \in 0 .. N - 1 /\ n - 1 \in 0 .. N
    OBVIOUS
  <1>4. n - 1 \in S
    BY <1>2, <1>3
  <1> QED
    BY <1>3, <1>4

-----------------------------------------------------------------------------
(* Threads, and what they have still to do.                               *)

Config == "event_configs_mutex_"

\* Anything a step may speak of.
Thing == Mutex \cup Hook \cup Event \cup Method \cup Value \cup Background
             \cup Service \cup Group
             \cup {None, TRUE, FALSE, "user", "proxy", "event", "request", "response"}

\* All that steps do.
Deed == {"lock", "unlock", "section", "handler", "halt", "shut", "join", "block",
         "await", "connect",
         "route", "method", "skeleton", "event", "proxy",
         "notify", "store_field", "new_field",
         "store_config", "offer_group", "drop_group", "erase_config", "store_client",
         "accept", "service_handler", "method_handler", "event_handler",
         "register_method", "proxy_event", "on_service_available", "call_method",
         "runtime_start", "runtime_stop"}

AnyStep == [do : Deed, on : Thing, val : Thing]

\* A step speaks of what it should.
Speaks(x) ==
    /\ x.do \in {"lock", "unlock", "section"} => x.on \in Mutex
    /\ x.do = "handler" => x.on \in Hook
    /\ x.do \in {"halt", "shut", "join"} => x.on \in Background
    /\ x.do \in {"method", "skeleton", "method_handler", "register_method"} => x.on \in Method
    /\ x.do \in {"store_config", "offer_group", "drop_group", "erase_config",
                 "store_client", "new_field", "event", "proxy",
                 "event_handler", "proxy_event"} => x.on \in Event
    /\ x.do \in {"store_config", "offer_group", "store_client"} => x.val \in Group
    /\ x.do \in {"drop_group", "erase_config"} => x.val \in Service
    /\ x.do = "accept" => x.on \in Group
    /\ x.do \in {"store_field", "notify"} => x.on \in Event /\ x.val \in Value
    /\ x.do \in {"service_handler", "on_service_available", "method_handler",
                 "proxy_event"} => x.val \in BOOLEAN
    /\ x.do = "event_handler" => x.val \in {"user", "proxy"}
    /\ x.do = "route" => \/ x.on = "event" /\ x.val \in Event
                         \/ x.on = "request" /\ x.val \in Method
                         \/ x.on = "response"

Locks(x, m) == x.do = "lock" /\ x.on = m
Unlocks(x, m) == x.do = "unlock" /\ x.on = m

\* Mutex m is held when s is executed up to its i-th step.
Open(s, i, m) ==
    \E j \in i .. Len(s) :
        Unlocks(s[j], m) /\ \A k \in i .. j - 1 : ~Locks(s[k], m)

\* Steps that read or write what event_configs_mutex_ protects of the offers.
ConfigSteps == {"store_config", "offer_group", "drop_group", "erase_config", "store_client"}

\* An eventgroup is offered right after its event was configured with it.
Leads(x, y) == y.do = "offer_group" => x = Step("store_config", y.on, y.val)

\* The i-th step of s fits the ones after it: a lock is followed by its unlock,
\* an unlock by no other one; what the step takes is above what is held; events
\* are offered and withdrawn under the mutex of their configurations, and in
\* two steps that follow each other.
Fits(s, i) ==
    LET x == s[i] IN
    /\ Speaks(x)
    /\ x.do = "lock" => Open(s, i + 1, x.on)
    /\ x.do = "unlock" => ~Open(s, i + 1, x.on)
    /\ x.do # "unlock" => \A m \in Mutex : Open(s, i, m) => Rank(m) < Level(x)
    /\ x.do \in ConfigSteps => Open(s, i, Config)
    /\ x.do = "store_config" => i < Len(s) /\ s[i + 1] = Step("offer_group", x.on, x.val)
    /\ x.do = "drop_group" => i < Len(s) /\ s[i + 1] = Step("erase_config", x.on, x.val)
    /\ i < Len(s) => Leads(x, s[i + 1])

WellFormed(s) ==
    /\ s \in Seq(AnyStep)
    /\ \A i \in 1 .. Len(s) : Fits(s, i)

\* A piece of code that leaves the mutexes as it finds them.
Block(s) == WellFormed(s) /\ \A m \in Mutex : ~Open(s, 1, m)

\* A block that takes mutexes of rank l and more.
BlockAt(s, l) == Block(s) /\ Above(s, l)

\* The inductive invariant: the threads ...
ThreadsInv ==
    /\ held \in [Mutex -> Thread \cup {Nobody}]
    /\ todo \in [Thread -> Seq(AnyStep)]
    /\ \A t \in Thread : WellFormed(todo[t])
    /\ \A t \in Thread, m \in Mutex : held[m] = t <=> Open(todo[t], 1, m)
    /\ \A b \in Background : Above(todo[b], 0)

\* ... the tables, with their part of the type invariant ...
CallTypes ==
    /\ DOMAIN calls = User
    /\ \E s \in Scenarios : \A u \in User : calls[u] \subseteq s[u]
LifeTypes == running_ \in BOOLEAN /\ told \subseteq Background /\ alive \subseteq Background
HandlerTypes ==
    /\ service_handlers_ \in BOOLEAN
    /\ method_handlers_ \subseteq Method
    /\ event_handlers_ \in [Event -> {None, "user", "proxy"}]
    /\ skeleton_methods \subseteq Method
    /\ proxy_events \subseteq Event
    /\ available_ \in BOOLEAN
EventTypes ==
    /\ event_configs_ \in [Event -> Group \cup {None}]
    /\ eventgroups_ \subseteq Group
    /\ disturbed \subseteq offered /\ offered \subseteq Event \X Group
FieldTypes ==
    /\ fields_ \in [Field -> Value \cup {Blank, None}]
    /\ last \in [Field -> [Group -> Value \cup {None}]]
    /\ alone \in [Field -> BOOLEAN]
Tables == CallTypes /\ LifeTypes /\ HandlerTypes /\ EventTypes /\ FieldTypes

\* ... and the offers: an offered event is configured, and its eventgroup is
\* there unless the holder of the mutex is just about to offer it or to forget
\* the event; the eventgroup it is about to offer is the one it configured.
Pending(e) ==
    \E t \in Thread :
        /\ held[Config] = t
        /\ todo[t] # <<>>
        /\ todo[t][1].do \in {"offer_group", "erase_config"}
        /\ todo[t][1].on = e

OffersInv ==
    \A o \in offered \ disturbed :
        event_configs_[o[1]] = o[2] /\ (o[2] \in eventgroups_ \/ Pending(o[1]))

Offers(s) == Len(s) > 0 /\ s[1].do = "offer_group"

OfferingInv ==
    \A t \in Thread :
        Offers(todo[t]) => event_configs_[todo[t][1].on] = todo[t][1].val

\* Nobody was sent anything who is listed in an eventgroup that does not exist.
ListsInv ==
    \A f \in Field : \A p \in Group \ eventgroups_ : last[f][p] = None

IInv == ThreadsInv /\ Tables /\ OffersInv /\ OfferingInv /\ ListsInv
-----------------------------------------------------------------------------
(* Ranks and levels.                                                       *)

\* The ranks one by one.
LEMMA Ranks ==
    /\ Rank("handlers_mutex_") = 0
    /\ Rank("methods_mutex_") = 1 /\ Rank("events_mutex_") = 1
    /\ Rank("skeleton mutex_") = 2 /\ Rank("proxy events_mutex_") = 2
    /\ Rank("session_mutex_") = 3 /\ Rank("fields_mutex_") = 3
    /\ Rank("event_configs_mutex_") = 4 /\ Rank("requests_mutex_") = 4
    /\ Rank("services_mutex_") = 5
    /\ Rank("subscriptions_mutex_") = 6
  BY DEF Rank

\* The levels of the handlers one by one.
LEMMA HookLevels ==
    /\ HookLevel("available") = 0
    /\ HookLevel("method") = 2 /\ HookLevel("event") = 2
    /\ HookLevel("skeleton method") = 3 /\ HookLevel("proxy event") = 3
    /\ HookLevel("subscription") = 6 /\ HookLevel("expired") = 6
  BY DEF HookLevel

\* Ranks are numbers.
LEMMA RankType == \A m \in Mutex : Rank(m) \in 0 .. 6
  <1>1. /\ 0 \in 0 .. 6 /\ 1 \in 0 .. 6 /\ 2 \in 0 .. 6 /\ 3 \in 0 .. 6
        /\ 4 \in 0 .. 6 /\ 5 \in 0 .. 6 /\ 6 \in 0 .. 6
    OBVIOUS
  <1> QED
    BY <1>1, Ranks, Zenon DEF Mutex

\* So are the levels of handlers,
LEMMA HookLevelType == \A h \in Hook : HookLevel(h) \in 0 .. 6
  <1>1. 0 \in 0 .. 6 /\ 2 \in 0 .. 6 /\ 3 \in 0 .. 6 /\ 6 \in 0 .. 6
    OBVIOUS
  <1> QED
    BY <1>1, HookLevels, Zenon DEF Hook

\* and those of steps.
LEMMA LevelType ==
    ASSUME NEW x, Speaks(x)
    PROVE  Level(x) \in Int /\ -1 <= Level(x)
  <1>1. CASE x.do \in {"lock", "section"}
    <2>1. Level(x) = Rank(x.on) /\ x.on \in Mutex
      BY <1>1 DEF Level, Speaks
    <2> QED
      BY <2>1, RankType
  <1>2. CASE x.do = "handler"
    <2>1. Level(x) = HookLevel(x.on) /\ x.on \in Hook
      BY <1>2 DEF Level, Speaks
    <2> QED
      BY <2>1, HookLevelType
  <1>3. CASE x.do \notin {"lock", "section", "handler"}
    BY <1>3 DEF Level
  <1> QED
    BY <1>1, <1>2, <1>3

\* What a step may speak of.
LEMMA Things ==
    /\ Mutex \subseteq Thing /\ Hook \subseteq Thing /\ Event \subseteq Thing
    /\ Method \subseteq Thing /\ Value \subseteq Thing /\ Background \subseteq Thing
    /\ Service \subseteq Thing /\ Group \subseteq Thing
    /\ None \in Thing /\ BOOLEAN \subseteq Thing
    /\ "user" \in Thing /\ "proxy" \in Thing
    /\ "event" \in Thing /\ "request" \in Thing /\ "response" \in Thing
  BY Zenon DEF Thing

\* Steps are records.
LEMMA StepIs ==
    ASSUME NEW do \in Deed, NEW on \in Thing, NEW val \in Thing
    PROVE  LET x == Step(do, on, val) IN
           x \in AnyStep /\ x.do = do /\ x.on = on /\ x.val = val
  BY DEF Step, AnyStep

-----------------------------------------------------------------------------
(* Sequences of steps.                                                     *)

\* r is what is left of s after n steps.
Suffix(r, s, n) ==
    /\ r \in Seq(AnyStep) /\ s \in Seq(AnyStep)
    /\ n \in 0 .. Len(s)
    /\ Len(r) = Len(s) - n
    /\ \A i \in 1 .. Len(r) : r[i] = s[n + i]

\* The rest after the first step.
LEMMA TailIsSuffix ==
    ASSUME NEW s \in Seq(AnyStep), s # <<>>
    PROVE  Suffix(Tail(s), s, 1)
  <1>1. /\ Len(s) \in Nat \ {0}
        /\ Tail(s) \in Seq(AnyStep)
        /\ Len(Tail(s)) = Len(s) - 1
        /\ \A i \in 1 .. Len(Tail(s)) : Tail(s)[i] = s[i + 1]
    BY HeadTailProperties, EmptySeq, LenProperties
  <1> QED
    BY <1>1 DEF Suffix

\* The rest after n steps.
LEMMA SubSeqIsSuffix ==
    ASSUME NEW s \in Seq(AnyStep), NEW n \in 0 .. Len(s)
    PROVE  Suffix(SubSeq(s, n + 1, Len(s)), s, n)
  <1> DEFINE r == SubSeq(s, n + 1, Len(s))
  <1>1. Len(s) \in Nat
    BY LenProperties
  <1>2. /\ r \in Seq(AnyStep)
        /\ Len(r) = IF n + 1 <= Len(s) THEN Len(s) - (n + 1) + 1 ELSE 0
        /\ \A i \in 1 .. Len(s) - (n + 1) + 1 : r[i] = s[n + 1 + i - 1]
    BY <1>1, SubSeqProperties
  <1> HIDE DEF r
  <1>3. Len(r) = Len(s) - n
    BY <1>1, <1>2
  <1>4. \A i \in 1 .. Len(r) : r[i] = s[n + i]
    BY <1>1, <1>2, <1>3
  <1> QED
    BY <1>2, <1>3, <1>4 DEF Suffix, r

\* Whether a mutex is open depends on the rest of the sequence only.
LEMMA SuffixOpen ==
    ASSUME NEW r, NEW s, NEW n, Suffix(r, s, n), NEW i \in 1 .. Len(r) + 1, NEW m
    PROVE  Open(r, i, m) <=> Open(s, n + i, m)
  <1>1. Len(r) \in Nat /\ Len(s) \in Nat /\ n \in Nat /\ Len(s) = Len(r) + n
    BY LenProperties DEF Suffix
  <1>2. \A k \in 1 .. Len(r) : r[k] = s[n + k]
    BY DEF Suffix
  <1>3. ASSUME Open(r, i, m) PROVE Open(s, n + i, m)
    <2>1. PICK j \in i .. Len(r) :
             Unlocks(r[j], m) /\ \A k \in i .. j - 1 : ~Locks(r[k], m)
      BY <1>3 DEF Open
    <2> DEFINE q == n + j
    <2>2. q \in n + i .. Len(s) /\ Unlocks(s[q], m)
      BY <1>1, <1>2, <2>1
    <2>3. ASSUME NEW k \in n + i .. q - 1 PROVE ~Locks(s[k], m)
      <3>1. k - n \in i .. j - 1 /\ k - n \in 1 .. Len(r) /\ n + (k - n) = k
        BY <1>1
      <3> QED
        BY <1>2, <2>1, <3>1
    <2> HIDE DEF q
    <2> QED
      BY <2>2, <2>3 DEF Open
  <1>4. ASSUME Open(s, n + i, m) PROVE Open(r, i, m)
    <2>1. PICK j \in n + i .. Len(s) :
             Unlocks(s[j], m) /\ \A k \in n + i .. j - 1 : ~Locks(s[k], m)
      BY <1>4 DEF Open
    <2>2. j - n \in i .. Len(r) /\ j - n \in 1 .. Len(r) /\ n + (j - n) = j
      BY <1>1
    <2>3. Unlocks(r[j - n], m)
      BY <1>2, <2>1, <2>2
    <2>4. ASSUME NEW k \in i .. (j - n) - 1 PROVE ~Locks(r[k], m)
      <3>1. n + k \in n + i .. j - 1 /\ k \in 1 .. Len(r)
        BY <1>1
      <3> QED
        BY <1>2, <2>1, <3>1
    <2> QED
      BY <2>2, <2>3, <2>4 DEF Open
  <1> QED
    BY <1>3, <1>4

\* What is left of a well-formed sequence is well-formed.
LEMMA SuffixWellFormed ==
    ASSUME NEW r, NEW s, NEW n, Suffix(r, s, n), WellFormed(s)
    PROVE  WellFormed(r)
  <1>1. Len(r) \in Nat /\ Len(s) \in Nat /\ n \in Nat /\ Len(s) = Len(r) + n
    BY LenProperties DEF Suffix
  <1>2. ASSUME NEW i \in 1 .. Len(r) PROVE Fits(r, i)
    <2>1. n + i \in 1 .. Len(s) /\ r[i] = s[n + i] /\ Fits(s, n + i)
      BY <1>1 DEF Suffix, WellFormed
    <2>2. \A m : /\ Open(r, i, m) <=> Open(s, n + i, m)
                 /\ Open(r, i + 1, m) <=> Open(s, n + i + 1, m)
      <3>1. i \in 1 .. Len(r) + 1 /\ i + 1 \in 1 .. Len(r) + 1 /\ n + (i + 1) = n + i + 1
        BY <1>1
      <3> QED
        BY <3>1, SuffixOpen
    <2>3. i < Len(r) <=> n + i < Len(s)
      BY <1>1
    <2>4. i < Len(r) => r[i + 1] = s[n + i + 1]
      <3> SUFFICES ASSUME i < Len(r) PROVE r[i + 1] = s[n + i + 1]
        OBVIOUS
      <3>1. i + 1 \in 1 .. Len(r) /\ n + (i + 1) = n + i + 1
        BY <1>1
      <3> QED
        BY <3>1 DEF Suffix
    <2> QED
      BY <2>1, <2>2, <2>3, <2>4 DEF Fits
  <1> QED
    BY <1>2 DEF WellFormed, Suffix

\* c is a followed by s.
Concat(c, a, s) ==
    /\ a \in Seq(AnyStep)
    /\ Suffix(s, c, Len(a))
    /\ \A i \in 1 .. Len(a) : c[i] = a[i]

\* What concatenation gives.
LEMMA ConcatIs ==
    ASSUME NEW a \in Seq(AnyStep), NEW s \in Seq(AnyStep)
    PROVE  Concat(a \o s, a, s)
  <1> DEFINE c == a \o s
  <1>1. /\ c \in Seq(AnyStep)
        /\ Len(a) \in Nat /\ Len(s) \in Nat
        /\ Len(c) = Len(a) + Len(s)
        /\ \A i \in 1 .. Len(a) + Len(s) : c[i] = IF i <= Len(a) THEN a[i] ELSE s[i - Len(a)]
    BY ConcatProperties, LenProperties
  <1> HIDE DEF c
  <1>2. \A i \in 1 .. Len(a) : c[i] = a[i]
    BY <1>1
  <1>3. ASSUME NEW i \in 1 .. Len(s) PROVE s[i] = c[Len(a) + i]
    <2>1. Len(a) + i \in 1 .. Len(a) + Len(s) /\ ~(Len(a) + i <= Len(a)) /\ Len(a) + i - Len(a) = i
      BY <1>1
    <2> QED
      BY <1>1, <2>1
  <1>4. Len(a) \in 0 .. Len(c) /\ Len(s) = Len(c) - Len(a)
    BY <1>1
  <1> QED
    BY <1>1, <1>2, <1>3, <1>4 DEF Concat, Suffix, c

\* Steps above a rank, one sequence after another,
LEMMA AboveConcat ==
    ASSUME NEW c, NEW a, NEW s, Concat(c, a, s), NEW l, Above(a, l), Above(s, l)
    PROVE  Above(c, l)
  <1> DEFINE n == Len(a)
  <1>1. /\ n \in Nat /\ Len(s) \in Nat /\ Len(c) = n + Len(s)
        /\ DOMAIN a = 1 .. n /\ DOMAIN s = 1 .. Len(s) /\ DOMAIN c = 1 .. Len(c)
        /\ \A k \in 1 .. n : c[k] = a[k]
        /\ \A k \in 1 .. Len(s) : s[k] = c[n + k]
    BY LenProperties DEF Concat, Suffix
  <1> HIDE DEF n
  <1>2. ASSUME NEW i \in 1 .. Len(c), c[i].do # "unlock" PROVE l <= Level(c[i])
    <2>1. CASE i \in 1 .. n
      BY <1>1, <1>2, <2>1 DEF Above
    <2>2. CASE i \notin 1 .. n
      <3>1. i - n \in 1 .. Len(s) /\ n + (i - n) = i
        BY <1>1, <2>2
      <3>2. s[i - n] = c[i]
        BY <1>1, <3>1
      <3> QED
        BY <1>1, <1>2, <3>1, <3>2 DEF Above
    <2> QED
      BY <2>1, <2>2
  <1> QED
    BY <1>1, <1>2 DEF Above

\* and what is left of them.
LEMMA AboveSuffix ==
    ASSUME NEW r, NEW s, NEW n, Suffix(r, s, n), NEW l, Above(s, l)
    PROVE  Above(r, l)
  <1>1. /\ Len(r) \in Nat /\ n \in Nat /\ Len(s) \in Nat /\ Len(s) = Len(r) + n
        /\ DOMAIN r = 1 .. Len(r) /\ DOMAIN s = 1 .. Len(s)
        /\ \A k \in 1 .. Len(r) : r[k] = s[n + k]
    BY LenProperties DEF Suffix
  <1>2. \A i \in 1 .. Len(r) : n + i \in 1 .. Len(s)
    BY <1>1
  <1> QED
    BY <1>1, <1>2 DEF Above

\* What is open in a concatenation.
LEMMA ConcatOpen ==
    ASSUME NEW c, NEW a, NEW s, Concat(c, a, s), NEW i \in 1 .. Len(a) + 1, NEW m
    PROVE  Open(c, i, m) <=> \/ Open(a, i, m)
                             \/ /\ \A k \in i .. Len(a) : ~Locks(a[k], m)
                                /\ Open(s, 1, m)
  <1> DEFINE n == Len(a)
  <1>1. /\ n \in Nat /\ Len(s) \in Nat /\ Len(c) \in Nat
        /\ Len(c) = n + Len(s)
        /\ \A k \in 1 .. n : c[k] = a[k]
        /\ Suffix(s, c, n)
    BY LenProperties DEF Concat, Suffix
  <1>2. Open(s, 1, m) <=> Open(c, n + 1, m)
    BY <1>1, SuffixOpen
  <1> HIDE DEF n
  <1>3. ASSUME Open(c, i, m), ~Open(a, i, m)
        PROVE  (\A k \in i .. n : ~Locks(a[k], m)) /\ Open(c, n + 1, m)
    <2>1. PICK j \in i .. Len(c) :
             Unlocks(c[j], m) /\ \A k \in i .. j - 1 : ~Locks(c[k], m)
      BY <1>3 DEF Open
    <2>2. j > n
      <3> SUFFICES ASSUME j \in i .. n PROVE FALSE
        BY <1>1 DEF n
      <3>1. Unlocks(a[j], m)
        BY <1>1, <2>1 DEF n
      <3>2. \A k \in i .. j - 1 : k \in 1 .. n /\ k \in i .. j - 1
        BY <1>1 DEF n
      <3>3. \A k \in i .. j - 1 : ~Locks(a[k], m)
        BY <1>1, <2>1, <3>2
      <3> QED
        BY <1>3, <3>1, <3>3 DEF Open, n
    <2>3. \A k \in i .. n : k \in i .. j - 1 /\ k \in 1 .. n
      BY <1>1, <2>2 DEF n
    <2>4. \A k \in i .. n : ~Locks(a[k], m)
      BY <1>1, <2>1, <2>3
    <2>5. j \in n + 1 .. Len(c) /\ \A k \in n + 1 .. j - 1 : k \in i .. j - 1
      BY <1>1, <2>2 DEF n
    <2>6. Open(c, n + 1, m)
      BY <2>1, <2>5 DEF Open
    <2> QED
      BY <2>4, <2>6
  <1>4. ASSUME Open(a, i, m) PROVE Open(c, i, m)
    <2>1. PICK j \in i .. n :
             Unlocks(a[j], m) /\ \A k \in i .. j - 1 : ~Locks(a[k], m)
      BY <1>4 DEF Open, n
    <2>2. j \in i .. Len(c) /\ j \in 1 .. n /\ \A k \in i .. j - 1 : k \in 1 .. n
      BY <1>1 DEF n
    <2>3. Unlocks(c[j], m) /\ \A k \in i .. j - 1 : ~Locks(c[k], m)
      BY <1>1, <2>1, <2>2
    <2> QED
      BY <2>2, <2>3 DEF Open
  <1>5. ASSUME \A k \in i .. n : ~Locks(a[k], m), Open(c, n + 1, m)
        PROVE  Open(c, i, m)
    <2>1. PICK j \in n + 1 .. Len(c) :
             Unlocks(c[j], m) /\ \A k \in n + 1 .. j - 1 : ~Locks(c[k], m)
      BY <1>5 DEF Open
    <2>2. j \in i .. Len(c)
      BY <1>1 DEF n
    <2>3. ASSUME NEW k \in i .. j - 1 PROVE ~Locks(c[k], m)
      <3>1. CASE k \in n + 1 .. j - 1
        BY <2>1, <3>1
      <3>2. CASE k \in i .. n
        <4>1. k \in 1 .. n
          BY <3>2
        <4> QED
          BY <1>1, <1>5, <3>2, <4>1
      <3> QED
        BY <1>1, <3>1, <3>2
    <2> QED
      BY <2>1, <2>2, <2>3 DEF Open
  <1> QED
    BY <1>2, <1>3, <1>4, <1>5 DEF n

\* A block that takes only mutexes of rank l and more, in front of a sequence
\* with none of them open, leaves it well-formed and opens and closes nothing.
LEMMA BlockBefore ==
    ASSUME NEW c, NEW a, NEW s, Concat(c, a, s), NEW l \in Int,
           Block(a), Above(a, l), WellFormed(s),
           \A m \in Mutex : Open(s, 1, m) => Rank(m) < l,
           ~Offers(s)
    PROVE  WellFormed(c) /\ \A m \in Mutex : Open(c, 1, m) <=> Open(s, 1, m)
  <1> DEFINE n == Len(a)
  <1>1. /\ n \in Nat /\ Len(s) \in Nat /\ Len(c) \in Nat
        /\ Len(c) = n + Len(s)
        /\ \A k \in 1 .. n : c[k] = a[k]
        /\ Suffix(s, c, n)
        /\ c \in Seq(AnyStep)
    BY LenProperties DEF Concat, Suffix
  <1>2. \A k \in 1 .. n : Fits(a, k) /\ (a[k].do # "unlock" => l <= Level(a[k]))
    <2>1. DOMAIN a = 1 .. n
      BY LenProperties DEF Concat
    <2> QED
      BY <2>1 DEF Block, WellFormed, Above
  <1>3. \A i \in 1 .. n + 1 : \A m :
           Open(c, i, m) <=> \/ Open(a, i, m)
                             \/ (\A k \in i .. n : ~Locks(a[k], m)) /\ Open(s, 1, m)
    BY ConcatOpen
  <1> HIDE DEF n
  <1>4. \A m \in Mutex, k \in 1 .. n : Open(s, 1, m) => ~Locks(a[k], m)
    <2> SUFFICES ASSUME NEW m \in Mutex, NEW k \in 1 .. n, Open(s, 1, m), Locks(a[k], m)
                 PROVE  FALSE
      OBVIOUS
    <2>1. l <= Level(a[k]) /\ Level(a[k]) = Rank(m)
      BY <1>2 DEF Locks, Level
    <2>2. Rank(m) < l /\ Rank(m) \in Int
      BY RankType
    <2> QED
      BY <2>1, <2>2
  <1>5. ASSUME NEW m \in Mutex PROVE Open(c, 1, m) <=> Open(s, 1, m)
    <2>1. 1 \in 1 .. n + 1
      BY <1>1
    <2> QED
      BY <1>3, <1>4, <2>1 DEF Block
  <1>6. ASSUME NEW i \in 1 .. n PROVE Fits(c, i)
    <2> DEFINE x == a[i]
    <2>1. c[i] = x /\ Fits(a, i) /\ i \in 1 .. n + 1 /\ i + 1 \in 1 .. n + 1
      BY <1>1, <1>2
    <2>2. Speaks(x)
      BY <2>1 DEF Fits
    <2>3. x.do = "lock" => Open(c, i + 1, x.on)
      BY <1>3, <2>1 DEF Fits
    <2>4. ASSUME x.do = "unlock" PROVE ~Open(c, i + 1, x.on)
      <3>1. x.on \in Mutex /\ ~Open(a, i + 1, x.on)
        BY <2>1, <2>2, <2>4 DEF Fits, Speaks
      <3>2. PICK k \in 1 .. i - 1 : Locks(a[k], x.on)
        <4>1. ~Open(a, 1, x.on)
          BY <3>1 DEF Block
        <4>2. Unlocks(a[i], x.on) /\ i \in 1 .. Len(a)
          BY <2>4 DEF Unlocks, n
        <4> QED
          BY <4>1, <4>2 DEF Open
      <3>3. k \in 1 .. n
        BY <1>1
      <3>4. ~Open(s, 1, x.on)
        BY <1>4, <3>1, <3>2, <3>3
      <3> QED
        BY <1>3, <2>1, <3>1, <3>4
    <2>5. ASSUME x.do # "unlock", NEW m \in Mutex, Open(c, i, m) PROVE Rank(m) < Level(x)
      <3>1. CASE Open(a, i, m)
        BY <2>1, <2>5, <3>1 DEF Fits
      <3>2. CASE Open(s, 1, m)
        <4>1. Rank(m) < l /\ Rank(m) \in Int /\ l <= Level(x)
          BY <1>2, <2>5, <3>2, RankType
        <4>2. Level(x) \in Int
          BY <2>2, LevelType
        <4> QED
          BY <4>1, <4>2
      <3> QED
        BY <1>3, <2>1, <2>5, <3>1, <3>2
    <2>6. x.do \in ConfigSteps => Open(c, i, Config)
      BY <1>3, <2>1 DEF Fits
    <2>7. i < n => i < Len(c) /\ c[i + 1] = a[i + 1]
      <3>1. i < n => i + 1 \in 1 .. n /\ i < Len(c)
        BY <1>1
      <3> QED
        BY <1>1, <3>1
    <2>8. /\ x.do = "store_config" => i < Len(c) /\ c[i + 1] = Step("offer_group", x.on, x.val)
          /\ x.do = "drop_group" => i < Len(c) /\ c[i + 1] = Step("erase_config", x.on, x.val)
      BY <2>1, <2>7 DEF Fits, n
    <2>9. ASSUME i < Len(c) PROVE Leads(x, c[i + 1])
      <3>1. CASE i < n
        BY <2>1, <2>7, <3>1 DEF Fits, n
      <3>2. CASE i = n
        <4>1. 1 \in 1 .. Len(s) /\ Len(s) > 0
          BY <1>1, <2>9, <3>2
        <4>2. c[i + 1] = s[1]
          BY <1>1, <3>2, <4>1 DEF Suffix
        <4> QED
          BY <4>1, <4>2 DEF Leads, Offers
      <3> QED
        BY <1>1, <3>1, <3>2
    <2> HIDE DEF x
    <2> QED
      BY <2>1, <2>2, <2>3, <2>4, <2>5, <2>6, <2>8, <2>9 DEF Fits
  <1>7. ASSUME NEW i \in n + 1 .. Len(c) PROVE Fits(c, i)
    <2> DEFINE j == i - n
    <2>1. /\ j \in 1 .. Len(s) /\ n + j = i /\ n + (j + 1) = i + 1
          /\ j \in 1 .. Len(s) + 1 /\ j + 1 \in 1 .. Len(s) + 1
          /\ j < Len(s) => i < Len(c) /\ j + 1 \in 1 .. Len(s)
          /\ i < Len(c) => j < Len(s)
      <3>1. n \in Nat /\ Len(s) \in Nat /\ Len(c) = n + Len(s)
        BY <1>1
      <3>2. j \in 1 .. Len(s) /\ n + j = i
        BY <3>1
      <3> HIDE DEF j
      <3> QED
        BY <3>1, <3>2
    <2>2. s[j] = c[i] /\ Fits(s, j)
      BY <1>1, <2>1 DEF Suffix, WellFormed
    <2>3. \A m : /\ Open(s, j, m) <=> Open(c, i, m)
                 /\ Open(s, j + 1, m) <=> Open(c, i + 1, m)
      <3> HIDE DEF j
      <3>1. \A m : /\ Open(s, j, m) <=> Open(c, n + j, m)
                   /\ Open(s, j + 1, m) <=> Open(c, n + (j + 1), m)
        BY <1>1, <2>1, SuffixOpen, Zenon
      <3> QED
        BY <2>1, <3>1, Zenon
    <2>4. /\ j < Len(s) => i < Len(c) /\ s[j + 1] = c[i + 1]
          /\ i < Len(c) => j < Len(s)
      <3> HIDE DEF j
      <3> QED
        BY <1>1, <2>1 DEF Suffix
    <2> HIDE DEF j
    <2> QED
      BY <2>2, <2>3, <2>4 DEF Fits
  <1>8. \A i \in 1 .. Len(c) : i \in 1 .. n \/ i \in n + 1 .. Len(c)
    BY <1>1
  <1> QED
    BY <1>1, <1>5, <1>6, <1>7, <1>8 DEF WellFormed

-----------------------------------------------------------------------------
(* Blocks.                                                                 *)

\* No steps at all are a block.
LEMMA EmptyBlock == \A l : BlockAt(<<>>, l)
  <1>1. <<>> \in Seq(AnyStep) /\ Len(<<>>) = 0 /\ DOMAIN <<>> = {}
    OBVIOUS
  <1> QED
    BY <1>1 DEF BlockAt, Block, WellFormed, Open, Above

\* A step on its own.
LEMMA StepBlock ==
    ASSUME NEW x \in AnyStep, Speaks(x), x.do \notin {"lock", "unlock"} \cup ConfigSteps,
           NEW l \in Int, l <= Level(x)
    PROVE  BlockAt(<<x>>, l)
  <1> DEFINE s == <<x>>
  <1>1. s \in Seq(AnyStep) /\ Len(s) = 1 /\ s[1] = x /\ DOMAIN s = {1}
    OBVIOUS
  <1> HIDE DEF s
  <1>2. \A i \in 1 .. 1 : i = 1
    OBVIOUS
  <1>3. \A m : \A i \in 1 .. 2 : ~Open(s, i, m)
    <2> SUFFICES ASSUME NEW m, NEW i \in 1 .. 2, Open(s, i, m) PROVE FALSE
      OBVIOUS
    <2>1. PICK j \in i .. 1 : Unlocks(s[j], m)
      BY <1>1 DEF Open
    <2>2. j = 1
      OBVIOUS
    <2> QED
      BY <1>1, <2>1, <2>2 DEF Unlocks
  <1>4. \A m : ~Open(s, 1, m) /\ ~Open(s, 1 + 1, m)
    BY <1>3
  <1>5. Fits(s, 1)
    BY <1>1, <1>4 DEF Fits, ConfigSteps
  <1> QED
    BY <1>1, <1>2, <1>4, <1>5 DEF BlockAt, Block, WellFormed, Above, s

\* A block does not begin with the second of two steps.
LEMMA BlockStarts ==
    ASSUME NEW b, Block(b)
    PROVE  ~Offers(b)
  <1> SUFFICES ASSUME Len(b) > 0, b[1].do = "offer_group" PROVE FALSE
    BY DEF Offers
  <1>1. Len(b) \in Nat
    BY LenProperties DEF Block, WellFormed
  <1>2. 1 \in 1 .. Len(b)
    BY <1>1
  <1>3. Fits(b, 1)
    BY <1>2 DEF Block, WellFormed
  <1>4. Open(b, 1, Config)
    BY <1>3 DEF Fits, ConfigSteps
  <1>5. Config \in Mutex
    BY DEF Config, Mutex
  <1> QED
    BY <1>4, <1>5 DEF Block

\* One block after another.
LEMMA ConcatBlock ==
    ASSUME NEW l, NEW a, BlockAt(a, l), NEW b, BlockAt(b, l)
    PROVE  BlockAt(a \o b, l)
  <1> DEFINE c == a \o b
  <1>1. a \in Seq(AnyStep) /\ b \in Seq(AnyStep)
    BY DEF BlockAt, Block, WellFormed
  <1>2. Concat(c, a, b)
    BY <1>1, ConcatIs
  <1> HIDE DEF c
  <1>3. Above(a, -1)
    <2>1. DOMAIN a = 1 .. Len(a)
      BY <1>1, LenProperties
    <2>2. \A i \in 1 .. Len(a) : Speaks(a[i])
      BY DEF BlockAt, Block, WellFormed, Fits
    <2> QED
      BY <2>1, <2>2, LevelType DEF Above
  <1>4. WellFormed(c) /\ \A m \in Mutex : Open(c, 1, m) <=> Open(b, 1, m)
    <2>1. WellFormed(b) /\ \A m \in Mutex : Open(b, 1, m) => Rank(m) < -1
      BY DEF BlockAt, Block
    <2>2. ~Offers(b)
      BY BlockStarts DEF BlockAt
    <2> QED
      BY <1>2, <1>3, <2>1, <2>2, BlockBefore DEF BlockAt
  <1>5. Above(c, l)
    BY <1>2, AboveConcat DEF BlockAt
  <1> QED
    BY <1>4, <1>5 DEF BlockAt, Block, c

\* What one step in front of a sequence opens and closes.
LEMMA ConsOpen ==
    ASSUME NEW x \in AnyStep, NEW s \in Seq(AnyStep), NEW m
    PROVE  Open(<<x>> \o s, 1, m) <=> Unlocks(x, m) \/ (~Locks(x, m) /\ Open(s, 1, m))
  <1> DEFINE a == <<x>>
  <1>1. a \in Seq(AnyStep) /\ Len(a) = 1 /\ a[1] = x
    OBVIOUS
  <1> HIDE DEF a
  <1>2. \A k \in 1 .. 1 : k = 1
    OBVIOUS
  <1>3. Concat(a \o s, a, s)
    BY <1>1, ConcatIs
  <1>4. 1 \in 1 .. Len(a) + 1 /\ 1 \in 1 .. 1 /\ \A k \in 1 .. 1 - 1 : FALSE
    BY <1>1
  <1>5. Open(a, 1, m) <=> Unlocks(x, m)
    BY <1>1, <1>2, <1>4 DEF Open
  <1>6. (\A k \in 1 .. Len(a) : ~Locks(a[k], m)) <=> ~Locks(x, m)
    BY <1>1, <1>2, <1>4
  <1>7. Open(a \o s, 1, m) <=> \/ Open(a, 1, m)
                               \/ /\ \A k \in 1 .. Len(a) : ~Locks(a[k], m)
                                  /\ Open(s, 1, m)
    BY <1>3, <1>4, ConcatOpen
  <1>8. Open(a \o s, 1, m) <=> Unlocks(x, m) \/ (~Locks(x, m) /\ Open(s, 1, m))
    BY <1>5, <1>6, <1>7
  <1> QED
    BY <1>8 DEF a

\* A step that fits in front of a well-formed sequence.
LEMMA ConsWellFormed ==
    ASSUME NEW x \in AnyStep, NEW s, WellFormed(s), Speaks(x),
           x.do = "lock" => Open(s, 1, x.on),
           x.do = "unlock" => ~Open(s, 1, x.on),
           x.do # "unlock" => \A m \in Mutex :
               ~Locks(x, m) /\ Open(s, 1, m) => Rank(m) < Level(x),
           x.do \in ConfigSteps => Open(s, 1, Config),
           x.do = "store_config" => Len(s) > 0 /\ s[1] = Step("offer_group", x.on, x.val),
           x.do = "drop_group" => Len(s) > 0 /\ s[1] = Step("erase_config", x.on, x.val),
           Len(s) > 0 => Leads(x, s[1])
    PROVE  WellFormed(<<x>> \o s)
  <1> DEFINE a == <<x>>
             c == a \o s
  <1>1. a \in Seq(AnyStep) /\ Len(a) = 1 /\ a[1] = x /\ s \in Seq(AnyStep)
    BY DEF WellFormed
  <1>2. \A m : Open(c, 1, m) <=> Unlocks(x, m) \/ (~Locks(x, m) /\ Open(s, 1, m))
    BY <1>1, ConsOpen
  <1>3. Concat(c, a, s)
    BY <1>1, ConcatIs
  <1> HIDE DEF a, c
  <1>4. c \in Seq(AnyStep) /\ Suffix(s, c, 1) /\ c[1] = x /\ Len(s) \in Nat /\ Len(c) = Len(s) + 1
    BY <1>1, <1>3, LenProperties DEF Concat, Suffix
  <1>5. \A m : Open(c, 2, m) <=> Open(s, 1, m)
    <2>1. 1 \in 1 .. Len(s) + 1 /\ 1 + 1 = 2
      BY <1>4
    <2> QED
      BY <1>4, <2>1, SuffixOpen
  <1>6. /\ Len(s) > 0 => 1 < Len(c) /\ c[2] = s[1]
        /\ 1 < Len(c) => Len(s) > 0
    <2>1. Len(s) > 0 => 1 \in 1 .. Len(s) /\ 1 + 1 = 2
      BY <1>4
    <2> QED
      BY <1>4, <2>1 DEF Suffix
  <1>7. Fits(c, 1)
    <2>1. 1 + 1 = 2
      OBVIOUS
    <2>2. x.do # "unlock" => \A m \in Mutex : Open(c, 1, m) => Rank(m) < Level(x)
      BY <1>2 DEF Unlocks
    <2>3. x.do \in ConfigSteps => Open(c, 1, Config)
      BY <1>2 DEF Locks, ConfigSteps
    <2> QED
      BY <1>4, <1>5, <1>6, <2>1, <2>2, <2>3 DEF Fits
  <1>8. ASSUME NEW i \in 2 .. Len(c) PROVE Fits(c, i)
    <2> DEFINE j == i - 1
    <2>1. /\ j \in 1 .. Len(s) /\ 1 + j = i /\ 1 + (j + 1) = i + 1
          /\ j \in 1 .. Len(s) + 1 /\ j + 1 \in 1 .. Len(s) + 1
          /\ j < Len(s) => i < Len(c) /\ j + 1 \in 1 .. Len(s)
          /\ i < Len(c) => j < Len(s)
      BY <1>4
    <2> HIDE DEF j
    <2>2. s[j] = c[i] /\ Fits(s, j)
      BY <1>4, <2>1 DEF Suffix, WellFormed
    <2>3. \A m : /\ Open(s, j, m) <=> Open(c, i, m)
                 /\ Open(s, j + 1, m) <=> Open(c, i + 1, m)
      BY <1>4, <2>1, SuffixOpen
    <2>4. /\ j < Len(s) => i < Len(c) /\ s[j + 1] = c[i + 1]
          /\ i < Len(c) => j < Len(s)
      BY <1>4, <2>1 DEF Suffix
    <2> QED
      BY <2>2, <2>3, <2>4 DEF Fits
  <1>9. \A i \in 1 .. Len(c) : i = 1 \/ i \in 2 .. Len(c)
    BY <1>4
  <1> QED
    BY <1>4, <1>7, <1>8, <1>9 DEF WellFormed, c, a

\* Steps above a rank, with one more in front.
LEMMA ConsAbove ==
    ASSUME NEW x \in AnyStep, NEW s \in Seq(AnyStep), NEW l, Above(s, l),
           x.do # "unlock" => l <= Level(x)
    PROVE  Above(<<x>> \o s, l)
  <1> DEFINE a == <<x>>
  <1>1. a \in Seq(AnyStep) /\ DOMAIN a = {1} /\ a[1] = x
    OBVIOUS
  <1>2. Concat(a \o s, a, s)
    BY <1>1, ConcatIs
  <1>3. Above(a, l)
    BY <1>1 DEF Above
  <1> QED
    BY <1>2, <1>3, AboveConcat

\* A lone unlock.
LEMMA UnlockIs ==
    ASSUME NEW m \in Mutex
    PROVE  LET u == <<Unlock(m)>> IN
           /\ WellFormed(u)
           /\ \A l : Above(u, l)
           /\ \A k : Open(u, 1, k) <=> k = m
           /\ u[1].do = "unlock"
  <1> DEFINE x == Unlock(m)
             e == <<>>
  <1>1. x \in AnyStep /\ x.do = "unlock" /\ x.on = m
    <2>1. m \in Thing /\ None \in Thing
      BY Things, Zenon
    <2>2. "unlock" \in Deed
      BY DEF Deed
    <2> QED
      BY <2>1, <2>2, StepIs DEF Unlock
  <1>2. Speaks(x)
    BY <1>1 DEF Speaks
  <1>3. e \in Seq(AnyStep) /\ WellFormed(e) /\ \A l : Above(e, l)
    BY EmptyBlock DEF BlockAt, Block, WellFormed
  <1>4. <<x>> \in Seq(AnyStep)
    BY <1>1
  <1>5. <<x>> \o e = <<x>>
    BY <1>4, ConcatEmptySeq
  <1>6. Len(e) = 0 /\ \A k : ~Open(e, 1, k)
    <2>1. Len(e) = 0 /\ \A j \in 1 .. 0 : FALSE
      OBVIOUS
    <2> QED
      BY <2>1 DEF Open
  <1>10. <<x>>[1].do = "unlock"
    BY <1>1
  <1> HIDE DEF x, e
  <1>11. ~(Len(e) > 0)
    BY <1>6
  <1>7. WellFormed(<<x>> \o e)
    BY <1>1, <1>2, <1>3, <1>6, <1>11, ConsWellFormed DEF ConfigSteps
  <1>8. \A l : Above(<<x>> \o e, l)
    BY <1>1, <1>3, ConsAbove
  <1>9. \A k : Open(<<x>> \o e, 1, k) <=> k = m
    BY <1>1, <1>3, <1>6, ConsOpen DEF Unlocks
  <1> QED
    BY <1>5, <1>7, <1>8, <1>9, <1>10 DEF x

\* A sequence after which only m is open, between its lock and its unlock.
LEMMA LockBefore ==
    ASSUME NEW m \in Mutex, NEW s, WellFormed(s), \A k \in Mutex : Open(s, 1, k) <=> k = m,
           NEW l, Above(s, l), l <= Rank(m), ~Offers(s)
    PROVE  BlockAt(<<Lock(m)>> \o s, l)
  <1> DEFINE x == Lock(m)
  <1>1. x \in AnyStep /\ x.do = "lock" /\ x.on = m
    <2>1. m \in Thing /\ None \in Thing
      BY Things, Zenon
    <2>2. "lock" \in Deed
      BY DEF Deed
    <2> QED
      BY <2>1, <2>2, StepIs DEF Lock
  <1>2. Speaks(x) /\ Level(x) = Rank(m) /\ s \in Seq(AnyStep)
    BY <1>1 DEF Speaks, Level, WellFormed
  <1> HIDE DEF x
  <1>3. WellFormed(<<x>> \o s)
    BY <1>1, <1>2, ConsWellFormed DEF Locks, ConfigSteps, Leads, Offers
  <1>4. Above(<<x>> \o s, l)
    BY <1>1, <1>2, ConsAbove
  <1>5. \A k \in Mutex : ~Open(<<x>> \o s, 1, k)
    BY <1>1, <1>2, ConsOpen DEF Unlocks, Locks
  <1> QED
    BY <1>3, <1>4, <1>5 DEF BlockAt, Block, x

\* A block under a mutex is a block if all it takes is above the mutex.
LEMMA UnderBlock ==
    ASSUME NEW m \in Mutex, NEW b, BlockAt(b, Rank(m) + 1)
    PROVE  BlockAt(Under(m, b), Rank(m))
  <1> DEFINE u == <<Unlock(m)>>
             s == b \o u
  <1>1. /\ WellFormed(u)
        /\ \A l : Above(u, l)
        /\ \A k : Open(u, 1, k) <=> k = m
        /\ u[1].do = "unlock"
    BY UnlockIs
  <1>2. b \in Seq(AnyStep) /\ u \in Seq(AnyStep)
    BY <1>1 DEF BlockAt, Block, WellFormed
  <1>3. Concat(s, b, u)
    BY <1>2, ConcatIs
  <1> HIDE DEF u, s
  <1>4. Rank(m) \in Int /\ Rank(m) + 1 \in Int /\ Rank(m) < Rank(m) + 1 /\ Rank(m) <= Rank(m)
    BY RankType
  <1>5. WellFormed(s) /\ \A k \in Mutex : Open(s, 1, k) <=> k = m
    <2>1. ~Offers(u)
      BY <1>1 DEF Offers
    <2> QED
      BY <1>1, <1>3, <1>4, <2>1, BlockBefore DEF BlockAt
  <1>6. Above(b, Rank(m))
    <2>1. DOMAIN b = 1 .. Len(b)
      BY <1>2, LenProperties
    <2>2. \A i \in 1 .. Len(b) : Level(b[i]) \in Int
      BY LevelType DEF BlockAt, Block, WellFormed, Fits
    <2> QED
      BY <1>4, <2>1, <2>2 DEF BlockAt, Above
  <1>7. Above(s, Rank(m))
    BY <1>1, <1>3, <1>6, AboveConcat
  <1>8. ~Offers(s)
    <2>1. Len(b) \in Nat /\ Len(u) \in Nat /\ Len(s) = Len(b) + Len(u)
      <3>1. Len(u) = Len(s) - Len(b) /\ s \in Seq(AnyStep)
        BY <1>3 DEF Concat, Suffix
      <3>2. Len(b) \in Nat /\ Len(u) \in Nat /\ Len(s) \in Nat
        BY <1>2, <3>1, LenProperties
      <3> QED
        BY <3>1, <3>2
    <2>2. CASE Len(b) > 0
      <3>1. s[1] = b[1]
        BY <1>3, <2>1, <2>2 DEF Concat
      <3> QED
        BY <2>2, <3>1, BlockStarts DEF BlockAt, Offers
    <2>3. CASE Len(b) = 0
      <3>1. Len(s) > 0 => s[1] = u[1]
        BY <1>3, <2>1, <2>3 DEF Concat, Suffix
      <3> QED
        BY <1>1, <3>1 DEF Offers
    <2> QED
      BY <2>1, <2>2, <2>3
  <1>9. BlockAt(<<Lock(m)>> \o s, Rank(m))
    BY <1>4, <1>5, <1>7, <1>8, LockBefore
  <1> QED
    BY <1>9 DEF Under, s, u

\* A block may be seen as one that takes mutexes from a lower rank on.
LEMMA LowerBlock ==
    ASSUME NEW s, NEW l \in Int, BlockAt(s, l), NEW k \in Int, k <= l
    PROVE  BlockAt(s, k)
  <1>1. s \in Seq(AnyStep) /\ \A i \in 1 .. Len(s) : Speaks(s[i])
    BY DEF BlockAt, Block, WellFormed, Fits
  <1>2. DOMAIN s = 1 .. Len(s)
    BY <1>1, LenProperties
  <1>3. \A i \in 1 .. Len(s) : Level(s[i]) \in Int
    BY <1>1, LevelType
  <1> QED
    BY <1>2, <1>3 DEF BlockAt, Above

\* Two steps, one after the other.
LEMMA PairIs ==
    ASSUME NEW x \in AnyStep, NEW y \in AnyStep
    PROVE  <<x, y>> = <<x>> \o <<y>>
  <1> DEFINE a == <<x>>
             b == <<y>>
             p == <<x, y>>
             c == a \o b
  <1>1. a \in Seq(AnyStep) /\ Len(a) = 1 /\ a[1] = x
    OBVIOUS
  <1>2. b \in Seq(AnyStep) /\ Len(b) = 1 /\ b[1] = y
    OBVIOUS
  <1>3. p \in Seq(AnyStep) /\ Len(p) = 2 /\ p[1] = x /\ p[2] = y
    OBVIOUS
  <1>4. /\ c \in Seq(AnyStep) /\ Len(c) = Len(a) + Len(b)
        /\ \A i \in 1 .. Len(a) + Len(b) : c[i] = IF i <= Len(a) THEN a[i] ELSE b[i - Len(a)]
    BY <1>1, <1>2, ConcatProperties
  <1> HIDE DEF a, b, p, c
  <1>5. Len(c) = 2 /\ c[1] = x /\ c[2] = y
    BY <1>1, <1>2, <1>4
  <1>6. \A i \in 1 .. 2 : i = 1 \/ i = 2
    OBVIOUS
  <1>7. p = c
    BY <1>3, <1>4, <1>5, <1>6, SeqEqual
  <1> QED
    BY <1>7 DEF a, b, c, p

\* Two steps under event_configs_mutex_.
LEMMA PairBlock ==
    ASSUME NEW x \in AnyStep, NEW y \in AnyStep, Speaks(x), Speaks(y),
           x.do \notin {"lock", "unlock", "offer_group"},
           y.do \notin {"lock", "unlock", "store_config", "drop_group"},
           4 < Level(x), 4 < Level(y), Leads(x, y),
           x.do = "store_config" => y = Step("offer_group", x.on, x.val),
           x.do = "drop_group" => y = Step("erase_config", x.on, x.val)
    PROVE  BlockAt(Under(Config, <<x, y>>), 4)
  <1> DEFINE u == <<Unlock(Config)>>
             yu == <<y>> \o u
             xyu == <<x>> \o yu
  <1>1. Config \in Mutex /\ Rank(Config) = 4
    BY Ranks DEF Config, Mutex
  <1>2. /\ WellFormed(u) /\ Above(u, 4) /\ u[1].do = "unlock"
        /\ \A k : Open(u, 1, k) <=> k = Config
    BY <1>1, UnlockIs
  <1>3. u \in Seq(AnyStep)
    BY <1>2 DEF WellFormed
  <1> HIDE DEF u
  <1>4. \A k : ~Locks(x, k) /\ ~Unlocks(x, k) /\ ~Locks(y, k) /\ ~Unlocks(y, k)
    BY DEF Locks, Unlocks
  <1>5. WellFormed(yu) /\ Above(yu, 4) /\ (\A k : Open(yu, 1, k) <=> k = Config)
    <2>0. Leads(y, u[1])
      BY <1>2 DEF Leads
    <2>1. WellFormed(yu)
      BY <1>1, <1>2, <1>3, <1>4, <2>0, ConsWellFormed
    <2>2. 4 <= Level(y)
      BY LevelType
    <2>3. Above(yu, 4)
      BY <1>2, <1>3, <2>2, ConsAbove
    <2>4. \A k : Open(yu, 1, k) <=> k = Config
      BY <1>2, <1>3, <1>4, ConsOpen
    <2> QED
      BY <2>1, <2>3, <2>4
  <1>6. yu \in Seq(AnyStep) /\ Len(yu) > 0 /\ yu[1] = y
    <2>1. <<y>> \in Seq(AnyStep) /\ Len(<<y>>) = 1 /\ <<y>>[1] = y
      OBVIOUS
    <2>2. Len(u) \in Nat
      BY <1>3, LenProperties
    <2>3. /\ yu \in Seq(AnyStep)
          /\ Len(yu) = 1 + Len(u)
          /\ \A i \in 1 .. 1 + Len(u) : yu[i] = IF i <= 1 THEN <<y>>[i] ELSE u[i - 1]
      BY <1>3, <2>1, ConcatProperties
    <2>4. 1 \in 1 .. 1 + Len(u)
      BY <2>2
    <2> HIDE DEF yu
    <2> QED
      BY <2>1, <2>2, <2>3, <2>4
  <1> HIDE DEF yu
  <1>7. WellFormed(xyu) /\ Above(xyu, 4) /\ (\A k \in Mutex : Open(xyu, 1, k) <=> k = Config)
    <2>1. WellFormed(xyu)
      BY <1>1, <1>4, <1>5, <1>6, ConsWellFormed
    <2>2. 4 <= Level(x)
      BY LevelType
    <2>3. Above(xyu, 4)
      BY <1>5, <1>6, <2>2, ConsAbove
    <2>4. \A k : Open(xyu, 1, k) <=> k = Config
      BY <1>4, <1>5, <1>6, ConsOpen
    <2> QED
      BY <2>1, <2>3, <2>4
  <1>10. xyu[1] = x
    <2>1. <<x>> \in Seq(AnyStep) /\ Len(<<x>>) = 1 /\ <<x>>[1] = x
      OBVIOUS
    <2>2. Len(yu) \in Nat
      BY <1>6, LenProperties
    <2>3. \A i \in 1 .. 1 + Len(yu) : xyu[i] = IF i <= 1 THEN <<x>>[i] ELSE yu[i - 1]
      BY <1>6, <2>1, ConcatProperties
    <2>4. 1 \in 1 .. 1 + Len(yu)
      BY <2>2
    <2> HIDE DEF xyu
    <2> QED
      BY <2>1, <2>3, <2>4
  <1> HIDE DEF xyu
  <1>8. BlockAt(<<Lock(Config)>> \o xyu, 4)
    BY <1>1, <1>7, <1>10, LockBefore DEF Offers
  <1>9. xyu = <<x, y>> \o u
    <2>1. <<x>> \in Seq(AnyStep) /\ <<y>> \in Seq(AnyStep)
      OBVIOUS
    <2>2. <<x, y>> = <<x>> \o <<y>>
      BY PairIs
    <2> QED
      BY <1>3, <2>1, <2>2, ConcatAssociative DEF xyu, yu
  <1> QED
    BY <1>8, <1>9 DEF Under, u

\* One step that is a block.
LEMMA OneStep ==
    ASSUME NEW do \in Deed, NEW on \in Thing, NEW val \in Thing,
           do \notin {"lock", "unlock"} \cup ConfigSteps,
           Speaks(Step(do, on, val)), NEW l \in Int, l <= Level(Step(do, on, val))
    PROVE  BlockAt(<<Step(do, on, val)>>, l)
  BY StepIs, StepBlock

\* A critical section without calls.
LEMMA SectionBlock ==
    ASSUME NEW m \in Mutex
    PROVE  BlockAt(<<Section(m)>>, Rank(m))
  <1>1. "section" \in Deed /\ "section" \notin {"lock", "unlock"} \cup ConfigSteps
    BY DEF Deed, ConfigSteps
  <1>2. m \in Thing /\ None \in Thing
    BY Things, Zenon
  <1>3. Rank(m) \in Int /\ Rank(m) <= Rank(m)
    BY RankType
  <1>4. Speaks(Section(m)) /\ Level(Section(m)) = Rank(m)
    BY <1>1, <1>2, StepIs DEF Section, Speaks, Level
  <1> QED
    BY <1>1, <1>2, <1>3, <1>4, OneStep DEF Section

\* A call of a handler.
LEMMA HandlerBlock ==
    ASSUME NEW h \in Hook
    PROVE  BlockAt(<<Handler(h)>>, HookLevel(h))
  <1>1. "handler" \in Deed /\ "handler" \notin {"lock", "unlock"} \cup ConfigSteps
    BY DEF Deed, ConfigSteps
  <1>2. h \in Thing /\ None \in Thing
    BY Things, Zenon
  <1>3. HookLevel(h) \in Int /\ HookLevel(h) <= HookLevel(h)
    BY HookLevelType
  <1>4. Speaks(Handler(h)) /\ Level(Handler(h)) = HookLevel(h)
    BY <1>1, <1>2, StepIs DEF Handler, Speaks, Level
  <1> QED
    BY <1>1, <1>2, <1>3, <1>4, OneStep DEF Handler

-----------------------------------------------------------------------------
(* The functions of the code are blocks.                                   *)

\* A block under a mutex of lower rank.
LEMMA UnderAt ==
    ASSUME NEW m \in Mutex, NEW r \in Int, Rank(m) = r,
           NEW b, NEW l \in Int, BlockAt(b, l), r < l
    PROVE  BlockAt(Under(m, b), r)
  <1>1. Rank(m) + 1 \in Int /\ Rank(m) + 1 <= l
    OBVIOUS
  <1>2. BlockAt(b, Rank(m) + 1)
    BY <1>1, LowerBlock
  <1> QED
    BY <1>2, UnderBlock

\* Two blocks, one after the other.
LEMMA ConcatAt ==
    ASSUME NEW l \in Int, NEW a, NEW i \in Int, BlockAt(a, i), l <= i,
           NEW b, NEW j \in Int, BlockAt(b, j), l <= j
    PROVE  BlockAt(a \o b, l)
  <1>1. BlockAt(a, l) /\ BlockAt(b, l)
    BY LowerBlock
  <1> QED
    BY <1>1, ConcatBlock

\* A step that is a block by itself.
Single(x, l) == BlockAt(<<x>>, l)

\* Two steps that are blocks.
LEMMA PairAt ==
    ASSUME NEW l \in Int, NEW x, NEW i \in Int, Single(x, i), l <= i,
           NEW y, NEW j \in Int, Single(y, j), l <= j
    PROVE  BlockAt(<<x, y>>, l)
  <1> DEFINE a == <<x>>
             b == <<y>>
  <1>0. BlockAt(a, i) /\ BlockAt(b, j)
    BY DEF Single
  <1>1. a \in Seq(AnyStep) /\ b \in Seq(AnyStep)
    BY <1>0 DEF BlockAt, Block, WellFormed
  <1>2. x \in AnyStep /\ y \in AnyStep
    <2>1. Len(a) = 1 /\ Len(b) = 1 /\ a[1] = x /\ b[1] = y /\ 1 \in 1 .. 1
      OBVIOUS
    <2> HIDE DEF a, b
    <2> QED
      BY <1>1, <2>1, ElementOfSeq
  <1> HIDE DEF a, b
  <1>3. BlockAt(a \o b, l)
    BY <1>0, ConcatAt
  <1> QED
    BY <1>2, <1>3, PairIs DEF a, b

\* The critical sections the functions enter.
LEMMA Sections ==
    /\ BlockAt(<<Section("skeleton mutex_")>>, 2)
    /\ BlockAt(<<Section("requests_mutex_")>>, 4)
    /\ BlockAt(<<Section("services_mutex_")>>, 5)
    /\ BlockAt(<<Section("subscriptions_mutex_")>>, 6)
  <1>1. /\ "skeleton mutex_" \in Mutex /\ "requests_mutex_" \in Mutex
        /\ "services_mutex_" \in Mutex /\ "subscriptions_mutex_" \in Mutex
    BY DEF Mutex
  <1> QED
    BY <1>1, SectionBlock, Ranks

\* Application::notify_event and set_field_value.
LEMMA NotifyBlock ==
    ASSUME NEW e \in Event, NEW v \in Value
    PROVE  BlockAt(NotifyEvent(e, v), 4) /\ BlockAt(SetFieldValue(e, v), 3)
  <1>1. e \in Thing /\ v \in Thing
    BY Things, Zenon
  <1>2. BlockAt(<<Step("notify", e, v)>>, 5)
    <2>1. "notify" \in Deed /\ "notify" \notin {"lock", "unlock"} \cup ConfigSteps
      BY DEF Deed, ConfigSteps
    <2>2. Speaks(Step("notify", e, v)) /\ Level(Step("notify", e, v)) = 5
      BY <1>1, <2>1, StepIs DEF Speaks, Level
    <2> QED
      BY <1>1, <2>1, <2>2, OneStep
  <1>3. BlockAt(<<Step("store_field", e, v)>>, 3)
    <2>1. "store_field" \in Deed /\ "store_field" \notin {"lock", "unlock"} \cup ConfigSteps
      BY DEF Deed, ConfigSteps
    <2>2. Speaks(Step("store_field", e, v)) /\ Level(Step("store_field", e, v)) = 3
      BY <1>1, <2>1, StepIs DEF Speaks, Level
    <2> QED
      BY <1>1, <2>1, <2>2, OneStep
  <1>4. BlockAt(NotifyEvent(e, v), 4)
    <2> DEFINE b == <<Step("notify", e, v)>>
    <2>1. Config \in Mutex /\ Rank(Config) = 4
      BY Ranks DEF Config, Mutex
    <2> HIDE DEF b
    <2>2. BlockAt(Under(Config, b), 4)
      BY <1>2, <2>1, UnderAt DEF b
    <2> QED
      BY <2>2 DEF NotifyEvent, Config, b
  <1>5. BlockAt(SetFieldValue(e, v), 3)
    BY <1>3, <1>4, ConcatAt DEF SetFieldValue
  <1> QED
    BY <1>4, <1>5

\* Application::offer_event, stop_offer_event and subscribe_event.
LEMMA OfferBlock ==
    ASSUME NEW e \in Event
    PROVE  /\ \A p \in Group : BlockAt(OfferEvent(e, p), 4)
           /\ \A s \in Service : BlockAt(StopOfferEvent(e, s), 4)
           /\ \A p \in Group : BlockAt(SubscribeEvent(e, p), 4)
  <1> DEFINE S(do, v) == Step(do, e, v)
  <1>1. e \in Thing /\ None \in Thing
    BY Things, Zenon
  <1>2. ASSUME NEW do \in {"store_config", "offer_group", "drop_group", "erase_config",
                          "store_client"},
               NEW v \in Thing
        PROVE  S(do, v) \in AnyStep /\ S(do, v).do = do /\ S(do, v).on = e /\ S(do, v).val = v
    <2>1. do \in Deed
      BY DEF Deed
    <2> QED
      BY <1>1, <2>1, StepIs
  <1>3. ASSUME NEW do \in {"store_config", "offer_group", "drop_group", "erase_config",
                          "store_client"},
               NEW v \in Thing,
               do \in {"drop_group", "erase_config"} => v \in Service,
               do \in {"store_config", "offer_group", "store_client"} => v \in Group
        PROVE  Speaks(S(do, v)) /\ 4 < Level(S(do, v))
    BY <1>2, <1>3 DEF Speaks, Level
  <1> HIDE DEF S
  <1>4. ASSUME NEW p \in Group
        PROVE  BlockAt(Under(Config, <<S("store_config", p), S("offer_group", p)>>), 4)
    <2> DEFINE x == S("store_config", p)
               y == S("offer_group", p)
    <2>1. p \in Thing
      BY Things, Zenon
    <2>2. x \in AnyStep /\ x.do = "store_config" /\ x.on = e /\ x.val = p
          /\ Speaks(x) /\ 4 < Level(x)
      BY <1>2, <1>3, <2>1
    <2>3. y \in AnyStep /\ y.do = "offer_group" /\ Speaks(y) /\ 4 < Level(y)
          /\ y = Step("offer_group", e, p)
      BY <1>2, <1>3, <2>1 DEF S
    <2>5. Leads(x, y)
      BY <1>2, <2>1 DEF Leads, S
    <2> HIDE DEF x, y
    <2>4. BlockAt(Under(Config, <<x, y>>), 4)
      BY <2>2, <2>3, <2>5, PairBlock
    <2> QED
      BY <2>4 DEF x, y
  <1>5. ASSUME NEW s \in Service
        PROVE  BlockAt(Under(Config, <<S("drop_group", s), S("erase_config", s)>>), 4)
    <2> DEFINE x == S("drop_group", s)
               y == S("erase_config", s)
    <2>1. s \in Thing
      BY Things, Zenon
    <2>2. x \in AnyStep /\ x.do = "drop_group" /\ x.on = e /\ x.val = s
          /\ Speaks(x) /\ 4 < Level(x)
      BY <1>2, <1>3, <2>1
    <2>3. y \in AnyStep /\ y.do = "erase_config" /\ Speaks(y) /\ 4 < Level(y)
          /\ y = Step("erase_config", e, s)
      BY <1>2, <1>3, <2>1 DEF S
    <2> HIDE DEF x, y
    <2>4. BlockAt(Under(Config, <<x, y>>), 4)
      BY <2>2, <2>3, PairBlock DEF Leads
    <2> QED
      BY <2>4 DEF x, y
  <1>6. ASSUME NEW p \in Group
        PROVE  BlockAt(Under(Config, <<S("store_client", p), Section("subscriptions_mutex_")>>), 4)
    <2> DEFINE x == S("store_client", p)
               y == Section("subscriptions_mutex_")
    <2>0. p \in Thing
      BY Things, Zenon
    <2>1. "subscriptions_mutex_" \in Mutex /\ "section" \in Deed
      BY DEF Mutex, Deed
    <2>2. "subscriptions_mutex_" \in Thing
      BY <2>1, Things, Zenon
    <2>3. y \in AnyStep /\ y.do = "section" /\ y.on = "subscriptions_mutex_"
      BY <1>1, <2>1, <2>2, StepIs DEF Section
    <2>4. Speaks(y) /\ Level(y) = 6
      BY <2>1, <2>3, Ranks DEF Speaks, Level
    <2>6. x \in AnyStep /\ x.do = "store_client" /\ Speaks(x) /\ 4 < Level(x)
      BY <1>2, <1>3, <2>0
    <2> HIDE DEF x, y
    <2>5. BlockAt(Under(Config, <<x, y>>), 4)
      BY <2>3, <2>4, <2>6, PairBlock DEF Leads
    <2> QED
      BY <2>5 DEF x, y
  <1> QED
    BY <1>4, <1>5, <1>6 DEF OfferEvent, StopOfferEvent, SubscribeEvent, S, Config

\* Application::offer_field.
LEMMA OfferFieldBlock ==
    ASSUME NEW e \in Event, NEW p \in Group
    PROVE  BlockAt(OfferField(e, p), 3)
  <1> DEFINE b == <<Step("new_field", e, None)>>
             m == "fields_mutex_"
  <1>1. BlockAt(b, 4)
    <2>1. e \in Thing /\ None \in Thing
      BY Things, Zenon
    <2>2. "new_field" \in Deed /\ "new_field" \notin {"lock", "unlock"} \cup ConfigSteps
      BY DEF Deed, ConfigSteps
    <2>3. Speaks(Step("new_field", e, None)) /\ Level(Step("new_field", e, None)) = 7
      BY <2>1, <2>2, StepIs DEF Speaks, Level
    <2> QED
      BY <2>1, <2>2, <2>3, OneStep
  <1>2. m \in Mutex /\ Rank(m) = 3
    BY Ranks DEF Mutex
  <1> HIDE DEF b, m
  <1>3. BlockAt(b \o OfferEvent(e, p), 4)
    BY <1>1, OfferBlock, ConcatAt
  <1>4. BlockAt(Under(m, b \o OfferEvent(e, p)), 3)
    BY <1>2, <1>3, UnderAt
  <1> QED
    BY <1>4 DEF OfferField, b, m

\* Application::send_request, send_request_no_return and send_response, and what
\* ServiceProxy::call_method does with the first.
LEMMA SendBlock ==
    /\ BlockAt(SendRequest, 3)
    /\ BlockAt(SendRequestNoReturn, 3)
    /\ BlockAt(SendResponse, 5)
    /\ BlockAt(CallMethod, 3)
  <1> DEFINE m == "session_mutex_"
             r == Section("requests_mutex_")
             q == Section("services_mutex_")
             a == <<Step("await", None, None)>>
  <1>1. m \in Mutex /\ Rank(m) = 3
    BY Ranks DEF Mutex
  <1>2. BlockAt(<<r>>, 4) /\ BlockAt(<<q>>, 5)
    BY Sections
  <1>3. BlockAt(a, 3)
    <2>1. None \in Thing
      BY Things, Zenon
    <2>2. "await" \in Deed /\ "await" \notin {"lock", "unlock"} \cup ConfigSteps
      BY DEF Deed, ConfigSteps
    <2>3. Speaks(Step("await", None, None)) /\ Level(Step("await", None, None)) = 7
      BY <2>1, <2>2, StepIs DEF Speaks, Level
    <2> QED
      BY <2>1, <2>2, <2>3, OneStep
  <1> HIDE DEF m, r, q, a
  <1>4. BlockAt(<<r, q>>, 4)
    <2>1. Single(r, 4) /\ Single(q, 5)
      BY <1>2 DEF Single
    <2> QED
      BY <2>1, PairAt
  <1>5. BlockAt(Under(m, <<r, q>>), 3)
    <2> DEFINE b == <<r, q>>
    <2> HIDE DEF b
    <2> QED
      BY <1>1, <1>4, UnderAt DEF b
  <1>6. BlockAt(Under(m, <<q>>), 3)
    <2> DEFINE b == <<q>>
    <2>1. BlockAt(b, 5)
      BY <1>2
    <2> HIDE DEF b
    <2>2. BlockAt(Under(m, b), 3)
      BY <1>1, <2>1, UnderAt
    <2> QED
      BY <2>2 DEF b
  <1>7. BlockAt(SendRequest, 3)
    BY <1>5 DEF SendRequest, m, r, q
  <1>8. BlockAt(CallMethod, 3)
    BY <1>3, <1>7, ConcatAt DEF CallMethod, a
  <1> QED
    BY <1>2, <1>6, <1>7, <1>8 DEF SendRequestNoReturn, SendResponse, m, q

\* ServiceSkeleton::offer and stop_offer.
LEMMA SkeletonBlock ==
    ASSUME NEW e \in Event
    PROVE  /\ \A p \in Group : BlockAt(SkeletonOffer(e, p), 4)
           /\ \A s \in Service : BlockAt(SkeletonStopOffer(e, s), 4)
  <1> DEFINE q == <<Section("services_mutex_")>>
  <1>1. BlockAt(q, 5)
    BY Sections
  <1> HIDE DEF q
  <1>2. \A p \in Group : BlockAt(q \o OfferEvent(e, p), 4)
    BY <1>1, OfferBlock, ConcatAt
  <1>3. \A s \in Service : BlockAt(q \o StopOfferEvent(e, s), 4)
    BY <1>1, OfferBlock, ConcatAt
  <1> QED
    BY <1>2, <1>3 DEF SkeletonOffer, SkeletonStopOffer, q

\* ServiceProxy::subscribe_event and unsubscribe_event.
LEMMA ProxyBlock ==
    ASSUME NEW e \in Event
    PROVE  (\A p \in Group : BlockAt(ProxySubscribe(e, p), 1)) /\ BlockAt(ProxyUnsubscribe(e), 2)
  <1> DEFINE x(v) == Step("proxy_event", e, v)
             y == Step("event_handler", e, "proxy")
  <1>1. e \in Thing /\ "proxy" \in Thing /\ \A v \in BOOLEAN : v \in Thing
    BY Things, Zenon
  <1>2. ASSUME NEW v \in BOOLEAN PROVE BlockAt(<<x(v)>>, 2)
    <2>1. "proxy_event" \in Deed /\ "proxy_event" \notin {"lock", "unlock"} \cup ConfigSteps
      BY DEF Deed, ConfigSteps
    <2>2. Speaks(x(v)) /\ Level(x(v)) = 2
      BY <1>1, <2>1, StepIs DEF Speaks, Level
    <2> QED
      BY <1>1, <2>1, <2>2, OneStep
  <1>3. BlockAt(<<y>>, 1)
    <2>1. "event_handler" \in Deed /\ "event_handler" \notin {"lock", "unlock"} \cup ConfigSteps
      BY DEF Deed, ConfigSteps
    <2>2. Speaks(y) /\ Level(y) = 1
      BY <1>1, <2>1, StepIs DEF Speaks, Level
    <2> QED
      BY <1>1, <2>1, <2>2, OneStep
  <1>4. BlockAt(<<x(TRUE)>>, 2) /\ BlockAt(<<x(FALSE)>>, 2)
    BY <1>2
  <1> HIDE DEF x, y
  <1>5. BlockAt(<<x(TRUE), y>>, 1)
    <2> DEFINE z == x(TRUE)
    <2>1. Single(z, 2) /\ Single(y, 1)
      BY <1>3, <1>4 DEF Single
    <2> HIDE DEF z
    <2>2. BlockAt(<<z, y>>, 1)
      BY <2>1, PairAt
    <2> QED
      BY <2>2 DEF z
  <1>6. ASSUME NEW p \in Group PROVE BlockAt(ProxySubscribe(e, p), 1)
    <2> DEFINE b == <<x(TRUE), y>>
    <2>1. BlockAt(b, 1)
      BY <1>5
    <2> HIDE DEF b
    <2>2. BlockAt(b \o SubscribeEvent(e, p), 1)
      BY <2>1, OfferBlock, ConcatAt
    <2> QED
      BY <2>2 DEF ProxySubscribe, b, x, y
  <1>7. BlockAt(UnsubscribeEvent, 6)
    BY Sections DEF UnsubscribeEvent
  <1>8. BlockAt(ProxyUnsubscribe(e), 2)
    <2> DEFINE b == <<x(FALSE)>>
    <2>1. BlockAt(b, 2)
      BY <1>4
    <2> HIDE DEF b
    <2>2. BlockAt(b \o UnsubscribeEvent, 2)
      BY <1>7, <2>1, ConcatAt
    <2> QED
      BY <2>2 DEF ProxyUnsubscribe, b, x
  <1> QED
    BY <1>6, <1>8

\* ServiceSkeleton::register_field.
LEMMA RegisterFieldBlock == BlockAt(RegisterField, 2)
  <1> DEFINE x == Section("skeleton mutex_")
             a == <<x>>
             b == <<x, x>>
             c == <<x, x, x>>
             d == b \o a
  <1>1. BlockAt(a, 2)
    BY Sections
  <1>2. x \in AnyStep
    <2>1. Len(a) = 1 /\ a[1] = x /\ 1 \in 1 .. 1
      OBVIOUS
    <2> HIDE DEF a
    <2>2. a \in Seq(AnyStep)
      BY <1>1 DEF BlockAt, Block, WellFormed
    <2> QED
      BY <2>1, <2>2, ElementOfSeq
  <1> HIDE DEF x
  <1>3. BlockAt(b, 2)
    <2>1. Single(x, 2)
      BY <1>1 DEF Single
    <2> QED
      BY <2>1, PairAt
  <1>4. a \in Seq(AnyStep) /\ Len(a) = 1 /\ a[1] = x
    BY <1>2
  <1>5. b \in Seq(AnyStep) /\ Len(b) = 2 /\ b[1] = x /\ b[2] = x
    BY <1>2
  <1>6. c \in Seq(AnyStep) /\ Len(c) = 3 /\ c[1] = x /\ c[2] = x /\ c[3] = x
    BY <1>2
  <1>7. /\ d \in Seq(AnyStep) /\ Len(d) = Len(b) + Len(a)
        /\ \A i \in 1 .. Len(b) + Len(a) : d[i] = IF i <= Len(b) THEN b[i] ELSE a[i - Len(b)]
    BY <1>4, <1>5, ConcatProperties
  <1> HIDE DEF a, b, c, d
  <1>8. Len(d) = 3 /\ d[1] = x /\ d[2] = x /\ d[3] = x
    BY <1>4, <1>5, <1>7
  <1>9. \A i \in 1 .. 3 : i = 1 \/ i = 2 \/ i = 3
    OBVIOUS
  <1>10. c = d
    BY <1>6, <1>7, <1>8, <1>9, SeqEqual
  <1>11. BlockAt(d, 2)
    BY <1>1, <1>3, ConcatBlock DEF d
  <1> QED
    BY <1>10, <1>11 DEF RegisterField, c, x

\* A step of Runtime::stop.
LEMMA StopStepIs ==
    ASSUME NEW b \in Background, NEW do \in {"halt", "shut", "join"}
    PROVE  LET x == Step(do, b, None) IN x \in AnyStep /\ x.do = do /\ x.on = b
  <1>1. b \in Thing /\ None \in Thing
    BY Things, Zenon
  <1>2. do \in Deed
    BY DEF Deed
  <1> QED
    BY <1>1, <1>2, StepIs

\* Three steps, one after the other.
LEMMA TripleIs ==
    ASSUME NEW x \in AnyStep, NEW y \in AnyStep, NEW z \in AnyStep
    PROVE  <<x>> \o <<y, z>> = <<x, y, z>>
  <1> DEFINE a == <<x>>
             b == <<y, z>>
             c == <<x, y, z>>
             d == a \o b
  <1>4. a \in Seq(AnyStep) /\ Len(a) = 1 /\ a[1] = x
    OBVIOUS
  <1>5. b \in Seq(AnyStep) /\ Len(b) = 2 /\ b[1] = y /\ b[2] = z
    OBVIOUS
  <1>6. c \in Seq(AnyStep) /\ Len(c) = 3 /\ c[1] = x /\ c[2] = y /\ c[3] = z
    OBVIOUS
  <1>7. /\ d \in Seq(AnyStep) /\ Len(d) = Len(a) + Len(b)
        /\ \A i \in 1 .. Len(a) + Len(b) : d[i] = IF i <= Len(a) THEN a[i] ELSE b[i - Len(a)]
    BY <1>4, <1>5, ConcatProperties
  <1> HIDE DEF a, b, c, d
  <1>8. Len(d) = 3 /\ d[1] = x /\ d[2] = y /\ d[3] = z
    BY <1>4, <1>5, <1>7
  <1>9. \A i \in 1 .. 3 : i = 1 \/ i = 2 \/ i = 3
    OBVIOUS
  <1>10. c = d
    BY <1>6, <1>7, <1>8, <1>9, SeqEqual
  <1> QED
    BY <1>10 DEF a, b, c, d

\* The rest of Runtime::stop.
LEMMA StopBlock == BlockAt(StopThreads, -1)
  <1>0. ASSUME NEW b \in Background, NEW do \in {"halt", "shut", "join"}
        PROVE  BlockAt(<<Step(do, b, None)>>, -1)
    <2>1. b \in Thing /\ None \in Thing
      BY Things, Zenon
    <2>2. do \in Deed /\ do \notin {"lock", "unlock"} \cup ConfigSteps
      BY DEF Deed, ConfigSteps
    <2>3. Speaks(Step(do, b, None)) /\ Level(Step(do, b, None)) = -1
      BY <2>1, <2>2, StepIs DEF Speaks, Level
    <2> QED
      BY <2>1, <2>2, <2>3, OneStep
  <1>1. ASSUME NEW b \in Background PROVE BlockAt(Join(b), -1)
    <2> DEFINE x(do) == Step(do, b, None)
    <2>3. BlockAt(<<x("halt")>>, -1) /\ BlockAt(<<x("join")>>, -1)
      BY <1>0
    <2> HIDE DEF x
    <2>4. BlockAt(<<x("halt"), x("join")>>, -1)
      <3>1. Single(x("halt"), -1) /\ Single(x("join"), -1)
        BY <2>3 DEF Single
      <3> QED
        BY <3>1, PairAt
    <2> QED
      BY <2>4 DEF Join, x
  <1>2. SdWorker \in Background /\ Receiver \in Background /\ TcpReceiver \in Background
    BY DEF Background
  <1>3. BlockAt(StopTcp, -1)
    <2> DEFINE h == Step("halt", TcpReceiver, None)
               q == Step("shut", TcpReceiver, None)
               j == Step("join", TcpReceiver, None)
    <2>1. BlockAt(<<h>>, -1) /\ BlockAt(<<q>>, -1) /\ BlockAt(<<j>>, -1)
      BY <1>0, <1>2
    <2>2. h \in AnyStep /\ q \in AnyStep /\ j \in AnyStep
      BY <1>2, StopStepIs
    <2> HIDE DEF h, q, j
    <2>3. Single(q, -1) /\ Single(j, -1)
      BY <2>1 DEF Single
    <2>4. BlockAt(<<q, j>>, -1)
      BY <2>3, PairAt
    <2>5. BlockAt(<<h>> \o <<q, j>>, -1)
      BY <2>1, <2>4, ConcatBlock
    <2>6. <<h>> \o <<q, j>> = <<h, q, j>>
      BY <2>2, TripleIs
    <2> QED
      BY <2>5, <2>6 DEF StopTcp, h, q, j
  <1>4. BlockAt(Join(Receiver) \o StopTcp, -1)
    BY <1>1, <1>2, <1>3, ConcatBlock
  <1> QED
    BY <1>1, <1>2, <1>4, ConcatBlock DEF StopThreads

\* An API call is a block.
LEMMA BodyBlock ==
    ASSUME NEW c, IsCall(c)
    PROVE  Block(Body(c))
  <1>1. CASE c.do = "notify_event"
    <2>1. Body(c) = NotifyEvent(c.on, c.val) /\ c.on \in Event /\ c.val \in Value
      BY <1>1 DEF Body, IsCall
    <2> QED
      BY <2>1, NotifyBlock DEF BlockAt
  <1>2. CASE c.do = "set_field_value"
    <2>1. Body(c) = SetFieldValue(c.on, c.val) /\ c.on \in Event /\ c.val \in Value
      BY <1>2 DEF Body, IsCall
    <2> QED
      BY <2>1, NotifyBlock DEF BlockAt
  <1>3. CASE c.do = "offer_event"
    <2>1. Body(c) = OfferEvent(c.on, c.val) /\ c.on \in Event /\ c.val \in Group
      BY <1>3 DEF Body, IsCall
    <2> QED
      BY <2>1, OfferBlock DEF BlockAt
  <1>4. CASE c.do = "offer_field"
    <2>1. Body(c) = OfferField(c.on, c.val) /\ c.on \in Event /\ c.val \in Group
      BY <1>4 DEF Body, IsCall
    <2> QED
      BY <2>1, OfferFieldBlock DEF BlockAt
  <1>5. CASE c.do = "stop_offer_event"
    <2>1. Body(c) = StopOfferEvent(c.on, c.val) /\ c.on \in Event /\ c.val \in Service
      BY <1>5 DEF Body, IsCall
    <2> QED
      BY <2>1, OfferBlock DEF BlockAt
  <1>6. CASE c.do = "subscribe_event"
    <2>1. Body(c) = SubscribeEvent(c.on, c.val) /\ c.on \in Event /\ c.val \in Group
      BY <1>6 DEF Body, IsCall
    <2> QED
      BY <2>1, OfferBlock DEF BlockAt
  <1>7. CASE c.do = "unsubscribe_event"
    <2>1. Body(c) = UnsubscribeEvent
      BY <1>7 DEF Body
    <2> QED
      BY <2>1, Sections DEF BlockAt, UnsubscribeEvent
  <1>8. CASE c.do = "send_request"
    <2>1. Body(c) = SendRequest
      BY <1>8 DEF Body
    <2> QED
      BY <2>1, SendBlock DEF BlockAt
  <1>9. CASE c.do = "send_request_no_return"
    <2>1. Body(c) = SendRequestNoReturn
      BY <1>9 DEF Body
    <2> QED
      BY <2>1, SendBlock DEF BlockAt
  <1>10. CASE c.do = "send_response"
    <2>1. Body(c) = SendResponse
      BY <1>10 DEF Body
    <2> QED
      BY <2>1, SendBlock DEF BlockAt
  <1>11. CASE c.do = "skeleton_offer"
    <2>1. Body(c) = SkeletonOffer(c.on, c.val) /\ c.on \in Event /\ c.val \in Group
      BY <1>11 DEF Body, IsCall
    <2> QED
      BY <2>1, SkeletonBlock DEF BlockAt
  <1>12. CASE c.do = "skeleton_stop_offer"
    <2>1. Body(c) = SkeletonStopOffer(c.on, c.val) /\ c.on \in Event /\ c.val \in Service
      BY <1>12 DEF Body, IsCall
    <2> QED
      BY <2>1, SkeletonBlock DEF BlockAt
  <1>13. CASE c.do = "register_field"
    <2>1. Body(c) = RegisterField
      BY <1>13 DEF Body
    <2> QED
      BY <2>1, RegisterFieldBlock DEF BlockAt
  <1>14. CASE c.do = "proxy_subscribe"
    <2>1. Body(c) = ProxySubscribe(c.on, c.val) /\ c.on \in Event /\ c.val \in Group
      BY <1>14 DEF Body, IsCall
    <2> QED
      BY <2>1, ProxyBlock DEF BlockAt
  <1>15. CASE c.do = "proxy_unsubscribe"
    <2>1. Body(c) = ProxyUnsubscribe(c.on) /\ c.on \in Event
      BY <1>15 DEF Body, IsCall
    <2> QED
      BY <2>1, ProxyBlock DEF BlockAt
  <1>16. CASE c.do \in {"event_handler", "method_handler", "register_method", "service_handler",
                   "on_service_available", "call_method", "connect", "runtime_start",
                   "runtime_stop"}
    <2>1. Body(c) = <<c>>
      BY <1>16 DEF Body
    <2>2. c.do \in Deed /\ c.do \notin {"lock", "unlock"} \cup ConfigSteps
      BY <1>16 DEF Deed, ConfigSteps
    <2>3. c.on \in Thing /\ c.val \in Thing
      <3>1. c.on \in Event \cup Method \cup {None}
        BY <1>16, Zenon DEF IsCall
      <3>2. c.val \in {"user", None} \cup BOOLEAN
        BY <1>16, Zenon DEF IsCall
      <3> QED
        BY <3>1, <3>2, Things, Zenon
    <2>4. c \in AnyStep
      BY <2>2, <2>3 DEF IsCall, AnyStep
    <2>5. Speaks(c)
      BY <1>16 DEF IsCall, Speaks
    <2>6. Level(c) \in Int /\ Level(c) <= Level(c)
      BY <2>5, LevelType
    <2>7. BlockAt(<<c>>, Level(c))
      BY <2>2, <2>4, <2>5, <2>6, StepBlock
    <2> QED
      BY <2>1, <2>7 DEF BlockAt
  <1> QED
    BY <1>1, <1>2, <1>3, <1>4, <1>5, <1>6, <1>7, <1>8, <1>9, <1>10, <1>11, <1>12,
        <1>13, <1>14, <1>15, <1>16 DEF IsCall

\* One step under a mutex of lower rank.
LEMMA SingleUnder ==
    ASSUME NEW m \in Mutex, NEW r \in Int, Rank(m) = r,
           NEW x, NEW l \in Int, Single(x, l), r < l
    PROVE  BlockAt(Under(m, <<x>>), r)
  <1> DEFINE b == <<x>>
  <1>1. BlockAt(b, l)
    BY DEF Single
  <1> HIDE DEF b
  <1>2. BlockAt(Under(m, b), r)
    BY <1>1, UnderAt
  <1> QED
    BY <1>2 DEF b

\* The steps that look an event up.
LEMMA EventSteps ==
    ASSUME NEW e \in Event
    PROVE  /\ Single(Step("event", e, None), 2)
           /\ Single(Step("proxy", e, None), 3)
  <1>1. e \in Thing /\ None \in Thing
    BY Things, Zenon
  <1>2. ASSUME NEW do \in {"event", "proxy"}
        PROVE  do \in Deed /\ do \notin {"lock", "unlock"} \cup ConfigSteps
    BY DEF Deed, ConfigSteps
  <1>3. ASSUME NEW do \in {"event", "proxy"}
        PROVE  Step(do, e, None).do = do /\ Speaks(Step(do, e, None))
    BY <1>1, <1>2, StepIs DEF Speaks
  <1>4. /\ Level(Step("event", e, None)) = 2
        /\ Level(Step("proxy", e, None)) = 3
    BY <1>3 DEF Level
  <1> QED
    BY <1>1, <1>2, <1>3, <1>4, OneStep DEF Single

\* The step that accepts a subscription.
LEMMA AcceptStep ==
    ASSUME NEW p \in Group
    PROVE  Single(Step("accept", p, None), 7)
  <1>1. p \in Thing /\ None \in Thing
    BY Things, Zenon
  <1>2. "accept" \in Deed /\ "accept" \notin {"lock", "unlock"} \cup ConfigSteps
    BY DEF Deed, ConfigSteps
  <1>3. Step("accept", p, None).do = "accept" /\ Speaks(Step("accept", p, None))
    BY <1>1, <1>2, StepIs DEF Speaks
  <1>4. Level(Step("accept", p, None)) = 7
    BY <1>3 DEF Level
  <1> QED
    BY <1>1, <1>2, <1>3, <1>4, OneStep DEF Single

\* The steps that look a method up.
LEMMA MethodSteps ==
    ASSUME NEW i \in Method
    PROVE  /\ Single(Step("method", i, None), 2)
           /\ Single(Step("skeleton", i, None), 3)
  <1>1. i \in Thing /\ None \in Thing
    BY Things, Zenon
  <1>2. ASSUME NEW do \in {"method", "skeleton"}
        PROVE  do \in Deed /\ do \notin {"lock", "unlock"} \cup ConfigSteps
    BY DEF Deed, ConfigSteps
  <1>3. ASSUME NEW do \in {"method", "skeleton"}
        PROVE  Step(do, i, None).do = do /\ Speaks(Step(do, i, None))
    BY <1>1, <1>2, StepIs DEF Speaks
  <1>4. Level(Step("method", i, None)) = 2 /\ Level(Step("skeleton", i, None)) = 3
    BY <1>3 DEF Level
  <1> QED
    BY <1>1, <1>2, <1>3, <1>4, OneStep DEF Single

\* ServiceSkeleton::handle_method_call.
LEMMA SkeletonUnder ==
    ASSUME NEW i \in Method
    PROVE  BlockAt(Under("skeleton mutex_", <<Step("skeleton", i, None)>>), 2)
  <1> DEFINE x == Step("skeleton", i, None)
             m == "skeleton mutex_"
  <1>1. m \in Mutex /\ Rank(m) = 2
    BY Ranks DEF Mutex
  <1>2. Single(x, 3)
    BY MethodSteps
  <1> HIDE DEF x, m
  <1>3. BlockAt(Under(m, <<x>>), 2)
    BY <1>1, <1>2, SingleUnder
  <1> QED
    BY <1>3 DEF x, m

\* ServiceProxy::on_event_received.
LEMMA ProxyUnder ==
    ASSUME NEW e \in Event
    PROVE  BlockAt(Under("proxy events_mutex_", <<Step("proxy", e, None)>>), 2)
  <1> DEFINE x == Step("proxy", e, None)
             m == "proxy events_mutex_"
  <1>1. m \in Mutex /\ Rank(m) = 2
    BY Ranks DEF Mutex
  <1>2. Single(x, 3)
    BY EventSteps
  <1> HIDE DEF x, m
  <1>3. BlockAt(Under(m, <<x>>), 2)
    BY <1>1, <1>2, SingleUnder
  <1> QED
    BY <1>3 DEF x, m

\* The calls of handlers.
LEMMA HandlerSteps ==
    /\ Single(Handler("available"), 0)
    /\ Single(Handler("method"), 2) /\ Single(Handler("event"), 2)
    /\ Single(Handler("skeleton method"), 3) /\ Single(Handler("proxy event"), 3)
    /\ Single(Handler("subscription"), 6) /\ Single(Handler("expired"), 6)
  <1>1. /\ "available" \in Hook /\ "method" \in Hook /\ "event" \in Hook
        /\ "skeleton method" \in Hook /\ "proxy event" \in Hook
        /\ "subscription" \in Hook /\ "expired" \in Hook
    BY DEF Hook
  <1> QED
    BY <1>1, HandlerBlock, HookLevels DEF Single

\* Application::handle_message.
LEMMA HandleMessageBlock ==
    ASSUME NEW kind, NEW id,
           \/ kind = "event" /\ id \in Event
           \/ kind = "request" /\ id \in Method
           \/ kind = "response"
    PROVE  BlockAt(HandleMessage(kind, id), 1)
  <1> DEFINE q == <<Section("requests_mutex_")>>
  <1>1. BlockAt(q, 4)
    BY Sections
  <1>2. /\ "events_mutex_" \in Mutex /\ Rank("events_mutex_") = 1
        /\ "methods_mutex_" \in Mutex /\ Rank("methods_mutex_") = 1
    BY Ranks DEF Mutex
  <1>3. CASE kind = "event" /\ id \in Event
    <2> DEFINE a == Under("events_mutex_", <<Step("event", id, None)>>)
    <2>1. BlockAt(a, 1)
      BY <1>2, <1>3, EventSteps, SingleUnder
    <2> HIDE DEF a, q
    <2>2. BlockAt(a \o q, 1)
      BY <1>1, <2>1, ConcatAt
    <2> QED
      BY <1>3, <2>2 DEF HandleMessage, a, q
  <1>4. CASE kind = "request" /\ id \in Method
    <2> DEFINE a == Under("methods_mutex_", <<Step("method", id, None)>>)
    <2>1. BlockAt(a, 1)
      BY <1>2, <1>4, MethodSteps, SingleUnder
    <2> HIDE DEF a, q
    <2>2. BlockAt(a \o q, 1)
      BY <1>1, <2>1, ConcatAt
    <2> QED
      BY <1>4, <2>2 DEF HandleMessage, a, q
  <1>5. CASE kind = "response"
    <2> HIDE DEF q
    <2>1. BlockAt(q \o q, 1)
      BY <1>1, ConcatAt
    <2> QED
      BY <1>5, <2>1 DEF HandleMessage, q
  <1> QED
    BY <1>3, <1>4, <1>5

\* Runtime::on_tcp_message_received.
LEMMA RouteToServiceBlock ==
    ASSUME NEW kind, NEW id,
           \/ kind = "event" /\ id \in Event
           \/ kind = "request" /\ id \in Method
           \/ kind = "response" /\ id = None
    PROVE  BlockAt(RouteToService(kind, id), 0)
  <1> DEFINE x == Step("route", kind, id)
             m == "handlers_mutex_"
  <1>1. m \in Mutex /\ Rank(m) = 0
    BY Ranks DEF Mutex
  <1>2. kind \in Thing /\ id \in Thing
    BY Things, Zenon
  <1>3. "route" \in Deed /\ "route" \notin {"lock", "unlock"} \cup ConfigSteps
    BY DEF Deed, ConfigSteps
  <1>4. x \in AnyStep /\ x.do = "route" /\ x.on = kind /\ x.val = id
    BY <1>2, <1>3, StepIs
  <1> HIDE DEF x, m
  <1>5. Speaks(x) /\ Level(x) = 1
    BY <1>4 DEF Speaks, Level
  <1>6. Single(x, 1)
    BY <1>3, <1>4, <1>5, StepBlock DEF Single
  <1>7. BlockAt(Under(m, <<x>>), 0)
    BY <1>1, <1>6, SingleUnder
  <1> QED
    BY <1>7 DEF RouteToService, x, m

\* Runtime::on_udp_message_received.
LEMMA RouteBlock ==
    ASSUME NEW kind, NEW id, IsArrival(<<kind, id>>)
    PROVE  BlockAt(Route(kind, id), 0)
  <1>1. "services_mutex_" \in Mutex /\ Rank("services_mutex_") = 5
    BY Ranks DEF Mutex
  <1>2. CASE kind = "SD offer"
    <2>1. Single(Section("services_mutex_"), 5) /\ Single(Handler("available"), 0)
      BY Sections, HandlerSteps DEF Single
    <2>2. BlockAt(HandleOfferService, 0)
      BY <2>1, PairAt DEF HandleOfferService
    <2> QED
      BY <1>2, <2>2 DEF Route
  <1>3. CASE kind = "SD subscribe"
    <2> DEFINE b == <<Handler("subscription"), Step("accept", id, None)>>
    <2>1. id \in Group
      BY <1>3 DEF IsArrival
    <2>2. Single(Handler("subscription"), 6) /\ Single(Step("accept", id, None), 7)
      BY <2>1, HandlerSteps, AcceptStep
    <2>3. BlockAt(b, 6)
      BY <2>2, PairAt
    <2> HIDE DEF b
    <2>4. BlockAt(Under("services_mutex_", b), 5)
      BY <1>1, <2>3, UnderAt
    <2>5. BlockAt(Under("services_mutex_", b), 0)
      BY <2>4, LowerBlock
    <2> QED
      BY <1>3, <2>5 DEF Route, HandleSubscribeEventgroup, b
  <1>4. CASE kind \notin {"SD offer", "SD subscribe"}
    <2>1. \/ kind = "event" /\ id \in Event
          \/ kind = "request" /\ id \in Method
          \/ kind = "response" /\ id = None
      BY <1>4 DEF IsArrival
    <2> QED
      BY <1>4, <2>1, RouteToServiceBlock DEF Route
  <1> QED
    BY <1>2, <1>3, <1>4

\* A round of ServiceDiscovery::worker_thread.
LEMMA RoundBlock == BlockAt(Round, 5)
  <1> DEFINE a == Under("services_mutex_", <<Handler("expired")>>)
             b == <<Section("services_mutex_"), Section("subscriptions_mutex_")>>
  <1>1. "services_mutex_" \in Mutex /\ Rank("services_mutex_") = 5
    BY Ranks DEF Mutex
  <1>2. BlockAt(a, 5)
    <2> DEFINE x == Handler("expired")
    <2>1. Single(x, 6)
      BY HandlerSteps
    <2> HIDE DEF x
    <2>2. BlockAt(Under("services_mutex_", <<x>>), 5)
      BY <1>1, <2>1, SingleUnder
    <2> QED
      BY <2>2 DEF x
  <1>3. BlockAt(b, 5)
    <2>1. Single(Section("services_mutex_"), 5) /\ Single(Section("subscriptions_mutex_"), 6)
      BY Sections DEF Single
    <2> QED
      BY <2>1, PairAt
  <1> HIDE DEF a, b
  <1>4. BlockAt(a \o b, 5)
    BY <1>2, <1>3, ConcatAt
  <1> QED
    BY <1>4 DEF Round, a, b

-----------------------------------------------------------------------------
(* A thread goes on.                                                       *)

\* What one step opens and closes.
LEMMA OpenStep ==
    ASSUME NEW s \in Seq(AnyStep), NEW i \in 1 .. Len(s), NEW m
    PROVE  Open(s, i, m) <=> Unlocks(s[i], m) \/ (~Locks(s[i], m) /\ Open(s, i + 1, m))
  <1>1. Len(s) \in Nat /\ i \in Nat /\ i <= Len(s)
    BY LenProperties
  <1>2. ASSUME Unlocks(s[i], m) PROVE Open(s, i, m)
    <2>1. i \in i .. Len(s) /\ \A k \in i .. i - 1 : FALSE
      BY <1>1
    <2> QED
      BY <1>2, <2>1 DEF Open
  <1>3. ASSUME ~Locks(s[i], m), Open(s, i + 1, m) PROVE Open(s, i, m)
    <2>1. PICK j \in i + 1 .. Len(s) :
             Unlocks(s[j], m) /\ \A k \in i + 1 .. j - 1 : ~Locks(s[k], m)
      BY <1>3 DEF Open
    <2>2. j \in i .. Len(s) /\ \A k \in i .. j - 1 : k = i \/ k \in i + 1 .. j - 1
      BY <1>1
    <2> QED
      BY <1>3, <2>1, <2>2 DEF Open
  <1>4. ASSUME Open(s, i, m), ~Unlocks(s[i], m) PROVE ~Locks(s[i], m) /\ Open(s, i + 1, m)
    <2>1. PICK j \in i .. Len(s) :
             Unlocks(s[j], m) /\ \A k \in i .. j - 1 : ~Locks(s[k], m)
      BY <1>4 DEF Open
    <2>2. j # i
      BY <1>4, <2>1
    <2>3. /\ j \in i + 1 .. Len(s) /\ i \in i .. j - 1
          /\ \A k \in i + 1 .. j - 1 : k \in i .. j - 1
      BY <1>1, <2>2
    <2> QED
      BY <2>1, <2>3 DEF Open
  <1> QED
    BY <1>2, <1>3, <1>4

\* What is open after unlocks: all that was, but for what they unlock.
LEMMA UnlocksOpen ==
    ASSUME NEW s, WellFormed(s), NEW n \in 0 .. Len(s),
           \A i \in 1 .. n : s[i].do = "unlock", NEW m
    PROVE  Open(s, n + 1, m) <=> Open(s, 1, m) /\ ~\E i \in 1 .. n : s[i].on = m
  <1>1. s \in Seq(AnyStep) /\ Len(s) \in Nat /\ n \in Nat /\ n <= Len(s)
    BY LenProperties DEF WellFormed
  <1> DEFINE S == {k \in 0 .. n : Open(s, k + 1, m)
                      <=> Open(s, 1, m) /\ ~\E i \in 1 .. k : s[i].on = m}
  <1>2. 0 \in S
    <2>1. 0 \in 0 .. n /\ 0 + 1 = 1 /\ \A i \in 1 .. 0 : FALSE
      BY <1>1
    <2> QED
      BY <2>1
  <1>3. ASSUME NEW k \in 0 .. n - 1, k \in S PROVE k + 1 \in S
    <2>1. /\ k + 1 \in 1 .. Len(s) /\ k + 1 \in 1 .. n /\ k + 1 \in 0 .. n
          /\ \A i \in 1 .. k + 1 : i \in 1 .. k \/ i = k + 1
          /\ \A i \in 1 .. k : i \in 1 .. k + 1
          /\ k + 1 \in 1 .. k + 1
      BY <1>1
    <2>2. s[k + 1].do = "unlock" /\ ~Open(s, k + 1 + 1, s[k + 1].on)
      BY <2>1 DEF WellFormed, Fits
    <2>3. Open(s, k + 1, m) <=> s[k + 1].on = m \/ Open(s, k + 1 + 1, m)
      BY <1>1, <2>1, <2>2, OpenStep DEF Unlocks, Locks
    <2>4. Open(s, k + 1, m) <=> Open(s, 1, m) /\ ~\E i \in 1 .. k : s[i].on = m
      BY <1>3
    <2>5. Open(s, k + 1 + 1, m) <=> Open(s, 1, m) /\ ~\E i \in 1 .. k + 1 : s[i].on = m
      BY <2>1, <2>2, <2>3, <2>4
    <2> QED
      BY <2>1, <2>5
  <1>4. n \in S
    <2> HIDE DEF S
    <2>1. 0 .. n \subseteq S
      BY <1>1, <1>2, <1>3, BoundedInduction
    <2> QED
      BY <1>1, <2>1
  <1> QED
    BY <1>4

\* GoOnWith takes unlocks off the front.
LEMMA GoOnWithIs ==
    ASSUME NEW t \in Thread, NEW s \in Seq(AnyStep), NEW h, GoOnWith(t, s, h)
    PROVE  \E n \in 0 .. Len(s) :
              /\ \A i \in 1 .. n : s[i].do = "unlock"
              /\ todo' = [todo EXCEPT ![t] = SubSeq(s, n + 1, Len(s))]
              /\ held' = [m \in Mutex |-> IF \E i \in 1 .. n : s[i].on = m
                                         THEN Nobody ELSE h[m]]
  <1> DEFINE I == {i \in 1 .. Len(s) : s[i].do # "unlock"}
             next == IF I # {} THEN Min(I) ELSE 0
             n == IF next = 0 THEN Len(s) ELSE next - 1
  <1>1. Len(s) \in Nat
    BY LenProperties
  <1>2. /\ todo' = [todo EXCEPT ![t] = SubSeq(s, n + 1, Len(s))]
        /\ held' = [m \in Mutex |-> IF \E i \in 1 .. n : s[i].on = m THEN Nobody ELSE h[m]]
    BY Zenon DEF GoOnWith, SelectInSeq
  <1>3. n \in 0 .. Len(s) /\ \A i \in 1 .. n : s[i].do = "unlock"
    <2>1. CASE I = {}
      <3>1. n = Len(s)
        BY <2>1
      <3> QED
        BY <1>1, <2>1, <3>1
    <2>2. CASE I # {}
      <3>1. I \in SUBSET Nat
        OBVIOUS
      <3>2. \E k \in I : \A j \in I : k <= j
        <4> HIDE DEF I
        <4> QED
          BY <2>2, <3>1, LeastNumber
      <3>3. Min(I) \in I /\ \A j \in I : Min(I) <= j
        <4> HIDE DEF I
        <4> QED
          BY <3>2, Zenon DEF Min
      <3>4. n = Min(I) - 1 /\ Min(I) \in 1 .. Len(s)
        BY <1>1, <2>2, <3>3
      <3> HIDE DEF n
      <3>5. n \in 0 .. Len(s)
        BY <1>1, <3>4
      <3>6. ASSUME NEW i \in 1 .. n PROVE s[i].do = "unlock"
        <4>1. i \in 1 .. Len(s) /\ ~(Min(I) <= i)
          BY <1>1, <3>4
        <4>2. i \notin I
          BY <3>3, <4>1
        <4> QED
          BY <4>1, <4>2
      <3> QED
        BY <3>5, <3>6
    <2> QED
      BY <2>1, <2>2
  <1> HIDE DEF n
  <1> QED
    BY <1>2, <1>3

\* Only thread t has moved; it is about to offer an eventgroup only after it
\* has stored a configuration.
OnlyMoves(t) ==
    /\ \A u \in Thread \ {t} : todo'[u] = todo[u]
    /\ Offers(todo'[t]) => todo[t] # <<>> /\ todo[t][1].do = "store_config"

\* A thread that goes on with a well-formed sequence leaves the threads in order.
LEMMA GoOnKeeps ==
    ASSUME ThreadsInv, NEW t \in Thread, NEW s, WellFormed(s),
           NEW h \in [Mutex -> Thread \cup {Nobody}],
           \A m \in Mutex : h[m] = t <=> Open(s, 1, m),
           \A u \in Thread \ {t}, m \in Mutex : h[m] = u <=> Open(todo[u], 1, m),
           t \in Background => Above(s, 0),
           Offers(s) => todo[t] # <<>> /\ todo[t][1].do = "store_config",
           GoOnWith(t, s, h)
    PROVE  /\ ThreadsInv'
           /\ OnlyMoves(t)
           /\ \E n \in 0 .. Len(s) : /\ \A i \in 1 .. n : s[i].do = "unlock"
                                     /\ Suffix(todo'[t], s, n)
  <1>1. s \in Seq(AnyStep) /\ Len(s) \in Nat
    BY LenProperties DEF WellFormed
  <1>2. PICK n \in 0 .. Len(s) :
           /\ \A i \in 1 .. n : s[i].do = "unlock"
           /\ todo' = [todo EXCEPT ![t] = SubSeq(s, n + 1, Len(s))]
           /\ held' = [m \in Mutex |-> IF \E i \in 1 .. n : s[i].on = m THEN Nobody ELSE h[m]]
    BY <1>1, GoOnWithIs
  <1> DEFINE r == SubSeq(s, n + 1, Len(s))
  <1>3. Suffix(r, s, n)
    BY <1>1, SubSeqIsSuffix
  <1> HIDE DEF r
  <1>4. r \in Seq(AnyStep) /\ WellFormed(r)
    BY <1>3, SuffixWellFormed DEF Suffix
  <1>5. todo \in [Thread -> Seq(AnyStep)] /\ todo' = [todo EXCEPT ![t] = r]
    BY <1>2 DEF ThreadsInv, r
  <1>14. Offers(r) => Offers(s)
    <2> SUFFICES ASSUME Offers(r), n # 0 PROVE FALSE
      <3>1. ASSUME n = 0 PROVE Offers(r) => Offers(s)
        <4>1. Len(r) = Len(s) /\ \A i \in 1 .. Len(r) : r[i] = s[i]
          BY <1>1, <1>3, <3>1 DEF Suffix
        <4> QED
          BY <1>1, <4>1 DEF Offers
      <3> QED
        BY <3>1
    <2>1. n \in 1 .. Len(s) /\ n < Len(s) /\ 1 \in 1 .. Len(r) /\ s[n].do = "unlock"
      <3>1. Len(r) \in Nat /\ Len(r) = Len(s) - n
        BY <1>4, <1>3, LenProperties DEF Suffix
      <3> QED
        BY <1>1, <1>2, <3>1 DEF Offers
    <2>2. r[1] = s[n + 1] /\ r[1].do = "offer_group"
      BY <1>3, <2>1 DEF Suffix, Offers
    <2>3. Leads(s[n], s[n + 1])
      BY <2>1 DEF WellFormed, Fits
    <2> QED
      BY <2>1, <2>2, <2>3 DEF Leads, Step
  <1>6. todo' \in [Thread -> Seq(AnyStep)] /\ todo'[t] = r /\ OnlyMoves(t)
    BY <1>4, <1>5, <1>14 DEF OnlyMoves
  <1>7. held' \in [Mutex -> Thread \cup {Nobody}]
    BY <1>2
  <1>8. \A u \in Thread : WellFormed(todo'[u])
    BY <1>4, <1>6 DEF ThreadsInv, OnlyMoves
  <1>9. ASSUME NEW m \in Mutex PROVE held'[m] = t <=> Open(r, 1, m)
    <2>1. Open(s, n + 1, m) <=> Open(s, 1, m) /\ ~\E i \in 1 .. n : s[i].on = m
      BY <1>2, UnlocksOpen
    <2>2. Open(r, 1, m) <=> Open(s, n + 1, m)
      <3>1. 1 \in 1 .. Len(r) + 1
        BY <1>4, LenProperties
      <3> QED
        BY <1>3, <3>1, SuffixOpen
    <2>3. t # Nobody
      BY DispatchAssumption
    <2> QED
      BY <1>2, <2>1, <2>2, <2>3
  <1>10. ASSUME NEW u \in Thread \ {t}, NEW m \in Mutex
         PROVE  held'[m] = u <=> Open(todo[u], 1, m)
    <2>1. u # Nobody
      BY DispatchAssumption
    <2>2. CASE \E i \in 1 .. n : s[i].on = m
      <3>1. PICK i \in 1 .. n : s[i].on = m
        BY <2>2
      <3>2. /\ i \in 1 .. Len(s) /\ Unlocks(s[i], m)
            /\ \A k \in 1 .. i - 1 : ~Locks(s[k], m)
        <4>1. i \in 1 .. Len(s) /\ \A k \in 1 .. i - 1 : k \in 1 .. n
          BY <1>1
        <4>2. s[i].do = "unlock" /\ \A k \in 1 .. i - 1 : s[k].do = "unlock"
          BY <1>2, <4>1
        <4> QED
          BY <3>1, <4>1, <4>2 DEF Unlocks, Locks
      <3>3. Open(s, 1, m)
        BY <3>2 DEF Open
      <3>4. h[m] # u
        BY <3>3
      <3> QED
        BY <1>2, <2>1, <2>2, <3>4
    <2>3. CASE ~\E i \in 1 .. n : s[i].on = m
      BY <1>2, <2>3
    <2> QED
      BY <2>2, <2>3
  <1>11. \A u \in Thread, m \in Mutex : held'[m] = u <=> Open(todo'[u], 1, m)
    BY <1>6, <1>9, <1>10 DEF OnlyMoves
  <1>12. \A b \in Background : Above(todo'[b], 0)
    <2>1. t \in Background => Above(r, 0)
      BY <1>3, AboveSuffix
    <2>2. Background \subseteq Thread
      BY DEF Thread
    <2> QED
      BY <1>6, <2>1, <2>2 DEF ThreadsInv, OnlyMoves
  <1>13. ThreadsInv'
    BY <1>6, <1>7, <1>8, <1>11, <1>12 DEF ThreadsInv
  <1> QED
    BY <1>2, <1>3, <1>6, <1>13

\* What the invariant says of a thread about to take a step.
LEMMA HeadFits ==
    ASSUME ThreadsInv, NEW t \in Thread, NEW do, At(t, do)
    PROVE  LET s == todo[t]
               r == Tail(todo[t])
           IN  /\ s \in Seq(AnyStep) /\ s # <<>> /\ Len(s) \in Nat /\ 1 \in 1 .. Len(s)
               /\ Head(s) = s[1] /\ s[1].do = do /\ On(t) = s[1].on /\ Val(t) = s[1].val
               /\ WellFormed(s) /\ Fits(s, 1) /\ Speaks(s[1])
               /\ WellFormed(r) /\ r \in Seq(AnyStep) /\ Suffix(r, s, 1)
               /\ \A m : Open(r, 1, m) <=> Open(s, 1 + 1, m)
               /\ \A m : Open(s, 1, m) <=>
                         \/ Unlocks(s[1], m)
                         \/ ~Locks(s[1], m) /\ Open(s, 1 + 1, m)
               /\ t \in Background => 0 <= Level(s[1]) \/ do = "unlock"
               /\ t \in Background => Above(r, 0)
               /\ Offers(r) => do = "store_config"
  <1> DEFINE s == todo[t]
             r == Tail(s)
  <1>1. s \in Seq(AnyStep) /\ s # <<>> /\ Head(s).do = do /\ WellFormed(s)
    BY DEF ThreadsInv, At
  <1>2. On(t) = Head(s).on /\ Val(t) = Head(s).val
    BY DEF On, Val
  <1>3. t \in Background => Above(s, 0)
    BY DEF ThreadsInv
  <1> HIDE DEF s
  <1>4. Len(s) \in Nat /\ 1 \in 1 .. Len(s) /\ DOMAIN s = 1 .. Len(s)
    BY <1>1, EmptySeq, LenProperties
  <1>5. Head(s) = s[1]
    BY <1>1, HeadTailProperties
  <1>6. Fits(s, 1) /\ Speaks(s[1])
    BY <1>1, <1>4 DEF WellFormed, Fits
  <1>7. Suffix(r, s, 1)
    BY <1>1, TailIsSuffix
  <1> HIDE DEF r
  <1>8. WellFormed(r) /\ r \in Seq(AnyStep)
    BY <1>1, <1>7, SuffixWellFormed DEF Suffix
  <1>9. \A m : Open(r, 1, m) <=> Open(s, 1 + 1, m)
    <2>1. 1 \in 1 .. Len(r) + 1
      BY <1>8, LenProperties
    <2> QED
      BY <1>7, <2>1, SuffixOpen
  <1>10. \A m : Open(s, 1, m) <=> Unlocks(s[1], m) \/ (~Locks(s[1], m) /\ Open(s, 1 + 1, m))
    BY <1>1, <1>4, OpenStep
  <1>11. t \in Background => (0 <= Level(s[1]) \/ do = "unlock") /\ Above(r, 0)
    <2>1. s[1].do = do
      BY <1>1, <1>5
    <2>2. t \in Background => Above(r, 0)
      BY <1>3, <1>7, AboveSuffix
    <2> QED
      BY <1>3, <1>4, <2>1, <2>2 DEF Above
  <1>12. Offers(r) => do = "store_config"
    <2> SUFFICES ASSUME Len(r) > 0, r[1].do = "offer_group" PROVE do = "store_config"
      BY DEF Offers
    <2>1. Len(r) \in Nat /\ Len(r) = Len(s) - 1 /\ \A i \in 1 .. Len(r) : r[i] = s[1 + i]
      BY <1>7, <1>8, LenProperties DEF Suffix
    <2>2. 1 < Len(s) /\ s[1 + 1] = r[1]
      BY <1>4, <2>1
    <2>3. Leads(s[1], r[1])
      BY <1>6, <2>2 DEF Fits
    <2> QED
      BY <1>1, <1>5, <2>3 DEF Leads, Step
  <1> QED
    BY <1>1, <1>2, <1>4, <1>5, <1>6, <1>7, <1>8, <1>9, <1>10, <1>11, <1>12 DEF s, r

\* A thread that has taken a step.
LEMMA DoneKeeps ==
    ASSUME ThreadsInv, NEW t \in Thread, NEW do, At(t, do), do \notin {"lock", "unlock"},
           Done(t)
    PROVE  /\ ThreadsInv'
           /\ OnlyMoves(t)
           /\ \E n \in 0 .. Len(Tail(todo[t])) :
                 /\ \A i \in 1 .. n : Tail(todo[t])[i].do = "unlock"
                 /\ Suffix(todo'[t], Tail(todo[t]), n)
  <1> DEFINE s == todo[t]
             r == Tail(s)
  <1>1. /\ WellFormed(r) /\ (t \in Background => Above(r, 0))
        /\ Offers(r) => todo[t] # <<>> /\ todo[t][1].do = "store_config"
    BY HeadFits
  <1>2. ASSUME NEW m PROVE Open(r, 1, m) <=> Open(s, 1, m)
    <2>1. /\ s[1].do = do
          /\ Open(r, 1, m) <=> Open(s, 1 + 1, m)
          /\ Open(s, 1, m) <=> Unlocks(s[1], m) \/ (~Locks(s[1], m) /\ Open(s, 1 + 1, m))
      BY HeadFits
    <2> QED
      BY <2>1 DEF Locks, Unlocks
  <1>3. held \in [Mutex -> Thread \cup {Nobody}]
    BY DEF ThreadsInv
  <1>4. \A u \in Thread, m \in Mutex : held[m] = u <=> Open(todo[u], 1, m)
    BY DEF ThreadsInv
  <1>5. GoOnWith(t, r, held)
    BY DEF Done
  <1>6. \A m \in Mutex : held[m] = t <=> Open(r, 1, m)
    BY <1>2, <1>4
  <1> HIDE DEF r, s
  <1>7. /\ ThreadsInv'
        /\ OnlyMoves(t)
        /\ \E n \in 0 .. Len(r) : /\ \A i \in 1 .. n : r[i].do = "unlock"
                                  /\ Suffix(todo'[t], r, n)
    BY <1>1, <1>3, <1>4, <1>5, <1>6, GoOnKeeps
  <1> QED
    BY <1>7 DEF r, s

\* A thread that takes the steps of a block in the place of its step.
LEMMA ReplaceKeeps ==
    ASSUME ThreadsInv, NEW t \in Thread, NEW do, At(t, do),
           do \notin {"lock", "unlock", "store_config"},
           NEW a, BlockAt(a, Level(Head(todo[t]))), Replace(t, a)
    PROVE  ThreadsInv' /\ OnlyMoves(t)
  <1> DEFINE s == todo[t]
             r == Tail(s)
             c == a \o r
             l == Level(s[1])
  <1>1. /\ WellFormed(r) /\ r \in Seq(AnyStep) /\ Speaks(s[1]) /\ s[1].do = do /\ Fits(s, 1)
        /\ t \in Background => Above(r, 0) /\ 0 <= l
        /\ Head(s) = s[1]
    BY HeadFits
  <1>2. ASSUME NEW m PROVE Open(r, 1, m) <=> Open(s, 1, m)
    <2>1. /\ Open(r, 1, m) <=> Open(s, 1 + 1, m)
          /\ Open(s, 1, m) <=> Unlocks(s[1], m) \/ (~Locks(s[1], m) /\ Open(s, 1 + 1, m))
      BY HeadFits
    <2> QED
      BY <1>1, <2>1 DEF Locks, Unlocks
  <1>3. held \in [Mutex -> Thread \cup {Nobody}]
    BY DEF ThreadsInv
  <1>4. \A u \in Thread, m \in Mutex : held[m] = u <=> Open(todo[u], 1, m)
    BY DEF ThreadsInv
  <1>5. GoOnWith(t, c, held)
    BY DEF Replace
  <1>6. l \in Int
    BY <1>1, LevelType
  <1>7. BlockAt(a, l) /\ a \in Seq(AnyStep)
    BY <1>1 DEF BlockAt, Block, WellFormed
  <1>8. Concat(c, a, r)
    BY <1>1, <1>7, ConcatIs
  <1>9. \A m \in Mutex : Open(s, 1, m) => Rank(m) < l
    BY <1>1 DEF Fits
  <1>10. \A m \in Mutex : held[m] = t <=> Open(s, 1, m)
    BY <1>4
  <1>14. ~Offers(r)
    BY HeadFits
  <1> HIDE DEF s, r, c, l
  <1>11. WellFormed(c) /\ \A m \in Mutex : Open(c, 1, m) <=> Open(r, 1, m)
    BY <1>1, <1>2, <1>6, <1>7, <1>8, <1>9, <1>14, BlockBefore DEF BlockAt
  <1>12. t \in Background => Above(c, 0)
    <2> SUFFICES ASSUME t \in Background PROVE Above(c, 0)
      OBVIOUS
    <2>1. BlockAt(a, 0)
      BY <1>1, <1>6, <1>7, LowerBlock
    <2> QED
      BY <1>1, <1>8, <2>1, AboveConcat DEF BlockAt
  <1>13. \A m \in Mutex : held[m] = t <=> Open(c, 1, m)
    BY <1>2, <1>10, <1>11
  <1>15. ~Offers(c)
    <2>1. Len(a) \in Nat /\ Len(r) \in Nat /\ Len(r) = Len(c) - Len(a) /\ Len(c) \in Nat
      BY <1>1, <1>7, <1>8, LenProperties DEF Concat, Suffix
    <2>2. CASE Len(a) > 0
      <3>1. c[1] = a[1]
        BY <1>8, <2>1, <2>2 DEF Concat
      <3> QED
        BY <1>7, <2>2, <3>1, BlockStarts DEF BlockAt, Offers
    <2>3. CASE Len(a) = 0
      <3>1. Len(c) = Len(r) /\ (Len(c) > 0 => c[1] = r[1])
        BY <1>8, <2>1, <2>3 DEF Concat, Suffix
      <3> QED
        BY <1>14, <3>1 DEF Offers
    <2> QED
      BY <2>1, <2>2, <2>3
  <1> QED
    BY <1>3, <1>4, <1>5, <1>11, <1>12, <1>13, <1>15, GoOnKeeps

\* A thread that acquires a mutex.
LEMMA AcquireKeeps ==
    ASSUME ThreadsInv, NEW t \in Thread, Acquire(t)
    PROVE  ThreadsInv' /\ OnlyMoves(t)
  <1> DEFINE s == todo[t]
             r == Tail(s)
             q == s[1].on
             h == [held EXCEPT ![q] = t]
  <1>0. At(t, "lock")
    BY DEF Acquire
  <1>1. /\ WellFormed(r) /\ Speaks(s[1]) /\ s[1].do = "lock" /\ Fits(s, 1)
        /\ t \in Background => Above(r, 0)
        /\ On(t) = q /\ ~Offers(r)
    BY <1>0, HeadFits
  <1>2. \A m : /\ Open(r, 1, m) <=> Open(s, 1 + 1, m)
               /\ Open(s, 1, m) <=> Unlocks(s[1], m) \/ (~Locks(s[1], m) /\ Open(s, 1 + 1, m))
    BY <1>0, HeadFits
  <1>3. held \in [Mutex -> Thread \cup {Nobody}]
    BY DEF ThreadsInv
  <1>4. \A u \in Thread, m \in Mutex : held[m] = u <=> Open(todo[u], 1, m)
    BY DEF ThreadsInv
  <1>5. GoOnWith(t, r, h) /\ held[q] = Nobody
    BY <1>1 DEF Acquire, Free
  <1>6. q \in Mutex /\ Open(s, 1 + 1, q)
    BY <1>1 DEF Speaks, Fits
  <1>7. Nobody \notin Thread
    BY DispatchAssumption
  <1>8. \A m \in Mutex : held[m] = t <=> Open(s, 1, m)
    BY <1>4
  <1>9. h \in [Mutex -> Thread \cup {Nobody}]
    BY <1>3
  <1>10. ASSUME NEW m \in Mutex PROVE h[m] = t <=> Open(r, 1, m)
    <2>1. CASE m = q
      BY <1>2, <1>3, <1>6, <2>1
    <2>2. CASE m # q
      <3>1. h[m] = held[m] /\ ~Locks(s[1], m) /\ ~Unlocks(s[1], m)
        BY <1>1, <1>3, <2>2 DEF Locks, Unlocks
      <3> QED
        BY <1>2, <1>8, <3>1
    <2> QED
      BY <2>1, <2>2
  <1>11. ASSUME NEW u \in Thread \ {t}, NEW m \in Mutex
         PROVE  h[m] = u <=> Open(todo[u], 1, m)
    <2>1. CASE m = q
      <3>1. h[m] # u /\ held[m] # u
        BY <1>3, <1>5, <1>7, <2>1
      <3> QED
        BY <1>4, <3>1
    <2>2. CASE m # q
      <3>1. h[m] = held[m]
        BY <1>3, <2>2
      <3> QED
        BY <1>4, <3>1
    <2> QED
      BY <2>1, <2>2
  <1> HIDE DEF s, r, q, h
  <1> QED
    BY <1>1, <1>5, <1>9, <1>10, <1>11, GoOnKeeps

\* A thread that holds nothing begins with the steps of a block.
LEMMA BeginKeeps ==
    ASSUME ThreadsInv, NEW t \in Thread, \A m \in Mutex : ~Open(todo[t], 1, m),
           NEW a, Block(a),
           t \in Background => Above(a, 0),
           todo' = [todo EXCEPT ![t] = a], UNCHANGED held
    PROVE  ThreadsInv' /\ OnlyMoves(t)
  <1>1. a \in Seq(AnyStep) /\ WellFormed(a) /\ \A m \in Mutex : ~Open(a, 1, m)
    BY DEF Block, WellFormed
  <1>2. todo' \in [Thread -> Seq(AnyStep)] /\ todo'[t] = a /\ OnlyMoves(t)
    BY <1>1, BlockStarts DEF ThreadsInv, OnlyMoves
  <1>3. \A u \in Thread : WellFormed(todo'[u])
    BY <1>1, <1>2 DEF ThreadsInv, OnlyMoves
  <1>4. \A u \in Thread, m \in Mutex : held'[m] = u <=> Open(todo'[u], 1, m)
    BY <1>1, <1>2 DEF ThreadsInv, OnlyMoves
  <1>5. \A b \in Background : Above(todo'[b], 0)
    <2>1. Background \subseteq Thread
      BY DEF Thread
    <2> QED
      BY <1>2, <2>1 DEF ThreadsInv, OnlyMoves
  <1> QED
    BY <1>2, <1>3, <1>4, <1>5 DEF ThreadsInv

\* Actions that take a step and put nothing in its place.
StepDone(t) ==
    \/ EnterSection(t) \/ RegisterServiceHandler(t) \/ RegisterMethodHandler(t)
    \/ SetEventHandler(t) \/ RegisterMethod(t) \/ SetProxyEvent(t)
    \/ SetAvailable(t) \/ Await(t)
    \/ StoreConfig(t) \/ OfferGroup(t) \/ DropGroup(t) \/ EraseConfig(t)
    \/ StoreClient(t) \/ AcceptSubscriber(t)
    \/ NewField(t) \/ StoreField(t) \/ Notify(t)
    \/ Start(t) \/ Halt(t) \/ Shut(t) \/ JoinThread(t) \/ Connect(t)

\* Those actions.
LEMMA StepDoneKeeps ==
    ASSUME ThreadsInv, NEW t \in Thread, StepDone(t)
    PROVE  ThreadsInv' /\ OnlyMoves(t)
  <1>1. PICK do \in {"section", "service_handler", "method_handler", "event_handler",
                 "register_method", "proxy_event", "on_service_available", "await",
                 "store_config", "offer_group", "drop_group", "erase_config",
                 "store_client", "accept", "new_field", "store_field",
                 "notify", "runtime_start", "halt", "shut", "join", "connect"} :
          At(t, do) /\ Done(t)
    BY Zenon DEF StepDone, EnterSection, RegisterServiceHandler, RegisterMethodHandler,
                      SetEventHandler, RegisterMethod, SetProxyEvent, SetAvailable, Await,
                      StoreConfig, OfferGroup, DropGroup, EraseConfig,
                      StoreClient, AcceptSubscriber, NewField, StoreField,
                      Notify, Start, Halt, Shut, JoinThread, Connect
  <1>2. do \notin {"lock", "unlock"}
    OBVIOUS
  <1> QED
    BY <1>1, <1>2, DoneKeeps

\* A handler of the user that keeps to the order.
LEMMA HandlerKeeps ==
    ASSUME HandlersKeepOrder, ThreadsInv, NEW t \in Thread, RunHandler(t)
    PROVE  ThreadsInv' /\ OnlyMoves(t)
  <1>1. At(t, "handler")
    BY DEF RunHandler
  <1> DEFINE x == Head(todo[t])
  <1>2. x.do = "handler" /\ Speaks(x) /\ On(t) = x.on
    BY <1>1, HeadFits
  <1>3. x.on \in Hook /\ Level(x) = HookLevel(x.on)
    BY <1>2 DEF Speaks, Level
  <1> HIDE DEF x
  <1>4. CASE Done(t)
    BY <1>1, <1>4, DoneKeeps
  <1>5. ASSUME NEW c \in Reentry[x.on], Replace(t, Body(c)) PROVE ThreadsInv' /\ OnlyMoves(t)
    <2>1. IsCall(c) /\ Above(Body(c), HookLevel(x.on))
      BY <1>3, <1>5, DispatchAssumption DEF HandlersKeepOrder
    <2>2. Block(Body(c))
      BY <2>1, BodyBlock
    <2>3. BlockAt(Body(c), Level(x))
      BY <1>3, <2>1, <2>2 DEF BlockAt
    <2> QED
      BY <1>1, <1>5, <2>3, ReplaceKeeps DEF x
  <1> QED
    BY <1>2, <1>4, <1>5 DEF RunHandler

\* Looking up a service, a method or an event.
LEMMA LookUpKeeps ==
    ASSUME ThreadsInv, TypeOK, NEW t \in Thread,
           \/ TestAvailable(t) \/ RouteMessage(t) \/ RouteMethod(t) \/ RouteSkeleton(t)
           \/ RouteEvent(t) \/ RouteProxy(t) \/ Stop(t)
    PROVE  ThreadsInv' /\ OnlyMoves(t)
  <1> DEFINE x == Head(todo[t])
  <1>0. ASSUME NEW do, At(t, do) PROVE x.do = do /\ Speaks(x) /\ On(t) = x.on /\ Val(t) = x.val
    BY <1>0, HeadFits
  <1>1. ASSUME NEW do, At(t, do), do \notin {"lock", "unlock", "store_config"},
               NEW a, BlockAt(a, Level(x)), Replace(t, a)
        PROVE  ThreadsInv' /\ OnlyMoves(t)
    BY <1>1, ReplaceKeeps
  <1>2. BlockAt(<<>>, Level(x))
    BY EmptyBlock
  <1> HIDE DEF x
  <1>3. CASE TestAvailable(t)
    <2> DEFINE a == IF available_ THEN CallMethod ELSE <<>>
    <2>1. At(t, "call_method") /\ Replace(t, a)
      BY <1>3 DEF TestAvailable
    <2>2. Level(x) = 3
      BY <1>0, <2>1 DEF Level
    <2>3. BlockAt(a, Level(x))
      BY <1>2, <2>2, SendBlock
    <2> HIDE DEF a
    <2> QED
      BY <1>1, <2>1, <2>3
  <1>4. CASE RouteMessage(t)
    <2> DEFINE a == IF service_handlers_ THEN HandleMessage(On(t), Val(t)) ELSE <<>>
    <2>1. At(t, "route") /\ Replace(t, a)
      BY <1>4 DEF RouteMessage
    <2>2. Level(x) = 1 /\ x.do = "route" /\ Speaks(x) /\ On(t) = x.on /\ Val(t) = x.val
      BY <1>0, <2>1 DEF Level
    <2>3. BlockAt(HandleMessage(On(t), Val(t)), 1)
      BY <2>2, HandleMessageBlock DEF Speaks
    <2>4. BlockAt(a, Level(x))
      BY <1>2, <2>2, <2>3
    <2> HIDE DEF a
    <2> QED
      BY <1>1, <2>1, <2>4
  <1>5. CASE RouteMethod(t)
    <2> DEFINE y == Under("skeleton mutex_", <<Step("skeleton", On(t), None)>>)
               a == CASE On(t) \notin method_handlers_ -> SendResponse
                      [] On(t) = SkeletonMethod -> y
                      [] OTHER -> <<Handler("method")>>
    <2>1. At(t, "method") /\ Replace(t, a)
      BY <1>5 DEF RouteMethod
    <2>2. Level(x) = 2 /\ On(t) \in Method
      <3>1. x.do = "method" /\ Speaks(x) /\ On(t) = x.on
        BY <1>0, <2>1
      <3>2. On(t) \in Method
        BY <3>1 DEF Speaks
      <3> QED
        BY <3>1, <3>2 DEF Level
    <2>3. BlockAt(SendResponse, 2)
      BY SendBlock, LowerBlock
    <2>4. BlockAt(<<Handler("method")>>, 2)
      BY HandlerSteps DEF Single
    <2>5. BlockAt(y, 2)
      BY <2>2, SkeletonUnder
    <2> HIDE DEF y
    <2>6. a \in {SendResponse, y, <<Handler("method")>>}
      OBVIOUS
    <2> HIDE DEF a
    <2>7. BlockAt(a, Level(x))
      BY <2>2, <2>3, <2>4, <2>5, <2>6
    <2> QED
      BY <1>1, <2>1, <2>7
  <1>6. CASE RouteSkeleton(t)
    <2> DEFINE b == IF On(t) \in skeleton_methods THEN <<Handler("skeleton method")>> ELSE <<>>
               a == b \o SendResponse
    <2>1. At(t, "skeleton") /\ Replace(t, a)
      BY <1>6 DEF RouteSkeleton
    <2>2. Level(x) = 3
      <3>1. x.do = "skeleton"
        BY <1>0, <2>1
      <3> QED
        BY <3>1 DEF Level
    <2>3. BlockAt(b, 3)
      BY <1>2, <2>2, HandlerSteps DEF Single
    <2> HIDE DEF b
    <2>4. BlockAt(a, Level(x))
      BY <2>2, <2>3, SendBlock, ConcatAt
    <2> HIDE DEF a
    <2> QED
      BY <1>1, <2>1, <2>4
  <1>7. CASE RouteEvent(t)
    <2> DEFINE y == Under("proxy events_mutex_", <<Step("proxy", On(t), None)>>)
               a == CASE event_handlers_[On(t)] = None -> <<>>
                      [] event_handlers_[On(t)] = "user" -> <<Handler("event")>>
                      [] event_handlers_[On(t)] = "proxy" -> y
    <2>1. At(t, "event") /\ Replace(t, a)
      BY <1>7 DEF RouteEvent
    <2>2. Level(x) = 2 /\ On(t) \in Event
      <3>1. x.do = "event" /\ Speaks(x) /\ On(t) = x.on
        BY <1>0, <2>1
      <3>2. On(t) \in Event
        BY <3>1 DEF Speaks
      <3> QED
        BY <3>1, <3>2 DEF Level
    <2>3. event_handlers_[On(t)] \in {None, "user", "proxy"}
      BY <2>2 DEF TypeOK
    <2>4. BlockAt(<<Handler("event")>>, 2)
      BY HandlerSteps DEF Single
    <2>5. BlockAt(y, 2)
      BY <2>2, ProxyUnder
    <2> HIDE DEF y
    <2>6. a \in {<<>>, y, <<Handler("event")>>}
      BY <2>3
    <2> HIDE DEF a
    <2>7. BlockAt(a, Level(x))
      BY <1>2, <2>2, <2>4, <2>5, <2>6
    <2> QED
      BY <1>1, <2>1, <2>7
  <1>8. CASE RouteProxy(t)
    <2> DEFINE a == IF On(t) \in proxy_events THEN <<Handler("proxy event")>> ELSE <<>>
    <2>1. At(t, "proxy") /\ Replace(t, a)
      BY <1>8 DEF RouteProxy
    <2>2. Level(x) = 3
      <3>1. x.do = "proxy"
        BY <1>0, <2>1
      <3> QED
        BY <3>1 DEF Level
    <2>3. BlockAt(a, Level(x))
      BY <1>2, <2>2, HandlerSteps DEF Single
    <2> HIDE DEF a
    <2> QED
      BY <1>1, <2>1, <2>3
  <1>9. CASE Stop(t)
    <2> DEFINE a == IF running_ THEN StopThreads ELSE <<>>
    <2>1. At(t, "runtime_stop") /\ Replace(t, a)
      BY <1>9 DEF Stop
    <2>2. Level(x) = -1
      BY <1>0, <2>1 DEF Level
    <2>3. BlockAt(a, Level(x))
      BY <1>2, <2>2, StopBlock
    <2> HIDE DEF a
    <2> QED
      BY <1>1, <2>1, <2>3
  <1> QED
    BY <1>3, <1>4, <1>5, <1>6, <1>7, <1>8, <1>9

\* Any step of a thread that has one to take.
LEMMA GoOnThreads ==
    ASSUME HandlersKeepOrder, ThreadsInv, TypeOK, NEW t \in Thread, GoOn(t)
    PROVE  ThreadsInv' /\ OnlyMoves(t)
  <1>1. \/ Acquire(t) \/ RunHandler(t) \/ StepDone(t)
        \/ (\/ TestAvailable(t) \/ RouteMessage(t) \/ RouteMethod(t) \/ RouteSkeleton(t)
            \/ RouteEvent(t) \/ RouteProxy(t) \/ Stop(t))
    BY DEF GoOn, StepDone
  <1> QED
    BY <1>1, AcquireKeeps, HandlerKeeps, StepDoneKeeps, LookUpKeeps

\* A user thread makes a call.
LEMMA BeginThreads ==
    ASSUME ThreadsInv, TypeOK, NEW u \in User, Begin(u)
    PROVE  ThreadsInv' /\ OnlyMoves(u)
  <1>1. PICK c \in calls[u] : todo' = [todo EXCEPT ![u] = Body(c)]
    BY DEF Begin
  <1>2. todo[u] = <<>> /\ UNCHANGED held
    BY DEF Begin
  <1>3. IsCall(c)
    BY <1>1, DispatchAssumption DEF TypeOK
  <1>4. Block(Body(c))
    BY <1>3, BodyBlock
  <1>5. u \in Thread /\ u \notin Background
    BY DispatchAssumption DEF Thread
  <1>6. \A m \in Mutex : ~Open(todo[u], 1, m)
    BY <1>2, EmptyBlock DEF BlockAt, Block
  <1> QED
    BY <1>1, <1>2, <1>4, <1>5, <1>6, BeginKeeps

\* A background thread tests its loop condition.
LEMMA LoopThreads ==
    ASSUME ThreadsInv, NEW b \in Background, LoopTest(b)
    PROVE  ThreadsInv' /\ OnlyMoves(b)
  <1>1. todo[b] = <<>> /\ UNCHANGED held /\ b \in Thread
    BY DEF LoopTest, Thread
  <1>2. CASE UNCHANGED todo
    BY <1>1, <1>2 DEF ThreadsInv, OnlyMoves, Offers
  <1>3. CASE todo' = [todo EXCEPT ![b] = <<Step("block", None, None)>>]
    <2>1. None \in Thing
      BY Things, Zenon
    <2>2. "block" \in Deed /\ "block" \notin {"lock", "unlock"} \cup ConfigSteps
      BY DEF Deed, ConfigSteps
    <2>3. Speaks(Step("block", None, None)) /\ Level(Step("block", None, None)) = 0
      BY <2>1, <2>2, StepIs DEF Speaks, Level
    <2>4. BlockAt(<<Step("block", None, None)>>, 0)
      BY <2>1, <2>2, <2>3, OneStep
    <2>5. \A m \in Mutex : ~Open(todo[b], 1, m)
      BY <1>1, EmptyBlock DEF BlockAt, Block
    <2> QED
      BY <1>1, <1>3, <2>4, <2>5, BeginKeeps DEF BlockAt
  <1> QED
    BY <1>2, <1>3 DEF LoopTest

\* A background thread that was blocked goes on.
LEMMA BlockedThreads ==
    ASSUME ThreadsInv, NEW b \in Background, At(b, "block"),
           NEW a, NEW l \in Int, 0 <= l, BlockAt(a, l), Replace(b, a)
    PROVE  ThreadsInv' /\ OnlyMoves(b)
  <1>1. b \in Thread
    BY DEF Thread
  <1>2. Head(todo[b]).do = "block"
    BY <1>1, HeadFits
  <1>3. Level(Head(todo[b])) = 0
    BY <1>2 DEF Level
  <1>4. BlockAt(a, 0)
    BY LowerBlock
  <1>5. BlockAt(a, Level(Head(todo[b])))
    BY <1>3, <1>4
  <1> QED
    BY <1>1, <1>5, ReplaceKeeps

\* A message arrives, or the thread wakes up.
LEMMA WakeThreads ==
    ASSUME ThreadsInv, NEW b \in Background,
           Wake(b) \/ \E m \in Arrivals : Receive(b, m[1], m[2])
    PROVE  ThreadsInv' /\ OnlyMoves(b)
  <1>1. CASE Wake(b)
    <2> DEFINE a == IF b = SdWorker /\ b \in told THEN Round ELSE <<>>
    <2>1. At(b, "block") /\ Replace(b, a)
      BY <1>1 DEF Wake
    <2>2. BlockAt(a, 5)
      BY RoundBlock, EmptyBlock
    <2> HIDE DEF a
    <2> QED
      BY <2>1, <2>2, BlockedThreads
  <1>2. ASSUME NEW m \in Arrivals, Receive(b, m[1], m[2])
        PROVE  ThreadsInv' /\ OnlyMoves(b)
    <2> DEFINE kind == m[1]
               id == m[2]
    <2>1. /\ At(b, "block")
          /\ \/ Replace(b, Route(kind, id))
             \/ kind \in {"request", "response", "event"} /\ Replace(b, RouteToService(kind, id))
      BY <1>2 DEF Receive
    <2>2. IsArrival(m)
      BY DispatchAssumption
    <2>3. IsArrival(<<kind, id>>)
      BY <2>2 DEF IsArrival
    <2> HIDE DEF kind, id
    <2>4. BlockAt(Route(kind, id), 0)
      BY <2>3, RouteBlock
    <2>5. kind \in {"request", "response", "event"} => BlockAt(RouteToService(kind, id), 0)
      BY <2>3, RouteToServiceBlock DEF IsArrival
    <2> QED
      BY <2>1, <2>4, <2>5, BlockedThreads
  <1> QED
    BY <1>1, <1>2

\* The TCP receive thread ends when the peer closes the connection.
LEMMA PeerClosesThreads ==
    ASSUME ThreadsInv, PeerCloses
    PROVE  ThreadsInv' /\ OnlyMoves(TcpReceiver)
  <1> DEFINE t == TcpReceiver
             s == todo[t]
  <1>1. t \in Thread /\ At(t, "block")
    BY DEF PeerCloses, Thread, Background
  <1>2. s[1].do = "block" /\ Fits(s, 1)
    BY <1>1, HeadFits
  <1>3. Level(s[1]) = 0
    BY <1>2 DEF Level
  <1>4. \A m \in Mutex : ~Open(s, 1, m)
    BY <1>2, <1>3, RankType DEF Fits
  <1>5. Block(<<>>) /\ Above(<<>>, 0)
    BY EmptyBlock DEF BlockAt
  <1>6. todo' = [todo EXCEPT ![t] = <<>>] /\ UNCHANGED held
    BY DEF PeerCloses
  <1> QED
    BY <1>1, <1>4, <1>5, <1>6, BeginKeeps

-----------------------------------------------------------------------------
(* Types.                                                                  *)

\* What TypeOK says of the threads follows from ThreadsInv.
LEMMA TypesFrom ==
    ASSUME ThreadsInv, Tables
    PROVE  TypeOK
  <1>1. /\ held \in [Mutex -> Thread \cup {Nobody}]
        /\ DOMAIN todo = Thread
    BY DEF ThreadsInv
  <1>2. ASSUME NEW t \in Thread, NEW i \in DOMAIN todo[t]
        PROVE  DOMAIN todo[t][i] = {"do", "on", "val"}
    <2> DEFINE s == todo[t]
    <2>1. s \in Seq(AnyStep)
      BY DEF ThreadsInv
    <2> HIDE DEF s
    <2>2. DOMAIN s = 1 .. Len(s)
      BY <2>1, LenProperties
    <2>3. s[i] \in AnyStep
      BY <2>1, <2>2, ElementOfSeq DEF s
    <2>4. DOMAIN s[i] = {"do", "on", "val"}
      BY <2>3 DEF AnyStep
    <2> QED
      BY <2>4 DEF s
  <1> QED
    BY <1>1, <1>2, Zenon
    DEF TypeOK, Tables, CallTypes, LifeTypes, HandlerTypes, EventTypes, FieldTypes

\* Tables that do not change keep their types.
LEMMA TablesUnchanged ==
    /\ CallTypes /\ UNCHANGED calls => CallTypes'
    /\ LifeTypes /\ UNCHANGED life => LifeTypes'
    /\ HandlerTypes /\ UNCHANGED handlers => HandlerTypes'
    /\ EventTypes /\ UNCHANGED events => EventTypes'
    /\ FieldTypes /\ UNCHANGED fields => FieldTypes'
  BY DEF CallTypes, LifeTypes, HandlerTypes, EventTypes, FieldTypes,
         life, handlers, events, fields

\* What the first step of a thread speaks of.
LEMMA HeadSpeaks ==
    ASSUME ThreadsInv, NEW t \in Thread, NEW do, At(t, do)
    PROVE  /\ do \in {"method_handler", "register_method"} => On(t) \in Method
           /\ do \in {"store_config", "offer_group", "drop_group", "erase_config",
                      "store_client", "new_field", "event_handler",
                      "proxy_event", "store_field", "notify"} => On(t) \in Event
           /\ do \in {"store_config", "offer_group", "store_client"} => Val(t) \in Group
           /\ do \in {"drop_group", "erase_config"} => Val(t) \in Service
           /\ do = "accept" => On(t) \in Group
           /\ do \in {"store_field", "notify"} => Val(t) \in Value
           /\ do \in {"service_handler", "on_service_available", "method_handler",
                      "proxy_event"} => Val(t) \in BOOLEAN
           /\ do = "event_handler" => Val(t) \in {"user", "proxy"}
           /\ do \in {"halt", "join"} => On(t) \in Background
  <1> DEFINE x == Head(todo[t])
  <1>1. x.do = do /\ Speaks(x) /\ On(t) = x.on /\ Val(t) = x.val
    BY HeadFits
  <1> HIDE DEF x
  <1> QED
    BY <1>1, Zenon DEF Speaks

\* Steps in the tables of handlers.
LEMMA HandlerTables ==
    ASSUME ThreadsInv, HandlerTypes, NEW t \in Thread,
           \/ RegisterServiceHandler(t) \/ RegisterMethodHandler(t) \/ SetEventHandler(t)
           \/ RegisterMethod(t) \/ SetProxyEvent(t) \/ SetAvailable(t)
    PROVE  HandlerTypes' /\ UNCHANGED <<calls, life, events, fields>>
  <1>1. CASE RegisterServiceHandler(t)
    <2>1. At(t, "service_handler") /\ service_handlers_' = Val(t)
      BY <1>1 DEF RegisterServiceHandler
    <2>2. Val(t) \in BOOLEAN
      BY <2>1, HeadSpeaks
    <2> QED
      BY <1>1, <2>1, <2>2 DEF RegisterServiceHandler, HandlerTypes
  <1>2. CASE RegisterMethodHandler(t)
    <2>1. At(t, "method_handler")
      BY <1>2 DEF RegisterMethodHandler
    <2>2. On(t) \in Method
      BY <2>1, HeadSpeaks
    <2> QED
      BY <1>2, <2>2 DEF RegisterMethodHandler, HandlerTypes
  <1>3. CASE SetEventHandler(t)
    <2>1. At(t, "event_handler")
      BY <1>3 DEF SetEventHandler
    <2>2. On(t) \in Event /\ Val(t) \in {"user", "proxy"}
      BY <2>1, HeadSpeaks
    <2> QED
      BY <1>3, <2>2 DEF SetEventHandler, HandlerTypes
  <1>4. CASE RegisterMethod(t)
    <2>1. At(t, "register_method")
      BY <1>4 DEF RegisterMethod
    <2>2. On(t) \in Method
      BY <2>1, HeadSpeaks
    <2> QED
      BY <1>4, <2>2 DEF RegisterMethod, HandlerTypes
  <1>5. CASE SetProxyEvent(t)
    <2>1. At(t, "proxy_event")
      BY <1>5 DEF SetProxyEvent
    <2>2. On(t) \in Event
      BY <2>1, HeadSpeaks
    <2> QED
      BY <1>5, <2>2 DEF SetProxyEvent, HandlerTypes
  <1>6. CASE SetAvailable(t)
    <2>1. At(t, "on_service_available") /\ available_' = Val(t)
      BY <1>6 DEF SetAvailable
    <2>2. Val(t) \in BOOLEAN
      BY <2>1, HeadSpeaks
    <2> QED
      BY <1>6, <2>1, <2>2 DEF SetAvailable, HandlerTypes
  <1> QED
    BY <1>1, <1>2, <1>3, <1>4, <1>5, <1>6

\* What Forget does.
LEMMA ForgetIs ==
    ASSUME FieldTypes, NEW p
    PROVE  /\ Forget(p) \in [Field -> [Group -> Value \cup {None}]]
           /\ \A f \in Field, q \in Group :
                 Forget(p)[f][q] = IF q = p THEN None ELSE last[f][q]
  BY DEF Forget, FieldTypes

\* The eventgroup stop_offer_event drops.
LEMMA DropsGroup ==
    ASSUME ThreadsInv, EventTypes, NEW t \in Thread, At(t, "drop_group"),
           event_configs_[On(t)] # None
    PROVE  <<Val(t), event_configs_[On(t)][2]>> \in Group
  <1>1. On(t) \in Event /\ Val(t) \in Service
    BY HeadSpeaks
  <1>2. event_configs_[On(t)] \in Group
    BY <1>1 DEF EventTypes
  <1> QED
    BY <1>1, <1>2 DEF Group

\* Steps in the tables of events.
LEMMA EventTables ==
    ASSUME ThreadsInv, EventTypes, FieldTypes, NEW t \in Thread,
           \/ StoreConfig(t) \/ OfferGroup(t) \/ DropGroup(t) \/ EraseConfig(t)
           \/ StoreClient(t) \/ AcceptSubscriber(t)
    PROVE  EventTypes' /\ FieldTypes' /\ UNCHANGED <<calls, life, handlers>>
  <1>1. CASE StoreConfig(t)
    <2>1. At(t, "store_config")
      BY <1>1 DEF StoreConfig
    <2>2. On(t) \in Event /\ Val(t) \in Group
      BY <2>1, HeadSpeaks
    <2>3. EventTypes' /\ UNCHANGED <<calls, life, handlers, fields>>
      BY <1>1, <2>2 DEF StoreConfig, EventTypes
    <2> QED
      BY <2>3, TablesUnchanged
  <1>2. CASE OfferGroup(t)
    <2>1. At(t, "offer_group") /\ last' = Forget(Val(t)) /\ UNCHANGED <<fields_, alone>>
      BY <1>2 DEF OfferGroup
    <2>2. Val(t) \in Group
      BY <2>1, HeadSpeaks
    <2>3. EventTypes' /\ UNCHANGED <<calls, life, handlers>>
      BY <1>2, <2>2 DEF OfferGroup, EventTypes
    <2>4. FieldTypes'
      BY <2>1, ForgetIs DEF FieldTypes
    <2> QED
      BY <2>3, <2>4
  <1>3. CASE DropGroup(t)
    <2>1. \/ UNCHANGED last
          \/ last' = Forget(<<Val(t), event_configs_[On(t)][2]>>)
      BY <1>3 DEF DropGroup
    <2>2. EventTypes' /\ UNCHANGED <<calls, life, handlers, fields_, alone>>
      BY <1>3 DEF DropGroup, EventTypes
    <2>3. last' \in [Field -> [Group -> Value \cup {None}]]
      BY <2>1, ForgetIs DEF FieldTypes
    <2> QED
      BY <2>2, <2>3 DEF FieldTypes
  <1>4. CASE EraseConfig(t)
    <2>1. At(t, "erase_config")
      BY <1>4 DEF EraseConfig
    <2>2. On(t) \in Event
      BY <2>1, HeadSpeaks
    <2>3. EventTypes' /\ UNCHANGED <<calls, life, handlers, fields>>
      BY <1>4, <2>2 DEF EraseConfig, EventTypes
    <2> QED
      BY <2>3, TablesUnchanged
  <1>5. CASE StoreClient(t)
    <2>1. At(t, "store_client") /\ UNCHANGED <<fields_, last>>
      BY <1>5 DEF StoreClient
    <2>2. On(t) \in Event /\ Val(t) \in Group
      BY <2>1, HeadSpeaks
    <2>3. EventTypes' /\ UNCHANGED <<calls, life, handlers>>
      BY <1>5, <2>2 DEF StoreClient, EventTypes
    <2>4. alone' = [f \in Field |-> alone[f] /\ f # On(t)]
      BY <1>5 DEF StoreClient
    <2>5. alone' \in [Field -> BOOLEAN]
      BY <2>4, Zenon
    <2> QED
      BY <2>1, <2>3, <2>5 DEF FieldTypes
  <1>6. CASE AcceptSubscriber(t)
    <2>1. At(t, "accept")
      BY <1>6 DEF AcceptSubscriber
    <2>2. On(t) \in Group
      BY <2>1, HeadSpeaks
    <2>3. EventTypes' /\ UNCHANGED <<calls, life, handlers, fields>>
      BY <1>6, <2>2 DEF AcceptSubscriber, EventTypes
    <2> QED
      BY <2>3, TablesUnchanged
  <1> QED
    BY <1>1, <1>2, <1>3, <1>4, <1>5, <1>6

\* Steps in the tables of fields.
LEMMA FieldTables ==
    ASSUME ThreadsInv, FieldTypes, NEW t \in Thread,
           NewField(t) \/ StoreField(t) \/ Notify(t)
    PROVE  FieldTypes' /\ UNCHANGED <<calls, life, handlers, events>>
  <1>0. \A f : Alone(t, f) \in BOOLEAN
    BY DEF Alone
  <1>1. CASE NewField(t)
    <2>1. alone' = [alone EXCEPT ![On(t)] = Alone(t, On(t))]
      BY <1>1 DEF NewField
    <2>2. alone' \in [Field -> BOOLEAN]
      BY <1>0, <2>1, Zenon DEF FieldTypes
    <2>3. /\ fields_' \in [Field -> Value \cup {Blank, None}]
          /\ last' \in [Field -> [Group -> Value \cup {None}]]
      BY <1>1 DEF NewField, FieldTypes
    <2> QED
      BY <1>1, <2>2, <2>3 DEF NewField, FieldTypes
  <1>2. CASE StoreField(t)
    <2>1. At(t, "store_field") /\ alone' = [alone EXCEPT ![On(t)] = Alone(t, On(t))]
      BY <1>2 DEF StoreField
    <2>2. alone' \in [Field -> BOOLEAN]
      BY <1>0, <2>1, Zenon DEF FieldTypes
    <2>3. Val(t) \in Value
      BY <2>1, HeadSpeaks
    <2>4. fields_' \in [Field -> Value \cup {Blank, None}]
      BY <1>2, <2>3 DEF StoreField, FieldTypes
    <2> QED
      BY <1>2, <2>2, <2>4 DEF StoreField, FieldTypes
  <1>3. CASE Notify(t)
    <2>1. At(t, "notify")
      BY <1>3 DEF Notify
    <2>2. Val(t) \in Value
      BY <2>1, HeadSpeaks
    <2> DEFINE f == On(t)
               p == event_configs_[f]
               T == [Group -> Value \cup {None}]
    <2>3. last' = IF f \in Field /\ p \in eventgroups_
                  THEN [last EXCEPT ![f][p] = Val(t)] ELSE last
      BY <1>3 DEF Notify
    <2>4. last \in [Field -> T]
      BY DEF FieldTypes
    <2>5. last' \in [Field -> T]
      <3> HIDE DEF f, p
      <3>1. CASE f \in Field /\ p \in eventgroups_
        <4>1. last' = [last EXCEPT ![f] = [last[f] EXCEPT ![p] = Val(t)]]
          BY <2>3, <3>1
        <4>2. [last[f] EXCEPT ![p] = Val(t)] \in T
          BY <2>2, <2>4, <3>1
        <4> HIDE DEF T
        <4> QED
          BY <2>4, <4>1, <4>2
      <3> QED
        BY <2>3, <2>4, <3>1
    <2> QED
      BY <1>3, <2>5 DEF Notify, FieldTypes
  <1> QED
    BY <1>1, <1>2, <1>3

\* Starting and stopping.
LEMMA LifeTables ==
    ASSUME LifeTypes, NEW t,
           Start(t) \/ Stop(t) \/ Halt(t) \/ Connect(t) \/ LoopTest(t) \/ PeerCloses
    PROVE  LifeTypes' /\ UNCHANGED <<calls, handlers, events, fields>>
  <1>1. CASE Start(t)
    BY <1>1 DEF Start, LifeTypes, Background
  <1>2. CASE Stop(t)
    BY <1>2 DEF Stop, LifeTypes
  <1>3. CASE Halt(t)
    BY <1>3 DEF Halt, LifeTypes
  <1>4. CASE LoopTest(t)
    BY <1>4 DEF LoopTest, LifeTypes
  <1>5. CASE Connect(t)
    BY <1>5 DEF Connect, LifeTypes, Background
  <1>6. CASE PeerCloses
    BY <1>6 DEF PeerCloses, LifeTypes
  <1> QED
    BY <1>1, <1>2, <1>3, <1>4, <1>5, <1>6

\* Every step keeps the types of the tables.
LEMMA TablesStep ==
    ASSUME ThreadsInv, Tables, Next
    PROVE  Tables'
  <1>1. ASSUME UNCHANGED <<calls, life, handlers, events, fields>> PROVE Tables'
    BY <1>1, TablesUnchanged DEF Tables
  <1>2. ASSUME NEW u \in User, Begin(u) PROVE Tables'
    <2>1. PICK c \in calls[u] : calls' = [calls EXCEPT ![u] = @ \ {c}]
      BY <1>2 DEF Begin
    <2>2. UNCHANGED <<life, handlers, events, fields>>
      BY <1>2 DEF Begin
    <2>3. CallTypes'
      <3>1. PICK s \in Scenarios : \A w \in User : calls[w] \subseteq s[w]
        BY DEF Tables, CallTypes
      <3>2. DOMAIN calls = User
        BY DEF Tables, CallTypes
      <3>3. DOMAIN calls' = User /\ \A w \in User : calls'[w] \subseteq s[w]
        BY <2>1, <3>1, <3>2
      <3> QED
        BY <3>3 DEF CallTypes
    <2> QED
      BY <2>2, <2>3, TablesUnchanged DEF Tables
  <1>3. ASSUME NEW t \in Thread, GoOn(t) PROVE Tables'
    <2>1. CASE \/ Acquire(t) \/ EnterSection(t) \/ RunHandler(t) \/ TestAvailable(t)
               \/ Await(t) \/ RouteMessage(t) \/ RouteMethod(t) \/ RouteSkeleton(t)
               \/ RouteEvent(t) \/ RouteProxy(t) \/ Shut(t) \/ JoinThread(t)
      <3>1. UNCHANGED <<calls, life, handlers, events, fields>>
        BY <2>1, Zenon DEF Acquire, EnterSection, RunHandler, TestAvailable, Await,
             RouteMessage, RouteMethod, RouteSkeleton, RouteEvent, RouteProxy, Shut,
             JoinThread
      <3> QED
        BY <1>1, <3>1
    <2>2. CASE \/ RegisterServiceHandler(t) \/ RegisterMethodHandler(t) \/ SetEventHandler(t)
               \/ RegisterMethod(t) \/ SetProxyEvent(t) \/ SetAvailable(t)
      BY <2>2, HandlerTables, TablesUnchanged DEF Tables
    <2>3. CASE \/ StoreConfig(t) \/ OfferGroup(t) \/ DropGroup(t) \/ EraseConfig(t)
               \/ StoreClient(t) \/ AcceptSubscriber(t)
      BY <2>3, EventTables, TablesUnchanged DEF Tables
    <2>4. CASE NewField(t) \/ StoreField(t) \/ Notify(t)
      BY <2>4, FieldTables, TablesUnchanged DEF Tables
    <2>5. CASE Start(t) \/ Stop(t) \/ Halt(t) \/ Connect(t)
      BY <2>5, LifeTables, TablesUnchanged DEF Tables
    <2> QED
      BY <1>3, <2>1, <2>2, <2>3, <2>4, <2>5 DEF GoOn
  <1>4. ASSUME NEW b \in Background, LoopTest(b) PROVE Tables'
    BY <1>4, LifeTables, TablesUnchanged DEF Tables
  <1>5. ASSUME NEW b \in Background, Wake(b) PROVE Tables'
    BY <1>1, <1>5 DEF Wake
  <1>6. ASSUME NEW b \in Background, NEW m \in Arrivals, Receive(b, m[1], m[2]) PROVE Tables'
    BY <1>1, <1>6 DEF Receive
  <1>7. CASE PeerCloses
    BY <1>7, LifeTables, TablesUnchanged DEF Tables
  <1> QED
    BY <1>2, <1>3, <1>4, <1>5, <1>6, <1>7 DEF Next

-----------------------------------------------------------------------------
(* Offers.                                                                 *)

\* What is pending for an event stays so unless the thread takes that step.
LEMMA PendingStays ==
    ASSUME ThreadsInv, ThreadsInv', NEW t \in Thread, OnlyMoves(t), NEW e, Pending(e),
           \/ todo[t] = <<>>
           \/ todo[t][1].do \notin {"offer_group", "erase_config"}
           \/ todo[t][1].on # e
    PROVE  Pending(e)'
  <1>1. PICK u \in Thread : /\ held[Config] = u
                           /\ todo[u] # <<>>
                           /\ todo[u][1].do \in {"offer_group", "erase_config"}
                           /\ todo[u][1].on = e
    BY DEF Pending
  <1>2. u # t
    BY <1>1
  <1>3. todo'[u] = todo[u]
    BY <1>2 DEF OnlyMoves
  <1>4. Config \in Mutex
    BY DEF Config, Mutex
  <1>5. held'[Config] = u
    BY <1>1, <1>3, <1>4 DEF ThreadsInv
  <1> QED
    BY <1>1, <1>3, <1>5 DEF Pending

\* After the first of two steps that follow each other the second is pending.
LEMMA NextPending ==
    ASSUME ThreadsInv, ThreadsInv', NEW t \in Thread, NEW do, At(t, do), Done(t),
           do \in {"store_config", "drop_group"}, NEW e, e = On(t)
    PROVE  Pending(e)' /\ todo'[t][1].on = e /\ todo'[t][1].val = Val(t)
  <1> DEFINE s == todo[t]
             r == Tail(s)
             w == todo'[t]
  <1>1. do \notin {"lock", "unlock"}
    OBVIOUS
  <1>2. PICK n \in 0 .. Len(r) : /\ \A i \in 1 .. n : r[i].do = "unlock"
                                /\ Suffix(w, r, n)
    BY <1>1, DoneKeeps
  <1>3. /\ s[1].do = do /\ e = s[1].on /\ Val(t) = s[1].val /\ Fits(s, 1) /\ Suffix(r, s, 1) /\ Len(s) \in Nat
        /\ \A m : Open(r, 1, m) <=> Open(s, 1 + 1, m)
        /\ \A m : Open(s, 1, m) <=> Unlocks(s[1], m) \/ (~Locks(s[1], m) /\ Open(s, 1 + 1, m))
        /\ s \in Seq(AnyStep) /\ 1 \in 1 .. Len(s)
    BY HeadFits
  <1> DEFINE v == Val(t)
  <1>4. v = s[1].val
    BY <1>3
  <1> HIDE DEF s, r, w, v
  <1>5. /\ 1 < Len(s) /\ s[2].do \in {"offer_group", "erase_config"}
        /\ s[2].on = e /\ s[2].val = v
    <2>1. /\ 1 < Len(s)
          /\ s[2] = Step("offer_group", e, v) \/ s[2] = Step("erase_config", e, v)
      BY <1>3, <1>4 DEF Fits
    <2> QED
      BY <2>1 DEF Step
  <1>6. r[1] = s[2] /\ Len(r) \in Nat /\ Len(r) > 0
    <2>1. Len(r) = Len(s) - 1 /\ \A i \in 1 .. Len(r) : r[i] = s[1 + i]
      BY <1>3 DEF Suffix
    <2>2. 1 \in 1 .. Len(r) /\ 1 + 1 = 2
      BY <1>3, <1>5, <2>1
    <2> QED
      BY <1>3, <1>5, <2>1, <2>2
  <1>7. n = 0
    <2> SUFFICES ASSUME 1 \in 1 .. n PROVE FALSE
      BY <1>6
    <2>1. r[1].do = "unlock"
      BY <1>2
    <2> QED
      BY <1>5, <1>6, <2>1
  <1>8. w[1] = r[1] /\ Len(w) > 0
    <2>1. Len(w) = Len(r) - n /\ \A i \in 1 .. Len(w) : w[i] = r[n + i]
      BY <1>2 DEF Suffix
    <2>2. 1 \in 1 .. Len(w) /\ n + 1 = 1
      BY <1>6, <1>7, <2>1
    <2> QED
      BY <2>1, <2>2, <1>6, <1>7
  <1>9. Open(r, 1, Config)
    <2>1. Open(s, 1, Config)
      BY <1>3 DEF Fits, ConfigSteps
    <2> QED
      BY <1>3, <2>1 DEF Unlocks
  <1>10. Open(w, 1, Config)
    <2>1. 1 \in 1 .. Len(w) + 1 /\ n + 1 = 1
      <3>1. Len(w) \in Nat
        BY <1>2, LenProperties DEF Suffix
      <3> QED
        BY <1>7, <3>1
    <2> QED
      BY <1>2, <1>9, <2>1, SuffixOpen
  <1>11. held'[Config] = t
    <2>1. Config \in Mutex
      BY DEF Config, Mutex
    <2> QED
      BY <1>10, <2>1 DEF ThreadsInv, w
  <1>12. w # <<>>
    BY <1>8
  <1> QED
    BY <1>5, <1>6, <1>8, <1>11, <1>12 DEF Pending, w, v

\* Whoever takes one of these steps holds event_configs_mutex_.
LEMMA HoldsConfig ==
    ASSUME ThreadsInv, NEW t \in Thread, Open(todo[t], 1, Config)
    PROVE  held[Config] = t
  <1>1. Config \in Mutex
    BY DEF Config, Mutex
  <1> QED
    BY <1>1 DEF ThreadsInv

\* What others are about to offer is not reconfigured.
LEMMA OfferingStays ==
    ASSUME ThreadsInv, OfferingInv, NEW t \in Thread, OnlyMoves(t),
           UNCHANGED event_configs_ \/ Open(todo[t], 1, Config),
           NEW u \in Thread, u # t, Offers(todo'[u])
    PROVE  event_configs_'[todo'[u][1].on] = todo'[u][1].val
  <1> DEFINE s == todo[u]
  <1>1. todo'[u] = s
    BY DEF OnlyMoves
  <1>2. WellFormed(s) /\ s \in Seq(AnyStep)
    BY DEF ThreadsInv
  <1>3. event_configs_[s[1].on] = s[1].val
    BY <1>1 DEF OfferingInv
  <1> HIDE DEF s
  <1>4. Len(s) > 0 /\ s[1].do = "offer_group" /\ Len(s) \in Nat
    BY <1>1, <1>2, LenProperties DEF Offers
  <1>5. Fits(s, 1)
    BY <1>2, <1>4 DEF WellFormed
  <1>6. Open(s, 1, Config)
    BY <1>4, <1>5 DEF Fits, ConfigSteps
  <1>7. held[Config] = u
    BY <1>6, HoldsConfig DEF s
  <1>8. UNCHANGED event_configs_
    BY <1>7, HoldsConfig
  <1> QED
    BY <1>1, <1>3, <1>8

\* A step that leaves the configurations alone, or is not the one in front of
\* the offer of an eventgroup.
LEMMA OfferingRest ==
    ASSUME ThreadsInv, OfferingInv, NEW t \in Thread, OnlyMoves(t),
           UNCHANGED event_configs_ \/ Open(todo[t], 1, Config),
           todo[t] = <<>> \/ todo[t][1].do # "store_config"
    PROVE  OfferingInv'
  <1>1. ~Offers(todo'[t])
    BY DEF OnlyMoves
  <1>2. ASSUME NEW u \in Thread, Offers(todo'[u])
        PROVE  event_configs_'[todo'[u][1].on] = todo'[u][1].val
    BY <1>1, <1>2, OfferingStays
  <1> QED
    BY <1>2 DEF OfferingInv, Offers

\* A step that leaves the offers alone, or adds an eventgroup.
LEMMA OffersRest ==
    ASSUME ThreadsInv, ThreadsInv', OffersInv, OfferingInv, NEW t \in Thread, OnlyMoves(t),
           todo[t] = <<>> \/ todo[t][1].do \notin {"store_config", "offer_group", "erase_config"},
           UNCHANGED <<event_configs_, offered, disturbed>>, eventgroups_ \subseteq eventgroups_'
    PROVE  OffersInv' /\ OfferingInv'
  <1>1. \A e : Pending(e) => Pending(e)'
    BY PendingStays
  <1>2. OffersInv'
    BY <1>1 DEF OffersInv
  <1>3. OfferingInv'
    BY OfferingRest
  <1> QED
    BY <1>2, <1>3

\* The steps of offer_event, stop_offer_event and subscribe_event.
LEMMA OffersSteps ==
    ASSUME ThreadsInv, ThreadsInv', EventTypes, OffersInv, OfferingInv,
           NEW t \in Thread, OnlyMoves(t),
           \/ StoreConfig(t) \/ OfferGroup(t) \/ DropGroup(t) \/ EraseConfig(t)
           \/ StoreClient(t)
    PROVE  OffersInv' /\ OfferingInv'
  <1> DEFINE q == On(t)
             v == Val(t)
  <1>0. /\ event_configs_ \in [Event -> Group \cup {None}]
        /\ disturbed \subseteq offered /\ offered \subseteq Event \X Group
    BY DEF EventTypes
  <1>1. ASSUME NEW do, At(t, do)
        PROVE  /\ todo[t] # <<>> /\ todo[t][1].do = do
               /\ q = todo[t][1].on /\ v = todo[t][1].val
               /\ do \in ConfigSteps => Open(todo[t], 1, Config)
    BY <1>1, HeadFits DEF Fits
  <1>2. ASSUME NEW e, Pending(e),
               ~(todo[t] # <<>> /\ todo[t][1].do \in {"offer_group", "erase_config"}) \/ e # q,
               NEW do, At(t, do)
        PROVE  Pending(e)'
    BY <1>1, <1>2, PendingStays
  <1>3. ASSUME NEW o \in offered, o \notin disturbed
        PROVE  event_configs_[o[1]] = o[2] /\ (o[2] \in eventgroups_ \/ Pending(o[1]))
    BY <1>3 DEF OffersInv
  <1>4. CASE StoreConfig(t)
    <2>1. At(t, "store_config") /\ Done(t) /\ UNCHANGED eventgroups_
      BY <1>4 DEF StoreConfig
    <2>2. /\ event_configs_' = [event_configs_ EXCEPT ![q] = v]
          /\ offered' = offered \cup {<<q, v>>}
          /\ disturbed' = (disturbed \cup {o \in offered : o[1] = q}) \ {<<q, v>>}
      BY <1>4 DEF StoreConfig
    <2>3. q \in Event /\ v \in Group
      BY <2>1, HeadSpeaks
    <2>4. ASSUME NEW e, e = q PROVE Pending(e)'
      BY <2>1, <2>4, NextPending
    <2>5. todo[t][1].do = "store_config" /\ Open(todo[t], 1, Config)
      BY <1>1, <2>1 DEF ConfigSteps
    <2>6. todo'[t][1].on = q /\ todo'[t][1].val = v
      BY <2>1, NextPending
    <2> HIDE DEF q, v
    <2>7. ASSUME NEW o \in offered', o \notin disturbed'
          PROVE  event_configs_'[o[1]] = o[2] /\ (o[2] \in eventgroups_' \/ Pending(o[1])')
      <3>1. CASE o = <<q, v>>
        <4>1. o[1] = q /\ o[2] = v /\ event_configs_'[q] = v
          BY <1>0, <2>2, <2>3, <3>1
        <4> QED
          BY <2>4, <4>1
      <3>2. CASE o # <<q, v>>
        <4>1. o \in offered /\ o \notin disturbed /\ o[1] # q
          BY <2>2, <2>7, <3>2
        <4>2. o[1] \in Event
          BY <1>0, <4>1
        <4>3. event_configs_'[o[1]] = event_configs_[o[1]]
          BY <1>0, <2>2, <4>1, <4>2
        <4>4. Pending(o[1]) => Pending(o[1])'
          BY <1>2, <2>1, <2>5, <4>1
        <4> QED
          BY <1>3, <2>1, <4>1, <4>3, <4>4
      <3> QED
        BY <3>1, <3>2
    <2>8. event_configs_'[todo'[t][1].on] = todo'[t][1].val
      BY <1>0, <2>2, <2>3, <2>6
    <2>9. ASSUME NEW u \in Thread, Offers(todo'[u])
          PROVE  event_configs_'[todo'[u][1].on] = todo'[u][1].val
      BY <2>5, <2>8, <2>9, OfferingStays
    <2>10. OffersInv'
      BY <2>7 DEF OffersInv
    <2>11. OfferingInv'
      BY <2>9 DEF OfferingInv, Offers
    <2> QED
      BY <2>10, <2>11
  <1>5. CASE OfferGroup(t)
    <2>1. At(t, "offer_group") /\ UNCHANGED <<event_configs_, offered, disturbed>>
      BY <1>5 DEF OfferGroup
    <2>2. eventgroups_' = eventgroups_ \cup {v}
      BY <1>5 DEF OfferGroup
    <2>3. todo[t][1].do = "offer_group" /\ q = todo[t][1].on /\ v = todo[t][1].val
      BY <1>1, <2>1
    <2>4. event_configs_[q] = v
      <3>1. Len(todo[t]) > 0
        BY <2>1, HeadFits
      <3>2. Offers(todo[t])
        BY <2>3, <3>1 DEF Offers
      <3> QED
        BY <2>3, <3>2 DEF OfferingInv
    <2> HIDE DEF q, v
    <2>5. ASSUME NEW o \in offered, o \notin disturbed
          PROVE  event_configs_[o[1]] = o[2] /\ (o[2] \in eventgroups_' \/ Pending(o[1])')
      <3>1. CASE o[1] = q
        BY <1>3, <2>2, <2>4, <2>5, <3>1
      <3>2. CASE o[1] # q
        BY <1>2, <1>3, <2>1, <2>2, <2>5, <3>2
      <3> QED
        BY <3>1, <3>2
    <2>6. OffersInv'
      BY <2>1, <2>5 DEF OffersInv
    <2>7. OfferingInv'
      BY <2>1, <2>3, OfferingRest
    <2> QED
      BY <2>6, <2>7
  <1>6. CASE DropGroup(t)
    <2> DEFINE p == <<v, event_configs_[q][2]>>
    <2>1. At(t, "drop_group") /\ Done(t) /\ UNCHANGED <<event_configs_, offered>>
      BY <1>6 DEF DropGroup
    <2>2. \/ UNCHANGED <<eventgroups_, disturbed>>
          \/ /\ eventgroups_' = eventgroups_ \ {p}
             /\ disturbed' = disturbed \cup {o \in offered : o[1] # q /\ o[2] = p}
      BY <1>6 DEF DropGroup
    <2>3. ASSUME NEW e, e = q PROVE Pending(e)'
      BY <2>1, <2>3, NextPending
    <2>4. todo[t][1].do = "drop_group"
      BY <1>1, <2>1
    <2> HIDE DEF q, p
    <2>5. ASSUME NEW o \in offered, o \notin disturbed'
          PROVE  event_configs_[o[1]] = o[2] /\ (o[2] \in eventgroups_' \/ Pending(o[1])')
      <3>1. o \notin disturbed
        BY <2>2, <2>5
      <3>2. CASE o[1] = q
        BY <1>3, <2>3, <3>1, <3>2
      <3>3. CASE o[1] # q
        <4>1. o[2] \in eventgroups_ => o[2] \in eventgroups_'
          BY <2>2, <2>5, <3>3
        <4>2. Pending(o[1]) => Pending(o[1])'
          BY <1>2, <2>1, <2>4, <3>3
        <4> QED
          BY <1>3, <3>1, <4>1, <4>2
      <3> QED
        BY <3>2, <3>3
    <2>6. OffersInv'
      BY <2>1, <2>5 DEF OffersInv
    <2>7. OfferingInv'
      BY <2>1, <2>4, OfferingRest
    <2> QED
      BY <2>6, <2>7
  <1>7. CASE EraseConfig(t)
    <2> DEFINE W == {o \in offered : o[1] = q /\ o[2][1] = v}
    <2>1. At(t, "erase_config") /\ UNCHANGED eventgroups_
      BY <1>7 DEF EraseConfig
    <2>2. /\ event_configs_' = [event_configs_ EXCEPT ![q] = None]
          /\ offered' = offered \ W
          /\ disturbed' = (disturbed \cup {o \in offered : o[1] = q}) \ W
      BY <1>7 DEF EraseConfig
    <2>3. todo[t][1].do = "erase_config" /\ Open(todo[t], 1, Config)
      BY <1>1, <2>1 DEF ConfigSteps
    <2> HIDE DEF q, W
    <2>4. ASSUME NEW o \in offered', o \notin disturbed'
          PROVE  event_configs_'[o[1]] = o[2] /\ (o[2] \in eventgroups_' \/ Pending(o[1])')
      <3>1. o \in offered /\ o \notin disturbed /\ o[1] # q
        BY <2>2, <2>4
      <3>2. o[1] \in Event
        BY <1>0, <3>1
      <3>3. event_configs_'[o[1]] = event_configs_[o[1]]
        BY <1>0, <2>2, <3>1, <3>2
      <3>4. Pending(o[1]) => Pending(o[1])'
        BY <1>2, <2>1, <3>1
      <3> QED
        BY <1>3, <2>1, <3>1, <3>3, <3>4
    <2>5. OffersInv'
      BY <2>4 DEF OffersInv
    <2>6. OfferingInv'
      BY <2>3, OfferingRest
    <2> QED
      BY <2>5, <2>6
  <1>8. CASE StoreClient(t)
    <2>1. At(t, "store_client") /\ UNCHANGED <<eventgroups_, offered>>
      BY <1>8 DEF StoreClient
    <2>2. /\ event_configs_' = [event_configs_ EXCEPT ![q] = v]
          /\ disturbed' = disturbed \cup {o \in offered : o[1] = q /\ o[2] # v}
      BY <1>8 DEF StoreClient
    <2>3. todo[t][1].do = "store_client" /\ Open(todo[t], 1, Config)
      BY <1>1, <2>1 DEF ConfigSteps
    <2> HIDE DEF q, v
    <2>4. ASSUME NEW o \in offered, o \notin disturbed'
          PROVE  event_configs_'[o[1]] = o[2] /\ (o[2] \in eventgroups_ \/ Pending(o[1])')
      <3>1. o \notin disturbed /\ (o[1] = q => o[2] = v) /\ o[1] \in Event
        BY <1>0, <2>2, <2>4
      <3>2. event_configs_'[o[1]] = IF o[1] = q THEN v ELSE event_configs_[o[1]]
        BY <1>0, <2>2, <3>1
      <3>3. Pending(o[1]) => Pending(o[1])'
        BY <1>2, <2>1, <2>3
      <3> QED
        BY <1>3, <3>1, <3>2, <3>3
    <2>5. OffersInv'
      BY <2>1, <2>4 DEF OffersInv
    <2>6. OfferingInv'
      BY <2>3, OfferingRest
    <2> QED
      BY <2>5, <2>6
  <1> QED
    BY <1>4, <1>5, <1>6, <1>7, <1>8

\* What was sent to whom changes for eventgroups that exist, or is forgotten.
LEMMA ListsStep ==
    ASSUME ThreadsInv, EventTypes, FieldTypes, ListsInv, NEW t \in Thread,
           OfferGroup(t) \/ DropGroup(t) \/ NewField(t) \/ Notify(t)
    PROVE  ListsInv'
  <1>0. ASSUME NEW f \in Field, NEW p \in Group, p \notin eventgroups_
        PROVE  last[f][p] = None
    BY <1>0 DEF ListsInv
  <1>1. last \in [Field -> [Group -> Value \cup {None}]]
    BY DEF FieldTypes
  <1> SUFFICES ASSUME NEW f \in Field, NEW p \in Group, p \notin eventgroups_'
               PROVE  last'[f][p] = None
    BY DEF ListsInv
  <1>2. CASE OfferGroup(t)
    <2>1. eventgroups_' = eventgroups_ \cup {Val(t)} /\ last' = Forget(Val(t))
      BY <1>2 DEF OfferGroup
    <2> QED
      BY <1>0, <2>1, ForgetIs
  <1>3. CASE DropGroup(t)
    <2> DEFINE q == <<Val(t), event_configs_[On(t)][2]>>
    <2>1. \/ UNCHANGED <<eventgroups_, last>>
          \/ eventgroups_' = eventgroups_ \ {q} /\ last' = Forget(q)
      BY <1>3 DEF DropGroup
    <2> HIDE DEF q
    <2> QED
      BY <1>0, <2>1, ForgetIs
  <1>4. CASE NewField(t)
    <2>1. /\ UNCHANGED eventgroups_
          /\ last' = [last EXCEPT ![On(t)] = [g \in Group |-> None]]
      BY <1>4 DEF NewField, events
    <2>2. last'[f] = last[f] \/ last'[f] = [g \in Group |-> None]
      BY <1>1, <2>1
    <2>3. [g \in Group |-> None][p] = None
      OBVIOUS
    <2> QED
      BY <1>0, <2>1, <2>2, <2>3
  <1>5. CASE Notify(t)
    <2> DEFINE h == On(t)
               q == event_configs_[h]
    <2>1. UNCHANGED eventgroups_
      BY <1>5 DEF Notify, events
    <2>2. last' = IF h \in Field /\ q \in eventgroups_
                  THEN [last EXCEPT ![h] = [last[h] EXCEPT ![q] = Val(t)]] ELSE last
      BY <1>5 DEF Notify
    <2> HIDE DEF h, q
    <2>3. last'[f][p] = last[f][p]
      <3>1. CASE h \in Field /\ q \in eventgroups_
        <4>1. p # q
          BY <2>1, <3>1
        <4>2. [last[h] EXCEPT ![q] = Val(t)][p] = last[h][p]
          BY <1>1, <3>1, <4>1
        <4>3. last'[f] = IF f = h THEN [last[h] EXCEPT ![q] = Val(t)] ELSE last[f]
          BY <1>1, <2>2, <3>1
        <4> QED
          BY <4>2, <4>3
      <3> QED
        BY <2>2, <3>1
    <2> QED
      BY <1>0, <2>1, <2>3
  <1> QED
    BY <1>2, <1>3, <1>4, <1>5

-----------------------------------------------------------------------------
(* The invariant.                                                          *)

\* A step that has nothing to do with offers.
OffersAlone(t) ==
    /\ todo[t] = <<>> \/ todo[t][1].do \notin {"store_config", "offer_group", "erase_config"}
    /\ UNCHANGED <<event_configs_, eventgroups_, offered, disturbed>>

\* Every step keeps what was offered.
LEMMA OffersStep ==
    ASSUME HandlersKeepOrder, IInv, ThreadsInv', Next
    PROVE  OffersInv' /\ OfferingInv' /\ ListsInv'
  <1>0. ThreadsInv /\ TypeOK /\ OffersInv /\ OfferingInv /\ ListsInv
    BY TypesFrom DEF IInv
  <1>1. EventTypes /\ FieldTypes
    BY DEF IInv, Tables
  <1> DEFINE Good == OffersInv' /\ OfferingInv' /\ ListsInv'
  <1> HIDE DEF Good
  <1>2. ASSUME NEW t \in Thread, OnlyMoves(t), OffersAlone(t), UNCHANGED last \/ ListsInv'
        PROVE  Good
    <2>1. OffersInv' /\ OfferingInv'
      BY <1>0, <1>2, OffersRest DEF OffersAlone
    <2>2. ListsInv'
      BY <1>0, <1>2 DEF OffersAlone, ListsInv
    <2> QED
      BY <2>1, <2>2 DEF Good
  <1>3. ASSUME NEW t \in Thread, NEW do, At(t, do),
               do \notin {"store_config", "offer_group", "erase_config"}
        PROVE  todo[t][1].do \notin {"store_config", "offer_group", "erase_config"}
    BY <1>0, <1>3, HeadFits
  <1>4. ASSUME NEW u \in User, Begin(u) PROVE Good
    <2>1. u \in Thread /\ todo[u] = <<>> /\ UNCHANGED <<events, fields>>
      BY <1>4 DEF Thread, Begin
    <2>2. OffersAlone(u) /\ UNCHANGED last
      BY <2>1 DEF OffersAlone, events, fields
    <2> QED
      BY <1>0, <1>2, <1>4, <2>1, <2>2, BeginThreads
  <1>5. ASSUME NEW t \in Thread, GoOn(t) PROVE Good
    <2>1. OnlyMoves(t)
      BY <1>0, <1>5, GoOnThreads
    <2>2. CASE \/ StoreConfig(t) \/ OfferGroup(t) \/ DropGroup(t) \/ EraseConfig(t)
               \/ StoreClient(t)
      <3>1. OffersInv' /\ OfferingInv'
        BY <1>0, <1>1, <2>1, <2>2, OffersSteps
      <3>2. CASE OfferGroup(t) \/ DropGroup(t)
        BY <1>0, <1>1, <3>1, <3>2, ListsStep DEF Good
      <3>3. CASE StoreConfig(t) \/ EraseConfig(t) \/ StoreClient(t)
        <4>1. UNCHANGED <<eventgroups_, last>>
          BY <3>3 DEF StoreConfig, EraseConfig, StoreClient, fields
        <4>2. ListsInv'
          BY <1>0, <4>1 DEF ListsInv
        <4> QED
          BY <3>1, <4>2 DEF Good
      <3> QED
        BY <2>2, <3>2, <3>3
    <2>3. CASE AcceptSubscriber(t)
      <3>1. /\ At(t, "accept") /\ UNCHANGED <<event_configs_, offered, disturbed, last>>
            /\ eventgroups_ \subseteq eventgroups_'
        BY <2>3 DEF AcceptSubscriber, fields
      <3>2. todo[t][1].do \notin {"store_config", "offer_group", "erase_config"}
        BY <1>3, <3>1
      <3>3. OffersInv' /\ OfferingInv'
        BY <1>0, <2>1, <3>1, <3>2, OffersRest
      <3>4. ListsInv'
        BY <1>0, <3>1 DEF ListsInv
      <3> QED
        BY <3>3, <3>4 DEF Good
    <2>4. CASE NewField(t) \/ Notify(t)
      <3>1. PICK do \in {"new_field", "notify"} : At(t, do) /\ UNCHANGED events
        BY <2>4 DEF NewField, Notify
      <3>2. todo[t][1].do \notin {"store_config", "offer_group", "erase_config"}
        BY <1>3, <3>1
      <3>3. ListsInv'
        BY <1>0, <1>1, <2>4, ListsStep
      <3>4. OffersAlone(t)
        BY <3>1, <3>2 DEF OffersAlone, events
      <3> QED
        BY <1>2, <2>1, <3>3, <3>4
    <2>5. CASE \/ Acquire(t) \/ EnterSection(t) \/ RunHandler(t)
               \/ RegisterServiceHandler(t) \/ RegisterMethodHandler(t)
               \/ SetEventHandler(t) \/ RegisterMethod(t) \/ SetProxyEvent(t)
               \/ SetAvailable(t) \/ TestAvailable(t) \/ Await(t)
               \/ RouteMessage(t) \/ RouteMethod(t) \/ RouteSkeleton(t) \/ RouteEvent(t)
               \/ RouteProxy(t) \/ StoreField(t)
               \/ Start(t) \/ Stop(t) \/ Halt(t) \/ Shut(t) \/ JoinThread(t) \/ Connect(t)
      <3>1. PICK do \in {"lock", "section", "handler", "service_handler", "method_handler",
                        "event_handler", "register_method", "proxy_event",
                        "on_service_available", "call_method", "await", "route", "method",
                        "skeleton", "event", "proxy", "store_field",
                        "runtime_start", "runtime_stop", "halt", "shut", "join", "connect"} :
                At(t, do) /\ UNCHANGED <<events, last>>
        BY <2>5, Zenon DEF Acquire, EnterSection, RunHandler,
             RegisterServiceHandler, RegisterMethodHandler, SetEventHandler, RegisterMethod,
             SetProxyEvent, SetAvailable, TestAvailable, Await, RouteMessage, RouteMethod,
             RouteSkeleton, RouteEvent, RouteProxy, StoreField,
             Start, Stop, Halt, Shut, JoinThread, Connect, fields
      <3>2. todo[t][1].do \notin {"store_config", "offer_group", "erase_config"}
        BY <1>3, <3>1
      <3>3. OffersAlone(t) /\ UNCHANGED last
        BY <3>1, <3>2 DEF OffersAlone, events
      <3> QED
        BY <1>2, <2>1, <3>3
    <2> QED
      BY <1>5, <2>2, <2>3, <2>4, <2>5 DEF GoOn
  <1>6. ASSUME NEW b \in Background, LoopTest(b) PROVE Good
    <2>1. b \in Thread /\ todo[b] = <<>> /\ UNCHANGED <<events, fields>>
      BY <1>6 DEF Thread, LoopTest
    <2>2. OffersAlone(b) /\ UNCHANGED last
      BY <2>1 DEF OffersAlone, events, fields
    <2> QED
      BY <1>0, <1>2, <1>6, <2>1, <2>2, LoopThreads
  <1>7. ASSUME NEW b \in Background, At(b, "block"), UNCHANGED <<events, fields>>, OnlyMoves(b)
        PROVE  Good
    <2>1. b \in Thread
      BY DEF Thread
    <2>2. todo[b][1].do \notin {"store_config", "offer_group", "erase_config"}
      BY <1>3, <1>7, <2>1
    <2>3. OffersAlone(b) /\ UNCHANGED last
      BY <1>7, <2>2 DEF OffersAlone, events, fields
    <2> QED
      BY <1>2, <1>7, <2>1, <2>3
  <1>8. ASSUME NEW b \in Background, Wake(b) PROVE Good
    <2>1. At(b, "block") /\ UNCHANGED <<events, fields>>
      BY <1>8 DEF Wake
    <2> QED
      BY <1>0, <1>7, <1>8, <2>1, WakeThreads
  <1>9. ASSUME NEW b \in Background, NEW m \in Arrivals, Receive(b, m[1], m[2]) PROVE Good
    <2>1. At(b, "block") /\ UNCHANGED <<events, fields>>
      BY <1>9 DEF Receive
    <2> QED
      BY <1>0, <1>7, <1>9, <2>1, WakeThreads
  <1>10. ASSUME PeerCloses PROVE Good
    <2>1. TcpReceiver \in Background /\ At(TcpReceiver, "block") /\ UNCHANGED <<events, fields>>
      BY <1>10 DEF PeerCloses, Background
    <2>2. OnlyMoves(TcpReceiver)
      BY <1>0, <1>10, PeerClosesThreads
    <2> QED
      BY <1>7, <2>1, <2>2
  <1>11. Good
    BY <1>4, <1>5, <1>6, <1>8, <1>9, <1>10, Zenon DEF Next
  <1> QED
    BY <1>11 DEF Good

\* The invariant holds at first.
LEMMA InitIInv == Init => IInv
  <1> SUFFICES ASSUME Init PROVE IInv
    OBVIOUS
  <1>1. ThreadsInv
    <2>1. <<>> \in Seq(AnyStep) /\ WellFormed(<<>>) /\ Above(<<>>, 0)
      BY EmptyBlock DEF BlockAt, Block, WellFormed
    <2>2. \A m \in Mutex : ~Open(<<>>, 1, m)
      BY EmptyBlock DEF BlockAt, Block
    <2>3. /\ held = [m \in Mutex |-> Nobody]
          /\ todo = [t \in Thread |-> <<>>]
      BY DEF Init
    <2>4. Nobody \notin Thread /\ Background \subseteq Thread
      BY DispatchAssumption DEF Thread
    <2>5. todo \in [Thread -> Seq(AnyStep)] /\ \A t \in Thread : todo[t] = <<>>
      BY <2>1, <2>3
    <2>6. \A m \in Mutex : held[m] = Nobody
      BY <2>3
    <2> QED
      BY <2>1, <2>2, <2>3, <2>4, <2>5, <2>6 DEF ThreadsInv
  <1>2. Tables
    <2>1. CallTypes
      <3>1. calls \in Scenarios /\ DOMAIN calls = User
        BY DispatchAssumption DEF Init
      <3> QED
        BY <3>1 DEF CallTypes
    <2>2. LifeTypes
      BY DEF Init, LifeTypes
    <2>3. HandlerTypes
      BY DEF Init, HandlerTypes
    <2>4. EventTypes
      BY DEF Init, EventTypes
    <2>5. FieldTypes
      BY DEF Init, FieldTypes
    <2> QED
      BY <2>1, <2>2, <2>3, <2>4, <2>5 DEF Tables
  <1>3. OffersInv
    BY DEF Init, OffersInv
  <1>4. OfferingInv
    <2>1. \A t \in Thread : todo[t] = <<>>
      BY DEF Init
    <2>2. Len(<<>>) = 0
      OBVIOUS
    <2> QED
      BY <2>1, <2>2 DEF OfferingInv, Offers
  <1>5. ListsInv
    BY DEF Init, ListsInv
  <1> QED
    BY <1>1, <1>2, <1>3, <1>4, <1>5 DEF IInv

\* Every step keeps the invariant.
LEMMA NextIInv ==
    ASSUME HandlersKeepOrder, IInv, [Next]_vars
    PROVE  IInv'
  <1>0. ThreadsInv /\ Tables /\ TypeOK /\ OffersInv
    BY TypesFrom DEF IInv
  <1>1. CASE Next
    <2>1. ThreadsInv'
      <3>1. ASSUME NEW u \in User, Begin(u) PROVE ThreadsInv'
        BY <1>0, <3>1, BeginThreads
      <3>2. ASSUME NEW t \in Thread, GoOn(t) PROVE ThreadsInv'
        BY <1>0, <3>2, GoOnThreads
      <3>3. ASSUME NEW b \in Background, LoopTest(b) PROVE ThreadsInv'
        BY <1>0, <3>3, LoopThreads
      <3>4. ASSUME NEW b \in Background, Wake(b) PROVE ThreadsInv'
        BY <1>0, <3>4, WakeThreads
      <3>5. ASSUME NEW b \in Background, NEW m \in Arrivals, Receive(b, m[1], m[2])
            PROVE  ThreadsInv'
        BY <1>0, <3>5, WakeThreads
      <3>6. CASE PeerCloses
        BY <1>0, <3>6, PeerClosesThreads
      <3> QED
        BY <1>1, <3>1, <3>2, <3>3, <3>4, <3>5, <3>6 DEF Next
    <2>2. Tables'
      BY <1>0, <1>1, TablesStep
    <2>3. OffersInv' /\ OfferingInv' /\ ListsInv'
      BY <1>1, <2>1, OffersStep
    <2> QED
      BY <2>1, <2>2, <2>3 DEF IInv
  <1>2. CASE UNCHANGED vars
    <2>1. ThreadsInv'
      BY <1>0, <1>2 DEF ThreadsInv, vars
    <2>2. Tables'
      BY <1>0, <1>2, TablesUnchanged DEF Tables, vars
    <2>3. OffersInv' /\ OfferingInv' /\ ListsInv'
      BY <1>2 DEF IInv, OffersInv, OfferingInv, ListsInv, Pending, Offers, vars, events, fields
    <2> QED
      BY <2>1, <2>2, <2>3 DEF IInv
  <1> QED
    BY <1>1, <1>2

-----------------------------------------------------------------------------
(* Nobody waits in a circle.                                               *)

\* A thread that needs a mutex takes a step of just that rank, so it holds only
\* mutexes of lower ranks.
LEMMA NeedsAbove ==
    ASSUME ThreadsInv, NEW t \in Thread, Needs(t) \in Mutex,
           NEW m \in Mutex, held[m] = t
    PROVE  Rank(m) < Rank(Needs(t))
  <1>1. todo[t] # <<>>
    BY DispatchAssumption DEF Needs
  <1> DEFINE do == Head(todo[t]).do
             x == todo[t][1]
  <1>2. At(t, do)
    BY <1>1 DEF At
  <1>3. x.do = do /\ On(t) = x.on /\ Head(todo[t]) = x /\ Fits(todo[t], 1)
    BY <1>2, HeadFits
  <1>4. Open(todo[t], 1, m)
    BY DEF ThreadsInv
  <1>5. None \notin Mutex
    BY DispatchAssumption
  <1>6. do # "unlock" /\ Level(x) = Rank(Needs(t))
    <2> DEFINE q == Needs(t)
    <2>1. q \in Mutex
      OBVIOUS
    <2>2. q = CASE x.do \in {"lock", "section"} -> x.on
               [] x.do = "service_handler" -> "handlers_mutex_"
               [] x.do = "method_handler" -> "methods_mutex_"
               [] x.do = "event_handler" -> "events_mutex_"
               [] x.do = "register_method" -> "skeleton mutex_"
               [] x.do = "proxy_event" -> "proxy events_mutex_"
               [] x.do = "store_field" -> "fields_mutex_"
               [] x.do \in {"offer_group", "drop_group", "notify"} -> "services_mutex_"
               [] OTHER -> None
      BY <1>1, <1>3 DEF Needs
    <2> HIDE DEF q
    <2>3. \/ x.do \in {"lock", "section"} /\ q = x.on
          \/ x.do = "service_handler" /\ q = "handlers_mutex_"
          \/ x.do = "method_handler" /\ q = "methods_mutex_"
          \/ x.do = "event_handler" /\ q = "events_mutex_"
          \/ x.do = "register_method" /\ q = "skeleton mutex_"
          \/ x.do = "proxy_event" /\ q = "proxy events_mutex_"
          \/ x.do = "store_field" /\ q = "fields_mutex_"
          \/ x.do \in {"offer_group", "drop_group", "notify"} /\ q = "services_mutex_"
      BY <1>5, <2>1, <2>2
    <2>4. x.do # "unlock" /\ Level(x) = Rank(q)
      BY <2>3, Ranks DEF Level
    <2> QED
      BY <1>3, <2>4 DEF q
  <1> QED
    BY <1>3, <1>4, <1>6 DEF Fits

\* A thread that joins another one holds no mutex.
LEMMA JoinsFree ==
    ASSUME ThreadsInv, NEW t \in Thread, At(t, "join"), NEW m \in Mutex
    PROVE  held[m] # t
  <1> SUFFICES ASSUME held[m] = t PROVE FALSE
    OBVIOUS
  <1> DEFINE x == todo[t][1]
  <1>1. x.do = "join" /\ Fits(todo[t], 1)
    BY HeadFits
  <1>2. Open(todo[t], 1, m)
    BY DEF ThreadsInv
  <1>3. Level(x) = -1
    BY <1>1 DEF Level
  <1>4. Rank(m) < Level(x)
    BY <1>1, <1>2 DEF Fits
  <1> QED
    BY <1>3, <1>4, RankType

\* Background threads join nobody.
LEMMA BackgroundJoinsNot ==
    ASSUME ThreadsInv, NEW b \in Background
    PROVE  ~At(b, "join")
  <1> SUFFICES ASSUME At(b, "join") PROVE FALSE
    OBVIOUS
  <1>1. b \in Thread
    BY DEF Thread
  <1>2. todo[b][1].do = "join" /\ 0 <= Level(todo[b][1])
    BY <1>1, HeadFits
  <1>3. Level(todo[b][1]) = -1
    BY <1>2 DEF Level
  <1> QED
    BY <1>2, <1>3

\* Of threads that wait for mutexes of each other one waits for the highest: the
\* one that holds it waits for a higher one.
LEMMA NoCircle == ThreadsInv => NoCircularWait
  <1> SUFFICES ASSUME ThreadsInv, NEW S \in SUBSET Thread, S # {},
                      \A t \in S : \E u \in S : WaitsFor(t, u)
               PROVE  FALSE
    BY DEF NoCircularWait
  <1> DEFINE OnMutex(t) == Needs(t) \in Mutex /\ held[Needs(t)] \in S
             W == {t \in S : OnMutex(t)}
             D == {6 - Rank(Needs(t)) : t \in W}
  <1>1. ASSUME NEW t \in S, t \notin W
        PROVE  At(t, "join") /\ On(t) \in S
    BY <1>1 DEF WaitsFor
  <1>2. CASE W = {}
    <2>1. PICK t \in S : TRUE
      OBVIOUS
    <2>2. At(t, "join") /\ On(t) \in S
      BY <1>1, <1>2
    <2>3. On(t) \in Background
      BY <2>2, HeadSpeaks
    <2>4. At(On(t), "join")
      BY <1>1, <1>2, <2>2
    <2> QED
      BY <2>3, <2>4, BackgroundJoinsNot
  <1>3. CASE W # {}
    <2>1. D \in SUBSET Nat /\ D # {}
      <3>1. \A t \in W : Needs(t) \in Mutex
        OBVIOUS
      <3>2. \A t \in W : 6 - Rank(Needs(t)) \in Nat
        BY <3>1, RankType
      <3> QED
        BY <1>3, <3>2
    <2>2. PICK d \in D : \A k \in D : d <= k
      <3> HIDE DEF D
      <3> QED
        BY <2>1, LeastNumber
    <2>3. PICK t \in W : d = 6 - Rank(Needs(t))
      BY <2>2
    <2> DEFINE u == held[Needs(t)]
    <2>4. Needs(t) \in Mutex /\ u \in S /\ u \in Thread
      BY <2>3
    <2>5. u \in W
      <3>1. ~At(u, "join")
        BY <2>4, JoinsFree
      <3> QED
        BY <1>1, <2>4, <3>1
    <2>6. Needs(u) \in Mutex
      BY <2>5
    <2>7. Rank(Needs(t)) < Rank(Needs(u))
      BY <2>4, <2>6, NeedsAbove
    <2>8. 6 - Rank(Needs(u)) \in D
      BY <2>5
    <2>9. d <= 6 - Rank(Needs(u))
      BY <2>2, <2>8
    <2> QED
      BY <2>3, <2>4, <2>6, <2>7, <2>9, RankType
  <1> QED
    BY <1>2, <1>3

-----------------------------------------------------------------------------
(* Theorems.                                                               *)

\* IInv is an invariant if the handlers of the users keep to the order.
LEMMA Invariance ==
    ASSUME HandlersKeepOrder
    PROVE  Spec => []IInv
  <1>1. IInv /\ [Next]_vars => IInv'
    BY NextIInv
  <1> QED
    BY <1>1, InitIInv, PTL DEF Spec

\* Tables and threads have their types: whatever users, messages and handlers
\* do, steps are about the methods, events and mutexes they should be about.
THEOREM TypeCorrect ==
    ASSUME HandlersKeepOrder
    PROVE  Spec => []TypeOK
  <1>1. IInv => TypeOK
    BY TypesFrom DEF IInv
  <1> QED
    BY <1>1, Invariance, PTL

\* Runtime, Application, ServiceSkeleton, ServiceProxy and ServiceDiscovery
\* take their mutexes in one order, and Runtime::stop joins its threads while it
\* holds none: no number of threads, calls and messages makes threads wait in a
\* circle, as long as the handlers of the users take only mutexes above the
\* ones they run under and do not stop the runtime.
THEOREM ThreadsNeverCircle ==
    ASSUME HandlersKeepOrder
    PROVE  Spec => []NoCircularWait
  <1>1. IInv => NoCircularWait
    BY NoCircle DEF IInv
  <1> QED
    BY <1>1, Invariance, PTL

\* offer_event and stop_offer_event keep event_configs_ and the eventgroups of
\* ServiceDiscovery together: while nobody is in the middle of one, an event on
\* offer is in both with the eventgroup it was offered in, whatever threads do
\* to other events and services; only the four calls OfferStands names, whose
\* keys collide with those of the offer, take it away.
THEOREM OffersHold ==
    ASSUME HandlersKeepOrder
    PROVE  Spec => []OfferStands
  <1>1. IInv => OfferStands
    <2> SUFFICES ASSUME IInv, held[Config] = Nobody PROVE
          \A o \in offered \ disturbed :
              event_configs_[o[1]] = o[2] /\ o[2] \in eventgroups_
      BY DEF OfferStands, Free, Config
    <2>1. \A e : ~Pending(e)
      BY DispatchAssumption DEF Pending
    <2> QED
      BY <2>1 DEF IInv, OffersInv
  <1> QED
    BY <1>1, Invariance, PTL

-----------------------------------------------------------------------------
(* Runtime::stop, and the values of fields.  What a thread has to do looks *)
(* at most one thing up, changes at most one field, or is what is left of  *)
(* Runtime::stop; what comes in the place of a lookup is of one of these   *)
(* kinds again.                                                            *)

\* Steps that look something up and go on with what they find.
Lookup == {"handler", "route", "method", "skeleton", "event", "proxy", "block", "call_method"}

\* Steps that change a field or tell of its value, and those of Runtime::stop.
FieldSteps == {"new_field", "store_field", "notify"}
StopSteps == {"halt", "shut", "join"}
Other == Deed \ (Lookup \cup FieldSteps \cup StopSteps \cup {"runtime_stop"})

\* At most one step of s looks something up, and none changes a field or stops
\* anything.
Lean(s) ==
    \A i, j \in 1 .. Len(s) :
        s[i].do \notin Other /\ s[j].do \notin Other => i = j /\ s[i].do \in Lookup

\* s changes at most one field: it creates it, or stores a value and notifies of
\* the same one, or has only the notification left.
Changing(s) ==
    /\ \A i \in 1 .. Len(s) :
          /\ s[i].do \in Other \cup FieldSteps
          /\ s[i].do = "store_field" =>
                /\ i + 2 <= Len(s)
                /\ s[i + 2] = Step("notify", s[i].on, s[i].val)
    /\ \A i, j \in 1 .. Len(s) : s[i].do = "notify" /\ s[j].do = "notify" => i = j
    /\ \A i, j \in 1 .. Len(s) :
          s[i].do = "new_field" => s[j].do \notin {"store_field", "notify"}

\* s is what is left of Runtime::stop.
Stopping(s) == \A i \in 1 .. Len(s) : s[i].do \in StopSteps

Kind(s) ==
    \/ Lean(s) \/ Changing(s) \/ Stopping(s)
    \/ Len(s) = 1 /\ s[1].do = "runtime_stop"

\* s has still to notify of value v, stored in f before.
Late(s, f, v) ==
    /\ \E i \in 1 .. Len(s) : s[i].do = "notify" /\ s[i].on = f /\ s[i].val = v
    /\ \A i \in 1 .. Len(s) : s[i].do # "store_field"

\* The subscribers notify_event reaches were sent the value of field f last, or
\* nothing since they were listed.
Told(f) ==
    event_configs_[f] # None /\ ~Pending(f)
        => last[f][event_configs_[f]] \in {None, fields_[f]}

\* A field that was changed by one thread at a time: only one notification is on
\* its way, and it is of the value of the field; without one the last told it.
FieldsAgree ==
    \A f \in Field : fields_[f] # None /\ alone[f] =>
        /\ \A t, u \in Thread, v, w \in Value :
              Late(todo[t], f, v) /\ Late(todo[u], f, w) => t = u
        /\ \A t \in Thread, v \in Value : Late(todo[t], f, v) => v = fields_[f]
        /\ (\A t \in Thread, v \in Value : ~Late(todo[t], f, v)) => Told(f)

\* s joins thread b.
Joins(s, b) == \E i \in 1 .. Len(s) : s[i].do = "join" /\ s[i].on = b

\* s stops thread b and joins it later.
Halts(s, b) ==
    \E i, j \in 1 .. Len(s) :
        /\ i < j
        /\ s[i].do = "halt" /\ s[i].on = b
        /\ s[j].do = "join" /\ s[j].on = b

\* A background thread runs only while the runtime does, or until the stop that
\* is under way has joined it; one that has ended does nothing.  While its
\* transport runs without the runtime, a stop is under way that ends that first.
ThreadsEnd ==
    /\ \A b \in Background \ alive : todo[b] = <<>>
    /\ \A b \in alive : running_ \/ \E u \in User : Joins(todo[u], b)
    /\ \A b \in told : running_ \/ \E u \in User : Halts(todo[u], b)

Kinds == \A t \in Thread : Kind(todo[t])

\* r is what is left of s after the unlocks at its front.
After(r, s) ==
    \E n \in 0 .. Len(s) : (\A i \in 1 .. n : s[i].do = "unlock") /\ Suffix(r, s, n)

\* How a thread goes on.
LEMMA GoOnAfter ==
    ASSUME ThreadsInv, NEW t \in Thread, NEW s \in Seq(AnyStep), NEW h, GoOnWith(t, s, h)
    PROVE  After(todo'[t], s)
  <1>1. PICK n \in 0 .. Len(s) :
           /\ \A i \in 1 .. n : s[i].do = "unlock"
           /\ todo' = [todo EXCEPT ![t] = SubSeq(s, n + 1, Len(s))]
    BY GoOnWithIs
  <1> DEFINE r == SubSeq(s, n + 1, Len(s))
  <1>2. Suffix(r, s, n)
    BY SubSeqIsSuffix
  <1> HIDE DEF r
  <1>3. todo \in [Thread -> Seq(AnyStep)] /\ todo' = [todo EXCEPT ![t] = r]
    BY <1>1 DEF ThreadsInv, r
  <1>4. todo'[t] = r
    BY <1>3
  <1> QED
    BY <1>1, <1>2, <1>4 DEF After

\* What is left of lean steps is lean,
LEMMA LeanSuffix ==
    ASSUME NEW r, NEW s, NEW n, Suffix(r, s, n), Lean(s)
    PROVE  Lean(r)
  <1>1. /\ Len(r) \in Nat /\ n \in Nat /\ Len(s) = Len(r) + n
        /\ \A k \in 1 .. Len(r) : r[k] = s[n + k]
    BY LenProperties DEF Suffix
  <1> SUFFICES ASSUME NEW i \in 1 .. Len(r), NEW j \in 1 .. Len(r),
                      r[i].do \notin Other, r[j].do \notin Other
               PROVE  i = j /\ r[i].do \in Lookup
    BY DEF Lean
  <1>2. n + i \in 1 .. Len(s) /\ n + j \in 1 .. Len(s) /\ r[i] = s[n + i] /\ r[j] = s[n + j]
    BY <1>1
  <1>3. n + i = n + j /\ s[n + i].do \in Lookup
    BY <1>2 DEF Lean
  <1> QED
    BY <1>1, <1>2, <1>3

\* A change of a field that goes on is one,
LEMMA ChangingSuffix ==
    ASSUME NEW r, NEW s, NEW n, Suffix(r, s, n), Changing(s)
    PROVE  Changing(r)
  <1>1. /\ Len(r) \in Nat /\ n \in Nat /\ Len(s) = Len(r) + n
        /\ \A k \in 1 .. Len(r) : r[k] = s[n + k]
    BY LenProperties DEF Suffix
  <1>2. \A i \in 1 .. Len(r) : n + i \in 1 .. Len(s) /\ r[i] = s[n + i]
    BY <1>1
  <1>3. ASSUME NEW i \in 1 .. Len(r)
        PROVE  /\ r[i].do \in Other \cup FieldSteps
               /\ r[i].do = "store_field" =>
                     i + 2 <= Len(r) /\ r[i + 2] = Step("notify", r[i].on, r[i].val)
    <2>1. /\ r[i].do \in Other \cup FieldSteps
          /\ r[i].do = "store_field" =>
                n + i + 2 <= Len(s) /\ s[n + i + 2] = Step("notify", r[i].on, r[i].val)
      BY <1>2 DEF Changing
    <2>2. ASSUME n + i + 2 <= Len(s) PROVE i + 2 <= Len(r) /\ r[i + 2] = s[n + i + 2]
      <3>1. i + 2 \in 1 .. Len(r) /\ n + (i + 2) = n + i + 2
        BY <1>1, <2>2
      <3> QED
        BY <1>1, <3>1
    <2> QED
      BY <2>1, <2>2
  <1>4. ASSUME NEW i \in 1 .. Len(r), NEW j \in 1 .. Len(r)
        PROVE  /\ r[i].do = "notify" /\ r[j].do = "notify" => i = j
               /\ r[i].do = "new_field" => r[j].do \notin {"store_field", "notify"}
    <2>1. /\ r[i].do = "notify" /\ r[j].do = "notify" => n + i = n + j
          /\ r[i].do = "new_field" => r[j].do \notin {"store_field", "notify"}
      BY <1>2 DEF Changing
    <2> QED
      BY <1>1, <2>1
  <1> QED
    BY <1>3, <1>4 DEF Changing

\* and so for every kind.
LEMMA KindSuffix ==
    ASSUME NEW r, NEW s, NEW n, Suffix(r, s, n), Kind(s)
    PROVE  Kind(r)
  <1>1. /\ Len(r) \in Nat /\ n \in Nat /\ Len(s) = Len(r) + n
        /\ \A k \in 1 .. Len(r) : r[k] = s[n + k]
    BY LenProperties DEF Suffix
  <1>2. \A i \in 1 .. Len(r) : n + i \in 1 .. Len(s) /\ r[i] = s[n + i]
    BY <1>1
  <1>3. Stopping(s) => Stopping(r)
    BY <1>2 DEF Stopping
  <1>4. ASSUME Len(s) = 1, s[1].do = "runtime_stop" PROVE Kind(r)
    <2>1. CASE Len(r) = 0
      BY <2>1 DEF Kind, Lean
    <2>2. CASE Len(r) # 0
      <3>1. Len(r) \in Nat /\ n \in Nat /\ Len(r) + n = 1 /\ Len(r) # 0
        BY <1>1, <1>4, <2>2
      <3>2. \A i, j \in Nat : i + j = 1 /\ i # 0 => i = 1 /\ j + 1 = 1 /\ 1 \in 1 .. i
        OBVIOUS
      <3>3. Len(r) = 1 /\ n + 1 = 1 /\ 1 \in 1 .. Len(r)
        BY <3>1, <3>2, Zenon
      <3>4. r[1] = s[1]
        BY <1>1, <3>3
      <3> QED
        BY <1>4, <3>3, <3>4 DEF Kind
    <2> QED
      BY <2>1, <2>2
  <1> QED
    BY <1>3, <1>4, LeanSuffix, ChangingSuffix DEF Kind

\* Unlocks make no difference to what is to be told,
LEMMA UnlocksLate ==
    ASSUME NEW r, NEW s, After(r, s), NEW f, NEW v
    PROVE  Late(r, f, v) <=> Late(s, f, v)
  <1>1. PICK n \in 0 .. Len(s) : (\A i \in 1 .. n : s[i].do = "unlock") /\ Suffix(r, s, n)
    BY DEF After
  <1>2. /\ Len(r) \in Nat /\ n \in Nat /\ Len(s) = Len(r) + n
        /\ \A k \in 1 .. Len(r) : r[k] = s[n + k]
    BY <1>1, LenProperties DEF Suffix
  <1>3. \A i \in 1 .. Len(r) : n + i \in 1 .. Len(s) /\ r[i] = s[n + i]
    BY <1>2
  <1>4. ASSUME NEW i \in 1 .. Len(s), s[i].do # "unlock"
        PROVE  i - n \in 1 .. Len(r) /\ r[i - n] = s[i]
    <2>1. i \notin 1 .. n
      BY <1>1, <1>4
    <2>2. i - n \in 1 .. Len(r) /\ n + (i - n) = i
      BY <1>2, <2>1
    <2> QED
      BY <1>2, <2>2
  <1>5. ASSUME Late(r, f, v) PROVE Late(s, f, v)
    <2>1. PICK i \in 1 .. Len(r) : r[i].do = "notify" /\ r[i].on = f /\ r[i].val = v
      BY <1>5 DEF Late
    <2>2. \A j \in 1 .. Len(s) : s[j].do # "store_field"
      BY <1>4, <1>5 DEF Late
    <2> QED
      BY <1>3, <2>1, <2>2 DEF Late
  <1>6. ASSUME Late(s, f, v) PROVE Late(r, f, v)
    <2>1. PICK i \in 1 .. Len(s) : s[i].do = "notify" /\ s[i].on = f /\ s[i].val = v
      BY <1>6 DEF Late
    <2>2. \A j \in 1 .. Len(r) : r[j].do # "store_field"
      BY <1>3, <1>6 DEF Late
    <2>3. i - n \in 1 .. Len(r) /\ r[i - n] = s[i]
      BY <1>4, <2>1
    <2> QED
      BY <2>1, <2>2, <2>3 DEF Late
  <1> QED
    BY <1>5, <1>6

\* nor to whom to stop and to join.
LEMMA UnlocksJoin ==
    ASSUME NEW r, NEW s, After(r, s), NEW b
    PROVE  (Joins(r, b) <=> Joins(s, b)) /\ (Halts(r, b) <=> Halts(s, b))
  <1>1. PICK n \in 0 .. Len(s) : (\A i \in 1 .. n : s[i].do = "unlock") /\ Suffix(r, s, n)
    BY DEF After
  <1>2. /\ Len(r) \in Nat /\ n \in Nat /\ Len(s) = Len(r) + n
        /\ \A k \in 1 .. Len(r) : r[k] = s[n + k]
    BY <1>1, LenProperties DEF Suffix
  <1>3. \A i \in 1 .. Len(r) : n + i \in 1 .. Len(s) /\ r[i] = s[n + i]
    BY <1>2
  <1>4. ASSUME NEW i \in 1 .. Len(s), s[i].do # "unlock"
        PROVE  i - n \in 1 .. Len(r) /\ r[i - n] = s[i]
    <2>1. i \notin 1 .. n
      BY <1>1, <1>4
    <2>2. i - n \in 1 .. Len(r) /\ n + (i - n) = i
      BY <1>2, <2>1
    <2> QED
      BY <1>2, <2>2
  <1>5. Joins(r, b) <=> Joins(s, b)
    BY <1>3, <1>4 DEF Joins
  <1>6. ASSUME Halts(r, b) PROVE Halts(s, b)
    <2>1. PICK i \in 1 .. Len(r), j \in 1 .. Len(r) :
             /\ i < j
             /\ r[i].do = "halt" /\ r[i].on = b
             /\ r[j].do = "join" /\ r[j].on = b
      BY <1>6 DEF Halts
    <2>2. n + i < n + j
      BY <1>2, <2>1
    <2> QED
      BY <1>3, <2>1, <2>2 DEF Halts
  <1>7. ASSUME Halts(s, b) PROVE Halts(r, b)
    <2>1. PICK i \in 1 .. Len(s), j \in 1 .. Len(s) :
             /\ i < j
             /\ s[i].do = "halt" /\ s[i].on = b
             /\ s[j].do = "join" /\ s[j].on = b
      BY <1>7 DEF Halts
    <2>2. i - n < j - n
      BY <1>2, <2>1
    <2> QED
      BY <1>4, <2>1, <2>2 DEF Halts
  <1> QED
    BY <1>5, <1>6, <1>7

\* Neither does a first step that is not about fields,
LEMMA TailLate ==
    ASSUME NEW s \in Seq(AnyStep), s # <<>>, Head(s).do \notin {"store_field", "notify"},
           NEW f, NEW v
    PROVE  Late(Tail(s), f, v) <=> Late(s, f, v)
  <1> DEFINE r == Tail(s)
  <1>1. Suffix(r, s, 1)
    BY TailIsSuffix
  <1>0. Head(s) = s[1]
    BY HeadTailProperties, EmptySeq
  <1> HIDE DEF r
  <1>2. /\ Len(r) \in Nat /\ Len(s) = Len(r) + 1
        /\ \A k \in 1 .. Len(r) : r[k] = s[1 + k]
    BY <1>1, LenProperties DEF Suffix
  <1>3. \A i \in 1 .. Len(r) : 1 + i \in 1 .. Len(s) /\ r[i] = s[1 + i]
    BY <1>2
  <1>4. ASSUME NEW i \in 1 .. Len(s), s[i].do \in {"store_field", "notify"}
        PROVE  i - 1 \in 1 .. Len(r) /\ r[i - 1] = s[i]
    <2>1. i # 1
      BY <1>0, <1>4
    <2>2. i - 1 \in 1 .. Len(r) /\ 1 + (i - 1) = i
      BY <1>2, <2>1
    <2> QED
      BY <1>2, <2>2
  <1>5. ASSUME Late(r, f, v) PROVE Late(s, f, v)
    <2>1. PICK i \in 1 .. Len(r) : r[i].do = "notify" /\ r[i].on = f /\ r[i].val = v
      BY <1>5 DEF Late
    <2>2. \A j \in 1 .. Len(s) : s[j].do # "store_field"
      BY <1>4, <1>5 DEF Late
    <2> QED
      BY <1>3, <2>1, <2>2 DEF Late
  <1>6. ASSUME Late(s, f, v) PROVE Late(r, f, v)
    <2>1. PICK i \in 1 .. Len(s) : s[i].do = "notify" /\ s[i].on = f /\ s[i].val = v
      BY <1>6 DEF Late
    <2>2. \A j \in 1 .. Len(r) : r[j].do # "store_field"
      BY <1>3, <1>6 DEF Late
    <2>3. i - 1 \in 1 .. Len(r) /\ r[i - 1] = s[i]
      BY <1>4, <2>1
    <2> QED
      BY <2>1, <2>2, <2>3 DEF Late
  <1> QED
    BY <1>5, <1>6 DEF r

\* or one that joins another thread.
LEMMA TailJoins ==
    ASSUME NEW s \in Seq(AnyStep), s # <<>>, NEW b, ~(Head(s).do = "join" /\ Head(s).on = b)
    PROVE  Joins(Tail(s), b) <=> Joins(s, b)
  <1> DEFINE r == Tail(s)
  <1>1. Suffix(r, s, 1)
    BY TailIsSuffix
  <1>0. Head(s) = s[1]
    BY HeadTailProperties, EmptySeq
  <1> HIDE DEF r
  <1>2. /\ Len(r) \in Nat /\ Len(s) = Len(r) + 1
        /\ \A k \in 1 .. Len(r) : r[k] = s[1 + k]
    BY <1>1, LenProperties DEF Suffix
  <1>3. Joins(r, b) => Joins(s, b)
    <2>1. \A i \in 1 .. Len(r) : 1 + i \in 1 .. Len(s) /\ r[i] = s[1 + i]
      BY <1>2
    <2> QED
      BY <2>1 DEF Joins
  <1>4. ASSUME Joins(s, b) PROVE Joins(r, b)
    <2>1. PICK i \in 1 .. Len(s) : s[i].do = "join" /\ s[i].on = b
      BY <1>4 DEF Joins
    <2>2. i # 1
      BY <1>0, <2>1
    <2>3. i - 1 \in 1 .. Len(r) /\ 1 + (i - 1) = i
      BY <1>2, <2>2
    <2>4. r[i - 1] = s[i]
      BY <1>2, <2>3
    <2> QED
      BY <2>1, <2>3, <2>4 DEF Joins
  <1> QED
    BY <1>3, <1>4 DEF r

\* or one that does not stop the thread.
LEMMA TailHalts ==
    ASSUME NEW s \in Seq(AnyStep), s # <<>>, NEW b, ~(Head(s).do = "halt" /\ Head(s).on = b)
    PROVE  Halts(Tail(s), b) <=> Halts(s, b)
  <1> DEFINE r == Tail(s)
  <1>1. Suffix(r, s, 1)
    BY TailIsSuffix
  <1>0. Head(s) = s[1]
    BY HeadTailProperties, EmptySeq
  <1> HIDE DEF r
  <1>2. /\ Len(r) \in Nat /\ Len(s) = Len(r) + 1
        /\ \A k \in 1 .. Len(r) : r[k] = s[1 + k]
    BY <1>1, LenProperties DEF Suffix
  <1>3. ASSUME Halts(r, b) PROVE Halts(s, b)
    <2>1. PICK i \in 1 .. Len(r), j \in 1 .. Len(r) :
             /\ i < j
             /\ r[i].do = "halt" /\ r[i].on = b
             /\ r[j].do = "join" /\ r[j].on = b
      BY <1>3 DEF Halts
    <2>2. /\ 1 + i \in 1 .. Len(s) /\ 1 + j \in 1 .. Len(s) /\ 1 + i < 1 + j
          /\ r[i] = s[1 + i] /\ r[j] = s[1 + j]
      BY <1>2, <2>1
    <2> QED
      BY <2>1, <2>2 DEF Halts
  <1>4. ASSUME Halts(s, b) PROVE Halts(r, b)
    <2>1. PICK i \in 1 .. Len(s), j \in 1 .. Len(s) :
             /\ i < j
             /\ s[i].do = "halt" /\ s[i].on = b
             /\ s[j].do = "join" /\ s[j].on = b
      BY <1>4 DEF Halts
    <2>2. i # 1
      BY <1>0, <2>1
    <2>3. /\ i - 1 \in 1 .. Len(r) /\ 1 + (i - 1) = i
          /\ j - 1 \in 1 .. Len(r) /\ 1 + (j - 1) = j /\ i - 1 < j - 1
      BY <1>2, <2>1, <2>2
    <2>4. r[i - 1] = s[i] /\ r[j - 1] = s[j]
      BY <1>2, <2>3
    <2> QED
      BY <2>1, <2>3, <2>4 DEF Halts
  <1> QED
    BY <1>3, <1>4 DEF r

\* Who has nobody to join has nobody to stop either.
LEMMA HaltsJoins ==
    ASSUME NEW s, NEW b, Halts(s, b)
    PROVE  Joins(s, b)
  BY DEF Halts, Joins

-----------------------------------------------------------------------------
(* What calls and messages put in front of a thread.                       *)

\* Steps of no interest here.
PlainStep == [do : Other, on : Thing, val : Thing]

\* A step of one of the sets.
LEMMA Deeds ==
    /\ Other \subseteq Deed /\ Lookup \subseteq Deed /\ Lookup \cap Other = {}
    /\ Other \cap FieldSteps = {} /\ Other \cap StopSteps = {}
    /\ Lookup \cap FieldSteps = {} /\ Lookup \cap StopSteps = {}
    /\ FieldSteps \cap StopSteps = {}
    /\ "runtime_stop" \notin Other \cup Lookup \cup FieldSteps \cup StopSteps
    /\ FieldSteps \subseteq Deed /\ StopSteps \subseteq Deed
    /\ PlainStep \subseteq AnyStep
    /\ {"lock", "unlock", "section", "await", "accept", "store_config", "offer_group",
         "drop_group", "erase_config", "store_client", "service_handler", "method_handler",
         "event_handler", "register_method", "proxy_event", "on_service_available",
         "runtime_start", "connect"} \subseteq Other
  BY DEF Other, Lookup, FieldSteps, StopSteps, Deed, PlainStep, AnyStep

\* Plain steps are lean, change no field and join nobody.
LEMMA PlainIs ==
    ASSUME NEW s \in Seq(PlainStep)
    PROVE  s \in Seq(AnyStep) /\ Lean(s) /\ \A i \in 1 .. Len(s) : s[i].do \in Other
  <1>1. s \in Seq(AnyStep)
    BY Deeds
  <1>2. \A i \in 1 .. Len(s) : s[i] \in PlainStep
    BY LenProperties
  <1>3. \A i \in 1 .. Len(s) : s[i].do \in Other
    BY <1>2 DEF PlainStep
  <1> QED
    BY <1>1, <1>3 DEF Lean

\* Plain steps after lean ones, and before them.
LEMMA LeanConcat ==
    ASSUME NEW a \in Seq(AnyStep), NEW b \in Seq(AnyStep), Lean(a), Lean(b),
           a \in Seq(PlainStep) \/ b \in Seq(PlainStep)
    PROVE  a \o b \in Seq(AnyStep) /\ Lean(a \o b)
  <1> DEFINE c == a \o b
  <1>1. Concat(c, a, b)
    BY ConcatIs
  <1> HIDE DEF c
  <1>2. /\ Len(a) \in Nat /\ Len(b) \in Nat /\ Len(c) = Len(a) + Len(b)
        /\ \A i \in 1 .. Len(a) : c[i] = a[i]
        /\ \A i \in 1 .. Len(b) : c[Len(a) + i] = b[i]
        /\ c \in Seq(AnyStep)
    BY <1>1, LenProperties DEF Concat, Suffix
  <1>3. ASSUME NEW i \in 1 .. Len(c)
        PROVE  \/ i \in 1 .. Len(a) /\ c[i] = a[i]
               \/ i - Len(a) \in 1 .. Len(b) /\ c[i] = b[i - Len(a)]
    <2>1. CASE i <= Len(a)
      BY <1>2, <2>1
    <2>2. CASE ~(i <= Len(a))
      <3>1. i - Len(a) \in 1 .. Len(b) /\ Len(a) + (i - Len(a)) = i
        BY <1>2, <2>2
      <3> QED
        BY <1>2, <3>1
    <2> QED
      BY <2>1, <2>2
  <1>4. CASE a \in Seq(PlainStep)
    <2>1. \A i \in 1 .. Len(a) : a[i].do \in Other
      BY <1>4, PlainIs
    <2> SUFFICES ASSUME NEW i \in 1 .. Len(c), NEW j \in 1 .. Len(c),
                        c[i].do \notin Other, c[j].do \notin Other
                 PROVE  i = j /\ c[i].do \in Lookup
      BY <1>2 DEF Lean, c
    <2>2. /\ i - Len(a) \in 1 .. Len(b) /\ c[i] = b[i - Len(a)]
          /\ j - Len(a) \in 1 .. Len(b) /\ c[j] = b[j - Len(a)]
      BY <1>3, <2>1
    <2>3. i - Len(a) = j - Len(a) /\ c[i].do \in Lookup
      BY <2>2 DEF Lean
    <2> QED
      BY <1>2, <2>3
  <1>5. CASE b \in Seq(PlainStep)
    <2>1. \A i \in 1 .. Len(b) : b[i].do \in Other
      BY <1>5, PlainIs
    <2> SUFFICES ASSUME NEW i \in 1 .. Len(c), NEW j \in 1 .. Len(c),
                        c[i].do \notin Other, c[j].do \notin Other
                 PROVE  i = j /\ c[i].do \in Lookup
      BY <1>2 DEF Lean, c
    <2>2. i \in 1 .. Len(a) /\ c[i] = a[i] /\ j \in 1 .. Len(a) /\ c[j] = a[j]
      BY <1>3, <2>1
    <2> QED
      BY <2>2 DEF Lean
  <1> QED
    BY <1>4, <1>5

\* Plain steps after steps that change a field.
LEMMA ChangingConcat ==
    ASSUME NEW a \in Seq(AnyStep), NEW b \in Seq(PlainStep)
    PROVE  /\ Changing(a) => Changing(a \o b)
           /\ \A f, v : Late(a \o b, f, v) <=> Late(a, f, v)
           /\ \A k : Joins(a \o b, k) <=> Joins(a, k)
  <1> DEFINE c == a \o b
  <1>1. Concat(c, a, b)
    BY ConcatIs, PlainIs
  <1>2. \A i \in 1 .. Len(b) : b[i].do \in Other
    BY PlainIs
  <1> HIDE DEF c
  <1>3. /\ Len(a) \in Nat /\ Len(b) \in Nat /\ Len(c) = Len(a) + Len(b)
        /\ \A i \in 1 .. Len(a) : c[i] = a[i]
        /\ \A i \in 1 .. Len(b) : c[Len(a) + i] = b[i]
    BY <1>1, LenProperties DEF Concat, Suffix
  <1>4. \A i \in 1 .. Len(a) : i \in 1 .. Len(c) /\ c[i] = a[i]
    BY <1>3
  <1>5. ASSUME NEW i \in 1 .. Len(c), c[i].do \notin Other
        PROVE  i \in 1 .. Len(a) /\ c[i] = a[i]
    <2>1. CASE i <= Len(a)
      BY <1>3, <2>1
    <2>2. CASE ~(i <= Len(a))
      <3>1. i - Len(a) \in 1 .. Len(b) /\ Len(a) + (i - Len(a)) = i
        BY <1>3, <2>2
      <3> QED
        BY <1>2, <1>3, <1>5, <3>1
    <2> QED
      BY <2>1, <2>2
  <1>6. "store_field" \notin Other /\ "notify" \notin Other /\ "join" \notin Other
        /\ "new_field" \notin Other
    BY DEF Other, FieldSteps, StopSteps
  <1>7. ASSUME Changing(a) PROVE Changing(c)
    <2>1. ASSUME NEW i \in 1 .. Len(c)
          PROVE  /\ c[i].do \in Other \cup FieldSteps
                 /\ c[i].do = "store_field" =>
                       i + 2 <= Len(c) /\ c[i + 2] = Step("notify", c[i].on, c[i].val)
      <3>1. CASE c[i].do \in Other
        BY <1>6, <3>1
      <3>2. CASE c[i].do \notin Other
        <4>1. i \in 1 .. Len(a) /\ c[i] = a[i]
          BY <1>5, <3>2
        <4>2. /\ a[i].do \in Other \cup FieldSteps
              /\ a[i].do = "store_field" =>
                    i + 2 <= Len(a) /\ a[i + 2] = Step("notify", a[i].on, a[i].val)
          BY <1>7, <4>1 DEF Changing
        <4>3. ASSUME i + 2 <= Len(a) PROVE i + 2 <= Len(c) /\ c[i + 2] = a[i + 2]
          <5>1. i + 2 \in 1 .. Len(a) /\ i + 2 <= Len(c)
            BY <1>3, <4>3
          <5> QED
            BY <1>3, <5>1
        <4> QED
          BY <4>1, <4>2, <4>3
      <3> QED
        BY <3>1, <3>2
    <2>2. ASSUME NEW i \in 1 .. Len(c), NEW j \in 1 .. Len(c)
          PROVE  /\ c[i].do = "notify" /\ c[j].do = "notify" => i = j
                 /\ c[i].do = "new_field" => c[j].do \notin {"store_field", "notify"}
      BY <1>5, <1>6, <1>7 DEF Changing
    <2> QED
      BY <2>1, <2>2 DEF Changing
  <1>8. \A k : Joins(c, k) <=> Joins(a, k)
    BY <1>4, <1>5, <1>6 DEF Joins
  <1>9. ASSUME NEW f, NEW v PROVE Late(c, f, v) <=> Late(a, f, v)
    <2>1. (\A i \in 1 .. Len(a) : a[i].do # "store_field")
            <=> (\A i \in 1 .. Len(c) : c[i].do # "store_field")
      BY <1>4, <1>5, <1>6
    <2>2. (\E i \in 1 .. Len(a) : a[i].do = "notify" /\ a[i].on = f /\ a[i].val = v)
            <=> (\E i \in 1 .. Len(c) : c[i].do = "notify" /\ c[i].on = f /\ c[i].val = v)
      BY <1>4, <1>5, <1>6
    <2> QED
      BY <2>1, <2>2 DEF Late
  <1> QED
    BY <1>7, <1>8, <1>9 DEF c

\* Lean steps have no field to tell of and nobody to join.
LEMMA LeanIs ==
    ASSUME NEW s, Lean(s)
    PROVE  (\A f, v : ~Late(s, f, v)) /\ (\A b : ~Joins(s, b))
  <1>1. \A i \in 1 .. Len(s) : s[i].do \in Other \cup Lookup
    BY DEF Lean
  <1>2. "notify" \notin Other \cup Lookup /\ "join" \notin Other \cup Lookup
    BY DEF Other, Lookup, FieldSteps, StopSteps
  <1> QED
    BY <1>1, <1>2 DEF Late, Joins

\* Neither has who changes a field anybody to join.
LEMMA ChangingJoins ==
    ASSUME NEW s, Changing(s), NEW b
    PROVE  ~Joins(s, b)
  <1>1. "join" \notin Other \cup FieldSteps
    BY DEF Other, FieldSteps, StopSteps
  <1> QED
    BY <1>1 DEF Changing, Joins

\* The critical sections, and what one step does.
LEMMA PlainSteps ==
    /\ \A m \in Mutex : /\ Lock(m) \in PlainStep /\ Unlock(m) \in PlainStep
                        /\ Section(m) \in PlainStep
    /\ \A do \in Other, on \in Thing, val \in Thing : Step(do, on, val) \in PlainStep
  <1>1. \A do \in Other, on \in Thing, val \in Thing : Step(do, on, val) \in PlainStep
    BY DEF Step, PlainStep
  <1>2. "lock" \in Other /\ "unlock" \in Other /\ "section" \in Other
    BY Deeds
  <1>3. None \in Thing /\ Mutex \subseteq Thing
    BY Things
  <1> QED
    BY <1>1, <1>2, <1>3 DEF Lock, Unlock, Section

\* A step that looks something up.
LEMMA LookupIs ==
    ASSUME NEW do \in Lookup, NEW on \in Thing, NEW val \in Thing
    PROVE  <<Step(do, on, val)>> \in Seq(AnyStep) /\ Lean(<<Step(do, on, val)>>)
  <1> DEFINE x == Step(do, on, val)
  <1>1. x \in AnyStep /\ x.do = do
    BY StepIs, Deeds
  <1> HIDE DEF x
  <1>2. \A i \in 1 .. Len(<<x>>) : i = 1
    OBVIOUS
  <1>3. <<x>> \in Seq(AnyStep) /\ <<x>>[1].do \in Lookup
    BY <1>1
  <1> QED
    BY <1>2, <1>3 DEF Lean, x

\* Steps under a mutex.
LEMMA UnderLean ==
    ASSUME NEW m \in Mutex, NEW s \in Seq(AnyStep), Lean(s)
    PROVE  Under(m, s) \in Seq(AnyStep) /\ Lean(Under(m, s))
  <1>1. <<Lock(m)>> \in Seq(PlainStep) /\ <<Unlock(m)>> \in Seq(PlainStep)
    BY PlainSteps
  <1> DEFINE u == <<Unlock(m)>>
             l == <<Lock(m)>>
             r == s \o u
  <1> HIDE DEF u, l
  <1>2. r \in Seq(AnyStep) /\ Lean(r)
    BY <1>1, PlainIs, LeanConcat DEF u
  <1> HIDE DEF r
  <1>3. l \o r \in Seq(AnyStep) /\ Lean(l \o r)
    BY <1>1, <1>2, PlainIs, LeanConcat DEF l
  <1> QED
    BY <1>3 DEF Under, u, l, r

\* Plain steps under a mutex.
LEMMA UnderPlain ==
    ASSUME NEW m \in Mutex, NEW s \in Seq(PlainStep)
    PROVE  Under(m, s) \in Seq(PlainStep)
  BY PlainSteps DEF Under

\* The calls that neither look anything up nor change a field.
LEMMA PlainCalls ==
    /\ \A e \in Event, p \in Group : /\ OfferEvent(e, p) \in Seq(PlainStep)
                                     /\ SubscribeEvent(e, p) \in Seq(PlainStep)
                                     /\ SkeletonOffer(e, p) \in Seq(PlainStep)
                                     /\ ProxySubscribe(e, p) \in Seq(PlainStep)
    /\ \A e \in Event, s \in Service : /\ StopOfferEvent(e, s) \in Seq(PlainStep)
                                       /\ SkeletonStopOffer(e, s) \in Seq(PlainStep)
    /\ \A e \in Event : ProxyUnsubscribe(e) \in Seq(PlainStep)
    /\ UnsubscribeEvent \in Seq(PlainStep)
    /\ SendRequest \in Seq(PlainStep)
    /\ SendRequestNoReturn \in Seq(PlainStep)
    /\ SendResponse \in Seq(PlainStep)
    /\ RegisterField \in Seq(PlainStep)
    /\ CallMethod \in Seq(PlainStep)
  <1>1. ASSUME NEW a \in Seq(PlainStep), NEW b \in Seq(PlainStep)
        PROVE  a \o b \in Seq(PlainStep)
    OBVIOUS
  <1>2. /\ "event_configs_mutex_" \in Mutex /\ "session_mutex_" \in Mutex
        /\ "requests_mutex_" \in Mutex /\ "services_mutex_" \in Mutex
        /\ "subscriptions_mutex_" \in Mutex /\ "skeleton mutex_" \in Mutex
    BY DEF Mutex
  <1>3. ASSUME NEW do \in Other, NEW on \in Thing, NEW val \in Thing
        PROVE  <<Step(do, on, val)>> \in Seq(PlainStep)
    BY PlainSteps
  <1>4. \A m \in Mutex : <<Section(m)>> \in Seq(PlainStep)
    BY PlainSteps
  <1>a. /\ \A x, y \in PlainStep : <<x, y>> \in Seq(PlainStep)
        /\ \A x \in PlainStep : <<x, x, x>> \in Seq(PlainStep)
    OBVIOUS
  <1>b. \A m \in Mutex : Section(m) \in PlainStep
    BY PlainSteps
  <1>5. /\ UnsubscribeEvent \in Seq(PlainStep) /\ SendResponse \in Seq(PlainStep)
        /\ RegisterField \in Seq(PlainStep)
    BY <1>2, <1>4, <1>a, <1>b, Zenon DEF UnsubscribeEvent, SendResponse, RegisterField
  <1>6. /\ SendRequest \in Seq(PlainStep) /\ SendRequestNoReturn \in Seq(PlainStep)
    <2>1. /\ <<Section("requests_mutex_"), Section("services_mutex_")>> \in Seq(PlainStep)
          /\ <<Section("services_mutex_")>> \in Seq(PlainStep)
      BY <1>2, <1>4, <1>a, <1>b, Zenon
    <2> QED
      BY <1>2, <2>1, UnderPlain DEF SendRequest, SendRequestNoReturn
  <1>7. CallMethod \in Seq(PlainStep)
    <2>1. "await" \in Other /\ None \in Thing
      BY Deeds, Things
    <2> QED
      BY <1>1, <1>3, <1>6, <2>1 DEF CallMethod
  <1>p. \A x \in PlainStep, y \in PlainStep : <<x, y>> \in Seq(PlainStep)
    OBVIOUS
  <1>8. ASSUME NEW e \in Event, NEW p \in Group
        PROVE  OfferEvent(e, p) \in Seq(PlainStep) /\ SubscribeEvent(e, p) \in Seq(PlainStep)
    <2>1. /\ e \in Thing /\ p \in Thing
          /\ "store_config" \in Other /\ "offer_group" \in Other /\ "store_client" \in Other
      BY Deeds, Things
    <2>2. /\ Step("store_config", e, p) \in PlainStep
          /\ Step("offer_group", e, p) \in PlainStep
          /\ Step("store_client", e, p) \in PlainStep
          /\ Section("subscriptions_mutex_") \in PlainStep
      BY <1>2, <2>1, PlainSteps
    <2> QED
      BY <1>2, <1>p, <2>2, UnderPlain DEF OfferEvent, SubscribeEvent
  <1>s. ASSUME NEW e \in Event, NEW s \in Service
        PROVE  StopOfferEvent(e, s) \in Seq(PlainStep)
    <2>1. /\ e \in Thing /\ s \in Thing
          /\ "drop_group" \in Other /\ "erase_config" \in Other
      BY Deeds, Things
    <2>2. Step("drop_group", e, s) \in PlainStep /\ Step("erase_config", e, s) \in PlainStep
      BY <2>1, PlainSteps
    <2> QED
      BY <1>2, <1>p, <2>2, UnderPlain DEF StopOfferEvent
  <1>9. /\ \A e \in Event, p \in Group : SkeletonOffer(e, p) \in Seq(PlainStep)
        /\ \A e \in Event, s \in Service : SkeletonStopOffer(e, s) \in Seq(PlainStep)
    <2>1. <<Section("services_mutex_")>> \in Seq(PlainStep)
      BY <1>2, <1>4
    <2> QED
      BY <1>1, <1>8, <1>s, <2>1 DEF SkeletonOffer, SkeletonStopOffer
  <1>10. ASSUME NEW e \in Event
         PROVE  /\ \A p \in Group : ProxySubscribe(e, p) \in Seq(PlainStep)
                /\ ProxyUnsubscribe(e) \in Seq(PlainStep)
    <2>1. /\ e \in Thing /\ TRUE \in Thing /\ FALSE \in Thing /\ "proxy" \in Thing
          /\ "proxy_event" \in Other /\ "event_handler" \in Other
      BY Deeds, Things
    <2>2. /\ Step("proxy_event", e, TRUE) \in PlainStep
          /\ Step("proxy_event", e, FALSE) \in PlainStep
          /\ Step("event_handler", e, "proxy") \in PlainStep
      BY <2>1, PlainSteps
    <2>3. /\ <<Step("proxy_event", e, TRUE), Step("event_handler", e, "proxy")>> \in Seq(PlainStep)
          /\ <<Step("proxy_event", e, FALSE)>> \in Seq(PlainStep)
      BY <1>3, <1>a, <2>1, <2>2, Zenon
    <2> QED
      BY <1>1, <1>5, <1>8, <2>3 DEF ProxySubscribe, ProxyUnsubscribe
  <1> QED
    BY <1>5, <1>6, <1>7, <1>8, <1>s, <1>9, <1>10

\* Application::notify_event and set_field_value.
LEMMA NotifyIs ==
    ASSUME NEW e \in Event, NEW v \in Value
    PROVE  /\ NotifyEvent(e, v) \in Seq(AnyStep) /\ Changing(NotifyEvent(e, v))
           /\ \A f, w : Late(NotifyEvent(e, v), f, w) => f = e
           /\ SetFieldValue(e, v) \in Seq(AnyStep) /\ Changing(SetFieldValue(e, v))
           /\ \A f, w : ~Late(SetFieldValue(e, v), f, w)
  <1> DEFINE x == Step("store_field", e, v)
             l == Lock("event_configs_mutex_")
             y == Step("notify", e, v)
             u == Unlock("event_configs_mutex_")
  <1>1. /\ "store_field" \in Deed /\ "notify" \in Deed /\ "event_configs_mutex_" \in Mutex
    BY DEF Deed, Mutex
  <1>2. e \in Thing /\ v \in Thing
    BY Things
  <1>3. /\ x \in AnyStep /\ x.do = "store_field" /\ x.on = e /\ x.val = v
        /\ y \in AnyStep /\ y.do = "notify" /\ y.on = e /\ y.val = v
    BY <1>1, <1>2, StepIs
  <1>4. l \in PlainStep /\ u \in PlainStep
    BY <1>1, PlainSteps
  <1>5. l \in AnyStep /\ u \in AnyStep /\ l.do \in Other /\ u.do \in Other
    BY <1>4, Deeds DEF PlainStep
  <1>6. NotifyEvent(e, v) = <<l>> \o (<<y>> \o <<u>>)
    BY DEF NotifyEvent, Under
  <1>7. SetFieldValue(e, v) = <<x>> \o NotifyEvent(e, v)
    BY DEF SetFieldValue
  <1>8. y = Step("notify", x.on, x.val)
    BY <1>3
  <1> HIDE DEF x, l, y, u
  <1>9. ASSUME NEW a \in AnyStep, NEW b \in Seq(AnyStep)
        PROVE  /\ <<a>> \o b \in Seq(AnyStep) /\ Len(<<a>> \o b) = Len(b) + 1
               /\ (<<a>> \o b)[1] = a
               /\ \A i \in 1 .. Len(b) : (<<a>> \o b)[i + 1] = b[i]
    BY LenProperties
  <1> DEFINE p == <<y>> \o <<u>>
             n == <<l>> \o p
             s == <<x>> \o n
  <1>10. p \in Seq(AnyStep) /\ Len(p) = 2 /\ p[1] = y /\ p[2] = u
    BY <1>3, <1>5
  <1> HIDE DEF p
  <1>a. n \in Seq(AnyStep) /\ Len(n) = 3 /\ n[1] = l /\ n[2] = y /\ n[3] = u
    <2>1. /\ n \in Seq(AnyStep) /\ Len(n) = 2 + 1 /\ n[1] = l
          /\ \A i \in 1 .. 2 : n[i + 1] = p[i]
      <3>1. /\ n \in Seq(AnyStep) /\ Len(n) = Len(p) + 1 /\ n[1] = l
            /\ \A i \in 1 .. Len(p) : n[i + 1] = p[i]
        BY <1>5, <1>9, <1>10, Zenon
      <3> HIDE DEF n
      <3> QED
        BY <1>10, <3>1
    <2> HIDE DEF n
    <2>2. n[1 + 1] = p[1] /\ n[2 + 1] = p[2]
      BY <2>1
    <2> QED
      BY <1>10, <2>1, <2>2
  <1> HIDE DEF n
  <1>b. s \in Seq(AnyStep) /\ Len(s) = 4 /\ s[1] = x /\ s[2] = l /\ s[3] = y /\ s[4] = u
    <2>1. /\ s \in Seq(AnyStep) /\ Len(s) = 3 + 1 /\ s[1] = x
          /\ \A i \in 1 .. 3 : s[i + 1] = n[i]
      <3>1. /\ s \in Seq(AnyStep) /\ Len(s) = Len(n) + 1 /\ s[1] = x
            /\ \A i \in 1 .. Len(n) : s[i + 1] = n[i]
        BY <1>3, <1>9, <1>a, Zenon
      <3> HIDE DEF s
      <3> QED
        BY <1>a, <3>1
    <2> HIDE DEF s
    <2>2. s[1 + 1] = n[1] /\ s[2 + 1] = n[2] /\ s[3 + 1] = n[3]
      BY <2>1
    <2> QED
      BY <1>a, <2>1, <2>2
  <1>11. /\ n \in Seq(AnyStep) /\ Len(n) = 3 /\ n[1] = l /\ n[2] = y /\ n[3] = u
         /\ s \in Seq(AnyStep) /\ Len(s) = 4 /\ s[1] = x /\ s[2] = l /\ s[3] = y /\ s[4] = u
    BY <1>a, <1>b
  <1>12. NotifyEvent(e, v) = n /\ SetFieldValue(e, v) = s
    BY <1>6, <1>7 DEF n, p
  <1> HIDE DEF s
  <1>13. (\A i \in 1 .. 3 : i \in {1, 2, 3}) /\ (\A i \in 1 .. 4 : i \in {1, 2, 3, 4})
         /\ 1 \in 1 .. 4
    OBVIOUS
  <1>14. /\ "store_field" \notin Other /\ "notify" \notin Other /\ "new_field" \notin Other
         /\ FieldSteps = {"new_field", "store_field", "notify"}
    BY DEF Other, FieldSteps
  <1>15. Changing(n) /\ \A f, w : Late(n, f, w) => f = e
    <2>1. \A i \in 1 .. Len(n) : n[i].do \in Other \/ i = 2
      BY <1>5, <1>11, <1>13
    <2>2. n[2].do = "notify" /\ n[2].on = e
      BY <1>3, <1>11
    <2> QED
      BY <1>14, <2>1, <2>2 DEF Changing, Late
  <1>16. Changing(s) /\ \A f, w : ~Late(s, f, w)
    <2>1. \A i \in 1 .. Len(s) : s[i].do \in Other \/ i = 1 \/ i = 3
      BY <1>5, <1>11, <1>13
    <2>2. /\ s[1].do = "store_field" /\ s[3].do = "notify"
          /\ s[1 + 2] = Step("notify", s[1].on, s[1].val) /\ 1 + 2 <= Len(s)
          /\ 1 \in 1 .. Len(s)
      BY <1>3, <1>8, <1>11, <1>13
    <2>3. ASSUME NEW i \in 1 .. Len(s)
          PROVE  /\ s[i].do \in Other \cup FieldSteps
                 /\ s[i].do = "store_field" => i = 1
                 /\ s[i].do = "notify" => i = 3
                 /\ s[i].do # "new_field"
      BY <1>14, <2>1, <2>2
    <2> QED
      BY <2>2, <2>3 DEF Changing, Late
  <1> QED
    BY <1>11, <1>12, <1>15, <1>16

\* Application::offer_field.
LEMMA OfferFieldIs ==
    ASSUME NEW e \in Event, NEW p \in Group
    PROVE  /\ OfferField(e, p) \in Seq(AnyStep) /\ Changing(OfferField(e, p))
           /\ \A f, w : ~Late(OfferField(e, p), f, w)
  <1> DEFINE New == [do : Other \cup {"new_field"}, on : Thing, val : Thing]
             s == OfferField(e, p)
  <1>1. /\ "fields_mutex_" \in Mutex /\ e \in Thing /\ None \in Thing
    BY Things DEF Mutex
  <1>2. PlainStep \subseteq New /\ New \subseteq AnyStep
    BY Deeds DEF PlainStep, AnyStep, FieldSteps
  <1>3. Step("new_field", e, None) \in New
    BY <1>1 DEF Step
  <1>4. \A x \in New : x.do \in Other \cup {"new_field"}
    OBVIOUS
  <1> HIDE DEF New
  <1>5. OfferEvent(e, p) \in Seq(New)
    BY <1>2, PlainCalls
  <1>6. Lock("fields_mutex_") \in New /\ Unlock("fields_mutex_") \in New
    BY <1>1, <1>2, PlainSteps
  <1>7. s \in Seq(New)
    BY <1>3, <1>5, <1>6 DEF OfferField, Under
  <1> HIDE DEF s
  <1>8. s \in Seq(AnyStep) /\ \A i \in 1 .. Len(s) : s[i].do \in Other \cup {"new_field"}
    BY <1>2, <1>4, <1>7, LenProperties
  <1>9. /\ "store_field" \notin Other /\ "notify" \notin Other /\ "new_field" \in FieldSteps
    BY DEF Other, FieldSteps
  <1> QED
    BY <1>8, <1>9 DEF Changing, Late, s

\* A call of the API that is one step.
LEMMA OneStepIs ==
    ASSUME NEW c, IsCall(c),
           c.do \in {"event_handler", "method_handler", "register_method", "service_handler",
                     "on_service_available", "call_method", "connect", "runtime_start"}
    PROVE  Lean(<<c>>)
  <1>1. c.do \in Lookup \cup Other
    BY Deeds DEF Lookup
  <1>2. \A i \in 1 .. Len(<<c>>) : i = 1 /\ <<c>>[i] = c
    OBVIOUS
  <1> QED
    BY <1>1, <1>2 DEF Lean

\* A call of the API looks at most one thing up, changes at most one field, or
\* stops the runtime.
LEMMA BodyIs ==
    ASSUME NEW c, IsCall(c)
    PROVE  /\ Body(c) \in Seq(AnyStep)
           /\ Kind(Body(c))
           /\ c.do # "runtime_stop" => Lean(Body(c)) \/ Changing(Body(c))
           /\ \A b : ~Joins(Body(c), b)
           /\ \A f, v : Late(Body(c), f, v) => c.do = "notify_event" /\ c.on = f
  <1>0. Body(c) \in Seq(AnyStep)
    BY BodyBlock DEF Block, WellFormed
  <1> DEFINE Fine(s) == /\ Lean(s) \/ Changing(s)
                        /\ \A f, v : Late(s, f, v) => c.do = "notify_event" /\ c.on = f
  <1>1. ASSUME Fine(Body(c))
        PROVE  /\ Kind(Body(c))
               /\ c.do # "runtime_stop" => Lean(Body(c)) \/ Changing(Body(c))
               /\ \A b : ~Joins(Body(c), b)
               /\ \A f, v : Late(Body(c), f, v) => c.do = "notify_event" /\ c.on = f
    BY <1>1, LeanIs, ChangingJoins DEF Kind
  <1>2. \A s \in Seq(PlainStep) : Fine(s)
    BY PlainIs, LeanIs
  <1>3. CASE c.do = "notify_event"
    <2>1. Body(c) = NotifyEvent(c.on, c.val) /\ c.on \in Event /\ c.val \in Value
      BY <1>3 DEF Body, IsCall
    <2> QED
      BY <1>0, <1>1, <1>3, <2>1, NotifyIs
  <1>4. CASE c.do = "set_field_value"
    <2>1. Body(c) = SetFieldValue(c.on, c.val) /\ c.on \in Event /\ c.val \in Value
      BY <1>4 DEF Body, IsCall
    <2> QED
      BY <1>0, <1>1, <2>1, NotifyIs
  <1>5. CASE c.do = "offer_field"
    <2>1. Body(c) = OfferField(c.on, c.val) /\ c.on \in Event /\ c.val \in Group
      BY <1>5 DEF Body, IsCall
    <2> QED
      BY <1>0, <1>1, <2>1, OfferFieldIs
  <1>6. CASE c.do \in {"offer_event", "stop_offer_event", "subscribe_event", "skeleton_offer",
                      "skeleton_stop_offer", "proxy_subscribe", "proxy_unsubscribe"}
    <2>1. /\ c.on \in Event
          /\ c.do \in {"offer_event", "subscribe_event", "skeleton_offer", "proxy_subscribe"}
                => c.val \in Group
          /\ c.do \in {"stop_offer_event", "skeleton_stop_offer"} => c.val \in Service
      BY <1>6 DEF IsCall
    <2>2. CASE c.do \in {"offer_event", "subscribe_event", "skeleton_offer", "proxy_subscribe"}
      <3>1. Body(c) \in {OfferEvent(c.on, c.val), SubscribeEvent(c.on, c.val),
                         SkeletonOffer(c.on, c.val), ProxySubscribe(c.on, c.val)}
        BY <2>2 DEF Body
      <3> QED
        BY <1>0, <1>1, <1>2, <2>1, <2>2, <3>1, PlainCalls
    <2>3. CASE c.do \in {"stop_offer_event", "skeleton_stop_offer"}
      <3>1. Body(c) \in {StopOfferEvent(c.on, c.val), SkeletonStopOffer(c.on, c.val)}
        BY <2>3 DEF Body
      <3> QED
        BY <1>0, <1>1, <1>2, <2>1, <2>3, <3>1, PlainCalls
    <2>4. CASE c.do = "proxy_unsubscribe"
      <3>1. Body(c) = ProxyUnsubscribe(c.on)
        BY <2>4 DEF Body
      <3> QED
        BY <1>0, <1>1, <1>2, <2>1, <3>1, PlainCalls
    <2> QED
      BY <1>6, <2>2, <2>3, <2>4
  <1>7. CASE c.do \in {"unsubscribe_event", "send_request", "send_request_no_return",
                      "send_response", "register_field"}
    <2>1. Body(c) \in {UnsubscribeEvent, SendRequest, SendRequestNoReturn, SendResponse,
                       RegisterField}
      BY <1>7 DEF Body
    <2>2. Body(c) \in Seq(PlainStep)
      BY <2>1, PlainCalls
    <2> QED
      BY <1>0, <1>1, <1>2, <2>2
  <1>8. CASE c.do \in {"event_handler", "method_handler", "register_method", "service_handler",
                      "on_service_available", "call_method", "connect", "runtime_start"}
    <2>1. Body(c) = <<c>>
      BY <1>8 DEF Body
    <2> QED
      BY <1>0, <1>1, <1>8, <2>1, OneStepIs, LeanIs
  <1>9. CASE c.do = "runtime_stop"
    <2>1. Body(c) = <<c>>
      BY <1>9 DEF Body
    <2> DEFINE s == <<c>>
    <2>2. Len(s) = 1 /\ s[1] = c /\ \A i \in 1 .. Len(s) : i = 1
      OBVIOUS
    <2> HIDE DEF s
    <2>3. Kind(s) /\ (\A b : ~Joins(s, b)) /\ \A f, v : ~Late(s, f, v)
      BY <1>9, <2>2 DEF Kind, Joins, Late
    <2> QED
      BY <1>0, <1>9, <2>1, <2>3 DEF s
  <1> QED
    BY <1>3, <1>4, <1>5, <1>6, <1>7, <1>8, <1>9 DEF IsCall

\* Handlers that keep to the order do not stop the runtime.
LEMMA HandlersGoOn ==
    ASSUME HandlersKeepOrder, NEW h \in Hook, NEW c \in Reentry[h]
    PROVE  IsCall(c) /\ c.do # "runtime_stop"
  <1>1. IsCall(c)
    BY DispatchAssumption
  <1>2. ASSUME c.do = "runtime_stop" PROVE FALSE
    <2>1. Body(c) = <<c>> /\ Level(c) = -1
      BY <1>2 DEF Body, Level
    <2>2. Above(<<c>>, HookLevel(h))
      BY <2>1 DEF HandlersKeepOrder
    <2>3. 1 \in DOMAIN <<c>> /\ <<c>>[1] = c
      OBVIOUS
    <2>4. HookLevel(h) <= -1
      BY <1>2, <2>1, <2>2, <2>3 DEF Above
    <2> QED
      BY <2>4, HookLevelType
  <1> QED
    BY <1>1, <1>2

\* What messages, the rounds of the worker and lookups put in front of a thread.
LEMMA LeanPieces ==
    /\ \A h \in Hook : <<Handler(h)>> \in Seq(AnyStep) /\ Lean(<<Handler(h)>>)
    /\ \A i \in Method : LET s == Under("skeleton mutex_", <<Step("skeleton", i, None)>>)
                        IN  s \in Seq(AnyStep) /\ Lean(s)
    /\ \A e \in Event : LET s == Under("proxy events_mutex_", <<Step("proxy", e, None)>>)
                       IN  s \in Seq(AnyStep) /\ Lean(s)
    /\ Round \in Seq(AnyStep) /\ Lean(Round)
    /\ HandleOfferService \in Seq(AnyStep) /\ Lean(HandleOfferService)
    /\ \A p \in Group : /\ HandleSubscribeEventgroup(p) \in Seq(AnyStep)
                        /\ Lean(HandleSubscribeEventgroup(p))
  <1>1. /\ "handler" \in Lookup /\ "skeleton" \in Lookup /\ "proxy" \in Lookup
        /\ "event" \in Lookup /\ "method" \in Lookup
        /\ "skeleton mutex_" \in Mutex /\ "proxy events_mutex_" \in Mutex
        /\ "services_mutex_" \in Mutex /\ "subscriptions_mutex_" \in Mutex
        /\ "expired" \in Hook /\ "available" \in Hook /\ "subscription" \in Hook
    BY DEF Lookup, Mutex, Hook
  <1>2. /\ Method \subseteq Thing /\ Event \subseteq Thing /\ Hook \subseteq Thing
        /\ None \in Thing
    BY Things
  <1>3. ASSUME NEW h \in Hook PROVE <<Handler(h)>> \in Seq(AnyStep) /\ Lean(<<Handler(h)>>)
    BY <1>1, <1>2, LookupIs DEF Handler
  <1>4. ASSUME NEW i \in Method
        PROVE  LET s == Under("skeleton mutex_", <<Step("skeleton", i, None)>>)
               IN  s \in Seq(AnyStep) /\ Lean(s)
    <2> DEFINE x == <<Step("skeleton", i, None)>>
    <2>1. x \in Seq(AnyStep) /\ Lean(x)
      BY <1>1, <1>2, LookupIs
    <2> HIDE DEF x
    <2>2. LET s == Under("skeleton mutex_", x) IN s \in Seq(AnyStep) /\ Lean(s)
      BY <1>1, <2>1, UnderLean
    <2> QED
      BY <2>2 DEF x
  <1>5. ASSUME NEW e \in Event
        PROVE  LET s == Under("proxy events_mutex_", <<Step("proxy", e, None)>>)
               IN  s \in Seq(AnyStep) /\ Lean(s)
    <2> DEFINE x == <<Step("proxy", e, None)>>
    <2>1. x \in Seq(AnyStep) /\ Lean(x)
      BY <1>1, <1>2, LookupIs
    <2> HIDE DEF x
    <2>2. LET s == Under("proxy events_mutex_", x) IN s \in Seq(AnyStep) /\ Lean(s)
      BY <1>1, <2>1, UnderLean
    <2> QED
      BY <2>2 DEF x
  <1>6. \A x \in PlainStep, y \in PlainStep : <<x, y>> \in Seq(PlainStep)
    OBVIOUS
  <1>7. \A m \in Mutex : Section(m) \in PlainStep
    BY PlainSteps
  <1>8. Round \in Seq(AnyStep) /\ Lean(Round)
    <2> DEFINE x == <<Handler("expired")>>
               a == Under("services_mutex_", x)
               b == <<Section("services_mutex_"), Section("subscriptions_mutex_")>>
    <2>1. x \in Seq(AnyStep) /\ Lean(x)
      BY <1>1, <1>3
    <2> HIDE DEF x
    <2>2. a \in Seq(AnyStep) /\ Lean(a)
      BY <1>1, <2>1, UnderLean
    <2>3. b \in Seq(PlainStep)
      BY <1>1, <1>6, <1>7, Zenon
    <2> HIDE DEF a, b
    <2>4. a \o b \in Seq(AnyStep) /\ Lean(a \o b)
      BY <2>2, <2>3, PlainIs, LeanConcat
    <2> QED
      BY <2>4 DEF Round, a, b, x
  <1>9. HandleOfferService \in Seq(AnyStep) /\ Lean(HandleOfferService)
    <2> DEFINE x == Handler("available")
               y == Section("services_mutex_")
               a == <<y>>
               b == <<x>>
    <2>1. b \in Seq(AnyStep) /\ Lean(b) /\ x \in AnyStep
      BY <1>1, <1>2, <1>3, StepIs, Deeds DEF Handler
    <2>2. a \in Seq(PlainStep) /\ y \in AnyStep
      <3>1. y \in PlainStep
        BY <1>1, <1>7
      <3> HIDE DEF y
      <3> QED
        BY <3>1, Deeds
    <2>3. HandleOfferService = <<y, x>>
      BY DEF HandleOfferService
    <2> HIDE DEF x, y
    <2>4. <<y, x>> = a \o b
      BY <2>1, <2>2, PairIs
    <2> HIDE DEF a, b
    <2>5. a \o b \in Seq(AnyStep) /\ Lean(a \o b)
      BY <2>1, <2>2, PlainIs, LeanConcat
    <2> QED
      BY <2>3, <2>4, <2>5
  <1>10. ASSUME NEW p \in Group
         PROVE  /\ HandleSubscribeEventgroup(p) \in Seq(AnyStep)
                /\ Lean(HandleSubscribeEventgroup(p))
    <2> DEFINE x == Handler("subscription")
               y == Step("accept", p, None)
               a == <<x>>
               b == <<y>>
    <2>1. a \in Seq(AnyStep) /\ Lean(a) /\ x \in AnyStep
      BY <1>1, <1>2, <1>3, StepIs, Deeds DEF Handler
    <2>2. b \in Seq(PlainStep) /\ y \in AnyStep
      <3>1. "accept" \in Other /\ p \in Thing /\ None \in Thing
        BY Deeds, Things
      <3>2. y \in PlainStep
        BY <3>1, PlainSteps
      <3> QED
        BY <3>2, Deeds
    <2>3. HandleSubscribeEventgroup(p) = Under("services_mutex_", <<x, y>>)
      BY DEF HandleSubscribeEventgroup
    <2> HIDE DEF x, y
    <2>4. <<x, y>> = a \o b
      BY <2>1, <2>2, PairIs
    <2> HIDE DEF a, b
    <2>5. a \o b \in Seq(AnyStep) /\ Lean(a \o b)
      BY <2>1, <2>2, PlainIs, LeanConcat
    <2> QED
      BY <1>1, <2>3, <2>4, <2>5, UnderLean
  <1> QED
    BY <1>3, <1>4, <1>5, <1>8, <1>9, <1>10

\* Application::handle_message.
LEMMA HandleMessageLean ==
    ASSUME NEW kind, NEW id,
           \/ kind = "event" /\ id \in Event
           \/ kind = "request" /\ id \in Method
           \/ kind = "response"
    PROVE  HandleMessage(kind, id) \in Seq(AnyStep) /\ Lean(HandleMessage(kind, id))
  <1> DEFINE q == <<Section("requests_mutex_")>>
  <1>1. /\ "requests_mutex_" \in Mutex /\ "events_mutex_" \in Mutex /\ "methods_mutex_" \in Mutex
        /\ "event" \in Lookup /\ "method" \in Lookup
    BY DEF Mutex, Lookup
  <1>2. Method \subseteq Thing /\ Event \subseteq Thing /\ None \in Thing
    BY Things
  <1>3. q \in Seq(PlainStep)
    BY <1>1, PlainSteps
  <1>4. q \in Seq(AnyStep) /\ Lean(q)
    BY <1>3, PlainIs
  <1>5. ASSUME NEW a \in Seq(AnyStep), Lean(a), HandleMessage(kind, id) = a \o q
        PROVE  HandleMessage(kind, id) \in Seq(AnyStep) /\ Lean(HandleMessage(kind, id))
    <2> HIDE DEF q
    <2>1. a \o q \in Seq(AnyStep) /\ Lean(a \o q)
      BY <1>3, <1>4, <1>5, LeanConcat
    <2> QED
      BY <1>5, <2>1
  <1>6. CASE kind = "response"
    <2>1. HandleMessage(kind, id) = q \o q
      BY <1>6 DEF HandleMessage
    <2> HIDE DEF q
    <2> QED
      BY <1>4, <1>5, <2>1
  <1>7. CASE kind = "event" /\ id \in Event
    <2> DEFINE x == <<Step("event", id, None)>>
               a == Under("events_mutex_", x)
    <2>1. HandleMessage(kind, id) = a \o q
      BY <1>7 DEF HandleMessage
    <2>2. x \in Seq(AnyStep) /\ Lean(x)
      BY <1>1, <1>2, <1>7, LookupIs
    <2> HIDE DEF x, q
    <2>3. a \in Seq(AnyStep) /\ Lean(a)
      BY <1>1, <2>2, UnderLean
    <2> HIDE DEF a
    <2> QED
      BY <1>5, <2>1, <2>3
  <1>8. CASE kind = "request" /\ id \in Method
    <2> DEFINE x == <<Step("method", id, None)>>
               a == Under("methods_mutex_", x)
    <2>1. HandleMessage(kind, id) = a \o q
      BY <1>8 DEF HandleMessage
    <2>2. x \in Seq(AnyStep) /\ Lean(x)
      BY <1>1, <1>2, <1>8, LookupIs
    <2> HIDE DEF x, q
    <2>3. a \in Seq(AnyStep) /\ Lean(a)
      BY <1>1, <2>2, UnderLean
    <2> HIDE DEF a
    <2> QED
      BY <1>5, <2>1, <2>3
  <1> QED
    BY <1>6, <1>7, <1>8

\* Runtime::on_tcp_message_received.
LEMMA RouteToServiceLean ==
    ASSUME NEW kind \in {"request", "response", "event"}, NEW id, IsArrival(<<kind, id>>)
    PROVE  RouteToService(kind, id) \in Seq(AnyStep) /\ Lean(RouteToService(kind, id))
  <1> DEFINE x == <<Step("route", kind, id)>>
  <1>1. RouteToService(kind, id) = Under("handlers_mutex_", x)
    BY DEF RouteToService
  <1>2. kind \in Thing /\ id \in Thing
    BY Things DEF IsArrival
  <1>3. "route" \in Lookup /\ "handlers_mutex_" \in Mutex
    BY DEF Lookup, Mutex
  <1>4. x \in Seq(AnyStep) /\ Lean(x)
    BY <1>2, <1>3, LookupIs
  <1> HIDE DEF x
  <1> QED
    BY <1>1, <1>3, <1>4, UnderLean

\* Runtime::on_udp_message_received.
LEMMA RouteLean ==
    ASSUME NEW kind, NEW id, IsArrival(<<kind, id>>)
    PROVE  Route(kind, id) \in Seq(AnyStep) /\ Lean(Route(kind, id))
  <1>1. CASE kind = "SD offer"
    <2>1. Route(kind, id) = HandleOfferService
      BY <1>1 DEF Route
    <2> QED
      BY <2>1, LeanPieces
  <1>2. CASE kind = "SD subscribe"
    <2>1. Route(kind, id) = HandleSubscribeEventgroup(id) /\ id \in Group
      BY <1>2 DEF Route, IsArrival
    <2> QED
      BY <2>1, LeanPieces
  <1>3. CASE kind \notin {"SD offer", "SD subscribe"}
    <2>1. Route(kind, id) = RouteToService(kind, id)
      BY <1>3 DEF Route
    <2>2. kind \in {"request", "response", "event"}
      BY <1>3 DEF IsArrival
    <2> QED
      BY <2>1, <2>2, RouteToServiceLean
  <1> QED
    BY <1>1, <1>2, <1>3

-----------------------------------------------------------------------------
(* What threads put in the place of a step.                                *)

\* Thread t has looked something up and goes on with what it found.
Looks(t) ==
    \E do \in Lookup, a \in Seq(AnyStep) :
        /\ At(t, do) /\ Replace(t, a)
        /\ Lean(a) \/ \E h \in Hook : \E c \in Reentry[h] : a = Body(c)

\* Handlers, lookups and the end of waiting.
LEMMA LooksUp ==
    ASSUME ThreadsInv, TypeOK, NEW t \in Thread,
           \/ RunHandler(t) \/ TestAvailable(t) \/ RouteMessage(t) \/ RouteMethod(t)
           \/ RouteSkeleton(t) \/ RouteEvent(t) \/ RouteProxy(t)
           \/ Wake(t) \/ (\E m \in Arrivals : Receive(t, m[1], m[2]))
    PROVE  Looks(t)
  <1> DEFINE x == Head(todo[t])
  <1>0. ASSUME NEW do, At(t, do) PROVE x.do = do /\ Speaks(x) /\ On(t) = x.on /\ Val(t) = x.val
    BY <1>0, HeadFits
  <1>1. ASSUME NEW do \in Lookup, At(t, do), NEW a \in Seq(AnyStep), Replace(t, a), Lean(a)
        PROVE  Looks(t)
    BY <1>1 DEF Looks
  <1>2. /\ "handler" \in Lookup /\ "call_method" \in Lookup /\ "route" \in Lookup
        /\ "method" \in Lookup /\ "skeleton" \in Lookup /\ "event" \in Lookup
        /\ "proxy" \in Lookup /\ "block" \in Lookup
    BY DEF Lookup
  <1>3. /\ "method" \in Hook /\ "event" \in Hook /\ "skeleton method" \in Hook
        /\ "proxy event" \in Hook
    BY DEF Hook
  <1>e. <<>> \in Seq(AnyStep) /\ <<>> \in Seq(PlainStep) /\ Lean(<<>>)
    BY DEF Lean
  <1>s. SendResponse \in Seq(PlainStep) /\ SendResponse \in Seq(AnyStep) /\ Lean(SendResponse)
    BY PlainCalls, PlainIs
  <1> HIDE DEF x
  <1>4. CASE RunHandler(t)
    <2>1. At(t, "handler")
      BY <1>4 DEF RunHandler
    <2>2. CASE Done(t)
      <3>1. Tail(todo[t]) \in Seq(AnyStep)
        BY <2>1, HeadTailProperties DEF At, ThreadsInv
      <3>2. <<>> \o Tail(todo[t]) = Tail(todo[t])
        BY <3>1, ConcatEmptySeq
      <3>3. Replace(t, <<>>)
        BY <2>2, <3>2 DEF Done, Replace
      <3> QED
        BY <1>1, <1>2, <1>e, <2>1, <3>3
    <2>3. ASSUME NEW c \in Reentry[On(t)], Replace(t, Body(c)) PROVE Looks(t)
      <3>1. On(t) \in Hook
        BY <1>0, <2>1 DEF Speaks
      <3>2. IsCall(c)
        BY <3>1, DispatchAssumption
      <3>3. Body(c) \in Seq(AnyStep)
        BY <3>2, BodyIs
      <3> QED
        BY <1>2, <2>1, <2>3, <3>1, <3>3 DEF Looks
    <2> QED
      BY <1>4, <2>2, <2>3 DEF RunHandler
  <1>5. CASE TestAvailable(t)
    <2> DEFINE a == IF available_ THEN CallMethod ELSE <<>>
    <2>1. At(t, "call_method") /\ Replace(t, a)
      BY <1>5 DEF TestAvailable
    <2>2. a \in Seq(AnyStep) /\ Lean(a)
      BY <1>e, PlainCalls, PlainIs
    <2> HIDE DEF a
    <2> QED
      BY <1>1, <1>2, <2>1, <2>2
  <1>6. CASE RouteMessage(t)
    <2> DEFINE a == IF service_handlers_ THEN HandleMessage(On(t), Val(t)) ELSE <<>>
    <2>1. At(t, "route") /\ Replace(t, a)
      BY <1>6 DEF RouteMessage
    <2>2. x.do = "route" /\ Speaks(x) /\ On(t) = x.on /\ Val(t) = x.val
      BY <1>0, <2>1
    <2>3. a \in Seq(AnyStep) /\ Lean(a)
      BY <1>e, <2>2, HandleMessageLean DEF Speaks
    <2> HIDE DEF a
    <2> QED
      BY <1>1, <1>2, <2>1, <2>3
  <1>7. CASE RouteMethod(t)
    <2> DEFINE y == Under("skeleton mutex_", <<Step("skeleton", On(t), None)>>)
               a == CASE On(t) \notin method_handlers_ -> SendResponse
                      [] On(t) = SkeletonMethod -> y
                      [] OTHER -> <<Handler("method")>>
    <2>1. At(t, "method") /\ Replace(t, a)
      BY <1>7 DEF RouteMethod
    <2>2. x.do = "method" /\ Speaks(x) /\ On(t) = x.on
      BY <1>0, <2>1
    <2>3. On(t) \in Method
      BY <2>2 DEF Speaks
    <2>4. y \in Seq(AnyStep) /\ Lean(y)
      BY <2>3, LeanPieces
    <2>5. <<Handler("method")>> \in Seq(AnyStep) /\ Lean(<<Handler("method")>>)
      BY <1>3, LeanPieces
    <2> HIDE DEF y
    <2>6. a \in {SendResponse, y, <<Handler("method")>>}
      OBVIOUS
    <2> HIDE DEF a
    <2>7. a \in Seq(AnyStep) /\ Lean(a)
      BY <1>s, <2>4, <2>5, <2>6
    <2> QED
      BY <1>1, <1>2, <2>1, <2>7
  <1>8. CASE RouteSkeleton(t)
    <2> DEFINE b == IF On(t) \in skeleton_methods THEN <<Handler("skeleton method")>> ELSE <<>>
               a == b \o SendResponse
    <2>1. At(t, "skeleton") /\ Replace(t, a)
      BY <1>8 DEF RouteSkeleton
    <2>2. b \in Seq(AnyStep) /\ Lean(b)
      BY <1>3, <1>e, LeanPieces
    <2> HIDE DEF b
    <2>3. a \in Seq(AnyStep) /\ Lean(a)
      BY <1>s, <2>2, LeanConcat
    <2> HIDE DEF a
    <2> QED
      BY <1>1, <1>2, <2>1, <2>3
  <1>9. CASE RouteEvent(t)
    <2> DEFINE y == Under("proxy events_mutex_", <<Step("proxy", On(t), None)>>)
               a == CASE event_handlers_[On(t)] = None -> <<>>
                      [] event_handlers_[On(t)] = "user" -> <<Handler("event")>>
                      [] event_handlers_[On(t)] = "proxy" -> y
    <2>1. At(t, "event") /\ Replace(t, a)
      BY <1>9 DEF RouteEvent
    <2>2. x.do = "event" /\ Speaks(x) /\ On(t) = x.on
      BY <1>0, <2>1
    <2>3. On(t) \in Event
      BY <2>2 DEF Speaks
    <2>4. event_handlers_[On(t)] \in {None, "user", "proxy"}
      BY <2>3 DEF TypeOK
    <2>5. y \in Seq(AnyStep) /\ Lean(y)
      BY <2>3, LeanPieces
    <2>6. <<Handler("event")>> \in Seq(AnyStep) /\ Lean(<<Handler("event")>>)
      BY <1>3, LeanPieces
    <2> HIDE DEF y
    <2>7. a \in {<<>>, y, <<Handler("event")>>}
      BY <2>4
    <2> HIDE DEF a
    <2>8. a \in Seq(AnyStep) /\ Lean(a)
      BY <1>e, <2>5, <2>6, <2>7
    <2> QED
      BY <1>1, <1>2, <2>1, <2>8
  <1>10. CASE RouteProxy(t)
    <2> DEFINE a == IF On(t) \in proxy_events THEN <<Handler("proxy event")>> ELSE <<>>
    <2>1. At(t, "proxy") /\ Replace(t, a)
      BY <1>10 DEF RouteProxy
    <2>2. a \in Seq(AnyStep) /\ Lean(a)
      BY <1>3, <1>e, LeanPieces
    <2> HIDE DEF a
    <2> QED
      BY <1>1, <1>2, <2>1, <2>2
  <1>11. CASE Wake(t)
    <2> DEFINE a == IF t = SdWorker /\ t \in told THEN Round ELSE <<>>
    <2>1. At(t, "block") /\ Replace(t, a)
      BY <1>11 DEF Wake
    <2>2. a \in Seq(AnyStep) /\ Lean(a)
      BY <1>e, LeanPieces
    <2> HIDE DEF a
    <2> QED
      BY <1>1, <1>2, <2>1, <2>2
  <1>12. ASSUME NEW m \in Arrivals, Receive(t, m[1], m[2]) PROVE Looks(t)
    <2> DEFINE kind == m[1]
               id == m[2]
    <2>1. IsArrival(<<kind, id>>)
      <3>1. IsArrival(m)
        BY DispatchAssumption
      <3> QED
        BY <3>1 DEF IsArrival
    <2>2. /\ At(t, "block")
          /\ \/ Replace(t, Route(kind, id))
             \/ /\ kind \in {"request", "response", "event"}
                /\ Replace(t, RouteToService(kind, id))
      BY <1>12 DEF Receive
    <2> HIDE DEF kind, id
    <2>3. CASE Replace(t, Route(kind, id))
      <3> DEFINE a == Route(kind, id)
      <3>1. a \in Seq(AnyStep) /\ Lean(a) /\ Replace(t, a)
        BY <2>1, <2>3, RouteLean
      <3> HIDE DEF a
      <3> QED
        BY <1>1, <1>2, <2>2, <3>1
    <2>4. CASE kind \in {"request", "response", "event"} /\ Replace(t, RouteToService(kind, id))
      <3> DEFINE a == RouteToService(kind, id)
      <3>1. a \in Seq(AnyStep) /\ Lean(a) /\ Replace(t, a)
        BY <2>1, <2>4, RouteToServiceLean
      <3> HIDE DEF a
      <3> QED
        BY <1>1, <1>2, <2>2, <3>1
    <2> QED
      BY <2>2, <2>3, <2>4
  <1> QED
    BY <1>4, <1>5, <1>6, <1>7, <1>8, <1>9, <1>10, <1>11, <1>12

\* A thread that goes on with what is left of its steps.
LEMMA DoneMoves ==
    ASSUME ThreadsInv, Kinds, NEW t \in Thread, todo[t] # <<>>,
           NEW h, GoOnWith(t, Tail(todo[t]), h)
    PROVE  /\ Kind(todo'[t])
           /\ \A f, v : Late(todo'[t], f, v) <=> Late(Tail(todo[t]), f, v)
           /\ \A b : Joins(todo'[t], b) <=> Joins(Tail(todo[t]), b)
           /\ \A b : Halts(todo'[t], b) <=> Halts(Tail(todo[t]), b)
  <1> DEFINE s == todo[t]
             r == Tail(s)
  <1>1. s \in Seq(AnyStep) /\ Kind(s)
    BY DEF ThreadsInv, Kinds
  <1>2. Suffix(r, s, 1)
    BY <1>1, TailIsSuffix
  <1>3. r \in Seq(AnyStep) /\ Kind(r)
    BY <1>1, <1>2, KindSuffix DEF Suffix
  <1>4. After(todo'[t], r)
    BY <1>3, GoOnAfter
  <1> HIDE DEF s, r
  <1>5. Kind(todo'[t])
    BY <1>3, <1>4, KindSuffix DEF After
  <1>6. /\ \A f, v : Late(todo'[t], f, v) <=> Late(r, f, v)
        /\ \A b : (Joins(todo'[t], b) <=> Joins(r, b)) /\ (Halts(todo'[t], b) <=> Halts(r, b))
    BY <1>4, UnlocksLate, UnlocksJoin
  <1> QED
    BY <1>4, <1>5, <1>6 DEF r, s

\* The steps after one that looks something up are plain.
LEMMA AfterLookup ==
    ASSUME NEW s \in Seq(AnyStep), Kind(s), s # <<>>, Head(s).do \in Lookup
    PROVE  Lean(s) /\ Tail(s) \in Seq(PlainStep)
  <1> DEFINE r == Tail(s)
  <1>1. Suffix(r, s, 1) /\ Head(s) = s[1]
    BY TailIsSuffix, HeadTailProperties, EmptySeq
  <1> HIDE DEF r
  <1>2. /\ Len(r) \in Nat /\ Len(s) = Len(r) + 1 /\ 1 \in 1 .. Len(s)
        /\ \A k \in 1 .. Len(r) : r[k] = s[1 + k]
        /\ r \in Seq(AnyStep)
    BY <1>1, LenProperties DEF Suffix
  <1>3. Lean(s)
    <2>1. s[1].do \notin Other \cup FieldSteps \cup StopSteps \cup {"runtime_stop"}
      BY <1>1, Deeds
    <2> QED
      BY <1>2, <2>1 DEF Kind, Changing, Stopping
  <1>4. ASSUME NEW i \in 1 .. Len(r) PROVE r[i] \in PlainStep
    <2>1. 1 + i \in 1 .. Len(s) /\ 1 + i # 1 /\ r[i] = s[1 + i] /\ r[i] \in AnyStep
      BY <1>2, LenProperties
    <2>2. s[1].do \notin Other
      BY <1>1, Deeds
    <2>3. r[i].do \in Other
      BY <1>2, <1>3, <2>1, <2>2 DEF Lean
    <2> QED
      BY <2>1, <2>3 DEF AnyStep, PlainStep
  <1>5. r \in Seq(PlainStep)
    BY <1>2, <1>4, LenProperties
  <1> QED
    BY <1>3, <1>5 DEF r

\* A thread that has looked something up.
LEMMA LookMoves ==
    ASSUME HandlersKeepOrder, ThreadsInv, Kinds, NEW t \in Thread, Looks(t)
    PROVE  /\ Kind(todo'[t]) /\ todo[t] # <<>>
           /\ \A b : ~Joins(todo[t], b) /\ ~Joins(todo'[t], b)
           /\ \A f, v : ~Late(todo[t], f, v)
           /\ FieldsAreSet => \A f \in Field : \A v : ~Late(todo'[t], f, v)
  <1>1. PICK do \in Lookup, a \in Seq(AnyStep) :
           /\ At(t, do) /\ Replace(t, a)
           /\ Lean(a) \/ \E h \in Hook : \E c \in Reentry[h] : a = Body(c)
    BY DEF Looks
  <1> DEFINE s == todo[t]
             r == Tail(s)
             q == a \o r
  <1>2. s \in Seq(AnyStep) /\ Kind(s) /\ s # <<>> /\ Head(s).do \in Lookup
    BY <1>1 DEF ThreadsInv, Kinds, At
  <1>3. Lean(s) /\ r \in Seq(PlainStep)
    BY <1>2, AfterLookup
  <1>4. GoOnWith(t, q, held)
    BY <1>1 DEF Replace
  <1>5. r \in Seq(AnyStep) /\ Lean(r)
    BY <1>3, PlainIs
  <1> HIDE DEF s, r
  <1>6. /\ Lean(a) \/ Changing(a)
        /\ FieldsAreSet => \A f \in Field : \A v : ~Late(a, f, v)
    <2>1. CASE Lean(a)
      BY <2>1, LeanIs
    <2>2. ASSUME NEW h \in Hook, NEW c \in Reentry[h], a = Body(c)
          PROVE  /\ Lean(a) \/ Changing(a)
                 /\ FieldsAreSet => \A f \in Field : \A v : ~Late(a, f, v)
      <3>1. IsCall(c) /\ c.do # "runtime_stop"
        BY HandlersGoOn
      <3>2. Lean(a) \/ Changing(a)
        BY <2>2, <3>1, BodyIs
      <3>3. \A f, v : Late(a, f, v) => c.do = "notify_event" /\ c.on = f
        BY <2>2, <3>1, BodyIs
      <3>4. FieldsAreSet => (c.do = "notify_event" => c.on \notin Field)
        BY DEF FieldsAreSet
      <3> QED
        BY <3>2, <3>3, <3>4
    <2> QED
      BY <1>1, <2>1, <2>2
  <1>7. q \in Seq(AnyStep) /\ (Lean(q) \/ Changing(q))
    BY <1>3, <1>5, <1>6, LeanConcat, ChangingConcat
  <1>8. /\ \A f, v : Late(q, f, v) <=> Late(a, f, v)
        /\ \A b : Joins(q, b) <=> Joins(a, b)
    BY <1>3, ChangingConcat
  <1>9. \A b : ~Joins(a, b)
    BY <1>6, LeanIs, ChangingJoins
  <1> HIDE DEF q
  <1>10. After(todo'[t], q)
    BY <1>4, <1>7, GoOnAfter
  <1>11. Kind(q)
    BY <1>7 DEF Kind
  <1>12. Kind(todo'[t])
    BY <1>10, <1>11, KindSuffix DEF After
  <1>13. /\ \A f, v : Late(todo'[t], f, v) <=> Late(q, f, v)
         /\ \A b : Joins(todo'[t], b) <=> Joins(q, b)
    BY <1>10, UnlocksLate, UnlocksJoin
  <1>14. (\A f, v : ~Late(s, f, v)) /\ (\A b : ~Joins(s, b))
    BY <1>3, LeanIs
  <1> QED
    BY <1>2, <1>6, <1>8, <1>9, <1>10, <1>12, <1>13, <1>14 DEF s

\* A step of no interest here.
LEMMA PlainMoves ==
    ASSUME ThreadsInv, Kinds, NEW t \in Thread, NEW do \in Other \cup {"halt", "shut"},
           At(t, do), NEW h, GoOnWith(t, Tail(todo[t]), h)
    PROVE  /\ Kind(todo'[t]) /\ todo[t] # <<>>
           /\ \A b : Joins(todo'[t], b) <=> Joins(todo[t], b)
           /\ \A b : do # "halt" \/ b # On(t) => (Halts(todo'[t], b) <=> Halts(todo[t], b))
           /\ \A f, v : Late(todo'[t], f, v) <=> Late(todo[t], f, v)
  <1>1. todo[t] \in Seq(AnyStep) /\ todo[t] # <<>> /\ Head(todo[t]).do = do
    BY DEF ThreadsInv, At
  <1>2. do \notin {"store_field", "notify", "join"}
    BY DEF Other, FieldSteps, StopSteps
  <1>3. /\ \A f, v : Late(Tail(todo[t]), f, v) <=> Late(todo[t], f, v)
        /\ \A b : Joins(Tail(todo[t]), b) <=> Joins(todo[t], b)
    BY <1>1, <1>2, TailLate, TailJoins
  <1>4. \A b : do # "halt" \/ b # On(t) => (Halts(Tail(todo[t]), b) <=> Halts(todo[t], b))
    BY <1>1, TailHalts DEF On
  <1>5. /\ Kind(todo'[t])
        /\ \A f, v : Late(todo'[t], f, v) <=> Late(Tail(todo[t]), f, v)
        /\ \A b : Joins(todo'[t], b) <=> Joins(Tail(todo[t]), b)
        /\ \A b : Halts(todo'[t], b) <=> Halts(Tail(todo[t]), b)
    BY <1>1, DoneMoves
  <1> QED
    BY <1>1, <1>3, <1>4, <1>5

\* The actions that take such a step: those that change what is configured and
\* offered, those of Runtime's life, and others.
Configures(t) ==
    StoreConfig(t) \/ OfferGroup(t) \/ DropGroup(t) \/ EraseConfig(t) \/ StoreClient(t)

Lives(t) == Start(t) \/ Halt(t) \/ Connect(t)

Passes(t) ==
    \/ Acquire(t) \/ EnterSection(t)
    \/ RegisterServiceHandler(t) \/ RegisterMethodHandler(t)
    \/ SetEventHandler(t) \/ RegisterMethod(t) \/ SetProxyEvent(t)
    \/ SetAvailable(t) \/ Await(t)
    \/ AcceptSubscriber(t) \/ Shut(t)
    \/ Configures(t) \/ Lives(t)

\* What they have in common.
LEMMA PassesPlain ==
    ASSUME NEW t, Passes(t)
    PROVE  /\ \E do \in Other \cup {"halt", "shut"} : \E h :
                 /\ At(t, do) /\ GoOnWith(t, Tail(todo[t]), h)
                 /\ do = "halt" => Halt(t)
                 /\ do \in ConfigSteps => Configures(t)
           /\ Configures(t) \/ UNCHANGED <<event_configs_, fields>>
           /\ Lives(t) \/ UNCHANGED life
  <1>0. ConfigSteps \subseteq Other
    BY Deeds DEF ConfigSteps
  <1>1. ASSUME NEW do \in Other \cup {"halt", "shut"}, NEW h,
               At(t, do), GoOnWith(t, Tail(todo[t]), h),
               do = "halt" => Halt(t), do \in ConfigSteps => Configures(t)
        PROVE  \E d \in Other \cup {"halt", "shut"} : \E k :
                 /\ At(t, d) /\ GoOnWith(t, Tail(todo[t]), k)
                 /\ d = "halt" => Halt(t)
                 /\ d \in ConfigSteps => Configures(t)
    BY <1>1
  <1>a. ASSUME NEW do \in Other \ ({"halt"} \cup ConfigSteps), At(t, do), Done(t)
        PROVE  \E d \in Other \cup {"halt", "shut"} : \E k :
                 /\ At(t, d) /\ GoOnWith(t, Tail(todo[t]), k)
                 /\ d = "halt" => Halt(t)
                 /\ d \in ConfigSteps => Configures(t)
    BY <1>a DEF Done
  <1>b. {"lock", "section", "await", "accept", "service_handler", "method_handler",
         "event_handler", "register_method", "proxy_event", "on_service_available",
         "runtime_start", "connect"} \subseteq Other \ ({"halt"} \cup ConfigSteps)
    BY Deeds DEF ConfigSteps
  <1>2. CASE Acquire(t)
    BY <1>1, <1>b, <1>2 DEF Acquire, events
  <1>3. CASE EnterSection(t)
    BY <1>a, <1>b, <1>3 DEF EnterSection, events
  <1>4. CASE RegisterServiceHandler(t)
    BY <1>a, <1>b, <1>4 DEF RegisterServiceHandler, events
  <1>5. CASE RegisterMethodHandler(t)
    BY <1>a, <1>b, <1>5 DEF RegisterMethodHandler, events
  <1>6. CASE SetEventHandler(t)
    BY <1>a, <1>b, <1>6 DEF SetEventHandler, events
  <1>7. CASE RegisterMethod(t)
    BY <1>a, <1>b, <1>7 DEF RegisterMethod, events
  <1>8. CASE SetProxyEvent(t)
    BY <1>a, <1>b, <1>8 DEF SetProxyEvent, events
  <1>9. CASE SetAvailable(t)
    BY <1>a, <1>b, <1>9 DEF SetAvailable, events
  <1>10. CASE Await(t)
    BY <1>a, <1>b, <1>10 DEF Await, events
  <1>11. CASE AcceptSubscriber(t)
    BY <1>a, <1>b, <1>11 DEF AcceptSubscriber
  <1>12. CASE Shut(t)
    <2>1. At(t, "shut") /\ Done(t) /\ UNCHANGED <<life, events, fields>>
      BY <1>12 DEF Shut
    <2> QED
      BY <1>1, <2>1 DEF Done, events, ConfigSteps
  <1>13. CASE Configures(t)
    <2>1. UNCHANGED life
      BY <1>13 DEF Configures, StoreConfig, OfferGroup, DropGroup, EraseConfig, StoreClient
    <2>2. PICK do \in ConfigSteps : At(t, do) /\ Done(t)
      BY <1>13 DEF Configures, StoreConfig, OfferGroup, DropGroup, EraseConfig, StoreClient,
                   ConfigSteps
    <2>3. do # "halt" /\ do \in Other
      BY <1>0 DEF ConfigSteps
    <2> QED
      BY <1>1, <1>13, <2>1, <2>2, <2>3 DEF Done
  <1>14. CASE Start(t)
    BY <1>a, <1>b, <1>14 DEF Start, events, Lives
  <1>15. CASE Connect(t)
    BY <1>a, <1>b, <1>15 DEF Connect, events, Lives
  <1>16. CASE Halt(t)
    <2>1. At(t, "halt") /\ Done(t) /\ UNCHANGED <<events, fields>>
      BY <1>16 DEF Halt
    <2> QED
      BY <1>1, <1>16, <2>1 DEF Done, events, ConfigSteps, Lives
  <1> QED
    BY <1>2, <1>3, <1>4, <1>5, <1>6, <1>7, <1>8, <1>9, <1>10, <1>11, <1>12, <1>13,
       <1>14, <1>15, <1>16 DEF Passes, Lives

\* The rest of Runtime::stop.
LEMMA StopIs ==
    /\ StopThreads \in Seq(AnyStep) /\ Stopping(StopThreads)
    /\ \A b \in Background : Joins(StopThreads, b) /\ Halts(StopThreads, b)
    /\ \A f, v : ~Late(StopThreads, f, v)
  <1> DEFINE H(b) == Step("halt", b, None)
             J(b) == Step("join", b, None)
             Q == Step("shut", TcpReceiver, None)
             a == <<H(SdWorker), J(SdWorker)>>
             d == <<H(Receiver), J(Receiver)>>
             c == <<H(TcpReceiver), Q, J(TcpReceiver)>>
             q == d \o c
             s == a \o q
  <1>1. s = StopThreads
    BY DEF StopThreads, Join, StopTcp
  <1>2. Background = {SdWorker, Receiver, TcpReceiver}
    BY DEF Background
  <1>3. /\ \A b \in Background :
              /\ H(b) \in AnyStep /\ H(b).do = "halt" /\ H(b).on = b
              /\ J(b) \in AnyStep /\ J(b).do = "join" /\ J(b).on = b
        /\ Q \in AnyStep /\ Q.do = "shut"
    BY <1>2, StopStepIs
  <1> HIDE DEF H, J, Q
  <1>4. /\ a \in Seq(AnyStep) /\ Len(a) = 2 /\ a[1] = H(SdWorker) /\ a[2] = J(SdWorker)
        /\ d \in Seq(AnyStep) /\ Len(d) = 2 /\ d[1] = H(Receiver) /\ d[2] = J(Receiver)
    BY <1>2, <1>3
  <1>5. /\ c \in Seq(AnyStep) /\ Len(c) = 3
        /\ c[1] = H(TcpReceiver) /\ c[2] = Q /\ c[3] = J(TcpReceiver)
    BY <1>2, <1>3
  <1> HIDE DEF a, d, c
  <1>6. /\ q \in Seq(AnyStep) /\ Len(q) = 5
        /\ \A i \in 1 .. 5 : q[i] = IF i <= 2 THEN d[i] ELSE c[i - 2]
    <2>1. /\ q \in Seq(AnyStep) /\ Len(q) = Len(d) + Len(c)
          /\ \A i \in 1 .. Len(d) + Len(c) : q[i] = IF i <= Len(d) THEN d[i] ELSE c[i - Len(d)]
      BY <1>4, <1>5, ConcatProperties
    <2> HIDE DEF q
    <2> QED
      BY <1>4, <1>5, <2>1
  <1> HIDE DEF q
  <1>7. /\ q[1] = H(Receiver) /\ q[2] = J(Receiver)
        /\ q[3] = H(TcpReceiver) /\ q[4] = Q /\ q[5] = J(TcpReceiver)
    BY <1>4, <1>5, <1>6
  <1>8. /\ s \in Seq(AnyStep) /\ Len(s) = 7
        /\ \A i \in 1 .. 7 : s[i] = IF i <= 2 THEN a[i] ELSE q[i - 2]
    <2>1. /\ s \in Seq(AnyStep) /\ Len(s) = Len(a) + Len(q)
          /\ \A i \in 1 .. Len(a) + Len(q) : s[i] = IF i <= Len(a) THEN a[i] ELSE q[i - Len(a)]
      BY <1>4, <1>6, ConcatProperties
    <2> HIDE DEF s
    <2> QED
      BY <1>4, <1>6, <2>1
  <1> HIDE DEF s
  <1>9. /\ s[1] = H(SdWorker) /\ s[2] = J(SdWorker)
        /\ s[3] = H(Receiver) /\ s[4] = J(Receiver)
        /\ s[5] = H(TcpReceiver) /\ s[6] = Q /\ s[7] = J(TcpReceiver)
    BY <1>4, <1>7, <1>8
  <1>10. /\ \A i \in 1 .. Len(s) : i \in {1, 2, 3, 4, 5, 6, 7}
         /\ \A i \in 1 .. 7 : i \in 1 .. Len(s)
    BY <1>8
  <1>11. \A i \in 1 .. Len(s) : s[i].do \in {"halt", "shut", "join"}
    BY <1>2, <1>3, <1>9, <1>10
  <1>12. Stopping(s) /\ \A f, v : ~Late(s, f, v)
    BY <1>11 DEF Stopping, StopSteps, Late
  <1>13. ASSUME NEW b \in Background PROVE Halts(s, b)
    <2>1. ASSUME NEW i \in 1 .. 7, NEW j \in 1 .. 7, i < j, s[i] = H(b), s[j] = J(b)
          PROVE  Halts(s, b)
      BY <1>3, <1>10, <2>1 DEF Halts
    <2>2. 1 \in 1 .. 7 /\ 2 \in 1 .. 7 /\ 3 \in 1 .. 7 /\ 4 \in 1 .. 7 /\ 5 \in 1 .. 7
          /\ 7 \in 1 .. 7 /\ 1 < 2 /\ 3 < 4 /\ 5 < 7
      OBVIOUS
    <2>3. CASE b = SdWorker
      BY <1>9, <2>1, <2>2, <2>3
    <2>4. CASE b = Receiver
      BY <1>9, <2>1, <2>2, <2>4
    <2>5. CASE b = TcpReceiver
      BY <1>9, <2>1, <2>2, <2>5
    <2> QED
      BY <1>2, <2>3, <2>4, <2>5
  <1> QED
    BY <1>1, <1>8, <1>12, <1>13, HaltsJoins

\* Runtime::stop is a call of its own, made by a user.
LEMMA StopMoves ==
    ASSUME ThreadsInv, Kinds, NEW t \in Thread, Stop(t)
    PROVE  /\ t \in User /\ Kind(todo'[t])
           /\ \A b : ~Joins(todo[t], b)
           /\ \A f, v : ~Late(todo[t], f, v) /\ ~Late(todo'[t], f, v)
           /\ running_ => \A b \in Background : Joins(todo'[t], b) /\ Halts(todo'[t], b)
  <1> DEFINE s == todo[t]
             a == IF running_ THEN StopThreads ELSE <<>>
  <1>1. /\ s \in Seq(AnyStep) /\ s # <<>> /\ Head(s).do = "runtime_stop" /\ Kind(s)
        /\ GoOnWith(t, a \o Tail(s), held)
    BY DEF Stop, At, Replace, ThreadsInv, Kinds
  <1>2. Head(s) = s[1] /\ 1 \in 1 .. Len(s) /\ 1 \in DOMAIN s
    BY <1>1, HeadTailProperties, EmptySeq, LenProperties
  <1>3. a \in Seq(AnyStep) /\ Stopping(a) /\ \A f, v : ~Late(a, f, v)
    BY StopIs DEF Stopping, Late
  <1>4. running_ => \A b \in Background : Joins(a, b) /\ Halts(a, b)
    BY StopIs
  <1>5. t \in User
    <2>1. CASE t \in Background
      <3>1. Above(s, 0)
        BY <2>1 DEF ThreadsInv
      <3>2. Level(s[1]) = -1 /\ s[1].do # "unlock"
        BY <1>1, <1>2 DEF Level
      <3>3. 0 <= -1
        BY <1>2, <3>1, <3>2 DEF Above
      <3> QED
        BY <3>3
    <2> QED
      BY <2>1 DEF Thread
  <1> HIDE DEF a, s
  <1>6. Len(s) = 1
    <2>1. s[1].do \notin Other \cup Lookup \cup FieldSteps \cup StopSteps
      BY <1>1, <1>2, Deeds
    <2>2. ~Lean(s) /\ ~Changing(s) /\ ~Stopping(s)
      BY <1>2, <2>1 DEF Lean, Changing, Stopping
    <2> QED
      BY <1>1, <2>2 DEF Kind
  <1>7. Tail(s) = <<>>
    <2>1. Tail(s) \in Seq(AnyStep) /\ Len(Tail(s)) = 0
      BY <1>1, <1>6, HeadTailProperties
    <2> QED
      BY <2>1, EmptySeq
  <1>8. a \o Tail(s) = a
    <2>1. a \o <<>> = a
      BY <1>3, ConcatEmptySeq, Zenon
    <2> QED
      BY <1>7, <2>1, Zenon
  <1>9. After(todo'[t], a)
    BY <1>1, <1>3, <1>8, GoOnAfter
  <1>10. Kind(todo'[t])
    BY <1>3, <1>9, KindSuffix DEF Kind, After
  <1>11. /\ \A f, v : ~Late(todo'[t], f, v)
         /\ running_ => \A b \in Background : Joins(todo'[t], b) /\ Halts(todo'[t], b)
    BY <1>3, <1>4, <1>9, UnlocksLate, UnlocksJoin
  <1>12. \A i \in 1 .. Len(s) : s[i].do = "runtime_stop"
    BY <1>1, <1>2, <1>6
  <1>13. (\A b : ~Joins(s, b)) /\ \A f, v : ~Late(s, f, v)
    BY <1>12 DEF Joins, Late
  <1> QED
    BY <1>5, <1>9, <1>10, <1>11, <1>13 DEF s

\* Steps that change a field or tell of it.
LEMMA ChangingHead ==
    ASSUME NEW s \in Seq(AnyStep), s # <<>>, Kind(s), Head(s).do \in FieldSteps
    PROVE  LET x == Head(s) IN
           /\ x.do = "new_field" => \A f, v : ~Late(s, f, v) /\ ~Late(Tail(s), f, v)
           /\ x.do = "store_field" => \A f, v :
                 ~Late(s, f, v) /\ (Late(Tail(s), f, v) <=> f = x.on /\ v = x.val)
           /\ x.do = "notify" => \A f, v :
                 (Late(s, f, v) <=> f = x.on /\ v = x.val) /\ ~Late(Tail(s), f, v)
           /\ \A b : Joins(s, b) <=> Joins(Tail(s), b)
  <1> DEFINE x == Head(s)
             r == Tail(s)
  <1>1. Suffix(r, s, 1) /\ x = s[1]
    BY TailIsSuffix, HeadTailProperties, EmptySeq
  <1>2. \A b : Joins(s, b) <=> Joins(r, b)
    BY TailJoins DEF FieldSteps
  <1>3. x.do \in FieldSteps
    OBVIOUS
  <1> HIDE DEF r, x
  <1>4. /\ Len(r) \in Nat /\ Len(s) = Len(r) + 1 /\ 1 \in 1 .. Len(s)
        /\ \A k \in 1 .. Len(r) : r[k] = s[1 + k]
    BY <1>1, LenProperties DEF Suffix
  <1>5. Changing(s)
    <2>1. s[1].do \notin Other \cup Lookup \cup StopSteps \cup {"runtime_stop"}
      BY <1>1, <1>3, Deeds
    <2> QED
      BY <1>4, <2>1 DEF Kind, Lean, Stopping
  <1>6. \A i \in 1 .. Len(r) : 1 + i \in 1 .. Len(s) /\ 1 + i # 1 /\ r[i] = s[1 + i]
    BY <1>4
  <1>7. ASSUME NEW i \in 1 .. Len(s), s[i].do = "store_field"
        PROVE  /\ i + 2 \in 1 .. Len(s)
               /\ s[i + 2].do = "notify" /\ s[i + 2].on = s[i].on /\ s[i + 2].val = s[i].val
    <2>1. i + 2 <= Len(s) /\ s[i + 2] = Step("notify", s[i].on, s[i].val)
      BY <1>7, <1>5 DEF Changing
    <2>2. i + 2 \in 1 .. Len(s)
      BY <1>4, <2>1
    <2> QED
      BY <2>1, <2>2 DEF Step
  <1>8. \A i, j \in 1 .. Len(s) : s[i].do = "notify" /\ s[j].do = "notify" => i = j
    BY <1>5 DEF Changing
  <1>9. ASSUME x.do = "new_field", NEW f, NEW v PROVE ~Late(s, f, v) /\ ~Late(r, f, v)
    <2>1. \A j \in 1 .. Len(s) : s[j].do # "notify"
      BY <1>1, <1>4, <1>5, <1>9 DEF Changing
    <2> QED
      BY <1>6, <2>1 DEF Late
  <1>10. ASSUME x.do = "store_field", NEW f, NEW v
         PROVE  ~Late(s, f, v) /\ (Late(r, f, v) <=> f = x.on /\ v = x.val)
    <2>1. /\ 1 + 2 \in 1 .. Len(s) /\ s[1 + 2].do = "notify"
          /\ s[1 + 2].on = x.on /\ s[1 + 2].val = x.val
      BY <1>1, <1>4, <1>7, <1>10
    <2>2. ~Late(s, f, v)
      BY <1>1, <1>4, <1>10 DEF Late
    <2>3. ASSUME NEW i \in 1 .. Len(r) PROVE r[i].do # "store_field"
      <3>1. SUFFICES ASSUME s[1 + i].do = "store_field" PROVE FALSE
        BY <1>6
      <3>2. 1 + i + 2 \in 1 .. Len(s) /\ s[1 + i + 2].do = "notify"
        BY <1>6, <1>7, <3>1
      <3>3. 1 + i + 2 = 1 + 2
        BY <1>8, <2>1, <3>2
      <3> QED
        BY <1>4, <3>3
    <2>4. ASSUME Late(r, f, v) PROVE f = x.on /\ v = x.val
      <3>1. PICK i \in 1 .. Len(r) : r[i].do = "notify" /\ r[i].on = f /\ r[i].val = v
        BY <2>4 DEF Late
      <3>2. 1 + i = 1 + 2
        BY <1>6, <1>8, <2>1, <3>1
      <3> QED
        BY <1>6, <2>1, <3>1, <3>2
    <2>5. ASSUME f = x.on, v = x.val PROVE Late(r, f, v)
      <3>1. 2 \in 1 .. Len(r) /\ 1 + 2 = 3
        BY <1>4, <2>1
      <3>2. r[2] = s[1 + 2]
        BY <1>6, <3>1
      <3> QED
        BY <2>1, <2>3, <2>5, <3>1, <3>2 DEF Late
    <2> QED
      BY <2>2, <2>4, <2>5
  <1>11. ASSUME x.do = "notify", NEW f, NEW v
         PROVE  (Late(s, f, v) <=> f = x.on /\ v = x.val) /\ ~Late(r, f, v)
    <2>1. \A j \in 1 .. Len(s) : s[j].do = "notify" => j = 1
      BY <1>1, <1>4, <1>8, <1>11
    <2>2. ASSUME NEW i \in 1 .. Len(s) PROVE s[i].do # "store_field"
      <3>1. SUFFICES ASSUME s[i].do = "store_field" PROVE FALSE
        OBVIOUS
      <3>2. i + 2 \in 1 .. Len(s) /\ s[i + 2].do = "notify"
        BY <1>7, <3>1
      <3>3. i + 2 = 1
        BY <2>1, <3>2
      <3> QED
        BY <1>4, <3>3
    <2>3. \A i \in 1 .. Len(r) : r[i].do # "notify"
      BY <1>6, <2>1
    <2>4. ~Late(r, f, v)
      BY <2>3 DEF Late
    <2>5. Late(s, f, v) <=> f = x.on /\ v = x.val
      BY <1>1, <1>4, <1>11, <2>1, <2>2 DEF Late
    <2> QED
      BY <2>4, <2>5
  <1> QED
    BY <1>2, <1>9, <1>10, <1>11 DEF x, r

-----------------------------------------------------------------------------
(* Kinds, the end of threads, and fields, step by step.                    *)

\* A background thread starts or ends a round of its loop.
Loops(b) == LoopTest(b) \/ (b = TcpReceiver /\ PeerCloses)

\* The steps, by what they do here.
Moves(t) ==
    \/ Passes(t)
    \/ Looks(t) /\ UNCHANGED <<event_configs_, fields, life>>
    \/ NewField(t) \/ StoreField(t) \/ Notify(t) \/ Stop(t) \/ JoinThread(t)
    \/ t \in User /\ Begin(t)
    \/ t \in Background /\ Loops(t)

\* Every step is one of them, of one thread.
LEMMA NextIs ==
    ASSUME HandlersKeepOrder, ThreadsInv, TypeOK, Next
    PROVE  \E t \in Thread : ThreadsInv' /\ OnlyMoves(t) /\ Moves(t)
  <1>0. Background \subseteq Thread /\ User \subseteq Thread
    BY DEF Thread
  <1>1. ASSUME NEW u \in User, Begin(u)
        PROVE  u \in Thread /\ ThreadsInv' /\ OnlyMoves(u) /\ Moves(u)
    BY <1>0, <1>1, BeginThreads DEF Moves
  <1>2. ASSUME NEW t \in Thread, GoOn(t)
        PROVE  ThreadsInv' /\ OnlyMoves(t) /\ Moves(t)
    <2>0. ThreadsInv' /\ OnlyMoves(t)
      BY <1>2, GoOnThreads
    <2>1. \/ Passes(t)
          \/ RunHandler(t) \/ TestAvailable(t) \/ RouteMessage(t) \/ RouteMethod(t)
          \/ RouteSkeleton(t) \/ RouteEvent(t) \/ RouteProxy(t)
          \/ NewField(t) \/ StoreField(t) \/ Notify(t) \/ Stop(t) \/ JoinThread(t)
      BY <1>2 DEF GoOn, Passes, Configures, Lives
    <2>2. CASE \/ RunHandler(t) \/ TestAvailable(t) \/ RouteMessage(t) \/ RouteMethod(t)
               \/ RouteSkeleton(t) \/ RouteEvent(t) \/ RouteProxy(t)
      <3>1. UNCHANGED <<event_configs_, fields, life>>
        BY <2>2 DEF RunHandler, TestAvailable, RouteMessage, RouteMethod, RouteSkeleton,
                    RouteEvent, RouteProxy, events
      <3>2. Looks(t)
        BY <2>2, LooksUp
      <3> QED
        BY <2>0, <3>1, <3>2 DEF Moves
    <2> QED
      BY <2>0, <2>1, <2>2 DEF Moves
  <1>3. ASSUME NEW b \in Background, Wake(b) \/ \E m \in Arrivals : Receive(b, m[1], m[2])
        PROVE  b \in Thread /\ ThreadsInv' /\ OnlyMoves(b) /\ Moves(b)
    <2>1. b \in Thread
      BY <1>0
    <2>2. UNCHANGED <<event_configs_, fields, life>>
      BY <1>3 DEF Wake, Receive, events
    <2>3. Looks(b)
      BY <1>3, <2>1, LooksUp
    <2>4. ThreadsInv' /\ OnlyMoves(b)
      BY <1>3, WakeThreads
    <2> QED
      BY <2>1, <2>2, <2>3, <2>4 DEF Moves
  <1>4. ASSUME NEW b \in Background, LoopTest(b)
        PROVE  b \in Thread /\ ThreadsInv' /\ OnlyMoves(b) /\ Moves(b)
    BY <1>0, <1>4, LoopThreads DEF Moves, Loops
  <1>5. ASSUME PeerCloses
        PROVE  /\ TcpReceiver \in Thread /\ ThreadsInv'
               /\ OnlyMoves(TcpReceiver) /\ Moves(TcpReceiver)
    <2>1. TcpReceiver \in Background
      BY DEF Background
    <2> QED
      BY <1>0, <1>5, <2>1, PeerClosesThreads DEF Moves, Loops
  <1> QED
    BY <1>1, <1>2, <1>3, <1>4, <1>5 DEF Next

\* A user thread makes a call.
LEMMA BeginMoves ==
    ASSUME ThreadsInv, TypeOK, NEW u \in User, Begin(u)
    PROVE  /\ todo[u] = <<>> /\ Kind(todo'[u]) /\ UNCHANGED <<event_configs_, fields, life>>
           /\ \A b : ~Joins(todo[u], b) /\ ~Joins(todo'[u], b)
           /\ \A f, v : ~Late(todo[u], f, v)
           /\ FieldsAreSet => \A f \in Field : \A v : ~Late(todo'[u], f, v)
  <1>1. PICK c \in calls[u] : todo' = [todo EXCEPT ![u] = Body(c)]
    BY DEF Begin
  <1>2. todo[u] = <<>> /\ UNCHANGED <<event_configs_, fields, life>>
    BY DEF Begin, events
  <1>3. IsCall(c) /\ (FieldsAreSet => (c.do = "notify_event" => c.on \notin Field))
    <2>1. PICK sc \in Scenarios : \A x \in User : calls[x] \subseteq sc[x]
      BY DEF TypeOK
    <2>2. c \in sc[u]
      BY <1>1, <2>1
    <2> QED
      BY <2>2, DispatchAssumption DEF FieldsAreSet
  <1>4. todo \in [Thread -> Seq(AnyStep)] /\ u \in Thread
    BY DEF ThreadsInv, Thread
  <1>5. todo'[u] = Body(c)
    BY <1>1, <1>4
  <1>6. (\A b : ~Joins(<<>>, b)) /\ \A f, v : ~Late(<<>>, f, v)
    BY DEF Joins, Late
  <1> QED
    BY <1>2, <1>3, <1>5, <1>6, BodyIs

\* A background thread tests its loop condition, or ends.
LEMMA LoopMoves ==
    ASSUME ThreadsInv, Kinds, NEW b \in Background, Loops(b)
    PROVE  /\ Kind(todo'[b]) /\ UNCHANGED <<event_configs_, fields, running_, told>>
           /\ todo[b] = <<>> \/ (todo[b] # <<>> /\ Head(todo[b]).do = "block")
           /\ todo'[b] = <<>> \/ (UNCHANGED alive /\ b \in alive)
           /\ alive' \in {alive, alive \ {b}}
           /\ \A k : ~Joins(todo[b], k) /\ ~Joins(todo'[b], k)
           /\ \A f, v : ~Late(todo[b], f, v) /\ ~Late(todo'[b], f, v)
  <1>1. UNCHANGED <<event_configs_, fields, running_, told>>
    BY DEF Loops, LoopTest, PeerCloses, events
  <1>2. todo \in [Thread -> Seq(AnyStep)] /\ b \in Thread /\ Kind(todo[b])
    BY DEF ThreadsInv, Thread, Kinds
  <1>3. (\A k : ~Joins(<<>>, k)) /\ (\A f, v : ~Late(<<>>, f, v)) /\ Kind(<<>>)
    BY DEF Joins, Late, Kind, Lean
  <1>4. CASE LoopTest(b) /\ alive' = alive \ {b} /\ UNCHANGED todo
    <2>1. todo[b] = <<>> /\ todo'[b] = <<>>
      BY <1>4 DEF LoopTest
    <2> QED
      BY <1>1, <1>3, <1>4, <2>1
  <1>5. CASE /\ LoopTest(b) /\ UNCHANGED alive
             /\ todo' = [todo EXCEPT ![b] = <<Step("block", None, None)>>]
    <2> DEFINE s == <<Step("block", None, None)>>
    <2>1. "block" \in Lookup /\ None \in Thing
      BY Things DEF Lookup
    <2>2. Lean(s)
      BY <2>1, LookupIs
    <2>3. todo'[b] = s /\ todo[b] = <<>> /\ b \in alive
      BY <1>2, <1>5 DEF LoopTest
    <2> HIDE DEF s
    <2> QED
      BY <1>1, <1>3, <1>5, <2>2, <2>3, LeanIs DEF Kind
  <1>6. CASE b = TcpReceiver /\ PeerCloses
    <2>1. /\ todo[b] # <<>> /\ Head(todo[b]).do = "block"
          /\ todo' = [todo EXCEPT ![b] = <<>>] /\ alive' = alive \ {b}
      BY <1>6 DEF PeerCloses, At
    <2>2. todo'[b] = <<>>
      BY <1>2, <2>1
    <2>3. Lean(todo[b])
      <3>1. "block" \in Lookup
        BY DEF Lookup
      <3> QED
        BY <1>2, <2>1, <3>1, AfterLookup
    <2> QED
      BY <1>1, <1>3, <2>1, <2>2, <2>3, LeanIs
  <1> QED
    BY <1>4, <1>5, <1>6 DEF Loops, LoopTest

\* A thread that goes on leaves the end of threads as it was.
LEMMA EndMoves ==
    ASSUME ThreadsEnd, NEW t \in Thread, OnlyMoves(t), UNCHANGED <<running_, alive>>,
           told' \subseteq told, t \in User \/ todo[t] # <<>>,
           \A b \in alive : Joins(todo[t], b) => Joins(todo'[t], b),
           \A b \in told' : Halts(todo[t], b) => Halts(todo'[t], b)
    PROVE  ThreadsEnd'
  <1>1. ASSUME NEW b \in Background \ alive PROVE todo'[b] = <<>>
    <2>1. todo[b] = <<>> /\ b \in Thread
      BY <1>1 DEF ThreadsEnd, Thread
    <2>2. b # t
      BY <2>1, DispatchAssumption
    <2> QED
      BY <2>1, <2>2 DEF OnlyMoves
  <1>2. ASSUME NEW b \in alive, ~running_ PROVE \E u \in User : Joins(todo'[u], b)
    <2>1. PICK u \in User : Joins(todo[u], b)
      BY <1>2 DEF ThreadsEnd
    <2>2. u \in Thread
      BY DEF Thread
    <2>3. Joins(todo'[u], b)
      BY <2>1, <2>2 DEF OnlyMoves
    <2> QED
      BY <2>3
  <1>3. ASSUME NEW b \in told', ~running_ PROVE \E u \in User : Halts(todo'[u], b)
    <2>1. PICK u \in User : Halts(todo[u], b)
      BY <1>3 DEF ThreadsEnd
    <2>2. u \in Thread
      BY DEF Thread
    <2>3. Halts(todo'[u], b)
      BY <1>3, <2>1, <2>2 DEF OnlyMoves
    <2> QED
      BY <2>3
  <1> QED
    BY <1>1, <1>2, <1>3 DEF ThreadsEnd

\* A thread has nothing more to tell of than before.
LEMMA FieldsMove ==
    ASSUME ThreadsInv, ThreadsInv', FieldsAgree, NEW t \in Thread, OnlyMoves(t),
           UNCHANGED <<event_configs_, fields>>,
           todo[t] = <<>> \/ Head(todo[t]).do \notin {"offer_group", "erase_config"},
           \A f \in Field : \A v : Late(todo'[t], f, v) <=> Late(todo[t], f, v)
    PROVE  FieldsAgree'
  <1>1. \A u \in Thread, f \in Field : \A v : Late(todo'[u], f, v) <=> Late(todo[u], f, v)
    BY DEF OnlyMoves
  <1>2. UNCHANGED <<fields_, last, alone>>
    BY DEF fields
  <1>3. ASSUME NEW f \in Field, Told(f) PROVE Told(f)'
    <2>1. todo[t] = <<>> \/ todo[t][1].do \notin {"offer_group", "erase_config"}
      BY DEF ThreadsInv
    <2>2. Pending(f) => Pending(f)'
      BY <2>1, PendingStays
    <2> QED
      BY <1>2, <1>3, <2>2 DEF Told
  <1> QED
    BY <1>1, <1>2, <1>3 DEF FieldsAgree

\* The steps that change what is configured and offered leave told what was.
LEMMA FieldsConfigure ==
    ASSUME ThreadsInv, ThreadsInv', EventTypes, FieldTypes, OfferingInv, FieldsAgree,
           NEW t \in Thread, OnlyMoves(t), Configures(t),
           \A f \in Field : \A v : Late(todo'[t], f, v) <=> Late(todo[t], f, v)
    PROVE  FieldsAgree'
  <1>1. \A u \in Thread, f \in Field : \A v : Late(todo'[u], f, v) <=> Late(todo[u], f, v)
    BY DEF OnlyMoves
  <1>2. UNCHANGED fields_ /\ \A f \in Field : alone'[f] => alone[f]
    BY DEF Configures, StoreConfig, OfferGroup, DropGroup, EraseConfig, StoreClient, fields
  <1>a. ASSUME \A f \in Field : Told(f) /\ alone'[f] => Told(f)' PROVE FieldsAgree'
    <2> SUFFICES ASSUME NEW f \in Field, fields_'[f] # None, alone'[f]
                 PROVE  /\ \A x, u \in Thread, v, w \in Value :
                              Late(todo'[x], f, v) /\ Late(todo'[u], f, w) => x = u
                        /\ \A x \in Thread, v \in Value : Late(todo'[x], f, v) => v = fields_'[f]
                        /\ (\A x \in Thread, v \in Value : ~Late(todo'[x], f, v)) => Told(f)'
      BY DEF FieldsAgree
    <2>1. fields_[f] # None /\ alone[f] /\ (Told(f) => Told(f)') /\ fields_'[f] = fields_[f]
      BY <1>2, <1>a
    <2>2. /\ \A x, u \in Thread, v, w \in Value :
                Late(todo[x], f, v) /\ Late(todo[u], f, w) => x = u
          /\ \A x \in Thread, v \in Value : Late(todo[x], f, v) => v = fields_[f]
          /\ (\A x \in Thread, v \in Value : ~Late(todo[x], f, v)) => Told(f)
      BY <2>1 DEF FieldsAgree
    <2>3. \A x \in Thread : \A v : Late(todo'[x], f, v) <=> Late(todo[x], f, v)
      BY <1>1
    <2> QED
      BY <2>1, <2>2, <2>3
  <1> SUFFICES ASSUME NEW f \in Field, Told(f), alone'[f] PROVE Told(f)'
    BY <1>a
  <1> DEFINE e == On(t)
  <1>3. /\ todo[t] # <<>> /\ e \in Event /\ Head(todo[t]) = todo[t][1]
        /\ e = todo[t][1].on /\ Val(t) = todo[t][1].val
    <2>1. PICK do \in ConfigSteps : At(t, do)
      BY DEF Configures, StoreConfig, OfferGroup, DropGroup, EraseConfig, StoreClient, ConfigSteps
    <2> QED
      BY <2>1, HeadFits, HeadSpeaks DEF ConfigSteps
  <1>4. f \in Event
    BY DispatchAssumption
  <1>5. ASSUME f # e \/ todo[t][1].do \notin {"offer_group", "erase_config"}
        PROVE  Pending(f) => Pending(f)'
    BY <1>3, <1>5, PendingStays
  <1> HIDE DEF e
  <1>6. CASE StoreConfig(t)
    <2>1. todo[t][1].do = "store_config"
      BY <1>3, <1>6 DEF StoreConfig, At
    <2>2. CASE f = e
      <3>1. At(t, "store_config") /\ Done(t)
        BY <1>6 DEF StoreConfig
      <3>2. Pending(f)'
        BY <2>2, <3>1, NextPending DEF e
      <3> QED
        BY <3>2 DEF Told
    <2>3. CASE f # e
      <3>1. event_configs_'[f] = event_configs_[f] /\ last' = last
        BY <1>4, <1>6, <2>3 DEF StoreConfig, EventTypes, e, fields
      <3> QED
        BY <1>2, <1>5, <2>1, <3>1 DEF Told
    <2> QED
      BY <2>2, <2>3
  <1>7. CASE OfferGroup(t)
    <2>1. /\ todo[t][1].do = "offer_group" /\ UNCHANGED event_configs_
          /\ last' = Forget(Val(t))
      BY <1>3, <1>7 DEF OfferGroup, At
    <2>2. \A q \in Group : last'[f][q] = IF q = Val(t) THEN None ELSE last[f][q]
      BY <2>1, ForgetIs
    <2>3. CASE f = e
      <3>1. event_configs_[f] = Val(t)
        <4>1. Offers(todo[t])
          <5>1. todo[t] \in Seq(AnyStep)
            BY DEF ThreadsInv
          <5>2. Len(todo[t]) > 0
            BY <1>3, <5>1, EmptySeq, LenProperties
          <5> QED
            BY <2>1, <5>2 DEF Offers
        <4> QED
          BY <1>3, <2>3, <4>1 DEF OfferingInv
      <3>2. Val(t) \in Group
        BY <1>7, HeadSpeaks DEF OfferGroup
      <3>3. last'[f][event_configs_'[f]] = None
        BY <2>1, <2>2, <3>1, <3>2
      <3> QED
        BY <3>3 DEF Told
    <2>4. CASE f # e
      <3>1. event_configs_[f] \in Group \cup {None}
        BY <1>4 DEF EventTypes
      <3> QED
        BY <1>2, <1>5, <2>1, <2>2, <2>4, <3>1 DEF Told
    <2> QED
      BY <2>3, <2>4
  <1>8. CASE DropGroup(t)
    <2>1. /\ todo[t][1].do = "drop_group" /\ UNCHANGED event_configs_
          /\ UNCHANGED last \/ \E p : last' = Forget(p)
      BY <1>3, <1>8 DEF DropGroup, At
    <2>2. \A q \in Group : last'[f][q] \in {None, last[f][q]}
      BY <2>1, ForgetIs
    <2>3. event_configs_[f] \in Group \cup {None}
      BY <1>4 DEF EventTypes
    <2> QED
      BY <1>2, <1>5, <2>1, <2>2, <2>3 DEF Told
  <1>9. CASE EraseConfig(t)
    <2>1. last' = last /\ event_configs_' = [event_configs_ EXCEPT ![e] = None]
      BY <1>9 DEF EraseConfig, fields, e
    <2>2. CASE f = e
      <3>1. event_configs_'[f] = None
        BY <1>4, <2>1, <2>2 DEF EventTypes
      <3> QED
        BY <3>1 DEF Told
    <2>3. CASE f # e
      <3>1. event_configs_'[f] = event_configs_[f]
        BY <1>4, <2>1, <2>3 DEF EventTypes
      <3> QED
        BY <1>2, <1>5, <2>1, <2>3, <3>1 DEF Told
    <2> QED
      BY <2>2, <2>3
  <1>10. CASE StoreClient(t)
    <2>1. /\ todo[t][1].do = "store_client" /\ last' = last
          /\ event_configs_' = [event_configs_ EXCEPT ![e] = Val(t)]
          /\ alone' = [g \in Field |-> alone[g] /\ g # e]
      BY <1>3, <1>10 DEF StoreClient, At, e
    <2>2. f # e
      BY <2>1
    <2>3. event_configs_'[f] = event_configs_[f]
      BY <1>4, <2>1, <2>2 DEF EventTypes
    <2> QED
      BY <1>2, <1>5, <2>1, <2>2, <2>3 DEF Told
  <1> QED
    BY <1>6, <1>7, <1>8, <1>9, <1>10 DEF Configures

\* Steps of Runtime's life keep the end of threads.
LEMMA LivesEnd ==
    ASSUME TypeOK, ThreadsEnd, NEW t \in Thread, OnlyMoves(t), Lives(t), todo[t] # <<>>,
           \A b : Joins(todo'[t], b) <=> Joins(todo[t], b),
           \A b : ~Halt(t) \/ b # On(t) => (Halts(todo'[t], b) <=> Halts(todo[t], b))
    PROVE  ThreadsEnd'
  <1>1. ASSUME NEW b \in Background, todo[b] = <<>> PROVE todo'[b] = <<>>
    <2>1. b \in Thread /\ b # t
      BY <1>1 DEF Thread
    <2> QED
      BY <1>1, <2>1 DEF OnlyMoves
  <1>2. \A u \in User : \A b : Joins(todo[u], b) => Joins(todo'[u], b)
    BY DEF OnlyMoves, Thread
  <1>3. \A u \in User : \A b : ~Halt(t) \/ b # On(t) => (Halts(todo[u], b) => Halts(todo'[u], b))
    BY DEF OnlyMoves, Thread
  <1>4. \A b \in Background \ alive : todo[b] = <<>>
    BY DEF ThreadsEnd
  <1>5. CASE Start(t)
    <2>1. running_' = TRUE /\ alive \subseteq alive'
      BY <1>5 DEF Start
    <2>2. \A b \in Background \ alive' : todo'[b] = <<>>
      BY <1>1, <1>4, <2>1
    <2> QED
      BY <2>1, <2>2 DEF ThreadsEnd
  <1>6. CASE Halt(t)
    <2>1. /\ told' = told \ {On(t)} /\ UNCHANGED <<running_, alive>>
      BY <1>6 DEF Halt
    <2>2. \A b \in told' : running_ \/ \E u \in User : Halts(todo'[u], b)
      BY <1>3, <2>1 DEF ThreadsEnd
    <2>3. \A b \in alive : running_ \/ \E u \in User : Joins(todo'[u], b)
      BY <1>2 DEF ThreadsEnd
    <2>4. \A b \in Background \ alive : todo'[b] = <<>>
      BY <1>1, <1>4
    <2> QED
      BY <2>1, <2>2, <2>3, <2>4 DEF ThreadsEnd
  <1>7. CASE Connect(t) /\ ~Halt(t)
    <2>1. /\ UNCHANGED <<running_, told>>
          /\ alive' \in {alive, alive \cup {TcpReceiver}}
          /\ alive' = alive \/ TcpReceiver \in told
      BY <1>7 DEF Connect
    <2>2. \A b \in told : running_ \/ \E u \in User : Halts(todo'[u], b)
      BY <1>3, <1>7 DEF ThreadsEnd
    <2>3. \A b \in alive : running_ \/ \E u \in User : Joins(todo'[u], b)
      BY <1>2 DEF ThreadsEnd
    <2>4. \A b \in alive' : running_ \/ \E u \in User : Joins(todo'[u], b)
      BY <2>1, <2>2, <2>3, HaltsJoins
    <2>5. \A b \in Background \ alive' : todo'[b] = <<>>
      BY <1>1, <1>4, <2>1
    <2> QED
      BY <2>1, <2>2, <2>4, <2>5 DEF ThreadsEnd
  <1> QED
    BY <1>5, <1>6, <1>7 DEF Lives

\* Every step keeps the kinds, and the end of threads.
LEMMA EndStep ==
    ASSUME HandlersKeepOrder, ThreadsInv, TypeOK, Kinds, ThreadsEnd, Next
    PROVE  Kinds' /\ ThreadsEnd'
  <1>1. PICK t \in Thread : OnlyMoves(t) /\ Moves(t)
    BY NextIs
  <1>2. ASSUME Kind(todo'[t]) PROVE Kinds'
    BY <1>1, <1>2 DEF OnlyMoves, Kinds
  <1>3. CASE Passes(t)
    <2>0. PICK do \in Other \cup {"halt", "shut"} : \E h :
             At(t, do) /\ GoOnWith(t, Tail(todo[t]), h) /\ (do = "halt" => Halt(t))
      BY <1>3, PassesPlain
    <2>1. PICK h : At(t, do) /\ GoOnWith(t, Tail(todo[t]), h)
      BY <2>0
    <2>2. /\ Kind(todo'[t]) /\ todo[t] # <<>>
          /\ \A b : Joins(todo'[t], b) <=> Joins(todo[t], b)
          /\ \A b : do # "halt" \/ b # On(t) => (Halts(todo'[t], b) <=> Halts(todo[t], b))
      BY <2>1, PlainMoves
    <2>4. \A b : ~Halt(t) \/ b # On(t) => (Halts(todo'[t], b) <=> Halts(todo[t], b))
      BY <2>0, <2>2
    <2>5. CASE UNCHANGED life
      <3>1. UNCHANGED <<running_, told, alive>>
        BY <2>5 DEF life
      <3>2. \A b \in told' : Halts(todo[t], b) => Halts(todo'[t], b)
        BY <2>4, <3>1 DEF Halt
      <3> QED
        BY <1>1, <1>2, <2>2, <3>1, <3>2, EndMoves
    <2>6. CASE Lives(t)
      BY <1>1, <1>2, <2>2, <2>4, <2>6, LivesEnd
    <2> QED
      BY <1>3, <2>5, <2>6, PassesPlain
  <1>4. CASE Looks(t) /\ UNCHANGED <<event_configs_, fields, life>>
    <2>1. UNCHANGED <<running_, told, alive>>
      BY <1>4 DEF life
    <2>2. /\ Kind(todo'[t]) /\ todo[t] # <<>>
          /\ \A b : ~Joins(todo[t], b)
      BY <1>4, LookMoves
    <2> QED
      BY <1>1, <1>2, <2>1, <2>2, HaltsJoins, EndMoves
  <1>5. CASE NewField(t) \/ StoreField(t) \/ Notify(t)
    <2>1. /\ todo[t] # <<>> /\ Head(todo[t]).do \in FieldSteps
          /\ GoOnWith(t, Tail(todo[t]), held) /\ UNCHANGED <<running_, told, alive>>
          /\ todo[t] \in Seq(AnyStep) /\ Kind(todo[t])
      BY <1>5 DEF NewField, StoreField, Notify, At, Done, life, FieldSteps, ThreadsInv, Kinds
    <2>2. \A b : Joins(todo[t], b) <=> Joins(Tail(todo[t]), b)
      BY <2>1, ChangingHead
    <2>3. \A b : Halts(Tail(todo[t]), b) <=> Halts(todo[t], b)
      BY <2>1, TailHalts DEF FieldSteps
    <2>4. /\ Kind(todo'[t])
          /\ \A b : Joins(todo'[t], b) <=> Joins(Tail(todo[t]), b)
          /\ \A b : Halts(todo'[t], b) <=> Halts(Tail(todo[t]), b)
      BY <2>1, DoneMoves
    <2> QED
      BY <1>1, <1>2, <2>1, <2>2, <2>3, <2>4, EndMoves
  <1>6. CASE JoinThread(t)
    <2>1. /\ todo[t] # <<>> /\ Head(todo[t]).do = "join" /\ Head(todo[t]).on \notin alive
          /\ GoOnWith(t, Tail(todo[t]), held) /\ UNCHANGED <<running_, told, alive>>
          /\ todo[t] \in Seq(AnyStep)
      BY <1>6 DEF JoinThread, At, On, Done, life, ThreadsInv
    <2>2. /\ \A b \in alive : Joins(Tail(todo[t]), b) <=> Joins(todo[t], b)
          /\ \A b : Halts(Tail(todo[t]), b) <=> Halts(todo[t], b)
      BY <2>1, TailJoins, TailHalts
    <2>3. /\ Kind(todo'[t])
          /\ \A b : Joins(todo'[t], b) <=> Joins(Tail(todo[t]), b)
          /\ \A b : Halts(todo'[t], b) <=> Halts(Tail(todo[t]), b)
      BY <2>1, DoneMoves
    <2> QED
      BY <1>1, <1>2, <2>1, <2>2, <2>3, EndMoves
  <1>7. CASE Stop(t)
    <2>1. /\ t \in User /\ Kind(todo'[t])
          /\ \A b : ~Joins(todo[t], b)
          /\ running_ => \A b \in Background : Joins(todo'[t], b) /\ Halts(todo'[t], b)
      BY <1>7, StopMoves
    <2>2. running_' = FALSE /\ UNCHANGED <<told, alive>>
      BY <1>7 DEF Stop
    <2>3. ASSUME NEW b \in Background \ alive PROVE todo'[b] = <<>>
      <3>1. b \in Thread /\ b # t /\ todo[b] = <<>>
        BY <2>1, DispatchAssumption DEF Thread, ThreadsEnd
      <3> QED
        BY <1>1, <3>1 DEF OnlyMoves
    <2>4. ASSUME NEW b \in alive PROVE \E u \in User : Joins(todo'[u], b)
      <3>1. CASE running_
        BY <2>1, <3>1 DEF TypeOK
      <3>2. CASE ~running_
        <4>1. PICK u \in User : Joins(todo[u], b)
          BY <3>2 DEF ThreadsEnd
        <4>2. u \in Thread \ {t}
          BY <2>1, <4>1 DEF Thread
        <4> QED
          BY <1>1, <4>1, <4>2 DEF OnlyMoves
      <3> QED
        BY <3>1, <3>2
    <2>5. ASSUME NEW b \in told PROVE \E u \in User : Halts(todo'[u], b)
      <3>1. CASE running_
        BY <2>1, <3>1 DEF TypeOK
      <3>2. CASE ~running_
        <4>1. PICK u \in User : Halts(todo[u], b)
          BY <3>2 DEF ThreadsEnd
        <4>2. u \in Thread \ {t}
          BY <2>1, <4>1, HaltsJoins DEF Thread
        <4> QED
          BY <1>1, <4>1, <4>2 DEF OnlyMoves
      <3> QED
        BY <3>1, <3>2
    <2> QED
      BY <1>2, <2>1, <2>2, <2>3, <2>4, <2>5 DEF ThreadsEnd
  <1>8. CASE t \in User /\ Begin(t)
    <2>1. /\ UNCHANGED <<running_, told, alive>> /\ Kind(todo'[t])
          /\ \A b : ~Joins(todo[t], b)
      BY <1>8, BeginMoves DEF life
    <2> QED
      BY <1>1, <1>2, <1>8, <2>1, HaltsJoins, EndMoves
  <1>9. CASE t \in Background /\ Loops(t)
    <2>1. /\ Kind(todo'[t]) /\ UNCHANGED <<running_, told>>
          /\ todo'[t] = <<>> \/ (UNCHANGED alive /\ t \in alive)
          /\ alive' \in {alive, alive \ {t}}
      BY <1>9, LoopMoves
    <2>2. ASSUME NEW b \in Background \ alive' PROVE todo'[b] = <<>>
      <3>1. CASE b = t
        BY <2>1, <2>2, <3>1
      <3>2. CASE b # t
        <4>1. b \in Thread \ {t} /\ todo[b] = <<>>
          BY <2>1, <2>2, <3>2 DEF Thread, ThreadsEnd
        <4> QED
          BY <1>1, <4>1 DEF OnlyMoves
      <3> QED
        BY <3>1, <3>2
    <2>3. \A u \in User : todo'[u] = todo[u]
      BY <1>1, <1>9, DispatchAssumption DEF OnlyMoves, Thread
    <2>4. \A b \in alive' : running_ \/ \E u \in User : Joins(todo'[u], b)
      BY <2>1, <2>3 DEF ThreadsEnd
    <2>5. \A b \in told : running_ \/ \E u \in User : Halts(todo'[u], b)
      BY <2>3 DEF ThreadsEnd
    <2> QED
      BY <1>2, <2>1, <2>2, <2>4, <2>5 DEF ThreadsEnd
  <1> QED
    BY <1>1, <1>3, <1>4, <1>5, <1>6, <1>7, <1>8, <1>9 DEF Moves

\* The steps that change a field or tell of it.
LEMMA FieldChanges ==
    ASSUME ThreadsInv, ThreadsInv', EventTypes, FieldTypes, ListsInv, Kinds, FieldsAgree,
           NEW t \in Thread, OnlyMoves(t), NewField(t) \/ StoreField(t) \/ Notify(t)
    PROVE  FieldsAgree'
  <1> DEFINE x == Head(todo[t])
             r == Tail(todo[t])
  <1>1. PICK do \in FieldSteps : At(t, do)
    BY DEF NewField, StoreField, Notify, FieldSteps
  <1>2. GoOnWith(t, r, held)
    BY DEF NewField, StoreField, Notify, Done
  <1>3. todo[t] # <<>> /\ x.do \in FieldSteps /\ todo[t] \in Seq(AnyStep) /\ Kind(todo[t])
    BY <1>1 DEF At, ThreadsInv, Kinds
  <1>4. /\ x.do = "new_field" => \A f, v : ~Late(todo[t], f, v) /\ ~Late(r, f, v)
        /\ x.do = "store_field" => \A f, v :
              ~Late(todo[t], f, v) /\ (Late(r, f, v) <=> f = x.on /\ v = x.val)
        /\ x.do = "notify" => \A f, v :
              (Late(todo[t], f, v) <=> f = x.on /\ v = x.val) /\ ~Late(r, f, v)
    BY <1>3, ChangingHead
  <1>5. \A f, v : Late(todo'[t], f, v) <=> Late(r, f, v)
    BY <1>2, <1>3, DoneMoves
  <1>6. \A u \in Thread \ {t} : todo'[u] = todo[u]
    BY DEF OnlyMoves
  <1>p. \A f : Pending(f) => Pending(f)'
    <2>1. todo[t][1].do \notin {"offer_group", "erase_config"}
      BY <1>1, HeadFits DEF FieldSteps
    <2> QED
      BY <2>1, PendingStays
  <1>c. UNCHANGED event_configs_
    BY DEF NewField, StoreField, Notify, events
  <1>7. ASSUME NEW f, Alone(t, f), NEW u \in Thread \ {t}, NEW v PROVE ~Late(todo[u], f, v)
    <2>1. todo[u] \in Seq(AnyStep)
      BY DEF ThreadsInv
    <2>2. DOMAIN todo[u] = 1 .. Len(todo[u])
      BY <2>1, LenProperties
    <2> QED
      BY <1>7, <2>2 DEF Alone, Late
  <1>8. /\ On(t) = x.on /\ Val(t) = x.val
        /\ x.do \in {"store_field", "notify"} => x.val \in Value
    <2>1. At(t, x.do)
      BY <1>3 DEF At
    <2> QED
      BY <2>1, HeadSpeaks DEF On, Val
  <1> HIDE DEF x, r
  <1> DEFINE Agree(f) ==
               fields_[f] # None /\ alone[f] =>
                 /\ \A u, w \in Thread, v, z \in Value :
                       Late(todo[u], f, v) /\ Late(todo[w], f, z) => u = w
                 /\ \A u \in Thread, v \in Value : Late(todo[u], f, v) => v = fields_[f]
                 /\ (\A u \in Thread, v \in Value : ~Late(todo[u], f, v)) => Told(f)
  <1>9. \A f \in Field : Agree(f)
    BY DEF FieldsAgree
  <1>10. SUFFICES ASSUME NEW f \in Field PROVE Agree(f)'
    BY DEF FieldsAgree
  <1>t. f \in Event /\ event_configs_[f] \in Group \cup {None}
    BY DispatchAssumption DEF EventTypes
  <1>11. ASSUME f # x.on PROVE Agree(f)'
    <2>1. fields_'[f] = fields_[f] /\ last'[f] = last[f] /\ alone'[f] = alone[f]
      BY <1>8, <1>11 DEF NewField, StoreField, Notify, FieldTypes
    <2>2. \A v : Late(todo'[t], f, v) <=> Late(todo[t], f, v)
      BY <1>3, <1>4, <1>5, <1>11 DEF FieldSteps
    <2>3. \A u \in Thread : \A v : Late(todo'[u], f, v) <=> Late(todo[u], f, v)
      BY <1>6, <2>2
    <2>4. Told(f) => Told(f)'
      BY <1>c, <1>p, <2>1 DEF Told
    <2> QED
      BY <1>9, <2>1, <2>3, <2>4
  <1>12. ASSUME f = x.on, NewField(t) PROVE Agree(f)'
    <2>1. x.do = "new_field"
      BY <1>12 DEF NewField, At, x
    <2>2. Told(f)'
      <3>1. last'[f] = [p \in Group |-> None]
        BY <1>8, <1>12 DEF NewField, FieldTypes
      <3> QED
        BY <1>c, <1>t, <3>1 DEF Told
    <2>3. ASSUME alone'[f] PROVE Alone(t, f)
      BY <1>8, <1>12, <2>3 DEF NewField, FieldTypes
    <2>4. \A v : ~Late(todo'[t], f, v)
      BY <1>4, <1>5, <2>1
    <2>5. ASSUME alone'[f], NEW u \in Thread, NEW v PROVE ~Late(todo'[u], f, v)
      BY <1>6, <1>7, <2>3, <2>4, <2>5
    <2> QED
      BY <2>2, <2>5
  <1>13. ASSUME f = x.on, StoreField(t) PROVE Agree(f)'
    <2>1. x.do = "store_field"
      BY <1>13 DEF StoreField, At, x
    <2>2. fields_'[f] # None => fields_'[f] = x.val
      BY <1>8, <1>13 DEF StoreField, FieldTypes
    <2>3. ASSUME alone'[f] PROVE Alone(t, f)
      BY <1>8, <1>13, <2>3 DEF StoreField, FieldTypes
    <2>4. \A v : Late(todo'[t], f, v) <=> v = x.val
      BY <1>4, <1>5, <1>13, <2>1
    <2>5. ASSUME alone'[f], NEW u \in Thread \ {t}, NEW v PROVE ~Late(todo'[u], f, v)
      BY <1>6, <1>7, <2>3, <2>5
    <2>6. x.val \in Value
      BY <1>8, <2>1
    <2> QED
      BY <2>2, <2>4, <2>5, <2>6
  <1>14. ASSUME f = x.on, Notify(t) PROVE Agree(f)'
    <2>1. x.do = "notify" /\ x.val \in Value
      BY <1>8, <1>14 DEF Notify, At, x
    <2>2. /\ fields_'[f] = fields_[f] /\ alone'[f] = alone[f]
          /\ last' = IF event_configs_[f] \in eventgroups_
                     THEN [last EXCEPT ![f][event_configs_[f]] = x.val] ELSE last
      BY <1>8, <1>14 DEF Notify
    <2>3. \A v : (Late(todo[t], f, v) <=> v = x.val) /\ ~Late(todo'[t], f, v)
      BY <1>4, <1>5, <1>14, <2>1
    <2>4. ASSUME fields_[f] # None, alone[f]
          PROVE  /\ x.val = fields_[f]
                 /\ \A u \in Thread \ {t}, v \in Value : ~Late(todo[u], f, v)
      BY <1>9, <2>1, <2>3, <2>4
    <2>5. ASSUME fields_[f] # None, alone[f], NEW u \in Thread, NEW v \in Value
          PROVE  ~Late(todo'[u], f, v)
      BY <1>6, <2>3, <2>4, <2>5
    <2>6. ASSUME fields_[f] # None, alone[f] PROVE Told(f)'
      <3> DEFINE p == event_configs_[f]
      <3>1. CASE p = None
        BY <1>c, <3>1 DEF Told
      <3>2. CASE p \in Group /\ p \in eventgroups_
        <4>1. last'[f][p] = x.val
          BY <2>2, <3>2 DEF FieldTypes
        <4> QED
          BY <1>c, <2>2, <2>4, <2>6, <4>1 DEF Told
      <3>3. CASE p \in Group \ eventgroups_
        <4>1. last'[f][p] = None
          BY <2>2, <3>3 DEF ListsInv
        <4> QED
          BY <1>c, <4>1 DEF Told
      <3> QED
        BY <1>t, <3>1, <3>2, <3>3
    <2> QED
      BY <2>2, <2>4, <2>5, <2>6
  <1> QED
    BY <1>11, <1>12, <1>13, <1>14

\* Every step keeps what fields and notifications have in common.
LEMMA FieldsStep ==
    ASSUME HandlersKeepOrder, FieldsAreSet, IInv, TypeOK, Kinds, FieldsAgree, Next
    PROVE  FieldsAgree'
  <1>0. ThreadsInv /\ EventTypes /\ FieldTypes /\ OfferingInv /\ ListsInv
    BY DEF IInv, Tables
  <1>1. PICK t \in Thread : ThreadsInv' /\ OnlyMoves(t) /\ Moves(t)
    BY <1>0, NextIs
  <1>2. ASSUME UNCHANGED <<event_configs_, fields>>,
               todo[t] = <<>> \/ Head(todo[t]).do \notin {"offer_group", "erase_config"},
               \A f \in Field : \A v : Late(todo'[t], f, v) <=> Late(todo[t], f, v)
        PROVE  FieldsAgree'
    BY <1>0, <1>1, <1>2, FieldsMove
  <1>3. CASE Passes(t)
    <2>0. PICK do \in Other \cup {"halt", "shut"} : \E h :
             At(t, do) /\ GoOnWith(t, Tail(todo[t]), h) /\ (do \in ConfigSteps => Configures(t))
      BY <1>3, PassesPlain
    <2>1. PICK h : At(t, do) /\ GoOnWith(t, Tail(todo[t]), h)
      BY <2>0
    <2>2. \A f, v : Late(todo'[t], f, v) <=> Late(todo[t], f, v)
      BY <1>0, <2>1, PlainMoves
    <2>3. CASE Configures(t)
      BY <1>0, <1>1, <2>2, <2>3, FieldsConfigure
    <2>4. CASE ~Configures(t)
      <3>1. UNCHANGED <<event_configs_, fields>>
        BY <1>3, <2>4, PassesPlain
      <3>2. Head(todo[t]).do \notin {"offer_group", "erase_config"}
        BY <2>0, <2>4 DEF At, ConfigSteps
      <3> QED
        BY <1>2, <2>2, <3>1, <3>2
    <2> QED
      BY <2>3, <2>4
  <1>4. CASE Looks(t) /\ UNCHANGED <<event_configs_, fields, life>>
    <2>1. \A f \in Field : \A v : Late(todo'[t], f, v) <=> Late(todo[t], f, v)
      BY <1>0, <1>4, LookMoves
    <2>2. Head(todo[t]).do \notin {"offer_group", "erase_config"}
      BY <1>4 DEF Looks, At, Lookup
    <2> QED
      BY <1>2, <1>4, <2>1, <2>2
  <1>5. CASE NewField(t) \/ StoreField(t) \/ Notify(t)
    BY <1>0, <1>1, <1>5, FieldChanges
  <1>6. CASE Stop(t)
    <2>1. UNCHANGED <<event_configs_, fields>> /\ Head(todo[t]).do = "runtime_stop"
      BY <1>6 DEF Stop, At, events
    <2>2. \A f, v : Late(todo'[t], f, v) <=> Late(todo[t], f, v)
      BY <1>0, <1>6, StopMoves
    <2> QED
      BY <1>2, <2>1, <2>2
  <1>7. CASE JoinThread(t)
    <2>1. /\ todo[t] # <<>> /\ Head(todo[t]).do = "join" /\ todo[t] \in Seq(AnyStep)
          /\ GoOnWith(t, Tail(todo[t]), held) /\ UNCHANGED <<event_configs_, fields>>
      BY <1>0, <1>7 DEF JoinThread, At, Done, ThreadsInv, events
    <2>2. \A f, v : Late(Tail(todo[t]), f, v) <=> Late(todo[t], f, v)
      BY <2>1, TailLate
    <2>3. \A f, v : Late(todo'[t], f, v) <=> Late(todo[t], f, v)
      BY <1>0, <2>1, <2>2, DoneMoves
    <2> QED
      BY <1>2, <2>1, <2>3
  <1>8. CASE t \in User /\ Begin(t)
    <2>1. /\ todo[t] = <<>> /\ UNCHANGED <<event_configs_, fields>>
          /\ \A f \in Field : \A v : Late(todo'[t], f, v) <=> Late(todo[t], f, v)
      BY <1>0, <1>8, BeginMoves
    <2> QED
      BY <1>2, <2>1
  <1>9. CASE t \in Background /\ Loops(t)
    <2>1. /\ todo[t] = <<>> \/ Head(todo[t]).do = "block"
          /\ UNCHANGED <<event_configs_, fields>>
          /\ \A f, v : Late(todo'[t], f, v) <=> Late(todo[t], f, v)
      BY <1>0, <1>9, LoopMoves
    <2> QED
      BY <1>2, <2>1
  <1> QED
    BY <1>1, <1>3, <1>4, <1>5, <1>6, <1>7, <1>8, <1>9 DEF Moves

\* Threads at rest have ended, and have nothing to tell of.
LEMMA InitKinds == Init => Kinds /\ ThreadsEnd /\ FieldsAgree
  <1> SUFFICES ASSUME Init PROVE Kinds /\ ThreadsEnd /\ FieldsAgree
    OBVIOUS
  <1>1. \A t \in Thread : todo[t] = <<>>
    BY DEF Init
  <1>2. Kind(<<>>)
    BY DEF Kind, Lean
  <1>3. \A b \in Background : b \in Thread
    BY DEF Thread
  <1>4. alive = {} /\ told = {} /\ \A f \in Field : fields_[f] = None
    BY DEF Init
  <1> QED
    BY <1>1, <1>2, <1>3, <1>4 DEF Kinds, ThreadsEnd, FieldsAgree

\* Threads that no longer run have been joined.
LEMMA JoinedIsQuiet ==
    ASSUME ThreadsInv, TypeOK, Kinds, ThreadsEnd
    PROVE  StoppedIsQuiet
  <1> SUFFICES ASSUME ~running_,
                      \A u \in User : ~At(u, "halt") /\ ~At(u, "shut") /\ ~At(u, "join")
               PROVE  alive = {} /\ \A b \in Background : todo[b] = <<>>
    BY DEF StoppedIsQuiet
  <1>1. ASSUME NEW b \in alive PROVE FALSE
    <2>1. PICK u \in User : Joins(todo[u], b)
      BY <1>1 DEF ThreadsEnd
    <2> DEFINE s == todo[u]
    <2>2. s \in Seq(AnyStep) /\ Kind(s)
      BY DEF ThreadsInv, Kinds, Thread
    <2>3. PICK i \in 1 .. Len(s) : s[i].do = "join"
      BY <2>1 DEF Joins
    <2>4. ~At(u, "halt") /\ ~At(u, "shut") /\ ~At(u, "join")
      OBVIOUS
    <2>5. s # <<>> => Head(s).do \notin StopSteps
      BY <2>4 DEF At, StopSteps
    <2> HIDE DEF s
    <2>6. s # <<>> /\ Head(s) = s[1] /\ 1 \in 1 .. Len(s)
      BY <2>2, <2>3, HeadTailProperties, EmptySeq, LenProperties
    <2>7. ~Lean(s) /\ ~Changing(s)
      BY <2>1, LeanIs, ChangingJoins DEF s
    <2>8. ~(Len(s) = 1 /\ s[1].do = "runtime_stop")
      <3> SUFFICES ASSUME Len(s) = 1 PROVE s[1].do # "runtime_stop"
        OBVIOUS
      <3>1. \A j \in 1 .. 1 : j = 1
        OBVIOUS
      <3>2. i = 1
        BY <2>3, <3>1, Zenon
      <3> QED
        BY <2>3, <3>2
    <2>9. Stopping(s)
      BY <2>2, <2>7, <2>8 DEF Kind
    <2> QED
      BY <2>5, <2>6, <2>9 DEF Stopping
  <1> QED
    BY <1>1 DEF ThreadsEnd

\* Fields that no thread is changing have been told of.
LEMMA ToldIsStored ==
    ASSUME ThreadsInv, FieldsAgree
    PROVE  NotifiedIsStored
  <1> SUFFICES ASSUME NEW f \in Field, fields_[f] # None, alone[f],
                      \A t \in Thread : Alone(t, f),
                      held[Config] = Nobody, event_configs_[f] # None
               PROVE  last[f][event_configs_[f]] \in {None, fields_[f]}
    BY DEF NotifiedIsStored, Free, Config
  <1>1. ASSUME NEW u \in Thread, NEW v PROVE ~Late(todo[u], f, v)
    <2>1. PICK t \in Thread : t # u
      BY DispatchAssumption DEF Thread, Background
    <2>2. Alone(t, f) /\ u \in Thread \ {t}
      BY <2>1
    <2>3. todo[u] \in Seq(AnyStep)
      BY DEF ThreadsInv
    <2>4. DOMAIN todo[u] = 1 .. Len(todo[u])
      BY <2>3, LenProperties
    <2> QED
      BY <2>2, <2>4 DEF Alone, Late
  <1>2. ~Pending(f)
    BY DispatchAssumption DEF Pending
  <1>3. Told(f)
    BY <1>1 DEF FieldsAgree
  <1> QED
    BY <1>2, <1>3 DEF Told

\* Once Runtime::stop has returned the worker of ServiceDiscovery, the UDP receive
\* thread and the TCP receive thread have ended, whoever else starts, stops, sends
\* and connects at the same time: stop joins them before it returns, only a stop
\* that found running_ set has to, and a connection made while TcpTransport still
\* runs is made before the stop under way joins its thread.  That stop returns is
\* not claimed, and the worker of ShmAgent is not stopped at all.
THEOREM StopJoinsAll ==
    ASSUME HandlersKeepOrder
    PROVE  Spec => []StoppedIsQuiet
  <1>1. Init => Kinds /\ ThreadsEnd
    BY InitKinds
  <1>2. ThreadsInv /\ TypeOK /\ Kinds /\ ThreadsEnd /\ [Next]_vars => (Kinds /\ ThreadsEnd)'
    <2> SUFFICES ASSUME ThreadsInv, TypeOK, Kinds, ThreadsEnd, [Next]_vars
                 PROVE  (Kinds /\ ThreadsEnd)'
      OBVIOUS
    <2>1. CASE UNCHANGED vars
      <3>1. UNCHANGED <<todo, running_, told, alive>>
        BY <2>1 DEF vars, life
      <3> QED
        BY <3>1 DEF Kinds, ThreadsEnd
    <2> QED
      BY <2>1, EndStep
  <1>3. Spec => []ThreadsInv /\ []TypeOK
    <2>1. Spec => []IInv
      BY Invariance
    <2>2. IInv => ThreadsInv
      BY DEF IInv
    <2>3. Spec => []TypeOK
      BY TypeCorrect
    <2> QED
      BY <2>1, <2>2, <2>3, PTL
  <1>4. ThreadsInv /\ TypeOK /\ Kinds /\ ThreadsEnd => StoppedIsQuiet
    BY JoinedIsQuiet
  <1> QED
    BY <1>1, <1>2, <1>3, <1>4, PTL DEF Spec

\* set_field_value stores under one mutex and notifies under another, offers and
\* stop offers replace the eventgroups and their lists in between, and still what
\* the subscribers notify_event reaches were told last is the value of the field
\* once nobody is changing it, for any number of threads, services and handlers
\* that set fields.  It takes that users notify of a field in no other way, that
\* the last change overlapped no other one, and that no subscribe_event for the
\* same id turned notify_event to other subscribers since.
THEOREM FieldsAreTold ==
    ASSUME HandlersKeepOrder, FieldsAreSet
    PROVE  Spec => []NotifiedIsStored
  <1>1. Init => Kinds /\ ThreadsEnd /\ FieldsAgree
    BY InitKinds
  <1>2. IInv /\ TypeOK /\ Kinds /\ ThreadsEnd /\ FieldsAgree /\ [Next]_vars
          => (Kinds /\ ThreadsEnd /\ FieldsAgree)'
    <2> SUFFICES ASSUME IInv, TypeOK, Kinds, ThreadsEnd, FieldsAgree, [Next]_vars
                 PROVE  (Kinds /\ ThreadsEnd /\ FieldsAgree)'
      OBVIOUS
    <2>1. CASE UNCHANGED vars
      <3>1. UNCHANGED <<held, todo, running_, told, alive, event_configs_,
                        fields_, last, alone>>
        BY <2>1 DEF vars, life, events, fields
      <3> QED
        BY <3>1 DEF Kinds, ThreadsEnd, FieldsAgree, Told, Pending
    <2>2. ThreadsInv
      BY DEF IInv
    <2> QED
      BY <2>1, <2>2, EndStep, FieldsStep
  <1>3. Spec => []IInv /\ []TypeOK
    BY Invariance, TypeCorrect, PTL
  <1>4. IInv /\ FieldsAgree => NotifiedIsStored
    BY ToldIsStored DEF IInv
  <1> QED
    BY <1>1, <1>2, <1>3, <1>4, PTL DEF Spec
=============================================================================
