--------------------------- MODULE ShmAgentProofs ---------------------------
(***************************************************************************)
(* ShmAgent for any capacity, number of callers and services: its type     *)
(* invariant, its two safety invariants, and that its rings implement the  *)
(* queues of BoundedFifo.  Each ring is first shown to be a queue on its   *)
(* own (Push appends, Pop takes the oldest), so that the rest of the proof *)
(* speaks of sequences and not of indices.                                 *)
(***************************************************************************)
EXTENDS ShmAgent, FiniteSetTheorems, SequenceTheorems, TLAPS

\* The write index of a ring follows from the other two fields.
Aligned(r) == r.write_index = (r.read_index + r.count) % Capacity

\* A call in progress has a real command, and every call that has still to
\* draw its number finds one left below the bound.
CallsCarry ==
    /\ \A c \in Caller : call[c].step # "idle" =>
          call[c].type \in CommandType /\ call[c].service \in Service
    /\ sequence_ + Cardinality(Unsent) <= MaxSequence + 1

\* Both rings are aligned and hold nothing but what was put there.
RingsHold ==
    /\ Aligned(commands) /\ Contents(commands) \in Seq(Command)
    /\ Aligned(responses) /\ Contents(responses) \in Seq(Response)

\* The numbers of the commands in q ascend and end below n.
Ascending(q, n) ==
    /\ \A i \in DOMAIN q : q[i].seq < n
    /\ \A i, j \in DOMAIN q : i < j => q[i].seq < q[j].seq

\* Response x announces the state of service s.
Announces(x, s) ==
    x.type \in {"SERVICE_AVAILABLE", "SERVICE_UNAVAILABLE"} /\ x.service = s

\* With responses q on their way, known services v, registered services g and
\* missed services m: the last announcement of a service says what is
\* registered, and where there is none and none was missed the two sets agree.
Informed(q, v, g, m) ==
    \A s \in Service :
        /\ s \notin m /\ (\A i \in DOMAIN q : ~Announces(q[i], s)) => (s \in v <=> s \in g)
        /\ \A i \in DOMAIN q :
              Announces(q[i], s) /\ (\A j \in DOMAIN q : j > i => ~Announces(q[j], s))
                  => (q[i].type = "SERVICE_AVAILABLE" <=> s \in g)

\* The inductive invariant.
IInv ==
    /\ TypeOK
    /\ CallsCarry
    /\ RingsHold
    /\ Ascending(Contents(commands), sequence_)
    /\ Informed(Contents(responses), view, registry, missed)

-----------------------------------------------------------------------------
(* Rings.                                                                  *)

\* A function on 1 .. n is a sequence of n items.
LEMMA SequenceOf ==
    ASSUME NEW I, NEW n \in Nat, NEW f \in [1 .. n -> I]
    PROVE  f \in Seq(I) /\ Len(f) = n
  OBVIOUS

\* Two sequences with the same items are the same; one of them is Append(s, x).
LEMMA AppendIs ==
    ASSUME NEW I, NEW s \in Seq(I), NEW x \in I, NEW t \in Seq(I),
           Len(t) = Len(s) + 1,
           \A i \in 1 .. Len(s) : t[i] = s[i],
           t[Len(s) + 1] = x
    PROVE  t = Append(s, x)
  OBVIOUS

\* Adding to an index wraps around at most once.
LEMMA Wrap ==
    \A k \in 0 .. 2 * Capacity - 1 :
        k % Capacity = IF k < Capacity THEN k ELSE k - Capacity
  BY SMT, ShmAgentAssumption

\* Push stores behind the items that are there.
LEMMA PushAppends ==
    ASSUME NEW I, NEW r \in Ring(I), Aligned(r), ~Full(r), NEW x \in I
    PROVE  /\ Push(r, x) \in Ring(I)
           /\ Aligned(Push(r, x))
           /\ Contents(Push(r, x)) = Append(Contents(r), x)
  <1> DEFINE n == r.count  p == r.read_index  w == r.write_index
             At(k) == k % Capacity
  <1>0. /\ Capacity \in Nat \ {0}
        /\ n \in 0 .. Capacity - 1
        /\ p \in 0 .. Capacity - 1
        /\ w \in 0 .. Capacity - 1
        /\ r.slots \in [0 .. Capacity - 1 -> I]
        /\ w = At(p + n)
    BY ShmAgentAssumption DEF Ring, Index, Full, Aligned
  <1>1. \A k \in 0 .. 2 * Capacity - 1 :
            At(k) = IF k < Capacity THEN k ELSE k - Capacity
    BY Wrap
  <1> HIDE DEF At
  <1>2. /\ At(w + 1) \in Index
        /\ At(w + 1) = At(p + (n + 1))
    BY <1>0, <1>1 DEF Index
  <1>3. \A i \in 1 .. n : At(p + i - 1) \in Index /\ At(p + i - 1) # w
    BY <1>0, <1>1 DEF Index
  <1>a. /\ n + 1 \in 0 .. Capacity
        /\ p \in Index
        /\ [r.slots EXCEPT ![w] = x] \in [Index -> I]
    BY <1>0 DEF Index
  <1> USE DEF At
  <1>4. Push(r, x) \in Ring(I)
    BY <1>2, <1>a DEF Push, Ring
  <1>5. Aligned(Push(r, x))
    BY <1>2 DEF Aligned, Push
  <1>6. /\ Contents(r) = [i \in 1 .. n |-> r.slots[At(p + i - 1)]]
        /\ Contents(Push(r, x)) =
              [i \in 1 .. n + 1 |->
                  [r.slots EXCEPT ![w] = x][At(p + i - 1)]]
    BY DEF Contents, Push
  <1> HIDE DEF At, n, p, w
  <1>7. Contents(r) \in Seq(I) /\ Len(Contents(r)) = n
    <2>1. \A i \in 1 .. n : r.slots[At(p + i - 1)] \in I
      BY <1>0, <1>3 DEF Index
    <2>2. n \in Nat
      BY <1>0
    <2>3. Contents(r) \in [1 .. n -> I]
      BY <1>6, <2>1
    <2> QED
      BY <2>2, <2>3, SequenceOf
  <1>8. Contents(Push(r, x)) = Append(Contents(r), x)
    <2>1. At(p + (n + 1) - 1) = w
      BY <1>0
    <2>2. \A i \in 1 .. n : Contents(Push(r, x))[i] = Contents(r)[i]
      BY <1>0, <1>3, <1>6 DEF Index
    <2>3. Contents(Push(r, x))[n + 1] = x
      BY <1>0, <1>6, <2>1 DEF Index
    <2>4. n + 1 \in Nat /\ Contents(Push(r, x)) \in [1 .. n + 1 -> I]
      <3>1. \A i \in 1 .. n : At(p + i - 1) \in Index /\ r.slots[At(p + i - 1)] \in I
        BY <1>0, <1>3 DEF Index
      <3>2. \A i \in 1 .. n + 1 : [r.slots EXCEPT ![w] = x][At(p + i - 1)] \in I
        BY <1>0, <3>1, <2>1 DEF Index
      <3>3. n + 1 \in Nat
        BY <1>0
      <3>4. Contents(Push(r, x)) \in [1 .. n + 1 -> I]
        BY <1>6, <3>2
      <3> QED
        BY <3>3, <3>4
    <2>5. Contents(Push(r, x)) \in Seq(I) /\ Len(Contents(Push(r, x))) = n + 1
      BY <2>4, SequenceOf
    <2> QED
      BY <1>7, <2>2, <2>3, <2>5, AppendIs
  <1> QED
    BY <1>4, <1>5, <1>7, <1>8

\* A ring without items; one with items gives the oldest first.
LEMMA ContentsType ==
    ASSUME NEW I, NEW r \in Ring(I)
    PROVE  /\ Contents(r) \in Seq(I)
           /\ Len(Contents(r)) = r.count
           /\ r.count > 0 => Front(r) = Contents(r)[1]
  <1> DEFINE n == r.count  p == r.read_index
             At(k) == k % Capacity
  <1>0. /\ Capacity \in Nat \ {0}
        /\ n \in 0 .. Capacity
        /\ p \in 0 .. Capacity - 1
        /\ r.slots \in [0 .. Capacity - 1 -> I]
    BY ShmAgentAssumption DEF Ring, Index
  <1>1. \A k \in 0 .. 2 * Capacity - 1 :
            At(k) = IF k < Capacity THEN k ELSE k - Capacity
    BY Wrap
  <1>2. Contents(r) = [i \in 1 .. n |-> r.slots[At(p + i - 1)]]
    BY DEF Contents
  <1> HIDE DEF At, n, p
  <1>3. \A i \in 1 .. n : r.slots[At(p + i - 1)] \in I
    BY <1>0, <1>1
  <1>4. n \in Nat
    BY <1>0
  <1>5. Contents(r) \in [1 .. n -> I]
    BY <1>2, <1>3
  <1>6. Contents(r) \in Seq(I) /\ Len(Contents(r)) = n
    BY <1>4, <1>5, SequenceOf
  <1>7. ASSUME n > 0 PROVE r.slots[p] = Contents(r)[1]
    <2>1. At(p + 1 - 1) = p
      BY <1>0, <1>1
    <2> QED
      BY <1>0, <1>2, <1>7, <2>1
  <1> QED
    BY <1>6, <1>7 DEF Front, n, p

\* Pop removes the oldest item.
LEMMA PopTakes ==
    ASSUME NEW I, NEW r \in Ring(I), Aligned(r), r.count > 0
    PROVE  /\ Pop(r) \in Ring(I)
           /\ Aligned(Pop(r))
           /\ Contents(r) # <<>>
           /\ Contents(Pop(r)) = Tail(Contents(r))
  <1> DEFINE n == r.count  p == r.read_index
             At(k) == k % Capacity
  <1>0. /\ Capacity \in Nat \ {0}
        /\ n \in 1 .. Capacity
        /\ p \in 0 .. Capacity - 1
        /\ r.write_index \in 0 .. Capacity - 1
        /\ r.slots \in [0 .. Capacity - 1 -> I]
        /\ r.write_index = At(p + n)
    BY ShmAgentAssumption DEF Ring, Index, Aligned
  <1>1. \A k \in 0 .. 2 * Capacity - 1 :
            At(k) = IF k < Capacity THEN k ELSE k - Capacity
    BY Wrap
  <1> HIDE DEF At
  <1>2. /\ At(p + 1) \in Index
        /\ At(At(p + 1) + (n - 1)) = At(p + n)
        /\ \A i \in 1 .. n - 1 : At(At(p + 1) + i - 1) = At(p + (i + 1) - 1)
    <2> HIDE DEF n, p
    <2>1. At(p + 1) = IF p + 1 < Capacity THEN p + 1 ELSE 0
      BY <1>0, <1>1
    <2>2. \A k \in 1 .. n : At(p + k) = IF p + k < Capacity THEN p + k
                                      ELSE p + k - Capacity
      BY <1>0, <1>1
    <2>3. \A k \in 0 .. n - 1 : At(At(p + 1) + k) = At(p + (k + 1))
      BY <1>0, <1>1, <2>1, <2>2
    <2>4. At(p + 1) \in Index
      BY <1>0, <2>1 DEF Index
    <2>5. At(At(p + 1) + (n - 1)) = At(p + n)
      BY <1>0, <2>3
    <2>6. ASSUME NEW i \in 1 .. n - 1
          PROVE  At(At(p + 1) + i - 1) = At(p + (i + 1) - 1)
      <3>1. /\ At(p + 1) + i - 1 = At(p + 1) + (i - 1)
            /\ p + (i + 1) - 1 = p + ((i - 1) + 1)
            /\ i - 1 \in 0 .. n - 1
        BY <1>0, <2>4 DEF Index
      <3> QED
        BY <2>3, <3>1
    <2> QED
      BY <2>4, <2>5, <2>6
  <1> USE DEF At
  <1>3. Pop(r) \in Ring(I)
    BY <1>0, <1>2 DEF Pop, Ring, Index
  <1>4. Aligned(Pop(r))
    BY <1>0, <1>2 DEF Aligned, Pop
  <1>5. /\ Contents(r) = [i \in 1 .. n |-> r.slots[At(p + i - 1)]]
        /\ Contents(Pop(r)) =
              [i \in 1 .. n - 1 |-> r.slots[At(At(p + 1) + i - 1)]]
    BY DEF Contents, Pop
  <1>6. /\ Contents(r) \in Seq(I)
        /\ Len(Contents(r)) = n
        /\ Contents(Pop(r)) \in Seq(I)
        /\ Len(Contents(Pop(r))) = n - 1
    <2>1. Pop(r).count = n - 1
      BY DEF Pop
    <2> QED
      BY <1>3, <2>1, ContentsType
  <1> HIDE DEF At, n, p
  <1>7. \A i \in 1 .. n - 1 : Contents(Pop(r))[i] = Contents(r)[i + 1]
    BY <1>0, <1>2, <1>5
  <1>8. Contents(r) # <<>>
    BY <1>0, <1>6
  <1>9. Contents(Pop(r)) = Tail(Contents(r))
    <2>1. /\ Tail(Contents(r)) \in Seq(I)
          /\ Len(Tail(Contents(r))) = n - 1
          /\ \A i \in 1 .. n - 1 : Tail(Contents(r))[i] = Contents(r)[i + 1]
      BY <1>6, <1>8, HeadTailProperties
    <2> QED
      BY <1>6, <1>7, <2>1, SeqEqual
  <1> QED
    BY <1>3, <1>4, <1>8, <1>9

-----------------------------------------------------------------------------
(* What the ring lemmas mean for the two kinds of items.                   *)

\* A command with the next number keeps the order.
LEMMA AscendingPut ==
    ASSUME NEW n \in Nat, NEW q \in Seq(Command), Ascending(q, n),
           NEW m \in Command, m.seq = n
    PROVE  Ascending(Append(q, m), n + 1)
  <1> DEFINE t == Append(q, m)
  <1>1. /\ DOMAIN t = 1 .. Len(q) + 1
        /\ Len(q) \in Nat
        /\ \A i \in 1 .. Len(q) : t[i] = q[i] /\ q[i] \in Command
        /\ t[Len(q) + 1] = m
        /\ DOMAIN q = 1 .. Len(q)
    OBVIOUS
  <1>2. \A i \in 1 .. Len(q) : q[i].seq \in Nat
    BY <1>1, ShmAgentAssumption DEF Command
  <1> HIDE DEF t
  <1> DEFINE k == Len(q)
  <1> HIDE DEF k
  <1>3. Ascending(t, n + 1)
    BY <1>1, <1>2 DEF Ascending, k
  <1> QED
    BY <1>3 DEF t

\* So does taking the oldest.
LEMMA AscendingTake ==
    ASSUME NEW n \in Nat, NEW q \in Seq(Command), q # <<>>, Ascending(q, n)
    PROVE  Ascending(Tail(q), n)
  <1>1. /\ DOMAIN Tail(q) = 1 .. Len(q) - 1
        /\ Len(q) \in Nat
        /\ \A i \in 1 .. Len(q) - 1 : Tail(q)[i] = q[i + 1]
        /\ DOMAIN q = 1 .. Len(q)
    OBVIOUS
  <1> QED
    BY <1>1 DEF Ascending

\* A new announcement is the last one of its service.
LEMMA InformedPut ==
    ASSUME NEW q \in Seq(Response), NEW v, NEW g, NEW h, NEW m, NEW x \in Response,
           Informed(q, v, g, m),
           \A s \in Service : Announces(x, s) =>
                                 (x.type = "SERVICE_AVAILABLE" <=> s \in h),
           \A s \in Service : ~Announces(x, s) => (s \in g <=> s \in h)
    PROVE  Informed(Append(q, x), v, h, m)
  <1> DEFINE t == Append(q, x)  n == Len(q)
  <1>1. /\ DOMAIN t = 1 .. n + 1
        /\ n \in Nat
        /\ \A i \in 1 .. n : t[i] = q[i]
        /\ t[n + 1] = x
        /\ DOMAIN q = 1 .. n
    OBVIOUS
  <1> HIDE DEF t, n
  <1> SUFFICES ASSUME NEW s \in Service
               PROVE  /\ s \notin m /\ (\A i \in DOMAIN t : ~Announces(t[i], s))
                             => (s \in v <=> s \in h)
                      /\ \A i \in DOMAIN t :
                            /\ Announces(t[i], s)
                            /\ \A j \in DOMAIN t : j > i => ~Announces(t[j], s)
                            => (t[i].type = "SERVICE_AVAILABLE" <=> s \in h)
    BY DEF Informed, t
  <1>2. CASE Announces(x, s)
    BY <1>1, <1>2
  <1>3. CASE ~Announces(x, s)
    BY <1>1, <1>3 DEF Informed
  <1> QED
    BY <1>2, <1>3

\* Taking the oldest response keeps the handler informed, if it is told of it or
\* the response is missed.
LEMMA InformedTake ==
    ASSUME NEW q \in Seq(Response), q # <<>>, NEW g, NEW v, NEW m,
           Informed(q, view, g, missed),
           \A s \in Service :
              /\ Announces(q[1], s) /\ s \notin m =>
                    (s \in v <=> q[1].type = "SERVICE_AVAILABLE")
              /\ ~Announces(q[1], s) => (s \in v <=> s \in view) /\ (s \in m <=> s \in missed)
    PROVE  Informed(Tail(q), v, g, m)
  <1> DEFINE t == Tail(q)  n == Len(q)
  <1>1. /\ DOMAIN t = 1 .. n - 1
        /\ n \in Nat \ {0}
        /\ \A i \in 1 .. n - 1 : t[i] = q[i + 1]
        /\ DOMAIN q = 1 .. n
    OBVIOUS
  <1> HIDE DEF t, n
  <1> SUFFICES ASSUME NEW s \in Service
               PROVE  /\ s \notin m /\ (\A i \in DOMAIN t : ~Announces(t[i], s))
                             => (s \in v <=> s \in g)
                      /\ \A i \in DOMAIN t :
                            /\ Announces(t[i], s)
                            /\ \A j \in DOMAIN t : j > i => ~Announces(t[j], s)
                            => (t[i].type = "SERVICE_AVAILABLE" <=> s \in g)
    BY DEF Informed, t
  <1>2. /\ Announces(q[1], s) /\ s \notin m =>
              (s \in v <=> q[1].type = "SERVICE_AVAILABLE")
        /\ ~Announces(q[1], s) => (s \in v <=> s \in view) /\ (s \in m <=> s \in missed)
    OBVIOUS
  <1>3. /\ s \notin missed /\ (\A i \in DOMAIN q : ~Announces(q[i], s))
              => (s \in view <=> s \in g)
        /\ \A i \in DOMAIN q :
              /\ Announces(q[i], s)
              /\ \A j \in DOMAIN q : j > i => ~Announces(q[j], s)
              => (q[i].type = "SERVICE_AVAILABLE" <=> s \in g)
    BY DEF Informed
  <1>4. ASSUME s \notin m, \A i \in DOMAIN t : ~Announces(t[i], s)
        PROVE  s \in v <=> s \in g
    <2>1. ASSUME NEW i \in 2 .. n PROVE ~Announces(q[i], s)
      <3>1. i - 1 \in DOMAIN t /\ t[i - 1] = q[i]
        BY <1>1
      <3> QED
        BY <1>4, <3>1
    <2> QED
      BY <1>1, <1>2, <1>3, <1>4, <2>1
  <1>5. ASSUME NEW i \in DOMAIN t, Announces(t[i], s),
               \A j \in DOMAIN t : j > i => ~Announces(t[j], s)
        PROVE  t[i].type = "SERVICE_AVAILABLE" <=> s \in g
    <2>1. \A j \in DOMAIN q : j > i + 1 => ~Announces(q[j], s)
      <3> SUFFICES ASSUME NEW j \in DOMAIN q, j > i + 1
                   PROVE  ~Announces(q[j], s)
        OBVIOUS
      <3>1. j - 1 \in DOMAIN t /\ j - 1 > i /\ t[j - 1] = q[j]
        BY <1>1
      <3> QED
        BY <1>5, <3>1
    <2>2. i + 1 \in DOMAIN q /\ t[i] = q[i + 1]
      BY <1>1
    <2> QED
      BY <1>3, <1>5, <2>1, <2>2
  <1> QED
    BY <1>4, <1>5

-----------------------------------------------------------------------------
(* Steps.                                                                  *)

\* What callers have still to send is finite, so numbers can be counted.
LEMMA UnsentCounts ==
    /\ IsFiniteSet(Unsent)
    /\ Cardinality(Unsent) \in Nat
    /\ \A c \in Unsent : Cardinality(Unsent) >= 1
  <1>1. IsFiniteSet(Unsent)
    BY FS_Subset, ShmAgentAssumption DEF Unsent
  <1>2. Cardinality(Unsent) \in Nat
    BY <1>1, FS_CardinalityType
  <1>3. ASSUME NEW c \in Unsent PROVE Cardinality(Unsent) >= 1
    <2>1. Cardinality(Unsent) # 0
      BY <1>1, <1>3, FS_EmptySet
    <2> QED
      BY <1>2, <2>1
  <1> QED
    BY <1>1, <1>2, <1>3

\* The actions, one by one.
Actions ==
    \/ Connect \/ DisconnectBegins \/ DisconnectCloses \/ DisconnectEnds
    \/ \E c \in Caller :
          \/ \E s \in Service : BeginLookup(c, s)
          \/ \E s \in Service, type \in Used : BeginCommand(c, type, s)
          \/ SendChecks(c) \/ SendRefused(c) \/ SendLocks(c) \/ SendFull(c)
          \/ SendQueues(c) \/ SendFaults(c) \/ SendNotifies(c)
          \/ LookupTimesOut(c)
    \/ WorkerWakes \/ WorkerTimesOut \/ WorkerLocks \/ WorkerHandles
    \/ WorkerUnlocks \/ WorkerEnds
    \/ DaemonServes \/ (\E s \in Service : DaemonAnnounces(s)) \/ DaemonNotifies
    \/ OtherTakes \/ OtherWakes

\* A step is one of the actions.
LEMMA NextIsAnAction == Next => Actions
  BY DEF Next, Actions, Owner, Begin, Send, WorkerStep, Daemon, Others

\* What a step does to the command ring: only the command of a call that holds
\* the lock is added, under the next number, and only the oldest is taken.
CommandsMove ==
    \/ commands' = commands /\ sequence_' \in {sequence_, sequence_ + 1}
    \/ /\ ~Full(commands)
       /\ \E m \in Command : /\ m.seq = sequence_
                             /\ commands' = Push(commands, m)
       /\ sequence_' = sequence_ + 1
    \/ /\ commands.count > 0
       /\ commands' = Pop(commands)
       /\ sequence_' = sequence_

\* Every step moves the command ring in one of these ways (send_command, the
\* daemon).
LEMMA CommandsStep ==
    ASSUME TypeOK, CallsCarry, [Next]_vars
    PROVE  CommandsMove
  <1> USE DEF CommandsMove, agentVars, shmVars
  <1>1. ASSUME NEW c \in Caller, SendQueues(c) PROVE CommandsMove
    <2> DEFINE m == [seq |-> NumberOf(c), type |-> call[c].type,
                     service |-> call[c].service]
    <2>1. sequence_ \in 0 .. MaxSequence
      <3>1. c \in Unsent
        BY <1>1 DEF SendQueues, Unsent
      <3> QED
        BY <3>1, UnsentCounts, ShmAgentAssumption DEF TypeOK, CallsCarry
    <2>2. m \in Command /\ m.seq = sequence_
      BY <1>1, <2>1 DEF SendQueues, NumberOf, Command, CallsCarry
    <2>3. /\ ~Full(commands)
          /\ commands' = Push(commands, m)
          /\ sequence_' = sequence_ + 1
      BY <1>1 DEF SendQueues
    <2> QED
      BY <2>2, <2>3
  <1>2. ASSUME DaemonServes PROVE CommandsMove
    BY <1>2 DEF DaemonServes
  <1>3. ASSUME NEW c \in Caller, NEW s \in Service, BeginLookup(c, s)
        PROVE  CommandsMove
    BY <1>3 DEF BeginLookup
  <1>4. ASSUME UNCHANGED <<commands, sequence_>> PROVE CommandsMove
    BY <1>4
  <1>5. CASE UNCHANGED vars
    BY <1>4, <1>5 DEF vars
  <1>6. CASE Next
    BY <1>1, <1>2, <1>3, <1>4, <1>6, NextIsAnAction DEF Actions, Connect,
       DisconnectBegins, DisconnectCloses, DisconnectEnds, BeginCommand,
       SendChecks, SendRefused, SendLocks, SendFull, SendFaults, SendNotifies,
       LookupTimesOut, WorkerWakes, WorkerTimesOut, WorkerLocks, WorkerHandles,
       WorkerUnlocks, WorkerEnds, DaemonAnnounces, DaemonNotifies, OtherTakes,
       OtherWakes
  <1> QED
    BY <1>5, <1>6

\* The oldest item of a ring that is not empty is one that was put there.
LEMMA FrontIsItem ==
    ASSUME TypeOK, RingsHold
    PROVE  /\ commands.count > 0 =>
                 Front(commands) \in Command
                 /\ Front(commands) = Contents(commands)[1]
           /\ responses.count > 0 =>
                 Front(responses) \in Response
                 /\ Front(responses) = Contents(responses)[1]
  <1>1. ASSUME NEW I, NEW J, NEW r \in Ring(I), Contents(r) \in Seq(J), r.count > 0
        PROVE  Front(r) \in J /\ Front(r) = Contents(r)[1]
    <2>1. Len(Contents(r)) = r.count /\ Front(r) = Contents(r)[1]
      BY <1>1, ContentsType
    <2>2. 1 \in 1 .. Len(Contents(r))
      BY <1>1, <2>1, ShmAgentAssumption DEF Ring
    <2> QED
      BY <1>1, <2>1, <2>2, ElementOfSeq
  <1> QED
    BY <1>1 DEF TypeOK, RingsHold

\* What a step does to the response ring and to what both ends know: a response
\* added is the news of what the daemon registers in the same step, and the
\* one taken is what the handler is told or another agent makes it miss.
ResponsesMove ==
    \/ UNCHANGED <<responses, view, missed, registry>>
    \/ /\ ~Full(responses)
       /\ view' = view /\ missed' = missed
       /\ registry' \subseteq Service
       /\ \E x \in Response :
             /\ responses' = Push(responses, x)
             /\ \A s \in Service : Announces(x, s) =>
                   (x.type = "SERVICE_AVAILABLE" <=> s \in registry')
             /\ \A s \in Service : ~Announces(x, s) =>
                   (s \in registry <=> s \in registry')
    \/ /\ responses.count > 0
       /\ responses' = Pop(responses)
       /\ \/ /\ view' = Told(Front(responses))
             /\ missed' = missed \ AnnouncedBy(Front(responses))
          \/ view' = view /\ missed' = missed \cup AnnouncedBy(Front(responses))
       /\ view' \subseteq Service /\ missed' \subseteq Service
       /\ registry' = registry

\* The daemon's answer to a command.
LEMMA AnswerInforms ==
    ASSUME registry \subseteq Service, NEW m \in Command,
           registry' = Registered(m), NEW a \in Answers(m, registry')
    PROVE  \/ a = <<>> /\ registry' = registry
           \/ /\ a # <<>>
              /\ a[1] \in Response
              /\ registry' \subseteq Service
              /\ \A s \in Service : Announces(a[1], s) =>
                    (a[1].type = "SERVICE_AVAILABLE" <=> s \in registry')
              /\ \A s \in Service : ~Announces(a[1], s) =>
                    (s \in registry <=> s \in registry')
  <1> DEFINE answer(type) == <<[type |-> type, service |-> m.service]>>
  <1>1. m.service \in Service /\ m.type \in CommandType
    BY DEF Command
  <1>2. ASSUME NEW type \in ResponseType
        PROVE  /\ answer(type) # <<>>
               /\ answer(type)[1] \in Response
               /\ answer(type)[1].type = type
               /\ answer(type)[1].service = m.service
    BY <1>1 DEF Response
  <1>3. CASE m.type \in {"REGISTER_SERVICE", "UNREGISTER_SERVICE", "FIND_SERVICE"}
    <2>1. a = IF m.service \in registry' THEN answer("SERVICE_AVAILABLE")
              ELSE answer("SERVICE_UNAVAILABLE")
      BY <1>3 DEF Answers
    <2>2. /\ registry' \subseteq Service
          /\ \A s \in Service : s # m.service => (s \in registry <=> s \in registry')
      BY <1>1, <1>3 DEF Registered
    <2> HIDE DEF answer
    <2> QED
      BY <1>2, <2>1, <2>2 DEF Announces, ResponseType
  <1>4. CASE m.type \in {"SUBSCRIBE", "LOOKUP_SUBSCRIBERS"}
    <2>1. \E type \in {"SUBSCRIPTION_ACK", "SUBSCRIPTION_NACK", "LOOKUP_RESULT"} :
             a = answer(type)
      BY <1>4 DEF Answers
    <2>2. registry' = registry
      BY <1>4 DEF Registered
    <2> HIDE DEF answer
    <2> QED
      BY <1>2, <2>1, <2>2 DEF Announces, ResponseType
  <1>5. CASE m.type \in {"UNSUBSCRIBE", "HEARTBEAT"}
    BY <1>5 DEF Answers, Registered
  <1> QED
    BY <1>1, <1>3, <1>4, <1>5 DEF CommandType

\* Every step moves the response ring in one of these ways (the daemon,
\* process_responses).
LEMMA ResponsesStep ==
    ASSUME TypeOK, RingsHold, [Next]_vars
    PROVE  ResponsesMove
  <1> USE DEF agentVars, shmVars
  <1>1. ASSUME DaemonServes PROVE ResponsesMove
    <2> DEFINE m == Front(commands)
    <2>1. m \in Command
      BY <1>1, FrontIsItem DEF DaemonServes
    <2>2. PICK a \in Answers(m, registry') :
             responses' = IF a = <<>> THEN responses ELSE Push(responses, a[1])
      BY <1>1 DEF DaemonServes
    <2>3. /\ registry \subseteq Service
          /\ registry' = Registered(m)
          /\ ~Full(responses) /\ view' = view /\ missed' = missed
      BY <1>1 DEF DaemonServes, TypeOK
    <2> HIDE DEF m
    <2> QED
      BY <2>1, <2>2, <2>3, AnswerInforms DEF ResponsesMove
  <1>2. ASSUME NEW s \in Service, DaemonAnnounces(s) PROVE ResponsesMove
    <2> DEFINE x == [service |-> s,
                     type |-> IF s \in registry' THEN "SERVICE_AVAILABLE"
                              ELSE "SERVICE_UNAVAILABLE"]
    <2>1. x \in Response
      BY DEF Response, ResponseType
    <2>2. /\ ~Full(responses) /\ view' = view /\ missed' = missed
          /\ responses' = Push(responses, x)
          /\ registry' \subseteq Service
          /\ \A u \in Service : u # s => (u \in registry <=> u \in registry')
      BY <1>2 DEF DaemonAnnounces, TypeOK
    <2>3. /\ \A u \in Service : Announces(x, u) =>
                   (x.type = "SERVICE_AVAILABLE" <=> u \in registry')
          /\ \A u \in Service : ~Announces(x, u) =>
                   (u \in registry <=> u \in registry')
      BY <2>2 DEF Announces
    <2> HIDE DEF x
    <2> QED
      BY <2>1, <2>2, <2>3 DEF ResponsesMove
  <1>3. ASSUME WorkerHandles PROVE ResponsesMove
    <2>1. Front(responses) \in Response
      BY <1>3, FrontIsItem DEF WorkerHandles
    <2>2. Told(Front(responses)) \subseteq Service
      BY <2>1 DEF Told, Response, TypeOK
    <2> QED
      BY <1>3, <2>2 DEF WorkerHandles, ResponsesMove, TypeOK
  <1>7. ASSUME OtherTakes PROVE ResponsesMove
    <2>1. Front(responses) \in Response
      BY <1>7, FrontIsItem DEF OtherTakes
    <2>2. AnnouncedBy(Front(responses)) \subseteq Service
      BY <2>1 DEF AnnouncedBy, Response
    <2> QED
      BY <1>7, <2>2 DEF OtherTakes, ResponsesMove, TypeOK
  <1>4. ASSUME UNCHANGED <<responses, view, missed, registry>> PROVE ResponsesMove
    BY <1>4 DEF ResponsesMove
  <1>5. CASE UNCHANGED vars
    BY <1>4, <1>5 DEF vars
  <1>6. CASE Next
    BY <1>1, <1>2, <1>3, <1>4, <1>6, <1>7, NextIsAnAction DEF Actions, Connect,
       DisconnectBegins, DisconnectCloses, DisconnectEnds, BeginCommand,
       BeginLookup, SendChecks, SendRefused, SendLocks, SendFull, SendQueues,
       SendFaults, SendNotifies, LookupTimesOut, WorkerWakes, WorkerTimesOut,
       WorkerLocks, WorkerUnlocks, WorkerEnds, DaemonNotifies, OtherWakes
  <1> QED
    BY <1>5, <1>6

\* Both rings stay aligned bounded queues.
LEMMA RingsStep ==
    ASSUME TypeOK, RingsHold, CommandsMove, ResponsesMove
    PROVE  /\ commands' \in Ring(Command \cup {Blank})
           /\ responses' \in Ring(Response \cup {Blank})
           /\ RingsHold'
  <1>1. ASSUME NEW J, NEW r \in Ring(J \cup {Blank}), Aligned(r),
               Contents(r) \in Seq(J), NEW x \in J, ~Full(r)
        PROVE  /\ Push(r, x) \in Ring(J \cup {Blank})
               /\ Aligned(Push(r, x))
               /\ Contents(Push(r, x)) \in Seq(J)
    BY <1>1, PushAppends, AppendProperties
  <1>2. ASSUME NEW J, NEW r \in Ring(J \cup {Blank}), Aligned(r),
               Contents(r) \in Seq(J), r.count > 0
        PROVE  /\ Pop(r) \in Ring(J \cup {Blank})
               /\ Aligned(Pop(r))
               /\ Contents(Pop(r)) \in Seq(J)
    BY <1>2, PopTakes, HeadTailProperties
  <1>3. /\ commands' \in Ring(Command \cup {Blank})
        /\ Aligned(commands')
        /\ Contents(commands') \in Seq(Command)
    BY <1>1, <1>2 DEF TypeOK, RingsHold, CommandsMove
  <1>4. /\ responses' \in Ring(Response \cup {Blank})
        /\ Aligned(responses')
        /\ Contents(responses') \in Seq(Response)
    BY <1>1, <1>2 DEF TypeOK, RingsHold, ResponsesMove
  <1> QED
    BY <1>3, <1>4 DEF RingsHold

\* The types of what the two ring lemmas do not speak of.
RestOK ==
    /\ connected_ \in BOOLEAN /\ running_ \in BOOLEAN /\ mapped \in BOOLEAN
    /\ worker \in {"none", "wait", "lock", "drain", "ended"}
    /\ owner \in {"idle", "join", "close"}
    /\ lock \in Caller \cup {Worker, Nobody}
    /\ notified \in BOOLEAN
    /\ fault \in BOOLEAN

CallRecord ==
    [step : {"idle", "entered", "checked", "locked", "queued", "waiting"},
     type : CommandType \cup {"BLANK"}, service : Service \cup {NoService},
     seq : 0 .. MaxSequence]

CallsOK ==
    /\ sequence_ \in 1 .. MaxSequence + 1
    /\ pending_requests_ \subseteq 1 .. MaxSequence
    /\ call \in [Caller -> CallRecord]

\* Flags, lock and threads keep their types.
LEMMA RestStep ==
    ASSUME TypeOK, [Next]_vars
    PROVE  RestOK'
  <1> USE DEF agentVars, shmVars, RestOK, TypeOK
  <1>1. CASE UNCHANGED vars
    BY <1>1 DEF vars
  <1>2. CASE Connect \/ DisconnectBegins \/ DisconnectCloses \/ DisconnectEnds
    BY <1>2 DEF Connect, DisconnectBegins, DisconnectCloses, DisconnectEnds
  <1>3. ASSUME NEW c \in Caller,
               \/ \E s \in Service : BeginLookup(c, s)
               \/ \E s \in Service, type \in Used : BeginCommand(c, type, s)
               \/ SendChecks(c) \/ SendRefused(c) \/ SendLocks(c) \/ SendFull(c)
               \/ SendQueues(c) \/ SendFaults(c) \/ SendNotifies(c)
               \/ LookupTimesOut(c)
        PROVE  RestOK'
    <2>1. ASSUME SendNotifies(c) PROVE notified' \in BOOLEAN
      BY <2>1 DEF SendNotifies
    <2>2. CASE SendNotifies(c)
      BY <2>1, <2>2 DEF SendNotifies
    <2>3. CASE SendRefused(c) \/ SendLocks(c) \/ SendFull(c) \/ LookupTimesOut(c)
      BY <2>3 DEF SendRefused, SendLocks, SendFull, LookupTimesOut
    <2>4. CASE \/ SendChecks(c) \/ SendQueues(c) \/ SendFaults(c)
               \/ \E s \in Service : BeginLookup(c, s)
               \/ \E s \in Service, type \in Used : BeginCommand(c, type, s)
      BY <2>4 DEF BeginLookup, BeginCommand, SendChecks, SendQueues, SendFaults
    <2> QED
      BY <1>3, <2>2, <2>3, <2>4
  <1>4. CASE \/ WorkerWakes \/ WorkerTimesOut \/ WorkerLocks \/ WorkerHandles
             \/ WorkerUnlocks \/ WorkerEnds
    BY <1>4 DEF WorkerWakes, WorkerTimesOut, WorkerLocks, WorkerHandles,
       WorkerUnlocks, WorkerEnds, LoopTop
  <1>5. CASE \/ DaemonServes \/ (\E s \in Service : DaemonAnnounces(s)) \/ DaemonNotifies
             \/ OtherTakes \/ OtherWakes
    BY <1>5 DEF DaemonServes, DaemonAnnounces, DaemonNotifies, OtherTakes, OtherWakes
  <1> QED
    BY <1>1, <1>2, <1>3, <1>4, <1>5, NextIsAnAction DEF Actions

\* Caller c goes on to state r: the numbers left still suffice if they do
\* without c, with one more if c has still to send.
LEMMA CallMoves ==
    ASSUME CallsOK, CallsCarry, NEW c \in Caller, NEW r \in CallRecord,
           call' = [call EXCEPT ![c] = r],
           r.step # "idle" => r.type \in CommandType /\ r.service \in Service,
           pending_requests_' \subseteq 1 .. MaxSequence,
           sequence_' \in Nat \ {0},
           NEW k \in {0, 1},
           r.step \in {"entered", "checked", "locked"} => k = 1,
           sequence_' + Cardinality(Unsent \ {c}) + k <= MaxSequence + 1
    PROVE  CallsOK' /\ CallsCarry'
  <1> DEFINE rest == Unsent \ {c}
  <1>1. /\ IsFiniteSet(rest) /\ Cardinality(rest) \in Nat
        /\ IsFiniteSet(rest \cup {c})
        /\ Cardinality(rest \cup {c}) = Cardinality(rest) + 1
    BY UnsentCounts, FS_RemoveElement, FS_AddElement, FS_CardinalityType
  <1>2. call' \in [Caller -> CallRecord]
    BY DEF CallsOK
  <1>3. \/ Unsent' = rest
        \/ Unsent' = rest \cup {c} /\ k = 1
    BY <1>2 DEF Unsent, CallsOK
  <1>4. Cardinality(Unsent') \in Nat /\ sequence_' + Cardinality(Unsent') <= MaxSequence + 1
    <2>1. CASE Unsent' = rest
      BY <1>1, <2>1, ShmAgentAssumption
    <2>2. CASE Unsent' = rest \cup {c} /\ k = 1
      BY <1>1, <2>2, ShmAgentAssumption
    <2> QED
      BY <1>3, <2>1, <2>2
  <1>5. sequence_' \in 1 .. MaxSequence + 1
    BY <1>4, ShmAgentAssumption
  <1>6. CallsOK'
    BY <1>2, <1>5 DEF CallsOK
  <1>7. \A d \in Caller : call'[d].step # "idle" =>
           call'[d].type \in CommandType /\ call'[d].service \in Service
    BY DEF CallsOK, CallsCarry
  <1> QED
    BY <1>4, <1>6, <1>7 DEF CallsCarry

\* The calls: none can draw a number beyond the bound, because room for it was
\* kept when the call began.
LEMMA CallsStep ==
    ASSUME CallsOK, CallsCarry, [Next]_vars
    PROVE  CallsOK' /\ CallsCarry'
  <1> DEFINE card == Cardinality(Unsent)
             without(c) == Cardinality(Unsent \ {c})
  <1>0. /\ card \in Nat
        /\ sequence_ \in 1 .. MaxSequence + 1
        /\ sequence_ + card <= MaxSequence + 1
        /\ MaxSequence \in Nat
        /\ pending_requests_ \subseteq 1 .. MaxSequence
    BY UnsentCounts, ShmAgentAssumption DEF CallsCarry, CallsOK
  <1>00. \A c \in Caller : without(c) = IF c \in Unsent THEN card - 1 ELSE card
    BY UnsentCounts, FS_RemoveElement
  <1> HIDE DEF card, without
  <1>1. ASSUME UNCHANGED <<sequence_, pending_requests_, call>>
        PROVE  CallsOK' /\ CallsCarry'
    BY <1>1 DEF CallsOK, CallsCarry, Unsent
  <1>2. ASSUME NEW c \in Caller, NEW s \in Service, BeginLookup(c, s)
        PROVE  CallsOK' /\ CallsCarry'
    <2> DEFINE r == [step |-> "entered", type |-> "LOOKUP_SUBSCRIBERS",
                     service |-> s, seq |-> sequence_]
    <2>1. /\ call' = [call EXCEPT ![c] = r]
          /\ sequence_' = sequence_ + 1
          /\ pending_requests_' = pending_requests_ \cup {sequence_}
          /\ sequence_ + card + 2 <= MaxSequence + 1
          /\ c \notin Unsent
      BY <1>2 DEF BeginLookup, Left, Unsent, card
    <2>2. sequence_ \in 1 .. MaxSequence
      BY <1>0, <2>1
    <2>3. r \in CallRecord /\ r.type \in CommandType /\ r.service \in Service
      BY <2>2 DEF CallRecord, CommandType
    <2>4. sequence_' + without(c) + 1 <= MaxSequence + 1
      BY <1>0, <1>00, <2>1
    <2>5. pending_requests_' \subseteq 1 .. MaxSequence /\ sequence_' \in Nat \ {0}
      BY <1>0, <2>1, <2>2
    <2> HIDE DEF r
    <2> QED
      BY <2>1, <2>3, <2>4, <2>5, CallMoves DEF without
  <1>3. ASSUME NEW c \in Caller, NEW s \in Service, NEW type \in Used,
               BeginCommand(c, type, s)
        PROVE  CallsOK' /\ CallsCarry'
    <2> DEFINE r == [step |-> "checked", type |-> type, service |-> s, seq |-> 0]
    <2>1. /\ call' = [call EXCEPT ![c] = r]
          /\ UNCHANGED <<sequence_, pending_requests_>>
          /\ sequence_ + card + 1 <= MaxSequence + 1
          /\ c \notin Unsent
      BY <1>3 DEF BeginCommand, Left, Unsent, card
    <2>2. r \in CallRecord /\ r.type \in CommandType /\ r.service \in Service
      BY <1>0, ShmAgentAssumption DEF CallRecord
    <2>3. sequence_' + without(c) + 1 <= MaxSequence + 1
      BY <1>0, <1>00, <2>1
    <2>4. pending_requests_' \subseteq 1 .. MaxSequence /\ sequence_' \in Nat \ {0}
      BY <1>0, <2>1
    <2> HIDE DEF r
    <2> QED
      BY <2>1, <2>2, <2>3, <2>4, CallMoves DEF without
  <1>4. ASSUME NEW c \in Caller, Return(c), sequence_' = sequence_
        PROVE  CallsOK' /\ CallsCarry'
    <2>1. Idle \in CallRecord /\ Idle.step = "idle"
      BY <1>0 DEF Idle, CallRecord
    <2>2. sequence_' + without(c) + 0 <= MaxSequence + 1
      BY <1>0, <1>00, <1>4
    <2>3. pending_requests_' \subseteq 1 .. MaxSequence
      BY <1>0, <1>4, Zenon DEF Return
    <2>4. sequence_' \in Nat \ {0}
      BY <1>0, <1>4
    <2>5. call' = [call EXCEPT ![c] = Idle]
      BY <1>4 DEF Return
    <2> QED
      BY <2>1, <2>2, <2>3, <2>4, <2>5, CallMoves DEF without
  <1>5. ASSUME NEW c \in Caller, c \in Unsent,
               NEW to \in {"checked", "locked", "queued"},
               call' = [call EXCEPT ![c].step = to],
               UNCHANGED pending_requests_,
               IF to = "queued" THEN sequence_' = sequence_ + 1
               ELSE sequence_' = sequence_
        PROVE  CallsOK' /\ CallsCarry'
    <2> DEFINE r == [call[c] EXCEPT !.step = to]
               k == IF to = "queued" THEN 0 ELSE 1
    <2>1. call' = [call EXCEPT ![c] = r]
      BY <1>5 DEF CallsOK, CallRecord
    <2>2. /\ r \in CallRecord
          /\ r.step = to
          /\ r.type \in CommandType /\ r.service \in Service
      BY <1>5 DEF CallsOK, CallRecord, CallsCarry, Unsent
    <2>3. k \in {0, 1} /\ (r.step \in {"entered", "checked", "locked"} => k = 1)
      BY <2>2
    <2>4. sequence_' + without(c) + k <= MaxSequence + 1
      BY <1>0, <1>00, <1>5
    <2>5. pending_requests_' \subseteq 1 .. MaxSequence /\ sequence_' \in Nat \ {0}
      BY <1>0, <1>5
    <2> HIDE DEF r, k
    <2> QED
      BY <2>1, <2>2, <2>3, <2>4, <2>5, CallMoves DEF without
  <1>6. ASSUME NEW c \in Caller, SendNotifies(c)
        PROVE  CallsOK' /\ CallsCarry'
    <2> DEFINE r == IF call[c].type = "LOOKUP_SUBSCRIBERS"
                    THEN [call[c] EXCEPT !.step = "waiting"] ELSE Idle
    <2>1. /\ call' = [call EXCEPT ![c] = r]
          /\ UNCHANGED <<sequence_, pending_requests_>>
      BY <1>6 DEF SendNotifies, CallsOK
    <2>2. /\ r \in CallRecord
          /\ r.step \in {"idle", "waiting"}
          /\ r.step # "idle" => r.type \in CommandType /\ r.service \in Service
      BY <1>0, <1>6 DEF SendNotifies, CallsOK, CallRecord, CallsCarry, Idle
    <2>3. sequence_' + without(c) + 0 <= MaxSequence + 1
      BY <1>0, <1>00, <2>1
    <2>4. pending_requests_' \subseteq 1 .. MaxSequence /\ sequence_' \in Nat \ {0}
      BY <1>0, <2>1
    <2> HIDE DEF r
    <2> QED
      BY <2>1, <2>2, <2>3, <2>4, CallMoves DEF without
  <1>7. ASSUME NEW c \in Caller, SendChecks(c) \/ SendLocks(c) \/ SendQueues(c)
        PROVE  CallsOK' /\ CallsCarry'
    BY <1>5, <1>7 DEF SendChecks, SendLocks, SendQueues, Unsent
  <1>8. ASSUME NEW c \in Caller, SendRefused(c) \/ SendFull(c) \/ LookupTimesOut(c)
        PROVE  CallsOK' /\ CallsCarry'
    BY <1>4, <1>8 DEF SendRefused, SendFull, LookupTimesOut
  <1>9. CASE UNCHANGED vars
    BY <1>1, <1>9 DEF vars
  <1>10. CASE Next
    BY <1>1, <1>2, <1>3, <1>6, <1>7, <1>8, <1>10, NextIsAnAction DEF Actions,
       Connect, DisconnectBegins, DisconnectCloses, DisconnectEnds, SendFaults,
       WorkerWakes, WorkerTimesOut, WorkerLocks, WorkerHandles, WorkerUnlocks,
       WorkerEnds, DaemonServes, DaemonAnnounces, DaemonNotifies, OtherTakes,
       OtherWakes
  <1> QED
    BY <1>9, <1>10

-----------------------------------------------------------------------------
(* The inductive invariant.                                                *)

\* An agent that was never connected satisfies the invariant.
LEMMA InitIInv == Init => IInv
  <1> SUFFICES ASSUME Init PROVE IInv
    OBVIOUS
  <1>1. Unsent = {}
    BY DEF Init, Unsent, Idle
  <1>2. Cardinality(Unsent) = 0
    BY <1>1, FS_EmptySet
  <1>3. \A I : EmptyRing \in Ring(I \cup {Blank})
    BY ShmAgentAssumption DEF EmptyRing, Ring, Index
  <1>4. TypeOK
    <2>1. /\ commands \in Ring(Command \cup {Blank})
          /\ responses \in Ring(Response \cup {Blank})
      BY <1>3 DEF Init
    <2>2. RestOK
      BY DEF Init, RestOK
    <2>3. CallsOK
      BY ShmAgentAssumption DEF Init, CallsOK, CallRecord, Idle
    <2> QED
      BY <2>1, <2>2, <2>3 DEF Init, TypeOK, RestOK, CallsOK, CallRecord
  <1>5. CallsCarry
    BY <1>2, ShmAgentAssumption DEF Init, CallsCarry, Idle
  <1>6. Contents(EmptyRing) = <<>>
    BY DEF Contents, EmptyRing
  <1>7. Aligned(EmptyRing)
    BY Wrap, ShmAgentAssumption DEF Aligned, EmptyRing
  <1>8. RingsHold
    BY <1>6, <1>7 DEF Init, RingsHold
  <1>9. /\ Ascending(Contents(commands), sequence_)
        /\ Informed(Contents(responses), view, registry, missed)
    BY <1>6 DEF Init, Ascending, Informed
  <1> QED
    BY <1>4, <1>5, <1>8, <1>9 DEF IInv

\* Every step keeps the invariant.
LEMMA StepIInv == IInv /\ [Next]_vars => IInv'
  <1> SUFFICES ASSUME IInv, [Next]_vars PROVE IInv'
    OBVIOUS
  <1>1. TypeOK /\ CallsCarry /\ RingsHold /\ CallsOK
    BY DEF IInv, TypeOK, CallsOK, CallRecord
  <1>2. CommandsMove /\ ResponsesMove
    BY <1>1, CommandsStep, ResponsesStep
  <1>3. /\ commands' \in Ring(Command \cup {Blank})
        /\ responses' \in Ring(Response \cup {Blank})
        /\ RingsHold'
    BY <1>1, <1>2, RingsStep
  <1>4. RestOK' /\ CallsOK' /\ CallsCarry'
    BY <1>1, RestStep, CallsStep
  <1>5. registry' \subseteq Service /\ view' \subseteq Service /\ missed' \subseteq Service
    BY <1>1, <1>2 DEF TypeOK, ResponsesMove
  <1>6. TypeOK'
    BY <1>3, <1>4, <1>5 DEF TypeOK, RestOK, CallsOK, CallRecord
  <1>7. Ascending(Contents(commands), sequence_)'
    <2> DEFINE q == Contents(commands)
    <2>1. /\ q \in Seq(Command)
          /\ Ascending(q, sequence_)
          /\ sequence_ \in Nat
          /\ commands \in Ring(Command \cup {Blank})
          /\ Aligned(commands)
      BY <1>1, ShmAgentAssumption DEF IInv, RingsHold, TypeOK
    <2>2. CASE commands' = commands /\ sequence_' \in {sequence_, sequence_ + 1}
      <3>1. \A i \in DOMAIN q : q[i].seq \in Nat
        <4>1. \A i \in DOMAIN q : q[i] \in Command
          BY <2>1, LenProperties, ElementOfSeq
        <4> QED
          BY <4>1, ShmAgentAssumption DEF Command
      <3>2. Ascending(q, sequence_')
        BY <2>1, <2>2, <3>1 DEF Ascending
      <3> QED
        BY <2>2, <3>2
    <2>3. ASSUME ~Full(commands), NEW m \in Command, m.seq = sequence_,
                 commands' = Push(commands, m), sequence_' = sequence_ + 1
          PROVE  Ascending(Contents(commands), sequence_)'
      <3>1. Contents(commands') = Append(q, m)
        BY <2>1, <2>3, PushAppends
      <3> QED
        BY <2>1, <2>3, <3>1, AscendingPut
    <2>4. CASE /\ commands.count > 0
               /\ commands' = Pop(commands)
               /\ sequence_' = sequence_
      <3>1. q # <<>> /\ Contents(commands') = Tail(q)
        BY <2>1, <2>4, PopTakes
      <3> QED
        BY <2>1, <2>4, <3>1, AscendingTake
    <2> QED
      BY <1>2, <2>2, <2>3, <2>4 DEF CommandsMove
  <1>8. Informed(Contents(responses), view, registry, missed)'
    <2> DEFINE q == Contents(responses)
    <2>1. /\ q \in Seq(Response)
          /\ Informed(q, view, registry, missed)
          /\ responses \in Ring(Response \cup {Blank})
          /\ Aligned(responses)
      BY <1>1 DEF IInv, RingsHold, TypeOK
    <2>2. CASE UNCHANGED <<responses, view, missed, registry>>
      BY <2>1, <2>2
    <2>3. ASSUME ~Full(responses), view' = view, missed' = missed, NEW x \in Response,
                 responses' = Push(responses, x),
                 \A s \in Service : Announces(x, s) =>
                     (x.type = "SERVICE_AVAILABLE" <=> s \in registry'),
                 \A s \in Service : ~Announces(x, s) =>
                     (s \in registry <=> s \in registry')
          PROVE  Informed(Contents(responses), view, registry, missed)'
      <3>1. Contents(responses') = Append(q, x)
        BY <2>1, <2>3, PushAppends
      <3>2. Informed(Append(q, x), view, registry', missed)
        BY <2>1, <2>3, InformedPut
      <3> QED
        BY <2>3, <3>1, <3>2
    <2>4. CASE /\ responses.count > 0
               /\ responses' = Pop(responses)
               /\ \/ /\ view' = Told(Front(responses))
                     /\ missed' = missed \ AnnouncedBy(Front(responses))
                  \/ view' = view /\ missed' = missed \cup AnnouncedBy(Front(responses))
               /\ registry' = registry
      <3>1. q # <<>> /\ Contents(responses') = Tail(q)
        BY <2>1, <2>4, PopTakes
      <3>2. q[1] = Front(responses)
        BY <1>1, <2>4, FrontIsItem
      <3>3. \A s \in Service :
               /\ Announces(q[1], s) /\ s \notin missed' =>
                     (s \in view' <=> q[1].type = "SERVICE_AVAILABLE")
               /\ ~Announces(q[1], s) => (s \in view' <=> s \in view) /\ (s \in missed' <=> s \in missed)
        BY <2>4, <3>2 DEF Told, Announces, AnnouncedBy
      <3>4. Informed(Tail(q), view', registry, missed')
        BY <2>1, <3>1, <3>3, InformedTake
      <3> QED
        BY <2>4, <3>1, <3>4
    <2> QED
      BY <1>2, <2>2, <2>3, <2>4 DEF ResponsesMove
  <1> QED
    BY <1>3, <1>4, <1>6, <1>7, <1>8 DEF IInv

\* Every reachable state satisfies the inductive invariant.
LEMMA Invariance == Spec => []IInv
  BY InitIInv, StepIInv, PTL DEF Spec

-----------------------------------------------------------------------------
(* The theorems.                                                           *)

\* The variables keep their types; in particular sequence_ stays within the
\* bound and the indices of both rings within the slots, for any capacity.
THEOREM TypeCorrect == Spec => []TypeOK
  <1>1. IInv => TypeOK
    BY DEF IInv
  <1> QED
    BY <1>1, Invariance, PTL

\* The commands in the ring stand in the order of their numbers, however many
\* callers draw from sequence_ (send_command and lookup_subscribers).
THEOREM CommandsAscend == Spec => []SequencesAscend
  <1>1. IInv => SequencesAscend
    BY DEF IInv, Ascending, SequencesAscend
  <1> QED
    BY <1>1, Invariance, PTL

\* Handler and daemon agree on every service with no announcement under way and
\* none that another agent took last, across time-outs of the lock and
\* reconnects (process_responses).
THEOREM ViewFollows == Spec => []ViewFollowsRegistry
  <1>1. IInv => ViewFollowsRegistry
    BY DEF IInv, Informed, Announces, AnnouncedBy, ViewFollowsRegistry
  <1> QED
    BY <1>1, Invariance, PTL

\* The rings that send_command and process_responses index with a count and
\* two wrapping indices implement bounded queues, for any capacity.
THEOREM RingsRefineFifos == Spec => RingsAreFifos
  <1>1. Contents(EmptyRing) = <<>>
    BY DEF Contents, EmptyRing
  <1>2. Init => CommandFifo!Init /\ ResponseFifo!Init
    BY <1>1 DEF Init, CommandFifo!Init, ResponseFifo!Init
  <1>3. ASSUME NEW J, NEW r \in Ring(J \cup {Blank}), Aligned(r),
               Contents(r) \in Seq(J), NEW x \in J, ~Full(r)
        PROVE  /\ Len(Contents(r)) < Capacity
               /\ Contents(Push(r, x)) = Append(Contents(r), x)
    <2>1. Len(Contents(r)) = r.count /\ Contents(Push(r, x)) = Append(Contents(r), x)
      BY <1>3, PushAppends, ContentsType
    <2> QED
      BY <1>3, <2>1, ShmAgentAssumption DEF Full, Ring
  <1>4. IInv /\ [Next]_vars => [CommandFifo!Next]_(Contents(commands))
    <2> SUFFICES ASSUME IInv, [Next]_vars
                 PROVE  [CommandFifo!Next]_(Contents(commands))
      OBVIOUS
    <2>1. /\ Contents(commands) \in Seq(Command)
          /\ commands \in Ring(Command \cup {Blank})
          /\ Aligned(commands)
          /\ CommandsMove
      BY CommandsStep DEF IInv, RingsHold, TypeOK
    <2>2. CASE commands' = commands
      BY <2>2
    <2>3. ASSUME ~Full(commands), NEW m \in Command, commands' = Push(commands, m)
          PROVE  CommandFifo!Put(m)
      BY <1>3, <2>1, <2>3 DEF CommandFifo!Put
    <2>4. CASE commands.count > 0 /\ commands' = Pop(commands)
      BY <2>1, <2>4, PopTakes DEF CommandFifo!Next, CommandFifo!Take
    <2> QED
      BY <2>1, <2>2, <2>3, <2>4 DEF CommandsMove, CommandFifo!Next
  <1>5. IInv /\ [Next]_vars => [ResponseFifo!Next]_(Contents(responses))
    <2> SUFFICES ASSUME IInv, [Next]_vars
                 PROVE  [ResponseFifo!Next]_(Contents(responses))
      OBVIOUS
    <2>1. /\ Contents(responses) \in Seq(Response)
          /\ responses \in Ring(Response \cup {Blank})
          /\ Aligned(responses)
          /\ ResponsesMove
      BY ResponsesStep DEF IInv, RingsHold, TypeOK
    <2>2. CASE responses' = responses
      BY <2>2
    <2>3. ASSUME ~Full(responses), NEW x \in Response, responses' = Push(responses, x)
          PROVE  ResponseFifo!Put(x)
      BY <1>3, <2>1, <2>3 DEF ResponseFifo!Put
    <2>4. CASE responses.count > 0 /\ responses' = Pop(responses)
      BY <2>1, <2>4, PopTakes DEF ResponseFifo!Next, ResponseFifo!Take
    <2> QED
      BY <2>1, <2>2, <2>3, <2>4 DEF ResponsesMove, ResponseFifo!Next
  <1> QED
    BY <1>2, <1>4, <1>5, Invariance, PTL
       DEF Spec, RingsAreFifos, CommandFifo!Spec, ResponseFifo!Spec
=============================================================================
