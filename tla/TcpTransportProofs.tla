------------------------- MODULE TcpTransportProofs -------------------------
(***************************************************************************)
(* TcpTransport for any callers, endpoints and number of connections: its  *)
(* type invariant, its two safety invariants, and why stop hangs.          *)
(***************************************************************************)
EXTENDS TcpTransport, TLAPS

\* A thread that sets a connection up, from drawing the id to handing the
\* receive thread over.
SettingUp(t) == thread[t].at \in {"insert", "map", "spawn", "assign"}

\* What a thread at work knows of its connection.
ThreadKnows(t) ==
    LET p == thread[t].at
        i == thread[t].id
        e == thread[t].endpoint IN
    /\ SettingUp(t) \/ p = "unmap" => i \in Id /\ i < next_connection_id_
    /\ SettingUp(t) => remote[i] = e /\ i \notin receive_thread
    /\ p \in {"insert", "map", "spawn"} => receiver[i] = "none"
    /\ p = "insert" => i \notin connections_
    /\ p = "assign" => receiver[i] # "none"
    /\ p \in {"open", "map", "send", "unmap"} => t \in Caller
    /\ p \in {"open", "insert", "map"} /\ t \in Caller => e \in Endpoint

\* Where a mapping to i may stand.
Known(i) ==
    \/ i \in connections_ \cup swept
    \/ receiver[i] = "unmap"
    \/ \E c \in Caller : thread[c].at \in {"spawn", "assign", "unmap"} /\ thread[c].id = i

ThreadsKnow == \A t \in Thread : ThreadKnows(t)

\* No two threads set the same connection up.
OneSetsUp ==
    \A t, u \in Thread :
        SettingUp(t) /\ SettingUp(u) /\ thread[t].id = thread[u].id => t = u

\* An id not drawn yet is nowhere, and only a connection in the table owns the
\* thread that was started for it.
IdsAreDrawn ==
    /\ \A i \in Id : i >= next_connection_id_ =>
          i \notin connections_ \cup swept /\ receiver[i] = "none"
    /\ \A i \in receive_thread : i \in connections_ /\ receiver[i] # "none"

\* The accept thread is gone once stop has joined it, until start.
AcceptorRests ==
    /\ running_ => stopper = "none"
    /\ stopper = "closing" \/ (stopper = "none" /\ ~running_)
         => thread[Acceptor].at = "exited"

\* connections_mutex_ belongs to stop or to one send_to.
MutexHeld ==
    /\ \A t \in Thread : thread[t].at = "send" => connections_mutex_ /\ stopper # "closing"
    /\ \A t, u \in Thread : thread[t].at = "send" /\ thread[u].at = "send" => t = u
    /\ joining # NoId => stopper = "closing"

\* stop visits what is in the table, and joins a thread that is started.
StopVisits ==
    /\ stopper = "closing" => connections_mutex_ /\ todo \subseteq connections_
    /\ joining # NoId => connections_mutex_ /\ joining \in receive_thread

\* The inductive invariant.
IInv ==
    /\ TypeOK
    /\ ThreadsKnow
    /\ OneSetsUp
    /\ IdsAreDrawn
    /\ AcceptorRests
    /\ MutexHeld
    /\ StopVisits
    /\ ConnectionIsServed
    /\ MappingIsCurrent
-----------------------------------------------------------------------------

\* Where a thread may be, and what it knows there.
Place == {"idle", "open", "insert", "map", "spawn", "assign", "send", "unmap",
          "exited"}
ThreadState ==
    [at : Place, endpoint : Endpoint \cup {AnyPeer}, id : Id \cup {NoId}]

\* A thread that goes on to its next place is still a thread's state.
LEMMA ThreadMoves ==
    ASSUME NEW t \in Thread, NEW p \in Place,
           thread \in [Thread -> ThreadState],
           thread' = [thread EXCEPT ![t].at = p]
    PROVE  thread' \in [Thread -> ThreadState]
  BY DEF ThreadState

\* Every step keeps the types.
LEMMA TypeStep ==
    ASSUME TypeOK, ThreadsKnow, [Next]_vars
    PROVE  TypeOK'
  <1> USE TcpTransportAssumption
      DEF TypeOK, vars, lifecycle, table, stopping, Id, NoId, Thread, At, Idle
  <1>1. ASSUME NEW c \in Caller, NEW e \in Endpoint, ConnectLookup(c, e)
        PROVE  TypeOK'
    <2>1. CASE UNCHANGED <<thread, endpoint_to_connection_>>
      BY <1>1, <2>1 DEF ConnectLookup
    <2>2. CASE /\ endpoint_to_connection_' = [endpoint_to_connection_ EXCEPT ![e] = NoId]
               /\ thread' = [thread EXCEPT ![c] = At("open", e, NoId)]
      BY <1>1, <2>2 DEF ConnectLookup
    <2> QED
      BY <1>1, <2>1, <2>2 DEF ConnectLookup
  <1>2. ASSUME NEW t \in Thread, NEW e \in Endpoint \cup {AnyPeer},
              thread[t].at \in {"idle", "open"}, t \in Caller => e \in Endpoint,
              NewConnection(t, e)
        PROVE  TypeOK'
    BY <1>2 DEF NewConnection
  <1>3. ASSUME NEW c \in Caller, ConnectFails(c)
        PROVE  TypeOK'
    BY <1>3 DEF ConnectFails
  <1>4. ASSUME AcceptorExits
        PROVE  TypeOK'
    BY <1>4 DEF AcceptorExits
  <1>5. ASSUME NEW t \in Thread, InsertConnection(t)
        PROVE  TypeOK'
    BY <1>5 DEF InsertConnection, ThreadsKnow, ThreadKnows, SettingUp
  <1>6. ASSUME NEW t \in Thread, MapEndpoint(t)
        PROVE  TypeOK'
    <2>1. thread[t].id \in Id
      BY <1>6 DEF MapEndpoint, ThreadsKnow, ThreadKnows, SettingUp
    <2>2. thread' \in [Thread -> ThreadState]
      <3>1. thread' = [thread EXCEPT ![t].at = "spawn"]
        BY <1>6 DEF MapEndpoint
      <3>2. thread \in [Thread -> ThreadState]
        BY DEF ThreadState, Place
      <3> QED
        BY ONLY <3>1, <3>2, ThreadMoves DEF Place
    <2> QED
      BY <1>6, <2>1, <2>2 DEF MapEndpoint, ThreadState, Place
  <1>7. ASSUME NEW t \in Thread, SpawnReceiver(t)
        PROVE  TypeOK'
    <2>1. thread[t].id \in Id
      BY <1>7 DEF SpawnReceiver, ThreadsKnow, ThreadKnows, SettingUp
    <2>2. thread' \in [Thread -> ThreadState]
      <3>1. thread' = [thread EXCEPT ![t].at = "assign"]
        BY <1>7 DEF SpawnReceiver
      <3>2. thread \in [Thread -> ThreadState]
        BY DEF ThreadState, Place
      <3> QED
        BY ONLY <3>1, <3>2, ThreadMoves DEF Place
    <2> QED
      BY <1>7, <2>1, <2>2 DEF SpawnReceiver, ThreadState, Place
  <1>8. ASSUME NEW t \in Thread, AssignReceiver(t)
        PROVE  TypeOK'
    BY <1>8 DEF AssignReceiver
  <1>9. ASSUME NEW t \in Thread, DisconnectUnmap(t)
        PROVE  TypeOK'
    BY <1>9 DEF DisconnectUnmap, Unmap
  <1>10. ASSUME NEW c \in Caller, NEW i \in Id, Disconnect(c, i)
        PROVE  TypeOK'
    BY <1>10 DEF Disconnect, RemoveConnection
  <1>24. ASSUME NEW c \in Caller, NEW i \in Id, SendBegins(c, i)
        PROVE  TypeOK'
    BY <1>24 DEF SendBegins
  <1>25. ASSUME NEW c \in Caller, SendReturns(c)
        PROVE  TypeOK'
    BY <1>25 DEF SendReturns
  <1>11. ASSUME NEW i \in Id, ReceiverStarts(i)
        PROVE  TypeOK'
    BY <1>11 DEF ReceiverStarts
  <1>12. ASSUME NEW i \in Id, LeaveLoop(i)
        PROVE  TypeOK'
    BY <1>12 DEF LeaveLoop
  <1>13. ASSUME NEW i \in Id, ReceiverCloses(i)
        PROVE  TypeOK'
    BY <1>13 DEF ReceiverCloses, RemoveConnection
  <1>14. ASSUME NEW i \in Id, ReceiverUnmaps(i)
        PROVE  TypeOK'
    BY <1>14 DEF ReceiverUnmaps, Unmap
  <1>15. ASSUME NEW i \in Id, PeerCloses(i)
        PROVE  TypeOK'
    BY <1>15 DEF PeerCloses
  <1>16. ASSUME Start
        PROVE  TypeOK'
    BY <1>16 DEF Start
  <1>17. ASSUME StopBegins
        PROVE  TypeOK'
    BY <1>17 DEF StopBegins
  <1>18. ASSUME StopLocks
        PROVE  TypeOK'
    BY <1>18 DEF StopLocks
  <1>19. ASSUME NEW i \in Id, StopShutsDown(i)
        PROVE  TypeOK'
    BY <1>19 DEF StopShutsDown
  <1>20. ASSUME StopClears
        PROVE  TypeOK'
    BY <1>20 DEF StopClears
  <1>21. CASE UNCHANGED vars
    BY <1>21
  <1>22. ASSUME NEW c \in Caller, ConnectSucceeds(c)
         PROVE  TypeOK'
    <2>1. /\ thread[c].endpoint \in Endpoint
          /\ thread[c].at = "open"
          /\ NewConnection(c, thread[c].endpoint)
      BY <1>22 DEF ConnectSucceeds, ThreadsKnow, ThreadKnows
    <2> HIDE DEF TypeOK, Thread
    <2> QED
      BY <2>1, <1>2 DEF Thread
  <1>23. CASE AcceptConnection
    BY <1>2, <1>23 DEF AcceptConnection
  <1> HIDE DEF TypeOK, vars, Id, Thread
  <1> QED
    BY <1>1, <1>3, <1>4, <1>5, <1>6, <1>7, <1>8, <1>9, <1>10, <1>11, <1>12,
       <1>13, <1>14, <1>15, <1>16, <1>17, <1>18, <1>19, <1>20, <1>21, <1>22,
       <1>23, <1>24, <1>25
    DEF Next, ThreadStep, ReceiverStep, StopStep, ReceiverLeaves,
        MessageTooLong

-----------------------------------------------------------------------------
\* The invariant about the mappings, with its second part under a name.
MappingIsKnown ==
    ~crashed => \A e \in Endpoint : endpoint_to_connection_[e] # NoId =>
        remote[endpoint_to_connection_[e]] = e /\ Known(endpoint_to_connection_[e])

\* It is the same.
LEMMA MappingKnown ==
    (MappingIsCurrent <=> MappingIsKnown) /\ (MappingIsCurrent' <=> MappingIsKnown')
  BY DEF MappingIsCurrent, MappingIsKnown, Known

-----------------------------------------------------------------------------
\* Every step keeps the invariant: under each action, first the conjuncts it
\* cannot disturb, then each one that it could.
LEMMA Step ==
    ASSUME IInv, TypeOK', [Next]_vars
    PROVE  IInv'
  <1> USE TcpTransportAssumption
      DEF IInv, TypeOK, vars, lifecycle, table, stopping, Id, NoId, Thread, At,
          Idle, Free, SettingUp
  <1>1. ASSUME NEW c \in Caller, NEW e \in Endpoint, ConnectLookup(c, e)
        PROVE  IInv'
    <2>1. /\ UNCHANGED <<lifecycle, table, receiver, ended, stopping, crashed>>
          /\ thread[c] = Idle
      BY <1>1 DEF ConnectLookup
    <2>2. CASE UNCHANGED <<thread, endpoint_to_connection_>>
      BY <2>1, <2>2 DEF ThreadsKnow, ThreadKnows, OneSetsUp, IdsAreDrawn,
         AcceptorRests, MutexHeld, StopVisits, ConnectionIsServed, MappingIsCurrent
    <2>3. CASE /\ endpoint_to_connection_' = [endpoint_to_connection_ EXCEPT ![e] = NoId]
               /\ thread' = [thread EXCEPT ![c] = At("open", e, NoId)]
      <3>1. IdsAreDrawn' /\ StopVisits'
        BY <2>1 DEF IdsAreDrawn, StopVisits
      <3>2. ThreadsKnow'
        BY <2>1, <2>3 DEF ThreadsKnow, ThreadKnows
      <3>3. OneSetsUp'
        BY <2>1, <2>3 DEF OneSetsUp
      <3>4. AcceptorRests'
        BY <2>1, <2>3 DEF AcceptorRests
      <3>5. ConnectionIsServed'
        BY <2>1, <2>3 DEF ConnectionIsServed
      <3>6. MappingIsCurrent'
        <4>1. \A d \in Caller : thread[d].at # "idle" => thread'[d] = thread[d]
          BY <2>1, <2>3
        <4>2. \A f \in Endpoint : endpoint_to_connection_'[f] \in {NoId, endpoint_to_connection_[f]}
          BY <2>3
        <4>3. \A i \in Id : Known(i) => Known(i)'
          BY <2>1, <4>1 DEF Known
        <4>4. \A f \in Endpoint : endpoint_to_connection_[f] \in Id \cup {NoId}
          OBVIOUS
        <4> QED
          BY <2>1, <4>2, <4>3, <4>4, MappingKnown DEF MappingIsKnown
      <3>7. MutexHeld'
        BY <2>1, <2>3 DEF MutexHeld
      <3> QED
        BY <3>7, <3>1, <3>2, <3>3, <3>4, <3>5, <3>6
    <2> QED
      BY <1>1, <2>2, <2>3 DEF ConnectLookup
  <1>2. ASSUME NEW t \in Thread, NEW e \in Endpoint \cup {AnyPeer},
              thread[t].at \in {"idle", "open"}, t \in Caller => e \in Endpoint,
              NewConnection(t, e)
        PROVE  IInv'
    <2>1. StopVisits'
      BY <1>2 DEF NewConnection, StopVisits
    <2>2. ThreadsKnow'
      BY <1>2 DEF NewConnection, ThreadsKnow, ThreadKnows, IdsAreDrawn
    <2>3. OneSetsUp'
      BY <1>2 DEF NewConnection, OneSetsUp, ThreadsKnow, ThreadKnows
    <2>4. IdsAreDrawn'
      BY <1>2 DEF NewConnection, IdsAreDrawn
    <2>5. AcceptorRests'
      BY <1>2 DEF NewConnection, AcceptorRests
    <2>6. ConnectionIsServed'
      BY <1>2 DEF NewConnection, ConnectionIsServed
    <2>7. MappingIsCurrent'
      BY <1>2 DEF NewConnection, MappingIsCurrent, IdsAreDrawn, ThreadsKnow,
         ThreadKnows
    <2>8. MutexHeld'
      BY <1>2 DEF NewConnection, MutexHeld
    <2> QED
      BY <2>8, <2>1, <2>2, <2>3, <2>4, <2>5, <2>6, <2>7
  <1>3. ASSUME NEW c \in Caller, ConnectFails(c)
        PROVE  IInv'
    <2>1. IdsAreDrawn' /\ StopVisits'
      BY <1>3 DEF ConnectFails, IdsAreDrawn, StopVisits
    <2>2. ThreadsKnow'
      BY <1>3 DEF ConnectFails, ThreadsKnow, ThreadKnows
    <2>3. OneSetsUp'
      BY <1>3 DEF ConnectFails, OneSetsUp
    <2>4. AcceptorRests'
      BY <1>3 DEF ConnectFails, AcceptorRests
    <2>5. ConnectionIsServed'
      BY <1>3 DEF ConnectFails, ConnectionIsServed
    <2>6. MappingIsCurrent'
      BY <1>3 DEF ConnectFails, MappingIsCurrent
    <2>8. MutexHeld'
      BY <1>3 DEF ConnectFails, MutexHeld
    <2> QED
      BY <2>8, <2>1, <2>2, <2>3, <2>4, <2>5, <2>6
  <1>4. ASSUME AcceptorExits
        PROVE  IInv'
    <2>1. IdsAreDrawn' /\ StopVisits'
      BY <1>4 DEF AcceptorExits, IdsAreDrawn, StopVisits
    <2>2. ThreadsKnow'
      BY <1>4 DEF AcceptorExits, ThreadsKnow, ThreadKnows
    <2>3. OneSetsUp'
      BY <1>4 DEF AcceptorExits, OneSetsUp
    <2>4. AcceptorRests'
      BY <1>4 DEF AcceptorExits, AcceptorRests
    <2>5. ConnectionIsServed'
      BY <1>4 DEF AcceptorExits, ConnectionIsServed
    <2>6. MappingIsCurrent'
      BY <1>4 DEF AcceptorExits, MappingIsCurrent
    <2>8. MutexHeld'
      BY <1>4 DEF AcceptorExits, MutexHeld
    <2> QED
      BY <2>8, <2>1, <2>2, <2>3, <2>4, <2>5, <2>6
  <1>5. ASSUME NEW t \in Thread, InsertConnection(t)
        PROVE  IInv'
    <2>1. ThreadsKnow'
      BY <1>5 DEF InsertConnection, ThreadsKnow, ThreadKnows, OneSetsUp
    <2>2. OneSetsUp'
      BY <1>5 DEF InsertConnection, OneSetsUp
    <2>3. IdsAreDrawn'
      BY <1>5 DEF InsertConnection, IdsAreDrawn, ThreadsKnow, ThreadKnows
    <2>4. AcceptorRests'
      BY <1>5 DEF InsertConnection, AcceptorRests
    <2>5. StopVisits'
      BY <1>5 DEF InsertConnection, StopVisits
    <2>6. ConnectionIsServed'
      BY <1>5 DEF InsertConnection, ConnectionIsServed
    <2>7. MappingIsCurrent'
      BY <1>5 DEF InsertConnection, MappingIsCurrent
    <2>8. MutexHeld'
      BY <1>5 DEF InsertConnection, MutexHeld
    <2> QED
      BY <2>8, <2>1, <2>2, <2>3, <2>4, <2>5, <2>6, <2>7
  <1>6. ASSUME NEW t \in Thread, MapEndpoint(t)
        PROVE  IInv'
    <2>1. IdsAreDrawn' /\ StopVisits'
      BY <1>6 DEF MapEndpoint, IdsAreDrawn, StopVisits
    <2>2. ThreadsKnow'
      BY <1>6 DEF MapEndpoint, ThreadsKnow, ThreadKnows
    <2>3. OneSetsUp'
      BY <1>6 DEF MapEndpoint, OneSetsUp
    <2>4. AcceptorRests'
      BY <1>6 DEF MapEndpoint, AcceptorRests, ThreadsKnow, ThreadKnows
    <2>5. ConnectionIsServed'
      BY <1>6 DEF MapEndpoint, ConnectionIsServed
    <2>6. MappingIsCurrent'
      <3>1. /\ thread[t].id \in Id /\ remote[thread[t].id] = thread[t].endpoint
            /\ thread[t].at = "map" /\ t \in Caller
        BY <1>6 DEF MapEndpoint, ThreadsKnow, ThreadKnows
      <3>2. /\ UNCHANGED <<remote, connections_, swept, receiver>>
            /\ endpoint_to_connection_' =
                 [endpoint_to_connection_ EXCEPT ![thread[t].endpoint] = thread[t].id]
        BY <1>6 DEF MapEndpoint
      <3>3. /\ \A c \in Caller : thread[c].at # "map" => thread'[c] = thread[c]
            /\ thread'[t].at = "spawn" /\ thread'[t].id = thread[t].id
            /\ crashed' = crashed
        BY <1>6 DEF MapEndpoint
      <3>4. \A i \in Id : Known(i) => Known(i)'
        BY <3>2, <3>3 DEF Known
      <3>5. Known(thread[t].id)'
        BY <3>1, <3>3 DEF Known
      <3>6. \A e \in Endpoint : /\ endpoint_to_connection_[e] \in Id \cup {NoId}
                                /\ endpoint_to_connection_'[e] =
                                     IF e = thread[t].endpoint THEN thread[t].id
                                     ELSE endpoint_to_connection_[e]
        BY <3>2
      <3> QED
        BY <3>1, <3>2, <3>3, <3>4, <3>5, <3>6, MappingKnown DEF MappingIsKnown
    <2>8. MutexHeld'
      BY <1>6 DEF MapEndpoint, MutexHeld
    <2> QED
      BY <2>8, <2>1, <2>2, <2>3, <2>4, <2>5, <2>6
  <1>7. ASSUME NEW t \in Thread, SpawnReceiver(t)
        PROVE  IInv'
    <2>1. StopVisits'
      BY <1>7 DEF SpawnReceiver, StopVisits
    <2>2. ThreadsKnow'
      BY <1>7 DEF SpawnReceiver, ThreadsKnow, ThreadKnows, OneSetsUp
    <2>3. OneSetsUp'
      BY <1>7 DEF SpawnReceiver, OneSetsUp
    <2>4. IdsAreDrawn'
      BY <1>7 DEF SpawnReceiver, IdsAreDrawn, ThreadsKnow, ThreadKnows
    <2>5. AcceptorRests'
      BY <1>7 DEF SpawnReceiver, AcceptorRests
    <2>6. ConnectionIsServed'
      BY <1>7 DEF SpawnReceiver, ConnectionIsServed
    <2>7. MappingIsCurrent'
      BY <1>7 DEF SpawnReceiver, MappingIsCurrent, ThreadsKnow, ThreadKnows
    <2>8. MutexHeld'
      BY <1>7 DEF SpawnReceiver, MutexHeld
    <2> QED
      BY <2>8, <2>1, <2>2, <2>3, <2>4, <2>5, <2>6, <2>7
  <1>8. ASSUME NEW t \in Thread, AssignReceiver(t)
        PROVE  IInv'
    <2>1. ThreadsKnow'
      BY <1>8 DEF AssignReceiver, ThreadsKnow, ThreadKnows, OneSetsUp
    <2>2. OneSetsUp'
      BY <1>8 DEF AssignReceiver, OneSetsUp
    <2>3. IdsAreDrawn'
      BY <1>8 DEF AssignReceiver, IdsAreDrawn, ThreadsKnow, ThreadKnows
    <2>4. AcceptorRests'
      BY <1>8 DEF AssignReceiver, AcceptorRests
    <2>5. StopVisits'
      BY <1>8 DEF AssignReceiver, StopVisits
    <2>6. ConnectionIsServed'
      BY <1>8 DEF AssignReceiver, ConnectionIsServed
    <2>7. MappingIsCurrent'
      BY <1>8 DEF AssignReceiver, MappingIsCurrent
    <2>8. MutexHeld'
      BY <1>8 DEF AssignReceiver, MutexHeld
    <2> QED
      BY <2>8, <2>1, <2>2, <2>3, <2>4, <2>5, <2>6, <2>7
  <1>9. ASSUME NEW t \in Thread, DisconnectUnmap(t)
        PROVE  IInv'
    <2>1. IdsAreDrawn' /\ StopVisits'
      BY <1>9 DEF DisconnectUnmap, Unmap, IdsAreDrawn, StopVisits
    <2>2. ThreadsKnow'
      BY <1>9 DEF DisconnectUnmap, Unmap, ThreadsKnow, ThreadKnows
    <2>3. OneSetsUp'
      BY <1>9 DEF DisconnectUnmap, Unmap, OneSetsUp
    <2>4. AcceptorRests'
      BY <1>9 DEF DisconnectUnmap, Unmap, AcceptorRests
    <2>5. ConnectionIsServed'
      BY <1>9 DEF DisconnectUnmap, Unmap, ConnectionIsServed
    <2>6. MappingIsCurrent'
      BY <1>9 DEF DisconnectUnmap, Unmap, MappingIsCurrent, ThreadsKnow,
         ThreadKnows
    <2>8. MutexHeld'
      BY <1>9 DEF DisconnectUnmap, MutexHeld
    <2> QED
      BY <2>8, <2>1, <2>2, <2>3, <2>4, <2>5, <2>6
  <1>10. ASSUME NEW c \in Caller, NEW i \in Id, Disconnect(c, i)
        PROVE  IInv'
    <2>1. ThreadsKnow'
      BY <1>10 DEF Disconnect, RemoveConnection, ThreadsKnow, ThreadKnows,
         IdsAreDrawn
    <2>2. OneSetsUp'
      BY <1>10 DEF Disconnect, RemoveConnection, OneSetsUp
    <2>3. IdsAreDrawn'
      BY <1>10 DEF Disconnect, RemoveConnection, IdsAreDrawn
    <2>4. AcceptorRests'
      BY <1>10 DEF Disconnect, RemoveConnection, AcceptorRests
    <2>5. StopVisits'
      BY <1>10 DEF Disconnect, RemoveConnection, StopVisits
    <2>6. ConnectionIsServed'
      BY <1>10 DEF Disconnect, RemoveConnection, ConnectionIsServed
    <2>7. MappingIsCurrent'
      BY <1>10 DEF Disconnect, RemoveConnection, MappingIsCurrent
    <2>8. MutexHeld'
      BY <1>10 DEF Disconnect, MutexHeld
    <2> QED
      BY <2>8, <2>1, <2>2, <2>3, <2>4, <2>5, <2>6, <2>7
  <1>24. ASSUME NEW c \in Caller, NEW i \in Id, SendBegins(c, i)
        PROVE  IInv'
    <2>1. IdsAreDrawn'
      BY <1>24 DEF SendBegins, IdsAreDrawn
    <2>2. ThreadsKnow'
      BY <1>24 DEF SendBegins, ThreadsKnow, ThreadKnows
    <2>3. OneSetsUp'
      BY <1>24 DEF SendBegins, OneSetsUp
    <2>4. AcceptorRests'
      BY <1>24 DEF SendBegins, AcceptorRests
    <2>5. MutexHeld' /\ StopVisits'
      BY <1>24 DEF SendBegins, MutexHeld, StopVisits
    <2>6. ConnectionIsServed'
      BY <1>24 DEF SendBegins, ConnectionIsServed
    <2>7. MappingIsCurrent'
      BY <1>24 DEF SendBegins, MappingIsCurrent
    <2> QED
      BY <2>1, <2>2, <2>3, <2>4, <2>5, <2>6, <2>7
  <1>25. ASSUME NEW c \in Caller, SendReturns(c)
        PROVE  IInv'
    <2>1. IdsAreDrawn'
      BY <1>25 DEF SendReturns, IdsAreDrawn
    <2>2. ThreadsKnow'
      BY <1>25 DEF SendReturns, ThreadsKnow, ThreadKnows
    <2>3. OneSetsUp'
      BY <1>25 DEF SendReturns, OneSetsUp
    <2>4. AcceptorRests'
      BY <1>25 DEF SendReturns, AcceptorRests
    <2>5. MutexHeld' /\ StopVisits'
      BY <1>25 DEF SendReturns, MutexHeld, StopVisits
    <2>6. ConnectionIsServed'
      BY <1>25 DEF SendReturns, ConnectionIsServed
    <2>7. MappingIsCurrent'
      BY <1>25 DEF SendReturns, MappingIsCurrent
    <2> QED
      BY <2>1, <2>2, <2>3, <2>4, <2>5, <2>6, <2>7
  <1>11. ASSUME NEW i \in Id, ReceiverStarts(i)
        PROVE  IInv'
    <2>1. OneSetsUp' /\ AcceptorRests' /\ StopVisits'
      BY <1>11 DEF ReceiverStarts, OneSetsUp, AcceptorRests, StopVisits
    <2>2. ThreadsKnow'
      BY <1>11 DEF ReceiverStarts, ThreadsKnow, ThreadKnows
    <2>3. IdsAreDrawn'
      BY <1>11 DEF ReceiverStarts, IdsAreDrawn
    <2>4. ConnectionIsServed'
      BY <1>11 DEF ReceiverStarts, ConnectionIsServed, ThreadsKnow,
         ThreadKnows
    <2>5. MappingIsCurrent'
      BY <1>11 DEF ReceiverStarts, MappingIsCurrent
    <2>8. MutexHeld'
      BY <1>11 DEF ReceiverStarts, MutexHeld
    <2> QED
      BY <2>8, <2>1, <2>2, <2>3, <2>4, <2>5
  <1>12. ASSUME NEW i \in Id, LeaveLoop(i)
        PROVE  IInv'
    <2>1. OneSetsUp' /\ AcceptorRests' /\ StopVisits'
      BY <1>12 DEF LeaveLoop, OneSetsUp, AcceptorRests, StopVisits
    <2>2. ThreadsKnow'
      BY <1>12 DEF LeaveLoop, ThreadsKnow, ThreadKnows
    <2>3. IdsAreDrawn'
      BY <1>12 DEF LeaveLoop, IdsAreDrawn
    <2>4. ConnectionIsServed'
      BY <1>12 DEF LeaveLoop, ConnectionIsServed
    <2>5. MappingIsCurrent'
      BY <1>12 DEF LeaveLoop, MappingIsCurrent
    <2>8. MutexHeld'
      BY <1>12 DEF LeaveLoop, MutexHeld
    <2> QED
      BY <2>8, <2>1, <2>2, <2>3, <2>4, <2>5
  <1>13. ASSUME NEW i \in Id, ReceiverCloses(i)
        PROVE  IInv'
    <2>1. OneSetsUp' /\ AcceptorRests'
      BY <1>13 DEF ReceiverCloses, RemoveConnection, OneSetsUp, AcceptorRests
    <2>2. ThreadsKnow'
      BY <1>13 DEF ReceiverCloses, RemoveConnection, ThreadsKnow, ThreadKnows
    <2>3. IdsAreDrawn'
      BY <1>13 DEF ReceiverCloses, RemoveConnection, IdsAreDrawn
    <2>4. StopVisits'
      BY <1>13 DEF ReceiverCloses, RemoveConnection, StopVisits
    <2>5. ConnectionIsServed'
      BY <1>13 DEF ReceiverCloses, RemoveConnection, ConnectionIsServed
    <2>6. MappingIsCurrent'
      BY <1>13 DEF ReceiverCloses, RemoveConnection, MappingIsCurrent
    <2>8. MutexHeld'
      BY <1>13 DEF ReceiverCloses, MutexHeld
    <2> QED
      BY <2>8, <2>1, <2>2, <2>3, <2>4, <2>5, <2>6
  <1>14. ASSUME NEW i \in Id, ReceiverUnmaps(i)
        PROVE  IInv'
    <2>1. OneSetsUp' /\ AcceptorRests' /\ StopVisits'
      BY <1>14 DEF ReceiverUnmaps, Unmap, OneSetsUp, AcceptorRests,
         StopVisits
    <2>2. ThreadsKnow'
      BY <1>14 DEF ReceiverUnmaps, Unmap, ThreadsKnow, ThreadKnows
    <2>3. IdsAreDrawn'
      BY <1>14 DEF ReceiverUnmaps, Unmap, IdsAreDrawn
    <2>4. ConnectionIsServed'
      BY <1>14 DEF ReceiverUnmaps, Unmap, ConnectionIsServed
    <2>5. MappingIsCurrent'
      BY <1>14 DEF ReceiverUnmaps, Unmap, MappingIsCurrent
    <2>8. MutexHeld'
      BY <1>14 DEF ReceiverUnmaps, MutexHeld
    <2> QED
      BY <2>8, <2>1, <2>2, <2>3, <2>4, <2>5
  <1>15. ASSUME NEW i \in Id, PeerCloses(i)
        PROVE  IInv'
    <2>1. /\ ThreadsKnow' /\ OneSetsUp' /\ IdsAreDrawn' /\ AcceptorRests' /\ StopVisits'
          /\ ConnectionIsServed' /\ MappingIsCurrent'
      BY <1>15 DEF PeerCloses, ThreadsKnow, OneSetsUp, IdsAreDrawn,
         AcceptorRests, StopVisits, ConnectionIsServed, MappingIsCurrent,
         ThreadKnows
    <2>8. MutexHeld'
      BY <1>15 DEF PeerCloses, MutexHeld
    <2> QED
      BY <2>8, <2>1
  <1>16. ASSUME Start
        PROVE  IInv'
    <2>1. IdsAreDrawn' /\ StopVisits'
      BY <1>16 DEF Start, IdsAreDrawn, StopVisits
    <2>2. ThreadsKnow'
      BY <1>16 DEF Start, ThreadsKnow, ThreadKnows
    <2>3. OneSetsUp'
      BY <1>16 DEF Start, OneSetsUp
    <2>4. AcceptorRests'
      BY <1>16 DEF Start, AcceptorRests
    <2>5. ConnectionIsServed'
      BY <1>16 DEF Start, ConnectionIsServed, AcceptorRests
    <2>6. MappingIsCurrent'
      BY <1>16 DEF Start, MappingIsCurrent
    <2>8. MutexHeld'
      BY <1>16 DEF Start, MutexHeld
    <2> QED
      BY <2>8, <2>1, <2>2, <2>3, <2>4, <2>5, <2>6
  <1>17. ASSUME StopBegins
        PROVE  IInv'
    <2>1. ThreadsKnow' /\ OneSetsUp' /\ IdsAreDrawn' /\ ConnectionIsServed' /\ MappingIsCurrent'
      BY <1>17 DEF StopBegins, ThreadsKnow, OneSetsUp, IdsAreDrawn,
         ConnectionIsServed, MappingIsCurrent, ThreadKnows
    <2>2. AcceptorRests'
      BY <1>17 DEF StopBegins, AcceptorRests
    <2>3. StopVisits'
      BY <1>17 DEF StopBegins, StopVisits
    <2>8. MutexHeld'
      BY <1>17 DEF StopBegins, MutexHeld
    <2> QED
      BY <2>8, <2>1, <2>2, <2>3
  <1>18. ASSUME StopLocks
        PROVE  IInv'
    <2>1. ThreadsKnow' /\ OneSetsUp' /\ IdsAreDrawn' /\ ConnectionIsServed' /\ MappingIsCurrent'
      BY <1>18 DEF StopLocks, ThreadsKnow, OneSetsUp, IdsAreDrawn,
         ConnectionIsServed, MappingIsCurrent, ThreadKnows
    <2>2. AcceptorRests'
      BY <1>18 DEF StopLocks, AcceptorRests
    <2>3. StopVisits'
      BY <1>18 DEF StopLocks, StopVisits
    <2>8. MutexHeld'
      BY <1>18 DEF StopLocks, MutexHeld
    <2> QED
      BY <2>8, <2>1, <2>2, <2>3
  <1>19. ASSUME NEW i \in Id, StopShutsDown(i)
        PROVE  IInv'
    <2>1. /\ ThreadsKnow' /\ OneSetsUp' /\ IdsAreDrawn' /\ AcceptorRests'
          /\ ConnectionIsServed' /\ MappingIsCurrent'
      BY <1>19 DEF StopShutsDown, ThreadsKnow, OneSetsUp, IdsAreDrawn,
         AcceptorRests, ConnectionIsServed, MappingIsCurrent, ThreadKnows
    <2>2. StopVisits'
      BY <1>19 DEF StopShutsDown, StopVisits
    <2>8. MutexHeld'
      BY <1>19 DEF StopShutsDown, MutexHeld
    <2> QED
      BY <2>8, <2>1, <2>2
  <1>20. ASSUME StopClears
        PROVE  IInv'
    <2>1. OneSetsUp'
      BY <1>20 DEF StopClears, OneSetsUp
    <2>2. ThreadsKnow'
      BY <1>20 DEF StopClears, ThreadsKnow, ThreadKnows
    <2>3. IdsAreDrawn'
      BY <1>20 DEF StopClears, IdsAreDrawn
    <2>4. AcceptorRests'
      BY <1>20 DEF StopClears, AcceptorRests
    <2>5. StopVisits'
      BY <1>20 DEF StopClears, StopVisits
    <2>6. ConnectionIsServed'
      BY <1>20 DEF StopClears, ConnectionIsServed
    <2>7. MappingIsCurrent'
      BY <1>20 DEF StopClears, MappingIsCurrent
    <2>8. MutexHeld'
      BY <1>20 DEF StopClears, MutexHeld
    <2> QED
      BY <2>8, <2>1, <2>2, <2>3, <2>4, <2>5, <2>6, <2>7
  <1>21. CASE UNCHANGED vars
    BY <1>21 DEF ThreadsKnow, ThreadKnows, OneSetsUp, IdsAreDrawn,
       AcceptorRests, MutexHeld, StopVisits, ConnectionIsServed, MappingIsCurrent
  <1>22. ASSUME NEW c \in Caller, ConnectSucceeds(c)
         PROVE  IInv'
    <2>1. /\ thread[c].endpoint \in Endpoint
          /\ thread[c].at = "open"
          /\ NewConnection(c, thread[c].endpoint)
      BY <1>22 DEF ConnectSucceeds, ThreadsKnow, ThreadKnows
    <2> HIDE DEF IInv, TypeOK, Thread
    <2> QED
      BY <2>1, <1>2 DEF Thread
  <1>23. CASE AcceptConnection
    BY <1>2, <1>23 DEF AcceptConnection
  <1> HIDE DEF IInv, TypeOK, vars, Id, Thread
  <1> QED
    BY <1>1, <1>3, <1>4, <1>5, <1>6, <1>7, <1>8, <1>9, <1>10, <1>11, <1>12,
       <1>13, <1>14, <1>15, <1>16, <1>17, <1>18, <1>19, <1>20, <1>21, <1>22,
       <1>23, <1>24, <1>25
    DEF Next, ThreadStep, ReceiverStep, StopStep, ReceiverLeaves,
        MessageTooLong

-----------------------------------------------------------------------------
\* A transport that listens and has not been started satisfies the invariant.
LEMMA InitIInv == Init => IInv
  <1> SUFFICES ASSUME Init PROVE IInv
    OBVIOUS
  <1> USE TcpTransportAssumption DEF Init, Id, NoId, Thread, At, Idle
  <1>1. TypeOK
    <2>1. /\ next_connection_id_ \in 1 .. MaxConnections + 1
          /\ endpoint_to_connection_ \in [Endpoint -> Id \cup {NoId}]
          /\ remote \in [Id -> Endpoint \cup {AnyPeer}]
          /\ receiver \in [Id -> {"none", "start", "loop", "close", "unmap", "done"}]
      OBVIOUS
    <2>2. thread \in [Thread -> [at : {"idle", "open", "insert", "map", "spawn",
                                     "assign", "send", "unmap", "exited"},
                               endpoint : Endpoint \cup {AnyPeer},
                               id : Id \cup {NoId}]]
      OBVIOUS
    <2> QED
      BY <2>1, <2>2 DEF TypeOK
  <1>2. ThreadsKnow /\ OneSetsUp
    BY DEF ThreadsKnow, ThreadKnows, OneSetsUp, SettingUp
  <1>3. IdsAreDrawn /\ AcceptorRests /\ MutexHeld /\ StopVisits
    BY DEF IdsAreDrawn, AcceptorRests, MutexHeld, StopVisits
  <1>4. ConnectionIsServed /\ MappingIsCurrent
    BY DEF ConnectionIsServed, MappingIsCurrent
  <1> QED
    BY <1>1, <1>2, <1>3, <1>4 DEF IInv

\* Every reachable state satisfies the inductive invariant.
LEMMA Invariance == Spec => []IInv
  <1>1. IInv /\ [Next]_vars => IInv'
    <2>1. IInv => TypeOK /\ ThreadsKnow
      BY DEF IInv
    <2> QED
      BY <2>1, TypeStep, Step
  <1> QED
    BY <1>1, InitIInv, PTL DEF Spec

-----------------------------------------------------------------------------
(* The theorems.                                                           *)

\* The variables keep their types; no id is drawn beyond the bound.
THEOREM TypeCorrect == Spec => []TypeOK
  <1>1. IInv => TypeOK
    BY DEF IInv
  <1> QED
    BY <1>1, Invariance, PTL

\* No connection in the table is left without a thread that will close it,
\* however connect, accept, disconnect, receive threads and stop interleave.
THEOREM EveryConnectionIsServed == Spec => []ConnectionIsServed
  <1>1. IInv => ConnectionIsServed
    BY DEF IInv
  <1> QED
    BY <1>1, Invariance, PTL

\* endpoint_to_connection_ is wrong only between the two critical sections of
\* close_connection, and after stop.
THEOREM EveryMappingIsCurrent == Spec => []MappingIsCurrent
  <1>1. IInv => MappingIsCurrent
    BY DEF IInv
  <1> QED
    BY <1>1, Invariance, PTL

\* The thread stop joins with connections_mutex_ in hand has not ended: it is
\* still to look its Connection up or to close it, and needs the mutex for both.
JoinedNeedsMutex ==
    joining # NoId =>
        connections_mutex_ /\ receiver[joining] \in {"start", "loop", "close"}

\* So the join in stop never returns, as StopShutsDown has it, whatever the
\* connection: what the violated StopReturns shows of one instance is general.
THEOREM JoinNeverReturns == Spec => []JoinedNeedsMutex
  <1>1. IInv => JoinedNeedsMutex
    BY DEF IInv, StopVisits, IdsAreDrawn, ConnectionIsServed, ThreadsKnow,
       ThreadKnows, SettingUp, JoinedNeedsMutex
  <1> QED
    BY <1>1, Invariance, PTL
=============================================================================
