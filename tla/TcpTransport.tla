---------------------------- MODULE TcpTransport ----------------------------
(***************************************************************************)
(* Connections of one TcpTransport (src/transport/tcp_transport.cpp): how  *)
(* callers, the accept thread, one receive thread per connection, peers    *)
(* and stop create, find, use and close them.  What travels on a           *)
(* connection is left out.                                                 *)
(*                                                                         *)
(* Every critical section of connections_mutex_ or endpoint_map_mutex_ is  *)
(* a step, except for the two that keep connections_mutex_ over system     *)
(* calls that block: the sends of send_to, which have no timeout, and the  *)
(* joins of stop.  A connect that waits for connections_mutex_ holds       *)
(* endpoint_map_mutex_ meanwhile; nobody waits for the latter with the     *)
(* former in hand, so the wait is modelled as not having begun.            *)
(***************************************************************************)
EXTENDS Integers

CONSTANTS Caller,          \* application threads
          Acceptor,        \* the accept thread
          Endpoint,        \* remote endpoints to connect to
          AnyPeer,         \* the remote endpoint of an accepted connection
          MaxConnections   \* bound on next_connection_id_

ASSUME TcpTransportAssumption ==
    /\ Acceptor \notin Caller
    /\ AnyPeer \notin Endpoint
    /\ MaxConnections \in Nat

VARIABLES
    running_,
    listening,               \* the listening socket accepts
    connections_mutex_,      \* held by stop or a send_to?
    connections_,            \* ids in the table
    next_connection_id_,
    endpoint_to_connection_, \* id of each endpoint, or NoId
    remote,                  \* remote endpoint of each connection
    receive_thread,          \* ids whose Connection owns a joinable thread
    receiver,                \* where the receive thread of each id is
    thread,                  \* where callers and the accept thread are
    ended,                   \* ids whose recv fails: closed by the peer or
                             \* shut down
    stopper,                 \* where stop is
    joining,                 \* the id stop waits for, or NoId
    todo,                    \* the ids stop still has to visit
    swept,                   \* ids removed by stop
    crashed                  \* a null Connection was dereferenced

vars == <<running_, listening, connections_mutex_, connections_,
          next_connection_id_, endpoint_to_connection_, remote, receive_thread,
          receiver, thread, ended, stopper, joining, todo, swept, crashed>>

lifecycle == <<running_, listening>>
table == <<connections_, next_connection_id_, remote, receive_thread>>
stopping == <<connections_mutex_, stopper, joining, todo, swept>>

Id == 1 .. MaxConnections
NoId == 0
Thread == Caller \cup {Acceptor}
At(p, e, i) == [at |-> p, endpoint |-> e, id |-> i]
Idle == At("idle", AnyPeer, NoId)

Free == ~connections_mutex_

\* A null pointer was not dereferenced yet.
Alive == ~crashed

\* listen has succeeded.
Init ==
    /\ running_ = FALSE
    /\ listening = TRUE
    /\ connections_mutex_ = FALSE
    /\ connections_ = {}
    /\ next_connection_id_ = 1
    /\ endpoint_to_connection_ = [e \in Endpoint |-> NoId]
    /\ remote = [i \in Id |-> AnyPeer]
    /\ receive_thread = {}
    /\ receiver = [i \in Id |-> "none"]
    /\ thread = [t \in Thread |-> IF t = Acceptor THEN [Idle EXCEPT !.at = "exited"]
                                                  ELSE Idle]
    /\ ended = {}
    /\ stopper = "none"
    /\ joining = NoId
    /\ todo = {}
    /\ swept = {}
    /\ crashed = FALSE

-----------------------------------------------------------------------------
(* connect and the accept thread. *)

\* connect, or get_or_create_connection of send_to_endpoint: a connection that
\* is mapped and still in the table is used again; a stale mapping is removed.
ConnectLookup(c, e) ==
    LET i == endpoint_to_connection_[e] IN
    /\ Alive
    /\ thread[c] = Idle
    /\ i # NoId => Free
    /\ \/ /\ i # NoId /\ i \in connections_
          /\ UNCHANGED <<thread, endpoint_to_connection_>>
       \/ /\ ~(i # NoId /\ i \in connections_)
          /\ endpoint_to_connection_' = [endpoint_to_connection_ EXCEPT ![e] = NoId]
          /\ thread' = [thread EXCEPT ![c] = At("open", e, NoId)]
    /\ UNCHANGED <<lifecycle, table, receiver, ended, stopping, crashed>>

\* Mutant of NewConnection: ++next_connection_id_.
NewConnectionPreIncrement(t, e) ==
    LET i == next_connection_id_ IN
    /\ Alive
    /\ i \in Id
    /\ next_connection_id_' = i + 1
    /\ remote' = [remote EXCEPT ![i] = e]
    /\ thread' = [thread EXCEPT ![t] = At("insert", e, i + 1)]
    /\ UNCHANGED <<lifecycle, connections_, receive_thread, receiver,
                   endpoint_to_connection_, ended, stopping, crashed>>

\* A new connection gets the next id.
NewConnection(t, e) ==
    LET i == next_connection_id_ IN
    /\ Alive
    /\ i \in Id
    /\ next_connection_id_' = i + 1
    /\ remote' = [remote EXCEPT ![i] = e]
    /\ thread' = [thread EXCEPT ![t] = At("insert", e, i)]
    /\ UNCHANGED <<lifecycle, connections_, receive_thread, receiver,
                   endpoint_to_connection_, ended, stopping, crashed>>

ConnectSucceeds(c) ==
    /\ thread[c].at = "open"
    /\ NewConnection(c, thread[c].endpoint)

\* No socket, a bad address, or nobody answers.
ConnectFails(c) ==
    /\ Alive
    /\ thread[c].at = "open"
    /\ thread' = [thread EXCEPT ![c] = Idle]
    /\ UNCHANGED <<lifecycle, table, receiver, endpoint_to_connection_, ended,
                   stopping, crashed>>

\* accept returns a connection; running_ was true when the loop began.  On a
\* socket that stop has shut down accept only fails, after a restart too.
AcceptConnection ==
    /\ listening
    /\ thread[Acceptor] = Idle
    /\ NewConnection(Acceptor, AnyPeer)

\* The loop of the accept thread ends.
AcceptorExits ==
    /\ Alive
    /\ thread[Acceptor] = Idle
    /\ ~running_
    /\ thread' = [thread EXCEPT ![Acceptor].at = "exited"]
    /\ UNCHANGED <<lifecycle, table, receiver, endpoint_to_connection_, ended,
                   stopping, crashed>>

\* connections_[connection_id] = std::move(conn)
InsertConnection(t) ==
    /\ Alive
    /\ thread[t].at = "insert"
    /\ Free
    /\ connections_' = connections_ \cup {thread[t].id}
    /\ thread' = [thread EXCEPT ![t].at = IF t = Acceptor THEN "spawn" ELSE "map"]
    /\ UNCHANGED <<lifecycle, next_connection_id_, remote, receive_thread,
                   receiver, endpoint_to_connection_, ended, stopping, crashed>>

\* endpoint_to_connection_[...] = connection_id
MapEndpoint(c) ==
    /\ Alive
    /\ thread[c].at = "map"
    /\ endpoint_to_connection_' =
         [endpoint_to_connection_ EXCEPT ![thread[c].endpoint] = thread[c].id]
    /\ thread' = [thread EXCEPT ![c].at = "spawn"]
    /\ UNCHANGED <<lifecycle, table, receiver, ended, stopping, crashed>>

\* std::thread(&TcpTransport::connection_receive_thread, ...) runs at once ...
SpawnReceiver(t) ==
    /\ Alive
    /\ thread[t].at = "spawn"
    /\ receiver' = [receiver EXCEPT ![thread[t].id] = "start"]
    /\ thread' = [thread EXCEPT ![t].at = "assign"]
    /\ UNCHANGED <<lifecycle, table, endpoint_to_connection_, ended, stopping,
                   crashed>>

\* ... and only then does connections_[connection_id]->receive_thread take it,
\* without the mutex: operator[] makes a null entry if the connection is gone.
AssignReceiver(t) ==
    LET i == thread[t].id IN
    /\ Alive
    /\ thread[t].at = "assign"
    /\ thread' = [thread EXCEPT ![t] = Idle]
    /\ \/ /\ i \in connections_
          /\ receive_thread' = receive_thread \cup {i}
          /\ UNCHANGED crashed
       \/ /\ i \notin connections_
          /\ crashed' = TRUE
          /\ UNCHANGED receive_thread
    /\ UNCHANGED <<lifecycle, connections_, next_connection_id_, remote, receiver,
                   endpoint_to_connection_, ended, stopping>>

-----------------------------------------------------------------------------
(* Sending. *)

\* send_to finds the connection and keeps connections_mutex_ while the socket
\* takes the bytes, for as long as the peer does not read them.  (For an id
\* that is not in the table it returns false.)
SendBegins(c, i) ==
    /\ Alive
    /\ thread[c] = Idle
    /\ i \in connections_
    /\ Free
    /\ connections_mutex_' = TRUE
    /\ thread' = [thread EXCEPT ![c] = At("send", AnyPeer, i)]
    /\ UNCHANGED <<lifecycle, table, receiver, endpoint_to_connection_, ended,
                   stopper, joining, todo, swept, crashed>>

\* The sends return, whether they wrote everything or not.
SendReturns(c) ==
    /\ Alive
    /\ thread[c].at = "send"
    /\ connections_mutex_' = FALSE
    /\ thread' = [thread EXCEPT ![c] = Idle]
    /\ UNCHANGED <<lifecycle, table, receiver, endpoint_to_connection_, ended,
                   stopper, joining, todo, swept, crashed>>

-----------------------------------------------------------------------------
(* Closing. *)

\* The first critical section of close_connection.
RemoveConnection(i) ==
    /\ connections_' = connections_ \ {i}
    /\ receive_thread' = receive_thread \ {i}
    /\ UNCHANGED <<next_connection_id_, remote>>

\* Mutant of Unmap: the mapping is left to the next connect.
UnmapLater(i) == UNCHANGED endpoint_to_connection_

\* The second one: the endpoint's mapping goes, whatever connection it names.
Unmap(i) ==
    endpoint_to_connection_' = [e \in Endpoint |->
        IF e = remote[i] THEN NoId ELSE endpoint_to_connection_[e]]

\* disconnect, of any id: the connection may still be being set up.  For an id
\* that is not in the table it does nothing.
Disconnect(c, i) ==
    /\ Alive
    /\ thread[c] = Idle
    /\ i \in connections_
    /\ Free
    /\ RemoveConnection(i)
    /\ thread' = [thread EXCEPT ![c] = At("unmap", AnyPeer, i)]
    /\ UNCHANGED <<lifecycle, receiver, endpoint_to_connection_, ended, stopping,
                   crashed>>

DisconnectUnmap(c) ==
    /\ Alive
    /\ thread[c].at = "unmap"
    /\ Unmap(thread[c].id)
    /\ thread' = [thread EXCEPT ![c] = Idle]
    /\ UNCHANGED <<lifecycle, table, receiver, ended, stopping, crashed>>

\* connection_receive_thread looks its Connection up.
ReceiverStarts(i) ==
    /\ Alive
    /\ receiver[i] = "start"
    /\ Free
    /\ receiver' = [receiver EXCEPT ![i] = IF i \in connections_ THEN "loop"
                                                                 ELSE "done"]
    /\ UNCHANGED <<lifecycle, table, endpoint_to_connection_, thread, ended,
                   stopping, crashed>>

\* Mutant of LoopEnds: a failed recv is tried again.
LoopEndsOnStop(i) == ~running_

\* The receive loop ends: recv failed, the transport is not running, or the
\* Connection was closed under the thread (which then reads freed memory).
LoopEnds(i) ==
    i \in ended \/ ~running_ \/ i \notin connections_

\* The loop ends on its own account when a message is too long.
LeaveLoop(i) ==
    /\ Alive
    /\ receiver[i] = "loop"
    /\ receiver' = [receiver EXCEPT ![i] = "close"]
    /\ UNCHANGED <<lifecycle, table, endpoint_to_connection_, thread, ended,
                   stopping, crashed>>

ReceiverLeaves(i) == LoopEnds(i) /\ LeaveLoop(i)
MessageTooLong(i) == i \notin ended /\ LeaveLoop(i)

\* Mutant of ReceiverCloses: the thread ends and leaves the connection behind.
ReceiverForgets(i) ==
    /\ Alive
    /\ receiver[i] = "close"
    /\ receiver' = [receiver EXCEPT ![i] = "done"]
    /\ UNCHANGED <<lifecycle, table, endpoint_to_connection_, thread, ended,
                   stopping, crashed>>

\* close_connection at the end of the receive thread.
ReceiverCloses(i) ==
    /\ Alive
    /\ receiver[i] = "close"
    /\ Free
    /\ RemoveConnection(i)
    /\ receiver' = [receiver EXCEPT ![i] = IF i \in connections_ THEN "unmap"
                                                                 ELSE "done"]
    /\ UNCHANGED <<lifecycle, endpoint_to_connection_, thread, ended, stopping,
                   crashed>>

ReceiverUnmaps(i) ==
    /\ Alive
    /\ receiver[i] = "unmap"
    /\ Unmap(i)
    /\ receiver' = [receiver EXCEPT ![i] = "done"]
    /\ UNCHANGED <<lifecycle, table, thread, ended, stopping, crashed>>

\* The peer closes the connection, or it is lost.
PeerCloses(i) ==
    /\ Alive
    /\ i < next_connection_id_
    /\ i \notin ended
    /\ ended' = ended \cup {i}
    /\ UNCHANGED <<lifecycle, table, receiver, endpoint_to_connection_, thread,
                   stopping, crashed>>

-----------------------------------------------------------------------------
(* start and stop. *)

\* start, on a transport that listens.
Start ==
    /\ Alive
    /\ ~running_
    /\ stopper = "none"
    /\ running_' = TRUE
    /\ thread' = [thread EXCEPT ![Acceptor] = Idle]
    /\ UNCHANGED <<listening, table, receiver, endpoint_to_connection_, ended,
                   stopping, crashed>>

\* stop, or the destructor, on a transport that runs or does not.
StopBegins ==
    /\ Alive
    /\ stopper = "none"
    /\ running_' = FALSE
    /\ listening' = FALSE
    /\ stopper' = "accept"
    /\ UNCHANGED <<connections_mutex_, joining, todo, swept, table, receiver,
                   endpoint_to_connection_, thread, ended, crashed>>

\* accept_thread_.join() returns, and stop takes connections_mutex_.
StopLocks ==
    /\ Alive
    /\ stopper = "accept"
    /\ thread[Acceptor].at = "exited"
    /\ Free
    /\ connections_mutex_' = TRUE
    /\ todo' = connections_
    /\ stopper' = "closing"
    /\ UNCHANGED <<lifecycle, joining, swept, table, receiver,
                   endpoint_to_connection_, thread, ended, crashed>>

\* One turn of the loop: shut the socket down, then join its thread.  The join
\* has no step in which it returns: the thread of a connection in the table has
\* still to close it (ConnectionIsServed), for which it needs the mutex.
StopShutsDown(i) ==
    /\ Alive
    /\ stopper = "closing"
    /\ joining = NoId
    /\ i \in todo
    /\ todo' = todo \ {i}
    /\ ended' = ended \cup {i}
    /\ joining' = IF i \in receive_thread THEN i ELSE NoId
    /\ UNCHANGED <<lifecycle, connections_mutex_, stopper, swept, table, receiver,
                   endpoint_to_connection_, thread, crashed>>

\* connections_.clear() and the end of stop.
StopClears ==
    /\ Alive
    /\ stopper = "closing"
    /\ joining = NoId
    /\ todo = {}
    /\ swept' = swept \cup connections_
    /\ connections_' = {}
    /\ receive_thread' = {}
    /\ connections_mutex_' = FALSE
    /\ stopper' = "none"
    /\ UNCHANGED <<lifecycle, joining, todo, next_connection_id_, remote, receiver,
                   endpoint_to_connection_, thread, ended, crashed>>

ThreadStep(t) ==
    \/ InsertConnection(t)
    \/ MapEndpoint(t)
    \/ SpawnReceiver(t)
    \/ AssignReceiver(t)
    \/ DisconnectUnmap(t)

ReceiverStep(i) ==
    \/ ReceiverStarts(i)
    \/ ReceiverLeaves(i)
    \/ ReceiverCloses(i)
    \/ ReceiverUnmaps(i)

StopStep ==
    \/ StopLocks
    \/ \E i \in Id : StopShutsDown(i)
    \/ StopClears

Next ==
    \/ \E c \in Caller, e \in Endpoint : ConnectLookup(c, e)
    \/ \E c \in Caller : ConnectSucceeds(c)
    \/ \E c \in Caller : ConnectFails(c)
    \/ AcceptConnection
    \/ AcceptorExits
    \/ \E t \in Thread : ThreadStep(t)
    \/ \E c \in Caller, i \in Id : SendBegins(c, i) \/ Disconnect(c, i)
    \/ \E c \in Caller : SendReturns(c)
    \/ \E i \in Id : ReceiverStep(i)
    \/ \E i \in Id : MessageTooLong(i)
    \/ \E i \in Id : PeerCloses(i)
    \/ Start
    \/ StopBegins
    \/ StopStep

Spec == Init /\ [][Next]_vars

\* Threads that can run do; a receive thread leaves recv when its connection
\* has ended.  No peer has to close or to read, so that a send may never return,
\* and nobody has to connect.
Fairness ==
    /\ \A t \in Thread : WF_vars(ThreadStep(t))
    /\ \A i \in Id :
         /\ WF_vars(ReceiverStarts(i))
         /\ WF_vars(i \in ended /\ ReceiverLeaves(i))
         /\ WF_vars(ReceiverCloses(i))
         /\ WF_vars(ReceiverUnmaps(i))
    /\ WF_vars(AcceptorExits)
    /\ WF_vars(StopStep)

FairSpec == Spec /\ Fairness

-----------------------------------------------------------------------------
(* Properties. *)

\* The type of every variable.
TypeOK ==
    /\ running_ \in BOOLEAN
    /\ listening \in BOOLEAN
    /\ connections_mutex_ \in BOOLEAN
    /\ connections_ \subseteq Id
    /\ next_connection_id_ \in 1 .. MaxConnections + 1
    /\ endpoint_to_connection_ \in [Endpoint -> Id \cup {NoId}]
    /\ remote \in [Id -> Endpoint \cup {AnyPeer}]
    /\ receive_thread \subseteq Id
    /\ receiver \in [Id -> {"none", "start", "loop", "close", "unmap", "done"}]
    /\ thread \in [Thread -> [at : {"idle", "open", "insert", "map", "spawn",
                                    "assign", "send", "unmap", "exited"},
                              endpoint : Endpoint \cup {AnyPeer},
                              id : Id \cup {NoId}]]
    /\ ended \subseteq Id
    /\ stopper \in {"none", "accept", "closing"}
    /\ joining \in Id \cup {NoId}
    /\ todo \subseteq Id
    /\ swept \subseteq Id
    /\ crashed \in BOOLEAN

\* No connection is left without a thread that will close it: whatever is in
\* the table is being set up by connect or the accept thread, or has a receive
\* thread that has not yet closed it.  So a join under connections_mutex_ never
\* returns.
ConnectionIsServed ==
    \A i \in connections_ :
        \/ receiver[i] \in {"start", "loop", "close"}
        \/ \E t \in Thread : thread[t].id = i /\ thread[t].at \in {"map", "spawn"}

\* A mapping names a connection to its own endpoint that is in the table, or
\* whose connect has not returned, or whose close_connection is between its two
\* critical sections, or that stop removed: has_connection can be wrong only
\* then.
MappingIsCurrent ==
    ~crashed => \A e \in Endpoint :
        LET i == endpoint_to_connection_[e] IN
        i # NoId =>
            /\ remote[i] = e
            /\ \/ i \in connections_ \cup swept
               \/ receiver[i] = "unmap"
               \/ \E c \in Caller :
                    thread[c].at \in {"spawn", "assign", "unmap"} /\ thread[c].id = i

\* From some time on no send_to has connections_mutex_: none blocks for ever on
\* a peer that does not read, and they do not follow one another without end
\* (std::mutex promises nobody else a turn).
SendsCease == <>[](\A c \in Caller : thread[c].at # "send")

\* A connection the peer has closed leaves the table, unless send_to keeps the
\* mutex from the receive thread that closes it, the transport is stopped or
\* the process has crashed.
PeerCloseIsNoticed ==
    SendsCease => \A i \in Id :
        (i \in connections_ /\ i \in ended)
            ~> (i \notin connections_ \/ stopper # "none" \/ crashed)

\* stop closes all connections and returns, unless send_to keeps the mutex from
\* it.
StopReturns == SendsCease => (stopper # "none" ~> (stopper = "none" \/ crashed))
=============================================================================
