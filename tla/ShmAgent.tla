------------------------------ MODULE ShmAgent ------------------------------
(***************************************************************************)
(* The client of the routing daemon (src/shm_agent.cpp).  Commands go to   *)
(* the daemon through a ring in shared memory, responses come back through *)
(* another one.  A lock in shared memory that can time out guards both.    *)
(* Callers run send_command; the agent's worker drains the responses and   *)
(* calls the handlers; one thread owns the agent and connects and          *)
(* disconnects it while calls are under way.                               *)
(*                                                                         *)
(* The memory has a fixed name, and every agent that connects to it pops   *)
(* whatever response is the oldest: other processes share the rings, the   *)
(* lock and the notifications.  Of their commands only what the daemon     *)
(* makes of them is modelled, and the numbers are those of this agent.     *)
(*                                                                         *)
(* The daemon and the shared-memory library are not in the repository.     *)
(* The daemon is modelled from what the agent expects of it: it applies    *)
(* commands in order, announces what changes and notifies.  An action      *)
(* holds the lock throughout or is a step between two uses of it.          *)
(***************************************************************************)
EXTENDS Integers, Sequences, FiniteSets

CONSTANTS Caller,        \* threads that call the agent
          Worker,        \* its worker thread
          Nobody,        \* holder of a free lock
          Service,
          NoService,     \* service field of a slot never written
          Used,          \* types of the commands callers send without waiting
          Capacity,      \* capacity of either ring
          MaxSequence    \* bound on sequence_, far below its wrap at 2^32

\* RouteCommandType; lookups wait for an answer.
CommandType == {"REGISTER_SERVICE", "UNREGISTER_SERVICE", "FIND_SERVICE",
                "SUBSCRIBE", "UNSUBSCRIBE", "HEARTBEAT", "LOOKUP_SUBSCRIBERS"}

\* RouteResponseType
ResponseType == {"SERVICE_AVAILABLE", "SERVICE_UNAVAILABLE",
                 "SUBSCRIPTION_ACK", "SUBSCRIPTION_NACK", "LOOKUP_RESULT"}

ASSUME ShmAgentAssumption ==
    /\ Capacity \in Nat \ {0}
    /\ MaxSequence \in Nat
    /\ IsFiniteSet(Caller)
    /\ Worker \notin Caller
    /\ Nobody \notin Caller \cup {Worker}
    /\ NoService \notin Service
    /\ Used \subseteq CommandType \ {"LOOKUP_SUBSCRIBERS"}

VARIABLES connected_, running_,
          mapped,              \* shm_handle_ and shm_data_ are not null
          sequence_,
          pending_requests_,   \* numbers of the lookups under way
          call,                \* what each caller is doing
          worker,              \* where the worker thread is
          owner,               \* where the owner is in disconnect
          lock,                \* holder of the lock in shared memory
          commands,            \* command ring
          responses,           \* response ring
          notified,            \* the next shm_wait returns at once
          registry,            \* services the daemon knows
          view,                \* what availability_handler_ was told last
          missed,              \* services of which other agents took the last
                               \* announcement
          fault                \* a call used memory that was unmapped

agentVars == <<connected_, running_, mapped, owner>>
shmVars == <<commands, responses, notified, registry>>
vars == <<connected_, running_, mapped, sequence_, pending_requests_, call,
          worker, owner, lock, commands, responses, notified, registry, view,
          missed, fault>>

Command == [seq : 0 .. MaxSequence, type : CommandType, service : Service]
Response == [type : ResponseType, service : Service]
Blank == [seq |-> 0, type |-> "BLANK", service |-> NoService]

-----------------------------------------------------------------------------
(* Rings.                                                                  *)

Index == 0 .. Capacity - 1

Ring(I) == [count : 0 .. Capacity, read_index : Index, write_index : Index,
            slots : [Index -> I]]

EmptyRing == [count |-> 0, read_index |-> 0, write_index |-> 0,
              slots |-> [i \in Index |-> Blank]]

\* Mutant of Full: off by one.
FullLate(r) == r.count > Capacity

Full(r) == r.count >= Capacity

\* Mutant of Push: the item is stored behind the place it is read from.
PushAhead(r, x) ==
    [count |-> r.count + 1,
     read_index |-> r.read_index,
     write_index |-> (r.write_index + 1) % Capacity,
     slots |-> [r.slots EXCEPT ![(r.write_index + 1) % Capacity] = x]]

Push(r, x) ==
    [count |-> r.count + 1,
     read_index |-> r.read_index,
     write_index |-> (r.write_index + 1) % Capacity,
     slots |-> [r.slots EXCEPT ![r.write_index] = x]]

Pop(r) ==
    [count |-> r.count - 1,
     read_index |-> (r.read_index + 1) % Capacity,
     write_index |-> r.write_index,
     slots |-> r.slots]

Front(r) == r.slots[r.read_index]

\* The items of a ring in the order they will be read.
Contents(r) ==
    [i \in 1 .. r.count |-> r.slots[(r.read_index + i - 1) % Capacity]]

-----------------------------------------------------------------------------
Idle == [step |-> "idle", type |-> "BLANK", service |-> NoService, seq |-> 0]

Init ==
    /\ connected_ = FALSE /\ running_ = FALSE /\ mapped = FALSE
    /\ sequence_ = 1
    /\ pending_requests_ = {}
    /\ call = [c \in Caller |-> Idle]
    /\ worker = "none"
    /\ owner = "idle"
    /\ lock = Nobody
    /\ commands = EmptyRing
    /\ responses = EmptyRing
    /\ notified = FALSE
    /\ registry = {}
    /\ view = {} /\ missed = {}
    /\ fault = FALSE

-----------------------------------------------------------------------------
(* The owner.                                                              *)

\* connect.
Connect ==
    /\ owner = "idle" /\ ~connected_
    /\ connected_' = TRUE /\ running_' = TRUE /\ mapped' = TRUE
    /\ worker' = "wait"
    /\ UNCHANGED <<sequence_, pending_requests_, call, owner, lock, view, missed, fault>>
    /\ UNCHANGED shmVars

\* Mutant of DisconnectBegins: the worker is not told.
DisconnectBeginsQuietly ==
    /\ owner = "idle" /\ connected_
    /\ owner' = "join"
    /\ UNCHANGED <<connected_, running_, mapped, sequence_, pending_requests_,
                   call, worker, lock, view, missed, fault>>
    /\ UNCHANGED shmVars

\* disconnect up to the join of the worker.
DisconnectBegins ==
    /\ owner = "idle" /\ connected_
    /\ running_' = FALSE
    /\ owner' = "join"
    /\ UNCHANGED <<connected_, mapped, sequence_, pending_requests_, call,
                   worker, lock, view, missed, fault>>
    /\ UNCHANGED shmVars

\* The worker has ended and is joined; the memory is closed.  Callers are
\* not waited for.
DisconnectCloses ==
    /\ owner = "join" /\ worker = "ended"
    /\ worker' = "none"
    /\ mapped' = FALSE
    /\ owner' = "close"
    /\ UNCHANGED <<connected_, running_, sequence_, pending_requests_, call,
                   lock, view, missed, fault>>
    /\ UNCHANGED shmVars

DisconnectEnds ==
    /\ owner = "close"
    /\ connected_' = FALSE
    /\ owner' = "idle"
    /\ UNCHANGED <<running_, mapped, sequence_, pending_requests_, call, worker,
                   lock, view, missed, fault>>
    /\ UNCHANGED shmVars

-----------------------------------------------------------------------------
(* The bound: calls begin only while there are numbers left for them.      *)

Unsent == {c \in Caller : call[c].step \in {"entered", "checked", "locked"}}

Left(n) == sequence_ + Cardinality(Unsent) + n <= MaxSequence + 1

-----------------------------------------------------------------------------
(* Callers: send_command and the functions around it.                      *)

\* send_register_service, send_unregister_service, send_find_service,
\* send_subscribe, send_unsubscribe and send_heartbeat build a payload and
\* enter send_command, which refuses at once without a connection.
BeginCommand(c, type, s) ==
    /\ call[c].step = "idle"
    /\ connected_ /\ mapped
    /\ Left(1)
    /\ call' = [call EXCEPT ![c] = [step |-> "checked", type |-> type,
                                   service |-> s, seq |-> 0]]
    /\ UNCHANGED <<agentVars, sequence_, pending_requests_, worker, lock, view, missed,
                   fault>>
    /\ UNCHANGED shmVars

\* lookup_subscribers draws a number of its own and files it, then enters
\* send_command.
BeginLookup(c, s) ==
    /\ call[c].step = "idle"
    /\ connected_ /\ mapped
    /\ Left(2)
    /\ sequence_' = sequence_ + 1
    /\ pending_requests_' = pending_requests_ \cup {sequence_}
    /\ call' = [call EXCEPT ![c] = [step |-> "entered",
                                   type |-> "LOOKUP_SUBSCRIBERS",
                                   service |-> s, seq |-> sequence_]]
    /\ UNCHANGED <<agentVars, worker, lock, view, missed, fault>>
    /\ UNCHANGED shmVars

\* The call returns; a lookup erases its number.
Return(c) ==
    /\ call' = [call EXCEPT ![c] = Idle]
    /\ pending_requests_' = pending_requests_ \ {call[c].seq}

\* The check in the send_command of a lookup.
SendChecks(c) ==
    /\ call[c].step = "entered"
    /\ connected_ /\ mapped
    /\ call' = [call EXCEPT ![c].step = "checked"]
    /\ UNCHANGED <<agentVars, sequence_, pending_requests_, worker, lock, view, missed,
                   fault>>
    /\ UNCHANGED shmVars

\* Not connected, or the lock could not be had within a second (another process
\* may have it), or its handle was closed since the check.
SendRefused(c) ==
    /\ \/ call[c].step = "entered" /\ ~(connected_ /\ mapped)
       \/ call[c].step = "checked"
    /\ Return(c)
    /\ UNCHANGED <<agentVars, sequence_, worker, lock, view, missed, fault>>
    /\ UNCHANGED shmVars

SendLocks(c) ==
    /\ call[c].step = "checked"
    /\ mapped /\ lock = Nobody
    /\ lock' = c
    /\ call' = [call EXCEPT ![c].step = "locked"]
    /\ UNCHANGED <<agentVars, sequence_, pending_requests_, worker, view, missed, fault>>
    /\ UNCHANGED shmVars

\* No room: the lock is given back and the call fails.
SendFull(c) ==
    /\ call[c].step = "locked" /\ mapped
    /\ Full(commands)
    /\ lock' = Nobody
    /\ Return(c)
    /\ UNCHANGED <<agentVars, sequence_, worker, view, missed, fault>>
    /\ UNCHANGED shmVars

\* Mutant of NumberOf: a lookup sends the number it filed.
NumberFiled(c) == IF call[c].seq # 0 THEN call[c].seq ELSE sequence_

\* Every command, a lookup too, is sent under a number drawn in send_command.
NumberOf(c) == sequence_

\* The command is stored under the lock.
SendQueues(c) ==
    /\ call[c].step = "locked" /\ mapped
    /\ ~Full(commands)
    /\ sequence_' = sequence_ + 1
    /\ commands' = Push(commands, [seq |-> NumberOf(c), type |-> call[c].type,
                                   service |-> call[c].service])
    /\ lock' = Nobody
    /\ call' = [call EXCEPT ![c].step = "queued"]
    /\ UNCHANGED <<agentVars, pending_requests_, worker, responses, notified,
                   registry, view, missed, fault>>

\* shm_data_ became null while the caller held the lock.
SendFaults(c) ==
    /\ call[c].step = "locked" /\ ~mapped
    /\ fault' = TRUE
    /\ UNCHANGED <<agentVars, sequence_, pending_requests_, call, worker, lock,
                   view, missed>>
    /\ UNCHANGED shmVars

\* shm_notify, without the lock; a lookup goes on to wait for its answer.
SendNotifies(c) ==
    /\ call[c].step = "queued"
    /\ notified' = (notified \/ mapped)
    /\ call' = [call EXCEPT ![c] = IF @.type = "LOOKUP_SUBSCRIBERS"
                                  THEN [@ EXCEPT !.step = "waiting"]
                                  ELSE Idle]
    /\ UNCHANGED <<agentVars, sequence_, pending_requests_, worker, lock,
                   commands, responses, registry, view, missed, fault>>

\* response_queue_, which the lookup waits for, has no writer: the wait ends
\* by its time-out.
LookupTimesOut(c) ==
    /\ call[c].step = "waiting"
    /\ Return(c)
    /\ UNCHANGED <<agentVars, sequence_, worker, lock, view, missed, fault>>
    /\ UNCHANGED shmVars

-----------------------------------------------------------------------------
(* The worker.                                                             *)

\* The test at the top of the loop in worker_thread.
LoopTop == IF running_ THEN "wait" ELSE "ended"

\* shm_wait returns because of a notification, which is used up.
WorkerWakes ==
    /\ worker = "wait" /\ notified
    /\ notified' = FALSE
    /\ worker' = IF connected_ /\ mapped THEN "lock" ELSE LoopTop
    /\ UNCHANGED <<agentVars, sequence_, pending_requests_, call, lock,
                   commands, responses, registry, view, missed, fault>>

\* process_responses gives up after 100 ms without the lock, which a caller or
\* another process has.
WorkerTimesOut ==
    /\ worker = "lock"
    /\ worker' = LoopTop
    /\ UNCHANGED <<agentVars, sequence_, pending_requests_, call, lock, view, missed,
                   fault>>
    /\ UNCHANGED shmVars

WorkerLocks ==
    /\ worker = "lock" /\ lock = Nobody
    /\ lock' = Worker
    /\ worker' = "drain"
    /\ UNCHANGED <<agentVars, sequence_, pending_requests_, call, view, missed, fault>>
    /\ UNCHANGED shmVars

\* The service a response announces.
AnnouncedBy(r) ==
    IF r.type \in {"SERVICE_AVAILABLE", "SERVICE_UNAVAILABLE"} THEN {r.service} ELSE {}

\* Mutant of Told: unavailable services stay in view.
ToldAvailable(r) ==
    IF r.type = "SERVICE_AVAILABLE" THEN view \cup {r.service} ELSE view

\* What the handlers know after response r; lookup results are dropped.
Told(r) ==
    CASE r.type = "SERVICE_AVAILABLE" -> view \cup {r.service}
      [] r.type = "SERVICE_UNAVAILABLE" -> view \ {r.service}
      [] OTHER -> view

\* One round of the loop in process_responses, handler call included.
WorkerHandles ==
    /\ worker = "drain" /\ responses.count > 0
    /\ view' = Told(Front(responses))
    /\ missed' = missed \ AnnouncedBy(Front(responses))
    /\ responses' = Pop(responses)
    /\ UNCHANGED <<agentVars, sequence_, pending_requests_, call, worker, lock,
                   commands, notified, registry, fault>>

\* Mutant of WorkerUnlocks: the loop ends before the ring is empty.
WorkerUnlocksEarly ==
    /\ worker = "drain"
    /\ lock' = Nobody
    /\ worker' = LoopTop
    /\ UNCHANGED <<agentVars, sequence_, pending_requests_, call, view, missed, fault>>
    /\ UNCHANGED shmVars

WorkerUnlocks ==
    /\ worker = "drain" /\ responses.count = 0
    /\ lock' = Nobody
    /\ worker' = LoopTop
    /\ UNCHANGED <<agentVars, sequence_, pending_requests_, call, view, missed, fault>>
    /\ UNCHANGED shmVars

\* shm_wait times out after 100 ms and the loop sees running_ false.
WorkerEnds ==
    /\ worker = "wait" /\ ~running_
    /\ worker' = "ended"
    /\ UNCHANGED <<agentVars, sequence_, pending_requests_, call, lock, view, missed,
                   fault>>
    /\ UNCHANGED shmVars

-----------------------------------------------------------------------------
(* The daemon and the other processes.                                     *)

\* Possible answers to a command; some have none.
Answers(m, reg) ==
    LET answer(type) == <<[type |-> type, service |-> m.service]>>
        available == IF m.service \in reg THEN answer("SERVICE_AVAILABLE")
                     ELSE answer("SERVICE_UNAVAILABLE")
    IN  CASE m.type \in {"REGISTER_SERVICE", "UNREGISTER_SERVICE",
                         "FIND_SERVICE"} -> {available}
          [] m.type = "SUBSCRIBE" ->
               {answer("SUBSCRIPTION_ACK"), answer("SUBSCRIPTION_NACK")}
          [] m.type = "LOOKUP_SUBSCRIBERS" -> {answer("LOOKUP_RESULT")}
          [] OTHER -> {<<>>}

Registered(m) ==
    CASE m.type = "REGISTER_SERVICE" -> registry \cup {m.service}
      [] m.type = "UNREGISTER_SERVICE" -> registry \ {m.service}
      [] OTHER -> registry

\* The daemon takes the oldest command and answers it.
DaemonServes ==
    /\ lock = Nobody
    /\ commands.count > 0 /\ ~Full(responses)
    /\ registry' = Registered(Front(commands))
    /\ \E a \in Answers(Front(commands), registry') :
          responses' = IF a = <<>> THEN responses ELSE Push(responses, a[1])
    /\ commands' = Pop(commands)
    /\ notified' = TRUE
    /\ UNCHANGED <<agentVars, sequence_, pending_requests_, call, worker, lock,
                   view, missed, fault>>

\* Another process registers or loses service s.
DaemonAnnounces(s) ==
    /\ lock = Nobody /\ ~Full(responses)
    /\ registry' = IF s \in registry THEN registry \ {s} ELSE registry \cup {s}
    /\ responses' = Push(responses,
                         [service |-> s,
                          type |-> IF s \in registry' THEN "SERVICE_AVAILABLE"
                                   ELSE "SERVICE_UNAVAILABLE"])
    /\ notified' = TRUE
    /\ UNCHANGED <<agentVars, sequence_, pending_requests_, call, worker, lock,
                   commands, view, missed, fault>>

\* process_responses of another agent takes the oldest response, whomever it is
\* for: each looks at type and payload only.
OtherTakes ==
    /\ lock = Nobody
    /\ responses.count > 0
    /\ missed' = missed \cup AnnouncedBy(Front(responses))
    /\ responses' = Pop(responses)
    /\ UNCHANGED <<agentVars, sequence_, pending_requests_, call, worker, lock,
                   commands, notified, registry, view, fault>>

\* The worker of another agent uses a notification up.
OtherWakes ==
    /\ notified
    /\ notified' = FALSE
    /\ UNCHANGED <<agentVars, sequence_, pending_requests_, call, worker, lock,
                   commands, responses, registry, view, missed, fault>>

\* The daemon notifies the agent of another process.
DaemonNotifies ==
    /\ ~notified
    /\ notified' = TRUE
    /\ UNCHANGED <<agentVars, sequence_, pending_requests_, call, worker, lock,
                   commands, responses, registry, view, missed, fault>>

-----------------------------------------------------------------------------
Owner == Connect \/ DisconnectBegins \/ DisconnectCloses \/ DisconnectEnds

Begin(c) ==
    \E s \in Service :
       \/ BeginLookup(c, s)
       \/ \E type \in Used : BeginCommand(c, type, s)

Send(c) ==
    \/ SendChecks(c) \/ SendRefused(c) \/ SendLocks(c) \/ SendFull(c)
    \/ SendQueues(c) \/ SendFaults(c) \/ SendNotifies(c) \/ LookupTimesOut(c)

WorkerStep ==
    \/ WorkerWakes \/ WorkerTimesOut \/ WorkerLocks \/ WorkerHandles
    \/ WorkerUnlocks \/ WorkerEnds

Others == OtherTakes \/ OtherWakes

Daemon == DaemonServes \/ (\E s \in Service : DaemonAnnounces(s)) \/ DaemonNotifies

\* A fault ends the process.
Next ==
    /\ ~fault
    /\ \/ Owner
       \/ \E c \in Caller : Begin(c) \/ Send(c)
       \/ WorkerStep
       \/ Daemon
       \/ Others

Spec == Init /\ [][Next]_vars

\* Threads that are not blocked run, and a thread that asks again and again
\* for a lock that is free again and again gets it.
Fairness ==
    /\ WF_vars(~fault /\ WorkerStep)
    /\ SF_vars(~fault /\ WorkerLocks)
    /\ \A c \in Caller : WF_vars(~fault /\ Send(c))
    /\ WF_vars(~fault /\ (DisconnectCloses \/ DisconnectEnds))

FairSpec == Spec /\ Fairness

-----------------------------------------------------------------------------
(* Properties.                                                             *)

TypeOK ==
    /\ connected_ \in BOOLEAN /\ running_ \in BOOLEAN /\ mapped \in BOOLEAN
    /\ sequence_ \in 1 .. MaxSequence + 1
    /\ pending_requests_ \subseteq 1 .. MaxSequence
    /\ call \in [Caller -> [step : {"idle", "entered", "checked", "locked",
                                    "queued", "waiting"},
                            type : CommandType \cup {"BLANK"},
                            service : Service \cup {NoService},
                            seq : 0 .. MaxSequence]]
    /\ worker \in {"none", "wait", "lock", "drain", "ended"}
    /\ owner \in {"idle", "join", "close"}
    /\ lock \in Caller \cup {Worker, Nobody}
    /\ commands \in Ring(Command \cup {Blank})
    /\ responses \in Ring(Response \cup {Blank})
    /\ notified \in BOOLEAN
    /\ registry \subseteq Service
    /\ view \subseteq Service /\ missed \subseteq Service
    /\ fault \in BOOLEAN

CommandFifo == INSTANCE BoundedFifo
    WITH queue <- Contents(commands), Item <- Command, Bound <- Capacity

ResponseFifo == INSTANCE BoundedFifo
    WITH queue <- Contents(responses), Item <- Response, Bound <- Capacity

\* The rings with their count and two indices are bounded queues: between
\* send_command, the daemon and process_responses no command or response is
\* lost, repeated or reordered, and none is overwritten before it is read.
RingsAreFifos == CommandFifo!Spec /\ ResponseFifo!Spec

\* Commands stand in the ring in the order of their numbers: send_command
\* draws from sequence_ under the lock, although lookup_subscribers draws from
\* it without.
SequencesAscend ==
    LET q == Contents(commands)
    IN  \A i, j \in DOMAIN q : i < j => q[i].seq < q[j].seq

\* What the availability handler was told of a service is what the daemon knows,
\* unless an announcement of it is still in the ring, or the last one was taken
\* by another agent: this agent itself loses none, neither by a reconnect nor
\* by a notification that process_responses wastes on a time-out.
ViewFollowsRegistry ==
    LET q == Contents(responses)
        announced == UNION {AnnouncedBy(q[i]) : i \in DOMAIN q}
    IN  \A s \in Service \ (announced \cup missed) : s \in view <=> s \in registry

\* Responses are handled as long as notifications reach the worker at times
\* when the lock can be had (process_responses); one that meets a held lock is
\* used up for nothing, and the responses wait for the next.
ResponsesAreHandled ==
    []<>(worker = "lock" /\ lock = Nobody)
        => (responses.count > 0 ~> responses.count = 0)

\* disconnect returns, unless a call met the closed memory.
DisconnectReturns == owner = "join" ~> (owner = "idle" \/ fault)
=============================================================================
