---- MODULE Reconnect ----
(***************************************************************************)
(* hermes_voip.adapter.VoipAdapter over its connections to the gateway:    *)
(* connect(), the reconnect supervisor, disconnect(), and the calls that   *)
(* live through a reconnection.                                            *)
(*                                                                         *)
(* Every attempt builds a transport and, once that is open, a registration *)
(* manager; both carry one number here.  A connection can break at any     *)
(* moment, and is noticed by its reader, or by its keepalive, or by one    *)
(* and then the other.  An inbound call's task keeps the transport it saw  *)
(* when it began, and so does the CallSession it makes.                    *)
(***************************************************************************)
EXTENDS Naturals, FiniteSets

CONSTANTS
    Call,           \* the calls
    Keepalive,      \* TRUE: connections send keepalives
    MaxConnections  \* bound: the transports that are opened

ASSUME ReconnectAssumption ==
    Keepalive \in BOOLEAN /\ MaxConnections \in Nat \ {0}

VARIABLES
    phase,   \* the adapter: connecting, up (_connected), the stages of disconnect()
    pc,      \* the task that establishes: connect()'s caller, then the supervisor
    lost,    \* _lost_event
    current, \* the transport in _transport, 0 for None
    managed, \* _manager is set: it is the current transport's
    old,     \* old_transport, a local of the supervisor
    conn,    \* each transport: its link, its reader task, its keepalive task
    call,    \* each call: its stage, and the transport its task and session use
    dialogs, \* <<n, c>>: manager n routes in-dialog requests to c
    sinks    \* <<n, c>>: transport n routes responses to c

adapter == <<phase, pc, lost, current, managed, old>>
calls == <<call, dialogs, sinks>>
vars == <<adapter, conn, calls>>

Connection == 1 .. MaxConnections
Unopened == [link |-> "none", reader |-> FALSE, keepalive |-> FALSE]
Released == [link |-> "closed", reader |-> FALSE, keepalive |-> FALSE]

\* The sessions in _call_sessions.
Live == {c \in Call : call[c].stage = "live"}

\* connect() has assigned its first transport, and is opening it.
Init ==
    /\ phase = "connecting" /\ pc = "opening"
    /\ lost = FALSE
    /\ current = 1 /\ managed = FALSE /\ old = 0
    /\ conn = [n \in Connection |-> Unopened]
    /\ call = [c \in Call |-> [stage |-> "none", via |-> 0]]
    /\ dialogs = {} /\ sinks = {}

----
(* _establish *)

\* The connection opens; the manager is built and bound and the live calls are
\* attached to both, all before the reader can deliver anything.
Opened ==
    /\ pc = "opening"
    /\ conn' = [conn EXCEPT ![current] = [link |-> "up", reader |-> TRUE,
                                          keepalive |-> Keepalive]]
    /\ managed' = TRUE
    /\ dialogs' = dialogs \cup ({current} \X Live)
    /\ sinks' = sinks \cup ({current} \X Live)
    /\ pc' = "registering"
    /\ UNCHANGED <<phase, lost, current, old, call>>

\* Faulty: a failed attempt is the last one.
GivesUp == pc' = "waiting" /\ UNCHANGED phase

\* The attempt fails: connect() raises, the supervisor sleeps before the next
\* attempt unless disconnect() has begun.
AttemptFails ==
    IF phase = "connecting" THEN phase' = "failed" /\ pc' = "gone"
    ELSE /\ pc' = IF phase = "up" THEN "sleeping" ELSE "gone"
         /\ UNCHANGED phase

OpenFails ==
    /\ pc = "opening"
    /\ AttemptFails
    /\ UNCHANGED <<lost, current, managed, old, conn, calls>>

\* A REGISTER cannot be written.
RegisterFails ==
    /\ pc = "registering"
    /\ conn[current].link # "up"
    /\ AttemptFails
    /\ UNCHANGED <<lost, current, managed, old, conn, calls>>

\* manager.connect() returns, registered or not: connect() clears the event and
\* starts the supervisor; the supervisor waits again.
Established ==
    /\ pc = "registering"
    /\ IF phase = "connecting"
         THEN phase' = "up" /\ lost' = FALSE /\ pc' = "waiting"
         ELSE /\ pc' = IF phase = "up" THEN "waiting" ELSE "gone"
              /\ UNCHANGED <<phase, lost>>
    /\ UNCHANGED <<current, managed, old, conn, calls>>

----
(* _supervise and _reconnect_with_backoff *)

\* The bound: another transport may be opened after the current one.
HasRoom == current < MaxConnections \/ conn[current].link = "none"

\* The manager and the transport become locals of the supervisor, to be closed.
Detach ==
    /\ old' = current
    /\ current' = 0
    /\ managed' = FALSE
    /\ pc' = IF managed THEN "manager" ELSE "transport"

LossSeen ==
    /\ pc = "waiting" /\ phase = "up" /\ lost
    /\ HasRoom
    /\ lost' = FALSE
    /\ Detach
    /\ UNCHANGED <<phase, conn, calls>>

Retry ==
    /\ pc = "sleeping"
    /\ HasRoom
    /\ Detach
    /\ UNCHANGED <<phase, lost, conn, calls>>

OldManagerClosed ==
    /\ pc = "manager"
    /\ pc' = "transport"
    /\ UNCHANGED <<phase, lost, current, managed, old, conn, calls>>

\* The old transport is closed and _establish assigns the next one, which takes
\* the number of one that never opened.
OldTransportClosed ==
    /\ pc = "transport"
    /\ IF conn[old].link = "none"
         THEN current' = old /\ UNCHANGED conn
         ELSE /\ current' = old + 1
              /\ conn' = [conn EXCEPT ![old] = Released]
    /\ old' = 0
    /\ pc' = "opening"
    /\ UNCHANGED <<phase, lost, managed, calls>>

----
(* The connections *)

Drop(n) ==
    /\ conn[n].link = "up" /\ n < MaxConnections
    /\ conn' = [conn EXCEPT ![n].link = "dead"]
    /\ UNCHANGED <<adapter, calls>>

\* _on_connection_lost: heard only once connect() has returned.
Reports == lost' = (lost \/ phase = "up")

\* The reader ends at the end of the stream, its own or the keepalive's doing.
ReaderEnds(n) ==
    /\ conn[n].reader /\ conn[n].link \in {"dead", "closed"}
    /\ conn' = [conn EXCEPT ![n].reader = FALSE]
    /\ Reports
    /\ UNCHANGED <<phase, pc, current, managed, old, calls>>

\* The keepalive cannot be written: it closes the writer and reports.
KeepaliveFails(n) ==
    /\ conn[n].keepalive /\ conn[n].link = "dead"
    /\ conn' = [conn EXCEPT ![n].keepalive = FALSE, ![n].link = "closed"]
    /\ Reports
    /\ UNCHANGED <<phase, pc, current, managed, old, calls>>

----
(* The calls *)

\* An INVITE on any connection that is read: its task takes _transport.
CallArrives(c) ==
    /\ phase = "up" /\ current # 0 /\ conn[current].link # "none"
    /\ \E n \in Connection : conn[n].reader /\ conn[n].link = "up"
    /\ call[c].stage = "none"
    /\ call' = [call EXCEPT ![c] = [stage |-> "setup", via |-> current]]
    /\ UNCHANGED <<adapter, conn, dialogs, sinks>>

\* Faulty: the manager is the one seen when the call's task began.
RoutesAtSetup(c) == {<<call[c].via, c>>}

\* manager.add_call on the manager of the moment, if there is one.
Routes(c) == IF managed THEN {<<current, c>>} ELSE {}

CallRegisters(c) ==
    /\ call[c].stage = "setup"
    /\ call' = [call EXCEPT ![c].stage = "live"]
    /\ dialogs' = dialogs \cup Routes(c)
    /\ sinks' = sinks \cup {<<call[c].via, c>>}
    /\ UNCHANGED <<adapter, conn>>

\* The setup fails, or the call ends: its task takes its own routes away.
CallEnds(c) ==
    /\ call[c].stage \in {"setup", "live"}
    /\ call' = [call EXCEPT ![c].stage = "over"]
    /\ dialogs' = IF managed THEN dialogs \ {<<current, c>>} ELSE dialogs
    /\ sinks' = sinks \ {<<call[c].via, c>>}
    /\ UNCHANGED <<adapter, conn>>

----
(* disconnect() *)

\* The supervisor is cancelled where it waits; transport.aclose() suppresses
\* the cancellation if it waits for one of its own tasks.
Disconnect ==
    /\ phase = "up"
    /\ phase' = "stopping"
    /\ lost' = TRUE
    /\ \/ pc' = "gone"
       \/ pc = "transport" /\ UNCHANGED pc
    /\ UNCHANGED <<current, managed, old, conn, calls>>

SupervisorGone ==
    /\ phase = "stopping" /\ pc = "gone"
    /\ phase' = "draining"
    /\ UNCHANGED <<pc, lost, current, managed, old, conn, calls>>

\* Every call has been sent a BYE or cancelled, and its task has ended.
Drained ==
    /\ phase = "draining"
    /\ \A c \in Call : call[c].stage \notin {"setup", "live"}
    /\ phase' = "deregistering"
    /\ UNCHANGED <<pc, lost, current, managed, old, conn, calls>>

Deregistered ==
    /\ phase = "deregistering"
    /\ phase' = "closing"
    /\ managed' = FALSE
    /\ UNCHANGED <<pc, lost, current, old, conn, calls>>

TransportClosed ==
    /\ phase = "closing"
    /\ phase' = "closed"
    /\ current' = 0
    /\ conn' = IF current = 0 THEN conn ELSE [conn EXCEPT ![current] = Released]
    /\ UNCHANGED <<pc, lost, managed, old, calls>>

----
Supervises ==
    \/ Opened \/ OpenFails \/ RegisterFails \/ Established
    \/ LossSeen \/ Retry \/ OldManagerClosed \/ OldTransportClosed

Disconnects ==
    \/ SupervisorGone \/ Drained \/ Deregistered \/ TransportClosed
    \/ phase = "draining" /\ \E c \in Call : CallEnds(c)

Next ==
    \/ Supervises \/ Disconnects \/ Disconnect
    \/ \E n \in Connection : Drop(n) \/ ReaderEnds(n) \/ KeepaliveFails(n)
    \/ \E c \in Call : CallArrives(c) \/ CallRegisters(c) \/ CallEnds(c)

\* The event loop runs the supervisor and disconnect() on; the gateway accepts
\* a connection sooner or later if attempts go on.
Spec ==
    Init /\ [][Next]_vars /\ WF_vars(Supervises) /\ SF_vars(Opened)
         /\ WF_vars(Disconnects)

----
(* Properties *)

TypeOK ==
    /\ phase \in {"connecting", "failed", "up", "stopping", "draining",
                  "deregistering", "closing", "closed"}
    /\ pc \in {"opening", "registering", "waiting", "manager", "transport",
               "sleeping", "gone"}
    /\ lost \in BOOLEAN /\ managed \in BOOLEAN
    /\ current \in 0 .. MaxConnections /\ old \in 0 .. MaxConnections
    /\ conn \in [Connection -> [link : {"none", "up", "dead", "closed"},
                                reader : BOOLEAN, keepalive : BOOLEAN]]
    /\ call \in [Call -> [stage : {"none", "setup", "live", "over"},
                          via : 0 .. MaxConnections]]
    /\ dialogs \subseteq Connection \X Call /\ sinks \subseteq Connection \X Call

\* Whenever there is a manager it routes the in-dialog requests of every live
\* call, also of a call that was being set up while the connection was replaced.
DialogsRouted == managed => {current} \X Live \subseteq dialogs

\* While the adapter is up no connection is read but the current one and the
\* one the supervisor is closing, whatever attempts have failed.
OneConnection ==
    phase = "up" => \A n \in Connection : conn[n].reader => n \in {current, old}

\* A loss that is reported is repaired: a later connection is established, or
\* the adapter is disconnected.
LossRepaired ==
    \A n \in 1 .. MaxConnections - 1 :
        phase = "up" /\ lost /\ current = n
            ~> phase # "up" \/ (pc = "waiting" /\ current > n)

\* disconnect() finishes, although the supervisor may swallow its cancellation
\* and go on to make another connection.
DisconnectReturns == phase = "stopping" ~> phase = "closed"

\* Whatever attempts have failed, one connection is read, and its manager routes every
\* live call (_establish, _reconnect_with_backoff).
ConnectionsKept == TypeOK /\ DialogsRouted /\ OneConnection

\* A loss is repaired and disconnect() finishes (_supervise, disconnect).
Settles == LossRepaired /\ DisconnectReturns
====
