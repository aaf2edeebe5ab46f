---- MODULE Registration ----
(***************************************************************************)
(* The registrations of hermes_voip.manager.RegistrationManager, each with *)
(* its hermes_voip.registration.RegistrationFlow, over one connection to   *)
(* the registrar.                                                          *)
(*                                                                         *)
(* A flow has three timer tasks (refresh, response timeout, recovery); the *)
(* transport's reader hands it the responses and itself sends the follow-up*)
(* of a challenge or a 423.  A REGISTER is built, which takes its CSeq,    *)
(* before its sender waits for the transport's send lock: sendq holds the  *)
(* senders that wait, in order.  Timers measure no time here: an armed one *)
(* may fire at any moment.                                                 *)
(***************************************************************************)
EXTENDS Naturals, Sequences, FiniteSets

CONSTANTS
    Extension,    \* the configured extensions, a flow each
    NoExtension,  \* the reader sends nothing
    MaxRegisters  \* bound: the REGISTERs of one flow

ASSUME ExtensionAssumption ==
    NoExtension \notin Extension /\ MaxRegisters \in Nat

VARIABLES
    phase,    \* the manager's life: start(), up, the three stages of aclose()
    todo,     \* flows start() or aclose() has still to come to
    flow,     \* RegistrationFlow: _cseq, _txn, _registered, _interval_retried
    status,   \* _FlowState: registered, established, deregistering
    refresh,  \* refresh_task: none, armed, or sending
    recovery, \* recovery_task, whose handle is dropped before it sends
    timeout,  \* response_timeout_task is armed
    loose,    \* armed tasks whose handles aclose() has dropped uncancelled
    sendq,    \* built REGISTERs that wait for the transport's send lock
    reader,   \* the flow whose follow-up the reader is sending
    requests, \* REGISTERs written that the registrar has not processed
    answers,  \* responses on their way back
    binding,  \* the registrar's binding of the flow
    tries,    \* ghost: REGISTERs built since start() or deregister()
    unbound   \* ghost: flows whose Expires: 0 has been written

timers == <<refresh, recovery, timeout, loose>>
network == <<requests, answers, binding>>
vars == <<phase, todo, flow, status, timers, sendq, reader, network, tries, unbound>>

----
(* Values *)

Answer == {"ok", "removed", "challenge", "brief", "refused"}
\* A "recovery" is any task that sends without a handle to cancel it by.
Sender == {"start", "refresh", "recovery", "reader", "close"}

\* No request has CSeq 0, so no response correlates with NoTxn.
NoTxn == [cseq |-> 0, binds |-> FALSE, challenged |-> FALSE]

Init ==
    /\ phase = "starting"
    /\ todo = Extension
    /\ flow = [e \in Extension |-> [cseq |-> 0, txn |-> NoTxn, bound |-> FALSE,
                                    retried |-> FALSE]]
    /\ status = [e \in Extension |-> [registered |-> FALSE, established |-> FALSE,
                                      deregistering |-> FALSE]]
    /\ refresh = [e \in Extension |-> "none"]
    /\ recovery = [e \in Extension |-> "none"]
    /\ timeout = [e \in Extension |-> FALSE]
    /\ loose = {}
    /\ sendq = <<>>
    /\ reader = NoExtension
    /\ requests = [e \in Extension |-> <<>>]
    /\ answers = [e \in Extension |-> <<>>]
    /\ binding = [e \in Extension |-> FALSE]
    /\ tries = [e \in Extension |-> 0]
    /\ unbound = {}

----
(* Building and writing a REGISTER *)

\* The bound: a de-registration is always possible.
HasRoom(e) == flow[e].cseq < MaxRegisters

\* The request joins the senders that wait for the lock.
Queues(e, who, binds) ==
    sendq' = Append(sendq, [who |-> who, ext |-> e, cseq |-> flow[e].cseq + 1,
                            binds |-> binds])

\* start() and deregister(): a new transaction, which supersedes the last.
Begins(e, who, binds) ==
    /\ flow' = [flow EXCEPT ![e].cseq = @ + 1, ![e].retried = FALSE,
                            ![e].txn = [cseq |-> flow[e].cseq + 1, binds |-> binds,
                                        challenged |-> FALSE]]
    /\ tries' = [tries EXCEPT ![e] = 1]
    /\ Queues(e, who, binds)

Waits(e, who) == \E i \in DOMAIN sendq : sendq[i].ext = e /\ sendq[i].who = who

\* Those at the places of stay go on waiting for the lock, in their order.
Remain(stay) ==
    LET places == 1 .. Cardinality(stay)
    IN \E at \in [places -> stay] :
        /\ \A m, n \in places : m < n => at[m] < at[n]
        /\ sendq' = [n \in places |-> sendq[at[n]]]

Leaves(e, who) == Remain({i \in DOMAIN sendq : ~(sendq[i].ext = e /\ sendq[i].who = who)})

\* Faulty: only a refresh gets a response deadline.
ArmsRefreshOnly(s) == s.who = "refresh"

\* _send_register arms the deadline; start() and aclose() send without one.
ArmsTimeout(s) == s.who \in {"refresh", "recovery", "reader"}

Written ==
    LET s == Head(sendq) IN
    /\ sendq # <<>> /\ phase # "closed"
    /\ sendq' = Tail(sendq)
    /\ requests' = [requests EXCEPT ![s.ext] =
                      Append(@, [cseq |-> s.cseq, binds |-> s.binds])]
    /\ timeout' = [timeout EXCEPT ![s.ext] = @ \/ ArmsTimeout(s)]
    /\ refresh' = [refresh EXCEPT ![s.ext] = IF s.who = "refresh" THEN "none" ELSE @]
    /\ reader' = IF s.who = "reader" THEN NoExtension ELSE reader
    /\ todo' = IF s.who \in {"start", "close"} THEN todo \ {s.ext} ELSE todo
    /\ unbound' = IF s.who = "close" THEN unbound \cup {s.ext} ELSE unbound
    /\ UNCHANGED <<phase, flow, status, recovery, loose, answers, binding, tries>>

----
(* Failure and recovery *)

\* Only an established flow recovers, and not from its own de-registration.
Recovers(e) == status[e].established /\ ~status[e].deregistering

\* _on_registration_failed: down, and a recovery is armed in place of the last.
Fails(e) ==
    /\ status' = [status EXCEPT ![e].registered = FALSE]
    /\ recovery' = [recovery EXCEPT ![e] = IF Recovers(e) THEN "armed" ELSE @]

\* The write raises in a refresh or a recovery task, whose callback fails the
\* flow; raised under aclose() it is logged and the next flow's turn comes.
SendFails ==
    LET s == Head(sendq) IN
    /\ sendq # <<>> /\ phase # "closed"
    /\ s.who \in {"refresh", "recovery", "close"}
    /\ sendq' = Tail(sendq)
    /\ IF s.who = "close"
         THEN /\ todo' = todo \ {s.ext}
              /\ UNCHANGED <<status, recovery, refresh>>
         ELSE /\ Fails(s.ext)
              /\ refresh' = [refresh EXCEPT ![s.ext] =
                               IF s.who = "refresh" THEN "none" ELSE @]
              /\ UNCHANGED todo
    /\ UNCHANGED <<phase, flow, timeout, loose, reader, network, tries, unbound>>

\* A timer task wakes, and clears its handle: its own if it is held, and that
\* of the task armed since, now loose itself, if it is not.
Wakes(e, kind, held) ==
    /\ phase # "closed"
    /\ \/ held /\ UNCHANGED loose
       \/ /\ <<e, kind>> \in loose
          /\ loose' = IF held THEN loose ELSE loose \ {<<e, kind>>}

\* Timer F/B: the transaction stays open, and may still be answered.
TimeoutFires(e) ==
    /\ Wakes(e, "timeout", timeout[e])
    /\ timeout' = [timeout EXCEPT ![e] = FALSE]
    /\ Fails(e)
    /\ UNCHANGED <<phase, todo, flow, refresh, sendq, reader, network, tries, unbound>>

RefreshFires(e) ==
    /\ refresh[e] = "armed" /\ phase # "closed" /\ HasRoom(e)
    /\ refresh' = [refresh EXCEPT ![e] = "sending"]
    /\ Begins(e, "refresh", TRUE)
    /\ UNCHANGED <<phase, todo, status, recovery, timeout, loose, reader, network, unbound>>

LooseRefreshFires(e) ==
    /\ <<e, "refresh">> \in loose /\ phase # "closed" /\ HasRoom(e)
    /\ loose' = loose \ {<<e, "refresh">>}
    /\ Begins(e, "recovery", TRUE)
    /\ UNCHANGED <<phase, todo, status, refresh, recovery, timeout, reader, network, unbound>>

RecoveryFires(e) ==
    /\ Wakes(e, "recovery", recovery[e] = "armed") /\ HasRoom(e)
    /\ recovery' = [recovery EXCEPT ![e] = "none"]
    /\ Begins(e, "recovery", TRUE)
    /\ UNCHANGED <<phase, todo, status, refresh, timeout, reader, network, unbound>>

----
(* on_response: the reader delivers the registrar's answer *)

\* Faulty: any response is taken for the outstanding request's.
AnyCSeq(e) == flow[e].txn # NoTxn

\* _check_cseq: the response to the latest request of an open transaction.
Correlates(e) == Head(answers[e]).cseq = flow[e].txn.cseq

Delivers(e, kinds) ==
    /\ phase # "closed" /\ reader = NoExtension /\ answers[e] # <<>>
    /\ Correlates(e) /\ Head(answers[e]).kind \in kinds
    /\ answers' = [answers EXCEPT ![e] = Tail(@)]
    /\ timeout' = [timeout EXCEPT ![e] = FALSE]

\* A duplicate, late or superseded response: ignored, the deadline kept.
Uncorrelated(e) ==
    /\ phase # "closed" /\ reader = NoExtension /\ answers[e] # <<>>
    /\ ~Correlates(e)
    /\ answers' = [answers EXCEPT ![e] = Tail(@)]
    /\ UNCHANGED <<phase, todo, flow, status, timers, sendq, reader, requests, binding,
                   tries, unbound>>

\* Registered, also by the 2xx to an Expires: 0: a refresh is armed in place of
\* the last, which is cancelled, even while it waits to send.
Registered(e) ==
    /\ Delivers(e, {"ok"})
    /\ flow' = [flow EXCEPT ![e].txn = NoTxn, ![e].bound = flow[e].txn.binds]
    /\ status' = [status EXCEPT ![e].registered = TRUE, ![e].established = TRUE]
    /\ refresh' = [refresh EXCEPT ![e] = "armed"]
    /\ Leaves(e, "refresh")
    /\ UNCHANGED <<phase, todo, recovery, loose, reader, requests, binding, tries, unbound>>

\* A 2xx that grants nothing: the registrar has removed the binding.
BindingRemoved(e) ==
    /\ Delivers(e, {"removed"})
    /\ flow' = [flow EXCEPT ![e].txn = NoTxn, ![e].bound = FALSE]
    /\ Fails(e)
    /\ UNCHANGED <<phase, todo, refresh, loose, sendq, reader, requests, binding, tries,
                   unbound>>

\* The reader sends the follow-up itself and reads nothing until it is written.
Challenged(e) ==
    /\ Delivers(e, {"challenge"})
    /\ ~flow[e].txn.challenged
    /\ flow' = [flow EXCEPT ![e].cseq = @ + 1, ![e].txn.cseq = flow[e].cseq + 1,
                            ![e].txn.challenged = TRUE]
    /\ Queues(e, "reader", flow[e].txn.binds)
    /\ reader' = e
    /\ tries' = [tries EXCEPT ![e] = @ + 1]
    /\ UNCHANGED <<phase, todo, status, refresh, recovery, loose, requests, binding, unbound>>

\* _retry_interval: one 423 per attempt, and never for a de-registration.
Complies(e) == ~flow[e].retried /\ flow[e].txn.binds

RetryInterval(e) ==
    /\ Delivers(e, {"brief"})
    /\ Complies(e)
    /\ flow' = [flow EXCEPT ![e].cseq = @ + 1, ![e].retried = TRUE,
                            ![e].txn = [cseq |-> flow[e].cseq + 1, binds |-> TRUE,
                                        challenged |-> FALSE]]
    /\ Queues(e, "reader", TRUE)
    /\ reader' = e
    /\ tries' = [tries EXCEPT ![e] = @ + 1]
    /\ UNCHANGED <<phase, todo, status, refresh, recovery, loose, requests, binding, unbound>>

\* Failed, a second challenge and a second 423 included.
Rejected(e) ==
    /\ Delivers(e, {"refused", "challenge", "brief"})
    /\ Head(answers[e]).kind = "challenge" => flow[e].txn.challenged
    /\ Head(answers[e]).kind = "brief" => ~Complies(e)
    /\ flow' = [flow EXCEPT ![e].txn = NoTxn]
    /\ Fails(e)
    /\ UNCHANGED <<phase, todo, refresh, loose, sendq, reader, requests, binding, tries,
                   unbound>>

----
(* start() and aclose() *)

StartFlow(e) ==
    /\ phase = "starting" /\ e \in todo
    /\ \A other \in Extension : ~Waits(other, "start")
    /\ Begins(e, "start", TRUE)
    /\ UNCHANGED <<phase, todo, status, timers, reader, network, unbound>>

Started ==
    /\ phase = "starting" /\ todo = {}
    /\ phase' = "up"
    /\ UNCHANGED <<todo, flow, status, timers, sendq, reader, network, tries, unbound>>

\* aclose marks the registered flows, cancels the tasks it has handles of, a
\* refresh that waits to send included, and waits for them.  A recovery that
\* waits to send has no handle.
Close ==
    /\ phase = "up"
    /\ phase' = "draining"
    /\ status' = [e \in Extension |->
                    [status[e] EXCEPT !.deregistering = @ \/ status[e].registered]]
    /\ refresh' = [e \in Extension |-> "none"]
    /\ recovery' = [e \in Extension |-> "none"]
    /\ timeout' = [e \in Extension |-> FALSE]
    /\ Remain({i \in DOMAIN sendq : sendq[i].who # "refresh"})
    /\ UNCHANGED <<todo, flow, loose, reader, network, tries, unbound>>

\* The cancelled tasks are gone.  What a response armed meanwhile goes on, but
\* its handle is dropped with the others.
Drained ==
    /\ phase = "draining"
    /\ phase' = "deregistering"
    /\ todo' = Extension
    /\ loose' = {p \in Extension \X {"refresh", "recovery", "timeout"} :
                   \/ p[2] = "refresh" /\ refresh[p[1]] = "armed"
                   \/ p[2] = "recovery" /\ recovery[p[1]] = "armed"
                   \/ p[2] = "timeout" /\ timeout[p[1]]}
    /\ sendq' = [i \in DOMAIN sendq |-> IF sendq[i].who = "refresh"
                                         THEN [sendq[i] EXCEPT !.who = "recovery"]
                                         ELSE sendq[i]]
    /\ refresh' = [e \in Extension |-> "none"]
    /\ recovery' = [e \in Extension |-> "none"]
    /\ timeout' = [e \in Extension |-> FALSE]
    /\ UNCHANGED <<flow, status, reader, network, tries, unbound>>

\* One flow at a time; deregister() raises when the flow is not registered.
Deregister(e) ==
    /\ phase = "deregistering" /\ e \in todo
    /\ \A other \in Extension : ~Waits(other, "close")
    /\ status[e].registered /\ flow[e].bound
    /\ Begins(e, "close", FALSE)
    /\ UNCHANGED <<phase, todo, status, timers, reader, network, unbound>>

SkipDeregister(e) ==
    /\ phase = "deregistering" /\ e \in todo
    /\ \A other \in Extension : ~Waits(other, "close")
    /\ ~(status[e].registered /\ flow[e].bound)
    /\ todo' = todo \ {e}
    /\ UNCHANGED <<phase, flow, status, timers, sendq, reader, network, tries, unbound>>

\* Faulty: the send is awaited without a bound.
NoSendBound(e) == FALSE /\ UNCHANGED vars

\* The send is given up after its two seconds.
DeregisterTimesOut(e) ==
    /\ Waits(e, "close")
    /\ Leaves(e, "close")
    /\ todo' = todo \ {e}
    /\ UNCHANGED <<phase, flow, status, timers, reader, network, tries, unbound>>

\* aclose returns and its caller closes the transport.
Closed ==
    /\ phase = "deregistering" /\ todo = {}
    /\ phase' = "closed"
    /\ UNCHANGED <<todo, flow, status, timers, sendq, reader, network, tries, unbound>>

----
(* The registrar: requests in order; it may not answer *)

Answers(e, r) ==
    {a \in Answer : /\ a = "removed" => r.binds
                    /\ a \in {"challenge", "brief"} => r.cseq < MaxRegisters}

Registrar(e, kind, silent) ==
    LET r == Head(requests[e]) IN
    /\ requests[e] # <<>>
    /\ kind \in Answers(e, r)
    /\ requests' = [requests EXCEPT ![e] = Tail(@)]
    /\ answers' = IF silent THEN answers
                  ELSE [answers EXCEPT ![e] = Append(@, [cseq |-> r.cseq, kind |-> kind])]
    /\ binding' = [binding EXCEPT ![e] = CASE kind = "ok" -> r.binds
                                           [] kind = "removed" -> FALSE
                                           [] OTHER -> @]
    /\ UNCHANGED <<phase, todo, flow, status, timers, sendq, reader, tries, unbound>>

----
Responds(e) ==
    \/ Uncorrelated(e) \/ Registered(e) \/ BindingRemoved(e) \/ Challenged(e)
    \/ RetryInterval(e) \/ Rejected(e)

Closes ==
    \/ Drained \/ Closed
    \/ \E e \in Extension : Deregister(e) \/ SkipDeregister(e) \/ DeregisterTimesOut(e)

Next ==
    \/ \E e \in Extension :
         \/ StartFlow(e) \/ TimeoutFires(e) \/ RefreshFires(e) \/ LooseRefreshFires(e)
         \/ RecoveryFires(e)
         \/ Responds(e)
         \/ \E kind \in Answer, silent \in BOOLEAN : Registrar(e, kind, silent)
    \/ Written \/ SendFails
    \/ Started \/ Close \/ Closes

\* aclose() is run on by the event loop and its sends are bounded; nothing is
\* assumed of the transport or the registrar.
Spec == Init /\ [][Next]_vars /\ WF_vars(Closes)

----
(* Properties *)

FlowState ==
    [cseq : Nat, txn : [cseq : Nat, binds : BOOLEAN, challenged : BOOLEAN],
     bound : BOOLEAN, retried : BOOLEAN]

TypeOK ==
    /\ phase \in {"starting", "up", "draining", "deregistering", "closed"}
    /\ todo \subseteq Extension /\ unbound \subseteq Extension
    /\ flow \in [Extension -> FlowState]
    /\ status \in [Extension -> [registered : BOOLEAN, established : BOOLEAN,
                                deregistering : BOOLEAN]]
    /\ refresh \in [Extension -> {"none", "armed", "sending"}]
    /\ recovery \in [Extension -> {"none", "armed"}]
    /\ timeout \in [Extension -> BOOLEAN]
    /\ loose \subseteq Extension \X {"refresh", "recovery", "timeout"}
    /\ sendq \in Seq([who : Sender, ext : Extension, cseq : Nat, binds : BOOLEAN])
    /\ reader \in Extension \cup {NoExtension}
    /\ requests \in [Extension -> Seq([cseq : Nat, binds : BOOLEAN])]
    /\ answers \in [Extension -> Seq([cseq : Nat, kind : Answer])]
    /\ binding \in [Extension -> BOOLEAN]
    /\ tries \in [Extension -> Nat]

\* An extension that has once registered is never left alone: while the manager
\* is up, a refresh, a recovery or a response deadline is armed for it, or a
\* REGISTER of it is being sent.
KeptAlive ==
    \A e \in Extension :
        phase \in {"starting", "up"} /\ status[e].established =>
            \/ refresh[e] # "none" \/ recovery[e] # "none" \/ timeout[e] \/ reader = e
            \/ Waits(e, "recovery")

\* registered is true to the registrar: with no REGISTER outstanding the
\* registrar holds the binding of every flow that is taken for registered.
TrueToRegistrar ==
    \A e \in Extension :
        /\ phase = "up" /\ status[e].registered
        /\ ~timeout[e] /\ requests[e] = <<>> /\ answers[e] = <<>>
        /\ \A i \in DOMAIN sendq : sendq[i].ext # e
        => binding[e]

\* No registrar makes an attempt loop: a start() or deregister() is followed by
\* at most one 423 retry and a challenge on either side of it.
AttemptsBounded == \A e \in Extension : tries[e] <= 4

\* A flow that aclose() de-registers is not recovered, whatever it is answered.
NoRecoveryOfDeregistered ==
    \A e \in Extension : status[e].deregistering =>
        recovery[e] = "none" /\ <<e, "recovery">> \notin loose

\* aclose() returns although the transport never writes another byte.
CloseReturns == phase = "draining" ~> phase = "closed"

\* Every flow is tended: one that has registered has its next step armed, one that aclose()
\* de-registers none, and no registrar makes an attempt loop (RegistrationManager).
FlowsTended == TypeOK /\ KeptAlive /\ NoRecoveryOfDeregistered /\ AttemptsBounded
====
