---- MODULE InboundCalls ----
(***************************************************************************)
(* The inbound calls of hermes_voip.adapter.VoipAdapter over the INVITE    *)
(* server transactions of hermes_voip.transport.connection, from the INVITE*)
(* to the end of its task: admission, media, the answer against a CANCEL,  *)
(* the handshake behind the answer, the call loop and the teardown.        *)
(*                                                                         *)
(* Each INVITE has a task of its own.  Several may carry one Call-ID (a    *)
(* fork), and most of the adapter's tables are keyed by it.  The responses *)
(* to INVITE and CANCEL queue for the transport's send lock, a write and   *)
(* its drain are one step, and a BYE is written when it is sent.  The      *)
(* transport's reader handles one message at a time, so it is idle while   *)
(* none of its own sends is in the queue.                                  *)
(***************************************************************************)
EXTENDS Naturals, Sequences, FiniteSets

CONSTANTS
    Invite,    \* the INVITEs that may arrive
    NoInvite,  \* a table has no entry
    CallId,
    MaxCalls,  \* gateway_cfg.max_calls
    Kind       \* the media that INVITEs may offer: plain, dtls, webrtc

ASSUME InboundAssumption ==
    /\ NoInvite \notin Invite /\ MaxCalls \in Nat
    /\ Kind \subseteq {"plain", "dtls", "webrtc"}

VARIABLES
    call,      \* where the task of an INVITE is, and what it has read
    txn,       \* _pending_invites: none, pending or cancelled
    sendq,     \* sends that wait for _send_lock, in order
    media,     \* INVITEs whose engine or handshake session is open
    route,     \* INVITEs whose dialog the manager routes
    over,      \* INVITEs whose dialog has had a BYE: peer_ended, ended
    sink,      \* transport._calls
    session,   \* _call_sessions
    admitted,  \* _admitted_calls
    ended,     \* Call-IDs whose _call_info says ended
    tool,      \* a hang-up of the Call-ID's session, past its first check
    wire       \* ghost: finals and BYEs written

tables == <<route, sink, session, admitted, ended>>
vars == <<call, txn, sendq, media, over, tables, tool, wire>>

----
(* Values *)

\* The tasks still to run, by what _on_cancel's cancellation does to them.
Early == {"new", "rejecting"}
SetUp == {"opening", "refusing", "undoing", "answering", "handshake"}
Teardown == {"ending", "signalling", "closing", "stopping"}
\* A set-up was "cut" by a cancellation or an exception, a teardown was "torn".
Finished == {"done", "cut", "torn"}
Place == {"none", "live", "unwinding", "aborting"}
            \cup Early \cup SetUp \cup Teardown \cup Finished

ReaderSend == {"ok", "okAgain", "terminated"}

Id(i) == call[i].id
At(i, pc) == call[i].pc = pc
Goes(i, pc) == call' = [call EXCEPT ![i].pc = pc]
Secured(i) == call[i].kind # "plain"

Init ==
    /\ call \in [Invite -> [id: CallId, kind: Kind, pc: {"none"},
                            failed: {FALSE}, told: {FALSE}]]
    /\ txn = [i \in Invite |-> "none"]
    /\ sendq = <<>>
    /\ media = {} /\ route = {} /\ over = {} /\ admitted = {} /\ ended = {}
    /\ sink = [c \in CallId |-> NoInvite]
    /\ session = [c \in CallId |-> NoInvite]
    /\ tool = [c \in CallId |-> NoInvite]
    /\ wire = [i \in Invite |-> [answers |-> 0, rejects |-> 0, terminated |-> 0, byes |-> 0]]

----
(* The send lock, and the sinks *)

Send(what, i) == [what |-> what, invite |-> i]
Queue(what, i) == sendq' = Append(sendq, Send(what, i))
NextToWrite(what, i) == sendq # <<>> /\ Head(sendq) = Send(what, i)

ReaderIdle == \A n \in DOMAIN sendq : sendq[n].what \notin ReaderSend

\* remove_call(call_id): the sink, and every transaction of the Call-ID.
Forgets(c) ==
    /\ sink' = [sink EXCEPT ![c] = NoInvite]
    /\ txn' = [j \in Invite |-> IF Id(j) = c THEN "none" ELSE txn[j]]

----
(* Arrival and admission *)

\* _dispatch_request: the transaction is tracked, the task created.
InviteArrives(i) ==
    /\ At(i, "none") /\ ReaderIdle
    /\ txn' = [txn EXCEPT ![i] = "pending"]
    /\ Goes(i, "new")
    /\ UNCHANGED <<sendq, media, over, tables, tool, wire>>

HasSlot(i) == Id(i) \in admitted \/ Cardinality(admitted) < MaxCalls

\* 503, 420, 486, 603 and the 488 of an offer nothing can be done with.
Rejects(i) ==
    /\ At(i, "new")
    /\ Queue("reject", i)
    /\ Goes(i, "rejecting")
    /\ UNCHANGED <<txn, media, over, tables, tool, wire>>

\* Between the task's start and _admit_inbound there is no await.
Admits(i) ==
    /\ At(i, "new") /\ HasSlot(i)
    /\ admitted' = admitted \cup {Id(i)}
    /\ media' = media \cup {i}
    /\ Goes(i, "opening")
    /\ UNCHANGED <<txn, sendq, over, route, sink, session, ended, tool, wire>>

----
(* Media, and the answer *)

Opened(i) ==
    /\ At(i, "opening")
    /\ Queue("answer", i)
    /\ Goes(i, "answering")
    /\ UNCHANGED <<txn, media, over, tables, tool, wire>>

\* engine.connect() of a plain call raises: the INVITE gets no final response.
OpenFails(i) ==
    /\ At(i, "opening") /\ ~Secured(i)
    /\ media' = media \ {i}
    /\ admitted' = admitted \ {Id(i)}
    /\ Goes(i, "done")
    /\ UNCHANGED <<txn, sendq, over, route, sink, session, ended, tool, wire>>

\* 488 after the media has been opened; the SIP DTLS set-up closes it first.
Refuses(i) ==
    /\ At(i, "opening")
    /\ media' = IF call[i].kind = "dtls" THEN media \ {i} ELSE media
    /\ Queue("reject", i)
    /\ Goes(i, "refusing")
    /\ UNCHANGED <<txn, over, tables, tool, wire>>

\* A final response other than a 2xx is written even to a CANCELled INVITE.
RejectWritten(i) ==
    /\ NextToWrite("reject", i)
    /\ sendq' = Tail(sendq)
    /\ wire' = [wire EXCEPT ![i].rejects = @ + 1]
    /\ txn' = [txn EXCEPT ![i] = IF @ = "cancelled" THEN @ ELSE "none"]
    /\ IF i \in media THEN Goes(i, "undoing") /\ UNCHANGED admitted
       ELSE /\ Goes(i, "done")
            /\ admitted' = IF At(i, "refusing") THEN admitted \ {Id(i)} ELSE admitted
    /\ UNCHANGED <<media, over, route, sink, session, ended, tool>>

\* Mutant: the slot of a refused call is kept.
UndoneKeepsSlot(i) ==
    /\ At(i, "undoing")
    /\ media' = media \ {i}
    /\ Goes(i, "done")
    /\ UNCHANGED <<txn, sendq, over, tables, tool, wire>>

\* The media of a refused call is closed, then its slot released.
Undone(i) ==
    /\ At(i, "undoing")
    /\ media' = media \ {i}
    /\ admitted' = admitted \ {Id(i)}
    /\ Goes(i, "done")
    /\ UNCHANGED <<txn, sendq, over, route, sink, session, ended, tool, wire>>

\* CallSession is built and registered; the max-duration and session timers start.
Registers(i) ==
    /\ route' = route \cup {i}
    /\ sink' = [sink EXCEPT ![Id(i)] = i]
    /\ session' = [session EXCEPT ![Id(i)] = i]
    /\ ended' = ended \ {Id(i)}
    /\ Goes(i, "live")

\* _send_answer_200 has returned.  The dialog of a secured call is routed to an
\* _AnsweredDialogGuard until its handshake is done.
Answered(i) ==
    \/ ~Secured(i) /\ Registers(i)
    \/ /\ Secured(i)
       /\ route' = route \cup {i}
       /\ sink' = [sink EXCEPT ![Id(i)] = i]
       /\ Goes(i, "handshake")
       /\ UNCHANGED <<session, ended>>

\* Mutant: the answer is not held back.
SuppressedNever(i) == FALSE

\* The suppression is decided under the lock that the write holds.
Suppressed(i) == txn[i] = "cancelled"

AnswerWritten(i) ==
    /\ NextToWrite("answer", i) /\ ~Suppressed(i)
    /\ wire' = [wire EXCEPT ![i].answers = @ + 1]
    /\ txn' = [txn EXCEPT ![i] = "none"]
    /\ sendq' = Tail(sendq)
    /\ Answered(i)
    /\ UNCHANGED <<media, over, admitted, tool>>

AnswerSuppressed(i) ==
    /\ NextToWrite("answer", i) /\ Suppressed(i)
    /\ sendq' = Tail(sendq)
    /\ Answered(i)
    /\ UNCHANGED <<txn, media, over, admitted, tool, wire>>

----
(* The handshake behind the answer *)

HandshakeOk(i) ==
    /\ At(i, "handshake") /\ i \notin over
    /\ Registers(i)
    /\ UNCHANGED <<txn, sendq, media, over, admitted, tool, wire>>

\* _abort_if_peer_ended_during_setup
PeerEndedSetUp(i) ==
    /\ At(i, "handshake") /\ i \in over
    /\ media' = media \ {i}
    /\ route' = route \ {i}
    /\ Forgets(Id(i))
    /\ admitted' = admitted \ {Id(i)}
    /\ Goes(i, "done")
    /\ UNCHANGED <<sendq, over, session, ended, tool, wire>>

\* engine.connect() of a WebRTC call raises behind the handshake, outside any try:
\* the slot is released and no more.
EngineFails(i) ==
    /\ At(i, "handshake") /\ call[i].kind = "webrtc"
    /\ admitted' = admitted \ {Id(i)}
    /\ Goes(i, "cut")
    /\ UNCHANGED <<txn, sendq, media, over, route, sink, session, ended, tool, wire>>

\* _abort_answered_call: the rest is left to a task of its own.
HandshakeFails(i) ==
    /\ At(i, "handshake")
    /\ media' = media \ {i}
    /\ admitted' = admitted \ {Id(i)}
    /\ Goes(i, "aborting")
    /\ UNCHANGED <<txn, sendq, over, route, sink, session, ended, tool, wire>>

\* Mutant: no second look before the BYE.
ByesUnchecked(i) ==
    /\ over' = over \cup {i}
    /\ wire' = [wire EXCEPT ![i].byes = @ + 1]

Byes(i) ==
    /\ over' = over \cup {i}
    /\ wire' = [wire EXCEPT ![i].byes = IF i \in over THEN @ ELSE @ + 1]

\* _finish_answered_abort: an ACK or its deadline, then the BYE unless the
\* peer's has come.
AbortEnds(i) ==
    /\ At(i, "aborting")
    /\ Byes(i)
    /\ route' = route \ {i}
    /\ Forgets(Id(i))
    /\ Goes(i, "done")
    /\ UNCHANGED <<sendq, media, session, admitted, ended, tool>>

----
(* The live call *)

\* The peer's BYE, to the guard or to the session, which stops its media.
PeerBye(i) ==
    /\ ReaderIdle /\ i \in route \ over
    /\ wire[i].answers > 0
    /\ over' = over \cup {i}
    /\ media' = IF call[i].pc \in {"handshake", "aborting"} THEN media ELSE media \ {i}
    /\ UNCHANGED <<call, txn, sendq, tables, tool, wire>>

\* hang_up_call and the watchdogs: the session is looked up, then the agent's
\* last words drain, or a lock is waited for.
HangUpStarts(c) ==
    /\ tool[c] = NoInvite
    /\ session[c] \notin over \cup {NoInvite}
    /\ tool' = [tool EXCEPT ![c] = session[c]]
    /\ UNCHANGED <<call, txn, sendq, media, over, tables, wire>>

\* CallSession.hang_up looks again.
HangUpByes(c) ==
    /\ tool[c] # NoInvite
    /\ Byes(tool[c])
    /\ media' = media \ {tool[c]}
    /\ tool' = [tool EXCEPT ![c] = NoInvite]
    /\ UNCHANGED <<call, txn, sendq, tables>>

\* The loop returns when its media has stopped; it may raise, or time out, at any
\* time.  (A loop that hangs up of its own accord, after a goodbye, is in CallEnd.)
LoopEnds(i) ==
    /\ At(i, "live")
    /\ \E failed \in BOOLEAN :
        /\ failed \/ i \in over
        /\ call' = [call EXCEPT ![i].pc = "unwinding", ![i].failed = failed]
    /\ UNCHANGED <<txn, sendq, media, over, tables, tool, wire>>

----
(* _teardown_call *)

\* What follows the last await before engine.stop().  is_current (owner) was read
\* at the start; the tables of the session and of its sink are looked up again.
Releases(i, owner) ==
    /\ admitted' = IF owner THEN admitted \ {Id(i)} ELSE admitted
    /\ session' = [session EXCEPT ![Id(i)] = IF @ = i THEN NoInvite ELSE @]
    /\ route' = route \ {i}
    /\ IF sink[Id(i)] = i THEN Forgets(Id(i)) ELSE UNCHANGED <<sink, txn>>

TeardownStarts(i) ==
    /\ At(i, "unwinding")
    /\ LET current == session[Id(i)] = i IN
        /\ call' = [call EXCEPT ![i].pc = IF current THEN "ending" ELSE "stopping",
                                ![i].told = Id(i) \in ended]
        /\ IF current THEN UNCHANGED <<route, sink, session, admitted, txn>>
           ELSE Releases(i, FALSE)
    /\ UNCHANGED <<sendq, media, over, ended, tool, wire>>

\* The BYE of a failed call whose dialog is still up, or straight to the release.
Closes(i) ==
    IF call[i].failed /\ i \notin over
    THEN /\ Byes(i)
         /\ media' = media \ {i}
         /\ Goes(i, "closing")
         /\ UNCHANGED <<route, sink, session, admitted, txn>>
    ELSE /\ Releases(i, TRUE)
         /\ Goes(i, "stopping")
         /\ UNCHANGED <<over, media, wire>>

\* The timers are gone, the Call-ID is flagged, the agent's session is told.
TimersCancelled(i) ==
    /\ At(i, "ending")
    /\ ended' = ended \cup {Id(i)}
    /\ IF call[i].told THEN Closes(i)
       ELSE /\ Goes(i, "signalling")
            /\ UNCHANGED <<route, sink, session, admitted, txn, over, media, wire>>
    /\ UNCHANGED <<sendq, tool>>

Signalled(i) ==
    /\ At(i, "signalling")
    /\ Closes(i)
    /\ UNCHANGED <<sendq, ended, tool>>

ByeSent(i) ==
    /\ At(i, "closing")
    /\ Releases(i, TRUE)
    /\ Goes(i, "stopping")
    /\ UNCHANGED <<sendq, media, over, ended, tool, wire>>

Stopped(i) ==
    /\ At(i, "stopping")
    /\ media' = media \ {i}
    /\ Goes(i, "done")
    /\ UNCHANGED <<txn, sendq, over, tables, tool, wire>>

----
(* CANCEL *)

\* Mutant: the mark is read after it is set.
CancelArrivesMarked(i) ==
    /\ ReaderIdle /\ txn[i] # "none"
    /\ txn' = [txn EXCEPT ![i] = "cancelled"]
    /\ Queue("okAgain", i)
    /\ UNCHANGED <<call, media, over, tables, tool, wire>>

\* _handle_cancel: marked before its 200 is sent; a retransmission only gets the 200.
CancelArrives(i) ==
    /\ ReaderIdle /\ txn[i] # "none"
    /\ txn' = [txn EXCEPT ![i] = "cancelled"]
    /\ Queue(IF txn[i] = "cancelled" THEN "okAgain" ELSE "ok", i)
    /\ UNCHANGED <<call, media, over, tables, tool, wire>>

CancelAnswered(i) ==
    /\ \/ NextToWrite("okAgain", i) /\ sendq' = Tail(sendq)
       \/ NextToWrite("ok", i) /\ sendq' = Append(Tail(sendq), Send("terminated", i))
    /\ UNCHANGED <<call, txn, media, over, tables, tool, wire>>

Survives(send, cut) == send.what \in ReaderSend \/ send.invite \notin cut

\* The sends of cancelled tasks leave the queue q, the others keep their order.
Leave(cut, q) ==
    LET stay == {n \in DOMAIN q : Survives(q[n], cut)}
        places == 1 .. Cardinality(stay)
    IN \E at \in [places -> stay] :
        /\ \A m, n \in places : m < n => at[m] < at[n]
        /\ sendq' = [n \in places |-> q[at[n]]]

\* A cancellation while the timers are awaited is swallowed with theirs.
WhenCancelled(pc) ==
    IF pc \in Early \cup SetUp \cup {"aborting"} THEN "cut"
    ELSE IF pc \in Teardown \ {"ending"} THEN "torn"
    ELSE IF pc = "live" THEN "unwinding"
    ELSE pc

\* The 487 is out: _on_cancel cancels every task of the Call-ID.  A set-up frees
\* the slot and no more; an abort deregisters its guard; a call loop raises.
Terminated(i) ==
    /\ NextToWrite("terminated", i)
    /\ wire' = [wire EXCEPT ![i].terminated = @ + 1]
    /\ LET c == Id(i)
           its == {j \in Invite : Id(j) = c}
           cut == {j \in its : WhenCancelled(call[j].pc) \in {"cut", "torn"}}
           Aborts == {j \in its : At(j, "aborting")}
       IN /\ call' = [j \in Invite |-> IF j \notin its THEN call[j] ELSE
                        [call[j] EXCEPT !.pc = WhenCancelled(@),
                                        !.failed = @ \/ call[j].pc \in {"live", "unwinding"}]]
          /\ Leave(cut, Tail(sendq))
          /\ admitted' = IF \E j \in its : call[j].pc \in SetUp THEN admitted \ {c}
                         ELSE admitted
          /\ route' = route \ Aborts
          /\ IF Aborts # {} THEN Forgets(c) ELSE UNCHANGED <<sink, txn>>
    /\ UNCHANGED <<media, over, session, ended, tool>>

----
(* Specification *)

Sends(i) ==
    \/ RejectWritten(i) \/ AnswerWritten(i) \/ AnswerSuppressed(i)
    \/ CancelAnswered(i) \/ Terminated(i)

\* The event loop runs a task on, and media operations return.
TaskSteps(i) ==
    \/ Rejects(i) \/ Admits(i)
    \/ Opened(i) \/ OpenFails(i) \/ Refuses(i) \/ Undone(i)
    \/ HandshakeOk(i) \/ PeerEndedSetUp(i) \/ EngineFails(i) \/ HandshakeFails(i) \/ AbortEnds(i)
    \/ TeardownStarts(i) \/ TimersCancelled(i) \/ Signalled(i) \/ ByeSent(i) \/ Stopped(i)

Next ==
    \/ \E i \in Invite :
        \/ InviteArrives(i) \/ CancelArrives(i) \/ PeerBye(i)
        \/ Sends(i) \/ TaskSteps(i) \/ LoopEnds(i)
    \/ \E c \in CallId : HangUpStarts(c) \/ HangUpByes(c)

Spec == Init /\ [][Next]_vars

\* Of the loop, only that it returns once its media has stopped.
Fairness ==
    /\ \A i \in Invite : WF_vars(Sends(i)) /\ WF_vars(TaskSteps(i))
    /\ \A i \in Invite : WF_vars(i \in over /\ LoopEnds(i))

FairSpec == Spec /\ Fairness

----
(* Properties *)

\* No other INVITE has the Call-ID.
Alone(i) == \A j \in Invite \ {i} : Id(j) # Id(i)

\* The types, and which sends may wait: a task that waits for the lock has one
\* send in the queue, any other none, and the reader has at most one.
TypeOK ==
    /\ call \in [Invite -> [id: CallId, kind: Kind, pc: Place,
                            failed: BOOLEAN, told: BOOLEAN]]
    /\ txn \in [Invite -> {"none", "pending", "cancelled"}]
    /\ media \subseteq Invite /\ route \subseteq Invite /\ over \subseteq Invite
    /\ sink \in [CallId -> Invite \cup {NoInvite}]
    /\ session \in [CallId -> Invite \cup {NoInvite}]
    /\ tool \in [CallId -> Invite \cup {NoInvite}]
    /\ admitted \subseteq CallId /\ ended \subseteq CallId
    /\ \A i \in Invite :
        Cardinality({n \in DOMAIN sendq :
                        sendq[n].invite = i /\ sendq[n].what \notin ReaderSend})
            = IF call[i].pc \in {"rejecting", "refusing", "answering"} THEN 1 ELSE 0
    /\ Cardinality({n \in DOMAIN sendq : sendq[n].what \in ReaderSend}) <= 1

\* An INVITE gets a 200 or a 487, never both, and one of them once, however the
\* answer, the CANCEL and its retransmissions race for the send lock (send(),
\* _suppress_or_track_response, _handle_cancel).
AnswerOrTerminated ==
    \A i \in Invite : Alone(i) => wire[i].answers + wire[i].terminated <= 1

\* The calls in progress never exceed max_calls (_admit_inbound, ADR-0059).  A
\* fork shares its Call-ID's slot, so only INVITEs that are alone are counted.
CapRespected ==
    Cardinality({i \in Invite : Alone(i) /\
        call[i].pc \in SetUp \cup {"live", "unwinding", "ending", "signalling", "closing"}})
            <= MaxCalls

\* When every task of a Call-ID has ended its slot is free, unless a CANCEL came
\* into a teardown; and a task that ran to its end leaves no open media, no
\* route, no sink and no session of its own (_teardown_call, _release_admission).
NothingLeft ==
    /\ \A c \in admitted : \E i \in Invite :
        Id(i) = c /\ call[i].pc \notin Early \cup {"none", "done", "cut"}
    /\ \A i \in Invite : At(i, "done") =>
        /\ i \notin media \cup route
        /\ sink[Id(i)] # i /\ session[Id(i)] # i

\* The tool, the watchdogs, the teardown and the abort send at most one BYE
\* between them, though each decides before an await.
OneBye == \A i \in Invite : wire[i].byes <= 1

\* A call that was answered is not left up on the gateway when its task has ended
\* (_teardown_call's "so the call is never a zombie", _finish_answered_abort), but for
\* WebRTC: a set-up of it that fails after its 200 sends no BYE (README).
NoZombie ==
    \A i \in Invite :
        /\ call[i].kind # "webrtc" /\ Alone(i)
        /\ call[i].pc \in Finished /\ wire[i].answers > 0
        => i \in over

\* The responses of a Call-ID go to its current session, whichever forks have
\* ended (remove_call's identity check).  Plain calls: the abort and the
\* peer-ended set-up of a secured call remove the sink unseen.
CurrentHasSink ==
    \A c \in CallId :
        session[c] # NoInvite /\ (\A i \in Invite : Id(i) = c => ~Secured(i))
            => sink[c] = session[c]

\* A CANCEL that matched ends in a 487 of its INVITE (_handle_cancel).
CancelTerminates ==
    \A i \in Invite : txn[i] = "cancelled" ~> wire[i].terminated = 1

\* Once its dialog has had a BYE the task of a call ends, whatever else happens
\* to its Call-ID: the teardown has no wait that only a live peer would end.
EndedCallsFinish == \A i \in Invite : i \in over ~> call[i].pc \in Finished

\* Slots, routes, sinks and sessions are held by the calls that they are for, up to the
\* cap, and by no other (_admit_inbound, _teardown_call, _release_admission).
Balanced == TypeOK /\ CapRespected /\ NothingLeft /\ CurrentHasSink

\* An answered call is closed, with one BYE of ours at the most (hang_up_call,
\* _teardown_call, _finish_answered_abort).
ClosedOnce == OneBye /\ NoZombie

\* A cancelled INVITE is answered 487, and the task of a call that had its BYE ends.
InboundEnds == CancelTerminates /\ EndedCallsFinish
====
