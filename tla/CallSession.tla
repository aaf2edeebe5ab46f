---- MODULE CallSession ----
(***************************************************************************)
(* One established call's control plane: hermes_voip.call.CallSession.     *)
(*                                                                         *)
(* Two kinds of asyncio task touch the session.  The agent-facing verbs    *)
(* (hold, unhold, refresh_session, send_dtmf_info, transfer, hang_up) run  *)
(* in any number of tasks and are serialised by the session's lock.  The   *)
(* transport's reader is one sequential task: it delivers responses to the *)
(* waiting verb and answers the peer's in-dialog requests, and it takes    *)
(* NO lock.  An action is the code between two suspension points of one    *)
(* task, so every interleaving the event loop can produce is a behaviour.  *)
(*                                                                         *)
(* A request or answer is put on the wire when its send() is called: the   *)
(* transport's send lock is first come, first served.  A verb waits for    *)
(* its final response from then on; the reader, which has more to do once  *)
(* an answer is sent, is suspended in between.                             *)
(***************************************************************************)
EXTENDS Naturals, Sequences, FiniteSets

CONSTANTS
    Task,        \* the tasks that run verbs (agent tools, watchdogs)
    NoTask,      \* no transfer is armed
    Called,      \* bound: the verbs that are called, among Verb
    Secured,     \* TRUE: an SDES-SRTP call, re-keyed by every offer/answer
    MaxRequests, \* bound: the requests the verbs may write
    MaxAnswers   \* bound: the peer re-INVITEs that are answered 200

VARIABLES
    dialog,        \* _dialog: its local_cseq and sdp_version
    offerPending,  \* _local_offer_pending
    onHold,        \* on_hold, and the media gate set_hold drives with it
    ended,         \* ended
    stopped,       \* the media plane's stop() has returned
    lockq,         \* _lock: its holder, then its waiters in arrival order
    xfer,          \* the armed transfer: event owner, REFER CSeq, latch
    task,          \* where each verb task is
    reader,        \* where the transport's reader is in this session
    held,          \* ghost: the last hold or resume both sides settled
    wire           \* ghost: counts and highest numbers written so far

vars == <<dialog, offerPending, onHold, ended, stopped, lockq, xfer, task,
          reader, held, wire>>

----
(* Values *)

OfferVerb == {"hold", "unhold", "refresh"}
Verb == OfferVerb \cup {"info", "transfer", "bye"}

ASSUME ConstantsAssumption ==
    /\ NoTask \notin Task
    /\ Called \subseteq Verb
    /\ Secured \in BOOLEAN
    /\ MaxRequests \in Nat
    /\ MaxAnswers \in Nat

\* Final responses by what the verbs do with them: an unusable 2xx has no SDP
\* answer, a downgrade 2xx lacks the a=crypto, a declined one is Refer-Sub:
\* false, a dead one is 408 or 481.
Reply == {"ok", "unusable", "downgrade", "declined", "challenge", "glare",
          "dead", "refused"}

\* The final responses the peer may give to a verb's request.  Only a refresh
\* tells one failing response from another: for the other verbs all of them
\* are the one refusal.
RepliesTo(v) ==
    {"ok", "challenge", "refused"}
        \cup (IF v = "refresh" THEN {"unusable", "glare", "dead"} ELSE {})
        \cup (IF v = "refresh" /\ Secured THEN {"downgrade"} ELSE {})
        \cup (IF v = "transfer" THEN {"declined"} ELSE {})

\* The peer's re-INVITE: an SDP direction, or no offer.  A black-hole address
\* counts as inactive.
PeerOffer == {"sendrecv", "recvonly", "sendonly", "inactive", "offerless"}
HeldByPeer(o) == o \in {"sendonly", "inactive"}

Final == {"completed", "failed"}
Report == Final \cup {"CALL_ENDED", "TIMEOUT", "WAIT_DISABLED",
                      "SUBSCRIPTION_DECLINED"}
RefreshOutcome == {"succeeded", "retry", "teardown", "continue"}
Result == Report \cup RefreshOutcome \cup {"none", "error", "cut"}

IdleTask == [verb |-> "none", pc |-> "idle", dir |-> "none",
             retried |-> FALSE, reply |-> "none", result |-> "none"]
Disarmed == [owner |-> NoTask, refer |-> 0, latched |-> FALSE,
             outcome |-> "none", cause |-> 0]
IdleReader == [pc |-> "idle", offer |-> "none",
               next |-> [cseq |-> 0, version |-> 0]]

Larger(a, b) == IF a > b THEN a ELSE b

----
Init ==
    /\ dialog = [cseq |-> 0, version |-> 0]
    /\ offerPending = FALSE
    /\ onHold = FALSE
    /\ ended = FALSE
    /\ stopped = FALSE
    /\ lockq = <<>>
    /\ xfer = Disarmed
    /\ task = [t \in Task |-> IdleTask]
    /\ reader = IdleReader
    /\ held = FALSE
    /\ wire = [requests |-> 0, cseq |-> 0, offers |-> 0, answers |-> 0, version |-> 0]

----
(* The lock and the end of a verb *)

\* There is room for another request, and one of every verb in progress.
HasRoom ==
    wire.requests + Cardinality({t \in Task : task[t].pc # "idle"}) < MaxRequests

\* The adapter reads session.ended before it calls any verb.
CallsVerb(t, v) ==
    task[t].pc = "idle" /\ v \in Called /\ ~ended /\ HasRoom

\* A verb runs from its call when the lock is free, or when it is at the head
\* of the lock's queue.
Runs(t, v) ==
    \/ CallsVerb(t, v) /\ lockq = <<>>
    \/ task[t].pc = "lock" /\ task[t].verb = v /\ Head(lockq) = t

LockHeldBy(t) == IF task[t].pc = "idle" THEN <<t>> ELSE lockq
LockReleasedBy(t) == IF task[t].pc = "idle" THEN <<>> ELSE Tail(lockq)

\* The call finds the lock taken: async with self._lock waits its turn.
WaitForLock(t, v) ==
    /\ CallsVerb(t, v) /\ lockq # <<>>
    /\ lockq' = Append(lockq, t)
    /\ task' = [task EXCEPT ![t] = [IdleTask EXCEPT !.verb = v, !.pc = "lock"]]
    /\ UNCHANGED <<dialog, offerPending, onHold, ended, stopped, xfer, reader,
                   held, wire>>

Returns(t, result) == task' = [task EXCEPT ![t] = [IdleTask EXCEPT !.result = result]]

\* build_in_dialog_request advances the CSeq, a new offer the SDP version too.
Advanced(v) ==
    [cseq |-> dialog.cseq + 1,
     version |-> IF v \in OfferVerb THEN dialog.version + 1 ELSE dialog.version]

Sends(t, v, dir, retry) ==
    /\ dialog' = Advanced(v)
    /\ wire' = [requests |-> wire.requests + 1,
                cseq |-> Larger(wire.cseq, Advanced(v).cseq),
                offers |-> wire.offers + (IF v \in OfferVerb THEN 1 ELSE 0),
                answers |-> wire.answers,
                version |-> Larger(wire.version, Advanced(v).version)]
    /\ task' = [task EXCEPT ![t] = [verb |-> v, pc |-> "sent", dir |-> dir,
                                    retried |-> retry, reply |-> "none",
                                    result |-> "none"]]

Waiting(t, replies) ==
    /\ task[t].pc = "sent"
    /\ task[t].reply \in replies

----
(* hold, unhold, refresh_session: a re-INVITE of ours *)

Direction(v) ==
    IF v = "hold" \/ (v = "refresh" /\ onHold) THEN "sendonly" ELSE "sendrecv"

Offer(t, v) ==
    /\ v \in OfferVerb
    /\ Runs(t, v)
    /\ lockq' = LockHeldBy(t)
    /\ offerPending' = TRUE
    /\ Sends(t, v, Direction(v), FALSE)
    /\ UNCHANGED <<onHold, ended, stopped, xfer, reader, held>>

\* 401/407 once: the re-INVITE or INFO is sent again with credentials.
Reauthenticate(t) ==
    /\ Waiting(t, {"challenge"}) /\ ~task[t].retried
    /\ task[t].verb \in OfferVerb \cup {"info"}
    /\ Sends(t, task[t].verb, task[t].dir, TRUE)
    /\ UNCHANGED <<offerPending, onHold, ended, stopped, lockq, xfer, reader,
                   held>>

\* The end of a confirmed re-INVITE: the gate follows a hold or an unhold.
OfferSettles(t) ==
    /\ offerPending' = FALSE
    /\ onHold' = IF task[t].verb = "refresh" THEN onHold ELSE task[t].verb = "hold"
    /\ held' = IF task[t].verb = "refresh" THEN held ELSE task[t].verb = "hold"
    /\ lockq' = Tail(lockq)
    /\ Returns(t, IF task[t].verb = "refresh" THEN "succeeded" ELSE "none")
    /\ UNCHANGED <<dialog, ended, stopped, xfer, reader, wire>>

OfferConfirmed(t) ==
    /\ task[t].verb \in OfferVerb /\ Waiting(t, {"ok"})
    /\ OfferSettles(t)

\* A secured call ACKs, then installs the new keys under the engine's TX lock.
OfferRekeys(t) ==
    /\ task[t].verb \in OfferVerb /\ Waiting(t, {"ok"})
    /\ task' = [task EXCEPT ![t].pc = "rekey"]
    /\ UNCHANGED <<dialog, offerPending, onHold, ended, stopped, lockq, xfer,
                   reader, held, wire>>

OfferAnswered(t) == IF Secured THEN OfferRekeys(t) ELSE OfferConfirmed(t)

OfferKeyed(t) == task[t].pc = "rekey" /\ OfferSettles(t)

----
(* Verbs that fail *)

\* classify_refresh_failure: no status at all reads as a timeout.
RefreshFailure(reply) ==
    CASE reply = "glare" -> "retry"
      [] reply = "refused" -> "continue"
      [] reply = "unusable" -> "error"
      [] OTHER -> "teardown"

Without(place) ==
    [i \in 1 .. Len(lockq) - 1 |-> IF i < place THEN lockq[i] ELSE lockq[i + 1]]

\* Faulty: a cancelled waiter passes the lock on as its holder would.
LockPopped(t) == IF Len(lockq) > 1 THEN Tail(lockq) ELSE SelectSeq(lockq, LAMBDA u : u # t)

\* async with: the holder releases, a cancelled waiter leaves the queue.
LockLeftBy(t) ==
    IF \E i \in DOMAIN lockq : lockq[i] = t
      THEN Without(CHOOSE i \in DOMAIN lockq : lockq[i] = t)
      ELSE lockq

\* An exception leaves the verb: the finally clauses run, the lock is released.
VerbRaises(t, result) ==
    /\ offerPending' = (offerPending /\ (task[t].verb \notin OfferVerb
                                          \/ task[t].pc = "lock"))
    /\ xfer' = IF xfer.owner = t THEN Disarmed ELSE xfer
    /\ lockq' = LockLeftBy(t)
    /\ Returns(t, result)
    /\ UNCHANGED <<dialog, onHold, ended, stopped, reader, held, wire>>

\* A final response that fails the verb, a second challenge included.
VerbRejected(t) ==
    /\ Waiting(t, Reply \ {"ok", "declined"})
    /\ task[t].reply = "challenge" => task[t].retried
    /\ VerbRaises(t, IF task[t].verb = "refresh" THEN RefreshFailure(task[t].reply)
                                                 ELSE "error")

\* Faulty: no deadline bounds the exchange.
NoDeadline(t) == FALSE /\ VerbRaises(t, "error")

\* The response deadline passes; a response just queued may be lost to it.
ResponseTimeout(t) ==
    /\ task[t].pc = "sent"
    /\ VerbRaises(t, IF task[t].verb = "refresh" THEN RefreshFailure("none")
                                                 ELSE "error")

\* The send or the re-key raises, or the task is cancelled, at an await.  A hang_up
\* survives its failed send, but a cancellation cuts it short of stopping the media.
VerbAborted(t) ==
    /\ \/ task[t].pc \in {"sent", "rekey", "await"}
       \/ (task[t].verb = "bye" /\ task[t].pc = "stopping")
       \/ (task[t].pc = "lock" /\ Head(lockq) # t)
    /\ VerbRaises(t, IF task[t].pc = "stopping" THEN "cut" ELSE "error")

----
(* send_dtmf_info: one INFO per digit *)

SendInfo(t) ==
    /\ Runs(t, "info")
    /\ lockq' = LockHeldBy(t)
    /\ Sends(t, "info", "none", FALSE)
    /\ UNCHANGED <<offerPending, onHold, ended, stopped, xfer, reader, held>>

NextInfo(t) ==
    /\ task[t].verb = "info" /\ Waiting(t, {"ok"})
    /\ HasRoom
    /\ Sends(t, "info", "none", FALSE)
    /\ UNCHANGED <<offerPending, onHold, ended, stopped, lockq, xfer, reader,
                   held>>

InfoDone(t) ==
    /\ task[t].verb = "info" /\ Waiting(t, {"ok"})
    /\ lockq' = Tail(lockq)
    /\ Returns(t, "none")
    /\ UNCHANGED <<dialog, offerPending, onHold, ended, stopped, xfer, reader,
                   held, wire>>

----
(* transfer_blind, transfer_attended *)

\* _arm_transfer_outcome refuses an ended call and a second waiting transfer.
RefusesToArm == ended \/ xfer.owner # NoTask

ArmRefused(t) ==
    /\ Runs(t, "transfer")
    /\ RefusesToArm
    /\ lockq' = LockReleasedBy(t)
    /\ Returns(t, "error")
    /\ UNCHANGED <<dialog, offerPending, onHold, ended, stopped, xfer, reader,
                   held, wire>>

Refer(t) ==
    /\ Runs(t, "transfer")
    /\ ~RefusesToArm
    /\ lockq' = LockHeldBy(t)
    /\ Sends(t, "transfer", "none", FALSE)
    /\ xfer' = [Disarmed EXCEPT !.owner = t, !.refer = dialog.cseq + 1]
    /\ UNCHANGED <<offerPending, onHold, ended, stopped, reader, held>>

ReferAgain(t) ==
    /\ task[t].verb = "transfer" /\ Waiting(t, {"challenge"})
    /\ ~task[t].retried
    /\ Sends(t, "transfer", "none", TRUE)
    /\ xfer' = [xfer EXCEPT !.refer = dialog.cseq + 1]
    /\ UNCHANGED <<offerPending, onHold, ended, stopped, lockq, reader, held>>

\* _latched_transfer_outcome, else the reason nothing is known.
LatchedOr(unknown) ==
    IF ~xfer.latched THEN unknown
    ELSE IF xfer.outcome = "none" THEN "CALL_ENDED" ELSE xfer.outcome

Reports(t, report) ==
    /\ xfer' = Disarmed
    /\ Returns(t, report)
    /\ UNCHANGED <<dialog, offerPending, onHold, ended, stopped, reader, held,
                   wire>>

\* The REFER is accepted: the lock is released, then the outcome is awaited
\* unless it is latched already, declined, or the wait is configured away.
ReferAcceptedReports(t) ==
    /\ task[t].verb = "transfer" /\ Waiting(t, {"ok", "declined"})
    /\ lockq' = Tail(lockq)
    /\ Reports(t, LatchedOr(IF task[t].reply = "declined"
                              THEN "SUBSCRIPTION_DECLINED" ELSE "WAIT_DISABLED"))

ReferAcceptedWaits(t) ==
    /\ task[t].verb = "transfer" /\ Waiting(t, {"ok"})
    /\ ~xfer.latched
    /\ lockq' = Tail(lockq)
    /\ task' = [task EXCEPT ![t].pc = "await"]
    /\ UNCHANGED <<dialog, offerPending, onHold, ended, stopped, xfer, reader,
                   held, wire>>

OutcomeWakes(t) ==
    /\ task[t].pc = "await" /\ xfer.latched
    /\ Reports(t, LatchedOr("TIMEOUT"))
    /\ UNCHANGED lockq

OutcomeDeadline(t) ==
    /\ task[t].pc = "await"
    /\ Reports(t, LatchedOr("TIMEOUT"))
    /\ UNCHANGED lockq

----
(* hang_up, and the end of the call *)

\* Faulty: the end of the call overwrites what the peer had reported.
WakeOverwrites ==
    xfer' = IF xfer.owner = NoTask THEN xfer
            ELSE [xfer EXCEPT !.latched = TRUE, !.outcome = "none"]

\* _wake_transfer_on_end: the first waker's cause stays.
WakeTransferOnEnd ==
    xfer' = IF xfer.owner = NoTask \/ xfer.latched THEN xfer
            ELSE [xfer EXCEPT !.latched = TRUE]

HangUp(t) ==
    /\ Runs(t, "bye")
    /\ ~ended
    /\ lockq' = LockHeldBy(t)
    /\ ended' = TRUE
    /\ WakeTransferOnEnd
    /\ dialog' = [dialog EXCEPT !.cseq = @ + 1]
    /\ wire' = [wire EXCEPT !.requests = @ + 1,
                            !.cseq = Larger(@, dialog.cseq + 1)]
    /\ task' = [task EXCEPT ![t].verb = "bye", ![t].pc = "stopping"]
    /\ UNCHANGED <<offerPending, onHold, stopped, reader, held>>

HangUpAfterEnd(t) ==
    /\ task[t].pc = "lock" /\ Runs(t, "bye")
    /\ ended
    /\ lockq' = Tail(lockq)
    /\ Returns(t, "none")
    /\ UNCHANGED <<dialog, offerPending, onHold, ended, stopped, xfer, reader,
                   held, wire>>

HangUpStops(t) ==
    /\ task[t].pc = "stopping"
    /\ stopped' = TRUE
    /\ lockq' = Tail(lockq)
    /\ Returns(t, "none")
    /\ UNCHANGED <<dialog, offerPending, onHold, ended, xfer, reader, held, wire>>

----
(* The transport's reader *)

\* on_response: a final response for the CSeq a verb waits for.  The peer does
\* not challenge a REFER it has reported on, nor report on one it challenged.
Deliver(t, reply) ==
    /\ reader.pc = "idle"
    /\ task[t].pc = "sent" /\ task[t].reply = "none"
    /\ reply \in RepliesTo(task[t].verb)
    /\ task' = [task EXCEPT ![t].reply = reply]
    /\ reply = "challenge" => HasRoom \/ task[t].retried
    /\ reply = "challenge" /\ xfer.owner = t => xfer.cause # xfer.refer
    /\ UNCHANGED <<dialog, offerPending, onHold, ended, stopped, lockq, xfer,
                   reader, held, wire>>

\* The answer is on the wire; its version is the one planned in next.
Answers(offer, next) ==
    /\ dialog' = next
    /\ wire' = [wire EXCEPT !.answers = @ + 1,
                            !.version = Larger(@, next.version)]
    /\ held' = IF offer = "offerless" THEN held ELSE HeldByPeer(offer)
    /\ reader' = [IdleReader EXCEPT !.pc = "answered", !.offer = offer]

\* Faulty: glare is not looked for.
NoGlare == FALSE

\* classify_inbound_reinvite: our own offer is outstanding.
Glare == offerPending

\* _on_reinvite: 491 while our own offer is outstanding (no effect here); else
\* the answer is planned, and a secured one re-keys the engine before it is sent.
PeerReinvite(offer) ==
    LET next == [dialog EXCEPT !.version = @ + 1] IN
    /\ reader.pc = "idle"
    /\ ~Glare
    /\ wire.answers < MaxAnswers
    /\ IF Secured /\ offer # "offerless"
         THEN /\ reader' = [pc |-> "rekey", offer |-> offer, next |-> next]
              /\ UNCHANGED <<dialog, held, wire>>
         ELSE Answers(offer, next)
    /\ UNCHANGED <<offerPending, onHold, ended, stopped, lockq, xfer, task>>

\* _commit_reanswer_crypto returned: the planned dialog is assigned.
ReanswerKeyed ==
    /\ reader.pc = "rekey"
    /\ Answers(reader.offer, reader.next)
    /\ UNCHANGED <<offerPending, onHold, ended, stopped, lockq, xfer, task>>

\* The 200 is sent and the RTP target re-pointed: the gate follows the offer.
ReanswerSent ==
    /\ reader.pc = "answered"
    /\ onHold' = IF reader.offer = "offerless" THEN onHold
                 ELSE HeldByPeer(reader.offer)
    /\ reader' = IdleReader
    /\ UNCHANGED <<dialog, offerPending, ended, stopped, lockq, xfer, task, held,
                   wire>>

\* _on_bye: the 200 goes first; the call ends once it is sent.
PeerBye ==
    /\ reader.pc = "idle"
    /\ reader' = [IdleReader EXCEPT !.pc = "bye"]
    /\ UNCHANGED <<dialog, offerPending, onHold, ended, stopped, lockq, xfer,
                   task, held, wire>>

ByeAnswered ==
    /\ reader.pc = "bye"
    /\ ended' = TRUE
    /\ WakeTransferOnEnd
    /\ reader' = [IdleReader EXCEPT !.pc = "stopping"]
    /\ UNCHANGED <<dialog, offerPending, onHold, stopped, lockq, task, held, wire>>

ByeStops ==
    /\ reader.pc = "stopping"
    /\ stopped' = TRUE
    /\ reader' = IdleReader
    /\ UNCHANGED <<dialog, offerPending, onHold, ended, lockq, xfer, task, held,
                   wire>>

\* Faulty: any refer NOTIFY is taken for the armed transfer's.
AnyNotify(id) == TRUE

\* RFC 3515: a present id must be the armed REFER's CSeq.
MatchesActive(id) == id = 0 \/ id = xfer.refer

\* _on_notify of a terminated refer subscription: id is the CSeq of the REFER
\* it reports on, 0 when the peer leaves it out.
PeerNotify(id, outcome) ==
    /\ reader.pc = "idle"
    /\ xfer.owner # NoTask
    /\ MatchesActive(id)
    /\ id = xfer.refer => task[xfer.owner].reply # "challenge"
    /\ ~xfer.latched
    /\ xfer' = [xfer EXCEPT !.latched = TRUE, !.outcome = outcome, !.cause = id]
    /\ UNCHANGED <<dialog, offerPending, onHold, ended, stopped, lockq, task,
                   reader, held, wire>>

----
VerbStep(t) ==
    \/ \E v \in OfferVerb : Offer(t, v)
    \/ Reauthenticate(t) \/ OfferAnswered(t) \/ OfferKeyed(t)
    \/ VerbRejected(t) \/ ResponseTimeout(t)
    \/ SendInfo(t) \/ NextInfo(t) \/ InfoDone(t)
    \/ ArmRefused(t) \/ Refer(t) \/ ReferAgain(t)
    \/ ReferAcceptedReports(t) \/ ReferAcceptedWaits(t)
    \/ OutcomeWakes(t) \/ OutcomeDeadline(t)
    \/ HangUp(t) \/ HangUpAfterEnd(t) \/ HangUpStops(t)

ReaderContinues == ReanswerKeyed \/ ReanswerSent \/ ByeAnswered \/ ByeStops

Next ==
    \/ \E t \in Task :
         \/ VerbStep(t) \/ VerbAborted(t)
         \/ \E v \in Verb : WaitForLock(t, v)
         \/ \E r \in Reply : Deliver(t, r)
    \/ \E o \in PeerOffer : PeerReinvite(o)
    \/ \E id \in 0 .. wire.cseq, outcome \in Final : PeerNotify(id, outcome)
    \/ PeerBye
    \/ ReaderContinues

\* A verb already called is run on by the event loop: its deadlines fire, its
\* turn at the lock comes.  The reader's sends and media calls return.
Fairness ==
    /\ \A t \in Task : WF_vars(task[t].pc # "idle" /\ VerbStep(t))
    /\ WF_vars(ReaderContinues)

Spec == Init /\ [][Next]_vars /\ Fairness
----
(* Properties *)

TaskState ==
    [verb : Verb \cup {"none"},
     pc : {"idle", "lock", "sent", "rekey", "await", "stopping"},
     dir : {"none", "sendonly", "sendrecv"},
     retried : BOOLEAN, reply : Reply \cup {"none"}, result : Result]

TransferState ==
    [owner : Task \cup {NoTask}, refer : Nat, latched : BOOLEAN,
     outcome : Final \cup {"none"}, cause : Nat]

ReaderState ==
    [pc : {"idle", "rekey", "answered", "bye", "stopping"},
     offer : PeerOffer \cup {"none"}, next : [cseq : Nat, version : Nat]]

TypeOK ==
    /\ dialog \in [cseq : Nat, version : Nat]
    /\ offerPending \in BOOLEAN /\ onHold \in BOOLEAN /\ ended \in BOOLEAN
    /\ stopped \in BOOLEAN /\ held \in BOOLEAN
    /\ lockq \in Seq(Task)
    /\ xfer \in TransferState
    /\ task \in [Task -> TaskState]
    /\ reader \in ReaderState
    /\ wire \in [requests : Nat, cseq : Nat, offers : Nat, answers : Nat, version : Nat]

\* Only one verb has a request outstanding: the lock is held across the whole
\* exchange and a failed or cancelled verb gives back only its own place.
OneVerbOutstanding ==
    \A t, u \in Task :
        /\ task[t].pc \in {"sent", "rekey", "stopping"}
        /\ task[u].pc \in {"sent", "rekey", "stopping"}
        => t = u

\* No CSeq and no SDP version is used twice in the dialog: as many numbers are
\* in use as requests, and offers or answers, were written (ADR-0011).
NoNumberReused ==
    /\ wire.requests = wire.cseq
    /\ wire.offers + wire.answers = wire.version

\* Whenever the reader is not in the middle of answering, the media gate is
\* closed exactly when the last hold or resume the two sides settled says so:
\* on_hold is written by the verbs under the lock and by the reader without it.
GateFollowsAgreement == reader.pc # "answered" => onHold = held

\* The engine's SRTP context is never re-keyed by a verb and by the reader at
\* once: the glare rule covers our whole exchange, the ACK and re-key included.
RekeyExclusive ==
    reader.pc = "rekey" => \A t \in Task : task[t].pc # "rekey"

\* The armed outcome state belongs to the one transfer in progress, from its
\* REFER to its report, although the wait runs outside the lock.
TransferOwnsLatch ==
    \A t \in Task :
        xfer.owner = t <=> \/ task[t].pc = "await"
                           \/ task[t].pc = "sent" /\ task[t].verb = "transfer"

\* A report a transfer hands back comes from its own REFER's subscription, or
\* from a NOTIFY with no id: a late report of an earlier transfer is not it.
OutcomeFromOwnRefer ==
    xfer.outcome # "none" => xfer.cause \in {0, xfer.refer}

\* The transfer verbs keep the promise of TransferPromise.
PromisedOutcome ==
    [t \in Task |->
        IF xfer.owner = t
          THEN IF ~xfer.latched THEN "waiting"
               ELSE IF xfer.outcome = "none" THEN "ended" ELSE xfer.outcome
          ELSE IF task[t].result \in Final THEN task[t].result
          ELSE IF task[t].result = "CALL_ENDED" THEN "ended"
          ELSE IF task[t].result \in Report THEN "unknown" ELSE "idle"]

Promised == INSTANCE TransferPromise WITH up <- ~ended, outcome <- PromisedOutcome

KeepsPromise == Promised!Promise

\* Every verb that was called returns or raises, whatever the peer does: no
\* verb waits for ever behind another's exchange, or for a report.
EveryVerbReturns ==
    \A t \in Task : task[t].pc # "idle" ~> task[t].pc = "idle"

\* Once the call has ended, by either side, its media plane is stopped, unless the task
\* that hung up was itself cancelled.
EndStopsMedia == ended ~> (stopped \/ \E t \in Task : task[t].result = "cut")

\* Exchanges exclude each other: a verb's another verb's, and on a secured call a verb's
\* re-key the reader's, however verbs fail or are cancelled (CallSession, its lock).
VerbsExclude == OneVerbOutstanding /\ RekeyExclusive

\* A transfer's outcome state is its own, armed from its REFER to its report, and holds no
\* report of an earlier one (CallSession.transfer, _on_notify).
LatchKept == TransferOwnsLatch /\ OutcomeFromOwnRefer

\* Every verb returns, and an ended call falls silent (the verbs, hang_up, _on_bye).
VerbsEnd == EveryVerbReturns /\ EndStopsMedia
====
