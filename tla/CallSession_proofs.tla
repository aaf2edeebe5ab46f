---- MODULE CallSession_proofs ----
(***************************************************************************)
(* Theorems about CallSession for any set of tasks, any verbs called and   *)
(* any bounds, proved for all its behaviours.                              *)
(***************************************************************************)
EXTENDS CallSession, TLAPS

----
(* The inductive invariant *)

Holding == {"sent", "rekey", "stopping"}

\* A verb with a request outstanding is at the head of the lock's queue, and a
\* verb that waits for the lock is in the queue.
LockOrder ==
    \A t \in Task :
        /\ task[t].pc \in Holding => lockq # <<>> /\ Head(lockq) = t
        /\ task[t].pc = "lock" => \E i \in DOMAIN lockq : lockq[i] = t

Offering(t) == task[t].verb \in OfferVerb /\ task[t].pc \in {"sent", "rekey"}

\* offerPending covers every exchange of ours; only an offer re-keys, and only
\* a transfer awaits an outcome.
ExchangeCovered ==
    \A t \in Task :
        /\ Offering(t) => offerPending
        /\ task[t].pc = "rekey" => task[t].verb \in OfferVerb
        /\ task[t].pc = "await" => task[t].verb = "transfer"

\* While the reader answers the peer's offer, no final response to an offer of
\* ours can have arrived.
AnswerAlone ==
    reader.pc \in {"rekey", "answered"} =>
        /\ reader.offer \in PeerOffer
        /\ \A t \in Task : Offering(t) => task[t].pc = "sent" /\ task[t].reply = "none"

\* What the gate will be once the reader has sent its answer.
GateFollowsAnswer ==
    reader.pc = "answered" =>
        held = IF reader.offer = "offerless" THEN onHold ELSE HeldByPeer(reader.offer)

Agreement ==
    /\ ExchangeCovered
    /\ AnswerAlone
    /\ GateFollowsAnswer
    /\ GateFollowsAgreement

Transferring(t) ==
    \/ task[t].pc = "await"
    \/ task[t].pc = "sent" /\ task[t].verb = "transfer"

\* A report was made on the last REFER written, or with no id; a REFER that is
\* challenged has not been reported on.
ReportsOwned ==
    /\ xfer.owner # NoTask => xfer.refer > 0
    /\ OutcomeFromOwnRefer
    /\ \A t \in Task : xfer.owner = t /\ task[t].reply = "challenge"
                        => xfer.cause # xfer.refer

\* An outcome comes with the latch, and the end of the call has set it.
LatchDecides ==
    /\ xfer.outcome # "none" => xfer.latched
    /\ ended /\ xfer.owner # NoTask => xfer.latched

Transfers == TransferOwnsLatch /\ ReportsOwned /\ LatchDecides

IInv == TypeOK /\ LockOrder /\ Agreement /\ Transfers

\* The numbers of a plain call: the reader never holds a planned dialog across
\* an await, so the dialog's numbers are the highest on the wire.
Numbers ==
    /\ reader.pc # "rekey"
    /\ dialog.cseq = wire.cseq /\ wire.cseq = wire.requests
    /\ dialog.version = wire.version /\ wire.version = wire.offers + wire.answers

----
(* Types *)

\* What a verb writes when it sends has the types of the session's state.
LEMMA SendsTypes ==
    ASSUME TypeOK, NEW t \in Task, NEW v \in Verb,
           NEW dir \in {"none", "sendonly", "sendrecv"}, NEW retry \in BOOLEAN,
           Sends(t, v, dir, retry)
    PROVE  /\ dialog' \in [cseq : Nat, version : Nat]
           /\ wire' \in [requests : Nat, cseq : Nat, offers : Nat,
                         answers : Nat, version : Nat]
           /\ task' \in [Task -> TaskState]
<1>1. Advanced(v) \in [cseq : Nat, version : Nat]
  BY DEF Advanced, TypeOK
<1>2. dialog' \in [cseq : Nat, version : Nat]
  BY <1>1 DEF Sends
<1>3. wire' \in [requests : Nat, cseq : Nat, offers : Nat, answers : Nat, version : Nat]
  <2>1. \A a, b \in Nat : Larger(a, b) \in Nat
    BY DEF Larger
  <2>2. /\ Larger(wire.cseq, Advanced(v).cseq) \in Nat
        /\ Larger(wire.version, Advanced(v).version) \in Nat
    BY <1>1, <2>1 DEF TypeOK
  <2>3. (IF v \in OfferVerb THEN 1 ELSE 0) \in Nat
    OBVIOUS
  <2>4. QED BY <2>2, <2>3 DEF Sends, TypeOK
<1>4. [verb |-> v, pc |-> "sent", dir |-> dir, retried |-> retry,
       reply |-> "none", result |-> "none"] \in TaskState
  BY DEF TaskState, Result
<1>5. task' \in [Task -> TaskState]
  BY <1>4 DEF Sends, TypeOK
<1>6. QED BY <1>2, <1>3, <1>5

\* A verb that returns leaves a task that may be called again.
LEMMA ReturnsTypes ==
    ASSUME TypeOK, NEW t \in Task, NEW result \in Result, Returns(t, result)
    PROVE  task' \in [Task -> TaskState]
<1>1. [IdleTask EXCEPT !.result = result] \in TaskState
  BY DEF IdleTask, TaskState, Result
<1>2. QED BY <1>1 DEF Returns, TypeOK

\* A task leaves the lock's queue, and the queue stays a queue of tasks.
LEMMA LockLeftByTypes ==
    ASSUME TypeOK, NEW t \in Task
    PROVE  LockLeftBy(t) \in Seq(Task)
<1>1. lockq \in Seq(Task)
  BY DEF TypeOK
<1>2. CASE \E i \in DOMAIN lockq : lockq[i] = t
  <2>1. PICK place \in DOMAIN lockq : place = CHOOSE i \in DOMAIN lockq : lockq[i] = t
    BY <1>2
  <2>2. place \in 1 .. Len(lockq)
    BY <1>1, <2>1
  <2>3. Without(place) \in Seq(Task)
    BY <1>1, <2>2 DEF Without
  <2>4. QED BY <1>2, <2>1, <2>3 DEF LockLeftBy
<1>3. CASE ~ \E i \in DOMAIN lockq : lockq[i] = t
  BY <1>1, <1>3 DEF LockLeftBy
<1>4. QED BY <1>2, <1>3

\* A verb that raises leaves the session's state well typed.
LEMMA VerbRaisesTypes ==
    ASSUME TypeOK, NEW t \in Task, NEW result \in Result, VerbRaises(t, result)
    PROVE  TypeOK'
<1>1. task' \in [Task -> TaskState]
  BY ReturnsTypes DEF VerbRaises
<1>2. lockq' \in Seq(Task)
  BY LockLeftByTypes DEF VerbRaises
<1>3. xfer' \in TransferState
  BY DEF VerbRaises, TypeOK, Disarmed, TransferState
<1>4. offerPending' \in BOOLEAN
  BY DEF VerbRaises, TypeOK
<1>5. QED BY <1>1, <1>2, <1>3, <1>4 DEF VerbRaises, TypeOK

\* Leaving the head of a queue that is not empty leaves a queue.
LEMMA TailTypes ==
    ASSUME TypeOK, LockOrder, NEW t \in Task,
           task[t].pc \in Holding \cup {"lock"}
    PROVE  Tail(lockq) \in Seq(Task) /\ lockq # <<>>
BY DEF TypeOK, LockOrder

\* A step that sends a request, and otherwise moves only the lock and the offer flag, leaves
\* the types of the session's state.
LEMMA SentTypes ==
    ASSUME TypeOK, NEW t \in Task, NEW v \in Verb,
           NEW dir \in {"none", "sendonly", "sendrecv"}, NEW retry \in BOOLEAN,
           Sends(t, v, dir, retry),
           lockq' \in Seq(Task), offerPending' \in BOOLEAN,
           UNCHANGED <<onHold, ended, stopped, xfer, reader, held>>
    PROVE  TypeOK'
<1>1. /\ dialog' \in [cseq : Nat, version : Nat]
      /\ wire' \in [requests : Nat, cseq : Nat, offers : Nat, answers : Nat, version : Nat]
      /\ task' \in [Task -> TaskState]
  BY SendsTypes
<1>2. QED BY <1>1 DEF TypeOK

\* No step leaves the types of the session's state.
LEMMA TypeStep == TypeOK /\ LockOrder /\ AnswerAlone /\ [Next]_vars => TypeOK'
<1> SUFFICES ASSUME TypeOK, LockOrder, AnswerAlone, [Next]_vars PROVE TypeOK'
  OBVIOUS
<1> USE DEF TypeOK
<1>1. ASSUME NEW t \in Task, NEW v \in OfferVerb, Offer(t, v) PROVE TypeOK'
  <2>1. v \in Verb /\ Direction(v) \in {"none", "sendonly", "sendrecv"}
    BY DEF Verb, Direction
  <2>2. LockHeldBy(t) \in Seq(Task)
    BY DEF LockHeldBy
  <2>3. /\ lockq' = LockHeldBy(t) /\ offerPending' = TRUE
        /\ Sends(t, v, Direction(v), FALSE)
        /\ UNCHANGED <<onHold, ended, stopped, xfer, reader, held>>
    BY <1>1, Zenon DEF Offer
  <2>4. lockq' \in Seq(Task) /\ offerPending' \in BOOLEAN
    BY <2>2, <2>3
  <2>5. FALSE \in BOOLEAN
    OBVIOUS
  <2>6. PICK d \in {"none", "sendonly", "sendrecv"}, r \in BOOLEAN : Sends(t, v, d, r)
    BY <2>1, <2>3, <2>5, Zenon
  <2>7. QED BY <2>1, <2>3, <2>4, <2>6, SentTypes
<1>2. ASSUME NEW t \in Task, Reauthenticate(t) PROVE TypeOK'
  <2>1. task[t].verb \in Verb /\ task[t].dir \in {"none", "sendonly", "sendrecv"}
    BY <1>2 DEF Reauthenticate, Verb, TaskState
  <2>2. /\ Sends(t, task[t].verb, task[t].dir, TRUE)
        /\ UNCHANGED <<offerPending, onHold, ended, stopped, lockq, xfer, reader, held>>
    BY <1>2, Zenon DEF Reauthenticate
  <2>3. lockq' \in Seq(Task) /\ offerPending' \in BOOLEAN
    BY <2>2
  <2>4. QED BY <2>1, <2>2, <2>3, SentTypes
<1>3. ASSUME NEW t \in Task, OfferSettles(t), task[t].pc \in Holding PROVE TypeOK'
  <2>1. task' \in [Task -> TaskState]
    BY <1>3, ReturnsTypes DEF OfferSettles, Result, RefreshOutcome
  <2>2. onHold' \in BOOLEAN /\ held' \in BOOLEAN
    BY <1>3 DEF OfferSettles
  <2>3. QED BY <1>3, <2>1, <2>2, TailTypes DEF OfferSettles
<1>4. ASSUME NEW t \in Task, OfferRekeys(t) PROVE TypeOK'
  <2>1. [task[t] EXCEPT !.pc = "rekey"] \in TaskState
    BY DEF TaskState
  <2>2. QED BY <1>4, <2>1 DEF OfferRekeys
<1>5. ASSUME NEW t \in Task, VerbRejected(t) PROVE TypeOK'
  <2>1. RefreshFailure(task[t].reply) \in Result
    BY DEF RefreshFailure, Result, RefreshOutcome
  <2>2. QED BY <1>5, <2>1, VerbRaisesTypes DEF VerbRejected, Result
<1>6. ASSUME NEW t \in Task, ResponseTimeout(t) PROVE TypeOK'
  <2>1. RefreshFailure("none") \in Result
    BY DEF RefreshFailure, Result, RefreshOutcome
  <2>2. QED BY <1>6, <2>1, VerbRaisesTypes DEF ResponseTimeout, Result
<1>7. ASSUME NEW t \in Task, VerbAborted(t) PROVE TypeOK'
  BY <1>7, VerbRaisesTypes DEF VerbAborted, Result
<1>8. ASSUME NEW t \in Task, SendInfo(t) \/ NextInfo(t) PROVE TypeOK'
  <2>1. LockHeldBy(t) \in Seq(Task)
    BY DEF LockHeldBy
  <2>2. QED BY <1>8, <2>1, SendsTypes DEF SendInfo, NextInfo, Verb
<1>9. ASSUME NEW t \in Task, InfoDone(t) PROVE TypeOK'
  <2>1. task' \in [Task -> TaskState]
    BY <1>9, ReturnsTypes DEF InfoDone, Result
  <2>2. QED BY <1>9, <2>1, TailTypes DEF InfoDone, Waiting, Holding
<1>10. ASSUME NEW t \in Task, ArmRefused(t) PROVE TypeOK'
  <2>1. task' \in [Task -> TaskState]
    BY <1>10, ReturnsTypes DEF ArmRefused, Result
  <2>2. LockReleasedBy(t) \in Seq(Task)
    BY <1>10, TailTypes DEF ArmRefused, Runs, CallsVerb, LockReleasedBy
  <2>3. QED BY <1>10, <2>1, <2>2 DEF ArmRefused
<1>11. ASSUME NEW t \in Task, Refer(t) PROVE TypeOK'
  <2>1. LockHeldBy(t) \in Seq(Task)
    BY DEF LockHeldBy
  <2>2. xfer' \in TransferState
    <3>1. dialog.cseq + 1 \in Nat
      OBVIOUS
    <3>2. QED BY <1>11, <3>1 DEF Refer, Disarmed, TransferState
  <2>3. QED BY <1>11, <2>1, <2>2, SendsTypes DEF Refer, Verb
<1>12. ASSUME NEW t \in Task, ReferAgain(t) PROVE TypeOK'
  <2>1. xfer' \in TransferState
    <3>1. dialog.cseq + 1 \in Nat
      OBVIOUS
    <3>2. QED BY <1>12, <3>1 DEF ReferAgain, TransferState
  <2>2. QED BY <1>12, <2>1, SendsTypes DEF ReferAgain, Verb
<1>13. ASSUME NEW t \in Task, NEW report \in Report, Reports(t, report),
              lockq' \in Seq(Task)
       PROVE  TypeOK'
  <2>1. xfer' \in TransferState
    BY <1>13 DEF Reports, Disarmed, TransferState
  <2>2. task' \in [Task -> TaskState]
    BY <1>13, ReturnsTypes DEF Reports, Result
  <2>3. QED BY <1>13, <2>1, <2>2 DEF Reports
<1>14. \A unknown \in Report : LatchedOr(unknown) \in Report
  BY DEF LatchedOr, Report, TransferState
<1>15. ASSUME NEW t \in Task, ReferAcceptedReports(t) PROVE TypeOK'
  <2>1. Tail(lockq) \in Seq(Task)
    BY <1>15, TailTypes DEF ReferAcceptedReports, Waiting, Holding
  <2>2. LatchedOr(IF task[t].reply = "declined"
                    THEN "SUBSCRIPTION_DECLINED" ELSE "WAIT_DISABLED") \in Report
    BY <1>14 DEF Report
  <2>3. QED BY <1>15, <2>1, <2>2, <1>13 DEF ReferAcceptedReports
<1>16. ASSUME NEW t \in Task, ReferAcceptedWaits(t) PROVE TypeOK'
  <2>1. Tail(lockq) \in Seq(Task)
    BY <1>16, TailTypes DEF ReferAcceptedWaits, Waiting, Holding
  <2>2. [task[t] EXCEPT !.pc = "await"] \in TaskState
    BY DEF TaskState
  <2>3. QED BY <1>16, <2>1, <2>2 DEF ReferAcceptedWaits
<1>17. ASSUME NEW t \in Task, OutcomeWakes(t) \/ OutcomeDeadline(t) PROVE TypeOK'
  <2>1. LatchedOr("TIMEOUT") \in Report
    BY <1>14 DEF Report
  <2>2. QED BY <1>17, <2>1, <1>13 DEF OutcomeWakes, OutcomeDeadline
<1>18. ASSUME WakeTransferOnEnd PROVE xfer' \in TransferState
  BY <1>18 DEF WakeTransferOnEnd, TransferState
<1>19. ASSUME NEW t \in Task, HangUp(t) PROVE TypeOK'
  <2>1. LockHeldBy(t) \in Seq(Task)
    BY DEF LockHeldBy
  <2>2. dialog' \in [cseq : Nat, version : Nat]
    BY <1>19 DEF HangUp
  <2>3. wire' \in [requests : Nat, cseq : Nat, offers : Nat, answers : Nat, version : Nat]
    <3>1. Larger(wire.cseq, dialog.cseq + 1) \in Nat /\ wire.requests + 1 \in Nat
      BY DEF Larger
    <3>2. QED BY <1>19, <3>1 DEF HangUp
  <2>4. [task[t] EXCEPT !.verb = "bye", !.pc = "stopping"] \in TaskState
    BY DEF TaskState, Verb
  <2>5. task' \in [Task -> TaskState]
    BY <1>19, <2>4 DEF HangUp
  <2>6. QED BY <1>19, <2>1, <2>2, <2>3, <2>5, <1>18 DEF HangUp
<1>20. ASSUME NEW t \in Task, HangUpAfterEnd(t) \/ HangUpStops(t) PROVE TypeOK'
  <2>1. Tail(lockq) \in Seq(Task)
    BY <1>20, TailTypes DEF HangUpAfterEnd, HangUpStops, Holding
  <2>2. task' \in [Task -> TaskState]
    BY <1>20, ReturnsTypes DEF HangUpAfterEnd, HangUpStops, Result
  <2>3. QED BY <1>20, <2>1, <2>2 DEF HangUpAfterEnd, HangUpStops
<1>21. ASSUME NEW t \in Task, NEW v \in Verb, WaitForLock(t, v) PROVE TypeOK'
  <2>1. [IdleTask EXCEPT !.verb = v, !.pc = "lock"] \in TaskState
    BY DEF IdleTask, TaskState, Result
  <2>2. QED BY <1>21, <2>1 DEF WaitForLock
<1>22. ASSUME NEW t \in Task, NEW r \in Reply, Deliver(t, r) PROVE TypeOK'
  <2>1. [task[t] EXCEPT !.reply = r] \in TaskState
    BY DEF TaskState
  <2>2. QED BY <1>22, <2>1 DEF Deliver
<1>23. ASSUME NEW offer \in PeerOffer, NEW next \in [cseq : Nat, version : Nat],
              Answers(offer, next)
       PROVE  /\ dialog' \in [cseq : Nat, version : Nat]
              /\ wire' \in [requests : Nat, cseq : Nat, offers : Nat,
                            answers : Nat, version : Nat]
              /\ held' \in BOOLEAN
              /\ reader' \in ReaderState
  <2>1. Larger(wire.version, next.version) \in Nat
    BY DEF Larger
  <2>2. reader' \in ReaderState
    BY <1>23 DEF Answers, IdleReader, ReaderState
  <2>3. held' \in BOOLEAN
    <3>1. HeldByPeer(offer) \in BOOLEAN
      BY DEF HeldByPeer
    <3>2. QED BY <1>23, <3>1 DEF Answers
  <2>4. wire' \in [requests : Nat, cseq : Nat, offers : Nat, answers : Nat, version : Nat]
    <3>1. wire.answers + 1 \in Nat
      OBVIOUS
    <3>2. QED BY <1>23, <2>1, <3>1 DEF Answers
  <2>5. QED BY <1>23, <2>2, <2>3, <2>4 DEF Answers
<1>24. ASSUME NEW offer \in PeerOffer, PeerReinvite(offer) PROVE TypeOK'
  <2> DEFINE next == [dialog EXCEPT !.version = @ + 1]
  <2>1. next \in [cseq : Nat, version : Nat]
    OBVIOUS
  <2>2. CASE Secured /\ offer # "offerless"
    <3>1. [pc |-> "rekey", offer |-> offer, next |-> next] \in ReaderState
      BY <2>1 DEF ReaderState
    <3>2. QED BY <1>24, <2>2, <3>1 DEF PeerReinvite
  <2>3. CASE ~(Secured /\ offer # "offerless")
    BY <1>23, <1>24, <2>1, <2>3 DEF PeerReinvite
  <2>4. QED BY <2>2, <2>3
<1>25. ASSUME ReanswerKeyed PROVE TypeOK'
  <2>1. reader.offer \in PeerOffer /\ reader.next \in [cseq : Nat, version : Nat]
    BY <1>25 DEF ReanswerKeyed, AnswerAlone, ReaderState
  <2>2. QED BY <1>23, <1>25, <2>1 DEF ReanswerKeyed
<1>26. ASSUME ReanswerSent \/ PeerBye \/ ByeStops PROVE TypeOK'
  <2>1. reader' \in ReaderState
    BY <1>26 DEF ReanswerSent, PeerBye, ByeStops, IdleReader, ReaderState
  <2>2. onHold' \in BOOLEAN
    <3>1. HeldByPeer(reader.offer) \in BOOLEAN
      BY DEF HeldByPeer
    <3>2. QED BY <1>26, <3>1 DEF ReanswerSent, PeerBye, ByeStops
  <2>3. QED BY <1>26, <2>1, <2>2 DEF ReanswerSent, PeerBye, ByeStops
<1>27. ASSUME ByeAnswered PROVE TypeOK'
  <2>1. reader' \in ReaderState
    BY <1>27 DEF ByeAnswered, IdleReader, ReaderState
  <2>2. QED BY <1>18, <1>27, <2>1 DEF ByeAnswered
<1>28. ASSUME NEW id \in 0 .. wire.cseq, NEW outcome \in Final, PeerNotify(id, outcome)
       PROVE  TypeOK'
  <2>1. id \in Nat
    OBVIOUS
  <2>2. [xfer EXCEPT !.latched = TRUE, !.outcome = outcome, !.cause = id] \in TransferState
    BY <2>1 DEF TransferState
  <2>3. QED BY <1>28, <2>2 DEF PeerNotify
<1>29. QED
  <2>1. CASE UNCHANGED vars
    BY <2>1 DEF vars
  <2>2. ASSUME NEW t \in Task, OfferConfirmed(t) \/ OfferKeyed(t) PROVE TypeOK'
    BY <2>2, <1>3 DEF OfferConfirmed, OfferKeyed, Waiting, Holding
  <2>3. QED BY <2>1, <2>2, <1>1, <1>2, <1>4, <1>5, <1>6, <1>7, <1>8, <1>9, <1>10, <1>11,
               <1>12, <1>15, <1>16, <1>17, <1>19, <1>20, <1>21, <1>22, <1>24, <1>25,
               <1>26, <1>27, <1>28
            DEF Next, VerbStep, OfferAnswered, ReaderContinues

----
(* The lock *)

OthersStay(t) == \A u \in Task \ {t} : task'[u] = task[u]

\* One task moves: what every action of a verb does to the tasks.
LEMMA TaskMoves ==
    ASSUME TypeOK, NEW t \in Task, NEW rec, task' = [task EXCEPT ![t] = rec]
    PROVE  OthersStay(t) /\ task'[t] = rec
<1>1. task \in [Task -> TaskState]
  BY DEF TypeOK
<1>2. QED BY <1>1, Zenon DEF OthersStay

\* A task that sends a request waits for its response, the others unmoved.
LEMMA TaskSends ==
    ASSUME TypeOK, NEW t \in Task, NEW v, NEW dir, NEW retry, Sends(t, v, dir, retry)
    PROVE  /\ OthersStay(t)
           /\ task'[t].pc = "sent" /\ task'[t].verb = v /\ task'[t].reply = "none"
<1>1. \E rec : /\ rec.pc = "sent" /\ rec.verb = v /\ rec.reply = "none"
               /\ task' = [task EXCEPT ![t] = rec]
  BY DEF Sends
<1>2. QED BY <1>1, TaskMoves

\* A task whose verb returns is idle with the verb's result, the others unmoved.
LEMMA TaskReturns ==
    ASSUME TypeOK, NEW t \in Task, NEW result, Returns(t, result)
    PROVE  /\ OthersStay(t)
           /\ task'[t].pc = "idle" /\ task'[t].verb = "none"
           /\ task'[t].reply = "none" /\ task'[t].result = result
<1>1. \E rec : /\ rec.pc = "idle" /\ rec.verb = "none" /\ rec.reply = "none"
               /\ rec.result = result /\ task' = [task EXCEPT ![t] = rec]
  BY DEF Returns, IdleTask
<1>2. QED BY <1>1, TaskMoves

\* A task that calls a verb behind the lock joins the queue, the others unmoved.
LEMMA TaskWaits ==
    ASSUME TypeOK, NEW t \in Task, NEW v, WaitForLock(t, v)
    PROVE  /\ OthersStay(t)
           /\ task'[t].pc = "lock" /\ task'[t].verb = v /\ task'[t].reply = "none"
           /\ task'[t].result = "none"
<1>1. \E rec : /\ rec.pc = "lock" /\ rec.verb = v /\ rec.reply = "none"
               /\ rec.result = "none" /\ task' = [task EXCEPT ![t] = rec]
  BY DEF WaitForLock, IdleTask
<1>2. QED BY <1>1, TaskMoves

\* A task that runs from its call, or from the head of the queue, is the holder.
LEMMA LockTaken ==
    ASSUME TypeOK, LockOrder, NEW t \in Task, NEW v \in Verb, Runs(t, v),
           lockq' = LockHeldBy(t), OthersStay(t), task'[t].pc \in Holding
    PROVE  LockOrder'
<1>1. CASE task[t].pc = "idle"
  <2>1. lockq = <<>> /\ lockq' = <<t>>
    BY <1>1 DEF Runs, CallsVerb, LockHeldBy
  <2>2. \A u \in Task : task[u].pc \notin Holding \cup {"lock"}
    BY <2>1 DEF LockOrder
  <2>3. QED BY <2>1, <2>2 DEF LockOrder, OthersStay, Holding
<1>2. CASE task[t].pc # "idle"
  <2>1. task[t].pc = "lock" /\ Head(lockq) = t /\ lockq' = lockq /\ lockq # <<>>
    BY <1>2 DEF Runs, CallsVerb, LockHeldBy, LockOrder
  <2>2. QED BY <2>1 DEF LockOrder, OthersStay, Holding
<1>3. QED BY <1>1, <1>2

\* The queue is left alone by a step that moves no task into or out of it.
LEMMA LockKept ==
    ASSUME LockOrder, lockq' = lockq,
           \A u \in Task : \/ task'[u].pc = task[u].pc
                           \/ task[u].pc \in Holding /\ task'[u].pc \in Holding
                           \/ task'[u].pc \in {"idle", "await"}
    PROVE  LockOrder'
BY DEF LockOrder, Holding

\* The holder, or the waiter whose turn it is, gives the lock back.
LEMMA LockReleased ==
    ASSUME TypeOK, LockOrder, NEW t \in Task, lockq # <<>>, Head(lockq) = t,
           lockq' = Tail(lockq), OthersStay(t), task'[t].pc \in {"idle", "await"}
    PROVE  LockOrder'
<1>1. ASSUME NEW u \in Task, u # t, task[u].pc = "lock"
      PROVE  \E i \in DOMAIN lockq' : lockq'[i] = u
  <2>1. PICK i \in DOMAIN lockq : lockq[i] = u
    BY <1>1 DEF LockOrder
  <2>2. lockq \in Seq(Task)
    BY DEF TypeOK
  <2>3. i \in 2 .. Len(lockq)
    BY <1>1, <2>1, <2>2
  <2>4. /\ Len(Tail(lockq)) = Len(lockq) - 1
        /\ \A k \in 1 .. Len(Tail(lockq)) : Tail(lockq)[k] = lockq[k + 1]
    BY <2>2
  <2>5. i - 1 \in 1 .. Len(Tail(lockq)) /\ Len(Tail(lockq)) \in Nat
    BY <2>2, <2>3, <2>4
  <2>6. Tail(lockq)[i - 1] = u
    BY <2>1, <2>3, <2>4, <2>5
  <2>7. DOMAIN Tail(lockq) = 1 .. Len(Tail(lockq))
    BY <2>2
  <2>8. QED BY <2>5, <2>6, <2>7, Zenon
<1>2. QED BY <1>1 DEF LockOrder, OthersStay, Holding

\* A task that leaves the queue, from any place in it, disturbs no other.
LEMMA LockLeft ==
    ASSUME TypeOK, LockOrder, NEW t \in Task,
           lockq' = LockLeftBy(t), OthersStay(t), task'[t].pc = "idle"
    PROVE  LockOrder'
<1>1. CASE ~ \E i \in DOMAIN lockq : lockq[i] = t
  BY <1>1 DEF LockLeftBy, LockOrder, OthersStay, Holding
<1>2. CASE \E i \in DOMAIN lockq : lockq[i] = t
  <2>1. PICK place \in 1 .. Len(lockq) : lockq[place] = t /\ lockq' = Without(place)
    <3>1. PICK place \in DOMAIN lockq : /\ lockq[place] = t
                                       /\ place = CHOOSE i \in DOMAIN lockq : lockq[i] = t
      BY <1>2
    <3>2. place \in 1 .. Len(lockq)
      BY <3>1 DEF TypeOK
    <3>3. QED BY <1>2, <3>1, <3>2 DEF LockLeftBy
  <2>2. /\ Len(lockq') = Len(lockq) - 1
        /\ DOMAIN lockq' = 1 .. Len(lockq) - 1
        /\ \A i \in 1 .. Len(lockq) - 1 :
              lockq'[i] = IF i < place THEN lockq[i] ELSE lockq[i + 1]
    <3>1. Len(lockq) - 1 \in Nat /\ lockq' \in Seq(Task)
      <4>1. Len(lockq) - 1 \in Nat
        BY <2>1 DEF TypeOK
      <4>2. lockq' \in Seq(Task)
        BY LockLeftByTypes
      <4>3. QED BY <4>1, <4>2
    <3>2. lockq' = [i \in 1 .. Len(lockq) - 1 |->
                      IF i < place THEN lockq[i] ELSE lockq[i + 1]]
      BY <2>1 DEF Without
    <3>3. DOMAIN lockq' = 1 .. Len(lockq) - 1 /\ DOMAIN lockq' = 1 .. Len(lockq')
      BY <3>1, <3>2
    <3>4. Len(lockq') = Len(lockq) - 1
      BY <3>1, <3>3
    <3>5. QED BY <3>2, <3>3, <3>4
  <2>3. ASSUME NEW u \in Task, u # t, NEW i \in 1 .. Len(lockq), lockq[i] = u
        PROVE  \E j \in DOMAIN lockq' : lockq'[j] = u
    <3>1. CASE i < place
      <4>1. i \in 1 .. Len(lockq) - 1
        BY <2>1, <3>1 DEF TypeOK
      <4>2. QED BY <2>2, <2>3, <3>1, <4>1
    <3>2. CASE i > place
      <4>1. i - 1 \in 1 .. Len(lockq) - 1 /\ ~(i - 1 < place) /\ (i - 1) + 1 = i
        BY <2>1, <3>2 DEF TypeOK
      <4>2. QED BY <2>2, <2>3, <4>1
    <3>3. QED BY <2>1, <2>3, <3>1, <3>2 DEF TypeOK
  <2>4. ASSUME NEW u \in Task, u # t, lockq # <<>>, Head(lockq) = u
        PROVE  lockq' # <<>> /\ Head(lockq') = u
    <3>1. lockq[1] = u /\ 1 < place
      BY <2>1, <2>4 DEF TypeOK
    <3>2. 1 \in DOMAIN lockq' /\ lockq'[1] = u
      BY <2>1, <2>2, <3>1 DEF TypeOK
    <3>3. lockq' \in Seq(Task)
      BY <2>1, LockLeftByTypes
    <3>4. QED BY <3>2, <3>3
  <2>5. QED BY <2>3, <2>4 DEF LockOrder, OthersStay, Holding, TypeOK
<1>3. QED BY <1>1, <1>2

\* Every step keeps the lock's queue in order.
LEMMA LockStep == TypeOK /\ LockOrder /\ [Next]_vars => LockOrder'
<1> SUFFICES ASSUME TypeOK, LockOrder, [Next]_vars PROVE LockOrder'
  OBVIOUS
<1>4. ASSUME NEW t \in Task, task[t].pc \in Holding
      PROVE  lockq # <<>> /\ Head(lockq) = t
  BY <1>4 DEF LockOrder
<1>5. ASSUME NEW t \in Task, NEW v \in OfferVerb, Offer(t, v) PROVE LockOrder'
  BY TaskSends, <1>5, LockTaken DEF Offer, Verb, Holding
<1>6. ASSUME NEW t \in Task, SendInfo(t) \/ Refer(t) PROVE LockOrder'
  BY TaskSends, <1>6, LockTaken DEF SendInfo, Refer, Verb, Holding
<1>7. ASSUME NEW t \in Task, HangUp(t) PROVE LockOrder'
  <2>1. OthersStay(t) /\ task'[t].pc = "stopping"
    BY <1>7 DEF HangUp, OthersStay, TypeOK, TaskState
  <2>2. QED BY <1>7, <2>1, LockTaken DEF HangUp, Verb, Holding
<1>8. ASSUME NEW t \in Task, Reauthenticate(t) \/ NextInfo(t) \/ ReferAgain(t)
      PROVE  LockOrder'
  BY TaskSends, <1>8, LockKept DEF Reauthenticate, NextInfo, ReferAgain, Waiting, OthersStay, Holding
<1>9. ASSUME NEW t \in Task, OfferRekeys(t) PROVE LockOrder'
  <2>1. OthersStay(t) /\ task'[t].pc = "rekey" /\ task[t].pc = "sent" /\ lockq' = lockq
    BY <1>9 DEF OfferRekeys, OthersStay, TypeOK, TaskState, Waiting
  <2>2. QED BY <2>1, LockKept DEF OthersStay, Holding
<1>10. ASSUME NEW t \in Task, OfferConfirmed(t) \/ OfferKeyed(t) PROVE LockOrder'
  <2>1. OfferSettles(t) /\ task[t].pc \in Holding
    BY <1>10 DEF OfferConfirmed, OfferKeyed, Waiting, Holding
  <2>2. QED BY TaskReturns, <1>4, <2>1, LockReleased DEF OfferSettles
<1>11. ASSUME NEW t \in Task, VerbRejected(t) \/ ResponseTimeout(t) \/ VerbAborted(t)
       PROVE  LockOrder'
  <2>1. PICK result : VerbRaises(t, result)
    BY <1>11 DEF VerbRejected, ResponseTimeout, VerbAborted
  <2>2. QED BY TaskReturns, <2>1, LockLeft DEF VerbRaises
<1>12. ASSUME NEW t \in Task, InfoDone(t) \/ HangUpStops(t) PROVE LockOrder'
  BY TaskReturns, <1>4, <1>12, LockReleased DEF InfoDone, HangUpStops, Waiting, Holding
<1>13. ASSUME NEW t \in Task, HangUpAfterEnd(t) PROVE LockOrder'
  <2>1. lockq # <<>> /\ Head(lockq) = t
    BY <1>13 DEF HangUpAfterEnd, Runs, CallsVerb, LockOrder
  <2>2. QED BY TaskReturns, <1>13, <2>1, LockReleased DEF HangUpAfterEnd
<1>14. ASSUME NEW t \in Task, ArmRefused(t) PROVE LockOrder'
  <2>1. OthersStay(t) /\ task'[t].pc = "idle"
    BY TaskReturns, <1>14 DEF ArmRefused
  <2>2. CASE task[t].pc = "idle"
    <3>1. lockq' = lockq
      BY <1>14, <2>2 DEF ArmRefused, LockReleasedBy, Runs, CallsVerb
    <3>2. QED BY <2>1, <3>1, LockKept DEF OthersStay
  <2>3. CASE task[t].pc # "idle"
    <3>1. lockq # <<>> /\ Head(lockq) = t /\ lockq' = Tail(lockq)
      BY <1>14, <2>3 DEF ArmRefused, LockReleasedBy, Runs, CallsVerb, LockOrder
    <3>2. QED BY <2>1, <3>1, LockReleased
  <2>4. QED BY <2>2, <2>3
<1>15. ASSUME NEW t \in Task, ReferAcceptedReports(t) PROVE LockOrder'
  BY TaskReturns, <1>4, <1>15, LockReleased DEF ReferAcceptedReports, Reports, Waiting, Holding
<1>16. ASSUME NEW t \in Task, ReferAcceptedWaits(t) PROVE LockOrder'
  <2>1. OthersStay(t) /\ task'[t].pc = "await"
    BY <1>16 DEF ReferAcceptedWaits, OthersStay, TypeOK, TaskState
  <2>2. QED BY <1>4, <1>16, <2>1, LockReleased DEF ReferAcceptedWaits, Waiting, Holding
<1>17. ASSUME NEW t \in Task, OutcomeWakes(t) \/ OutcomeDeadline(t) PROVE LockOrder'
  BY TaskReturns, <1>17, LockKept DEF OutcomeWakes, OutcomeDeadline, Reports, OthersStay
<1>18. ASSUME NEW t \in Task, NEW v \in Verb, WaitForLock(t, v) PROVE LockOrder'
  <2>1. OthersStay(t) /\ task'[t].pc = "lock" /\ lockq' = Append(lockq, t)
    BY TaskWaits, <1>18 DEF WaitForLock
  <2>2. /\ Len(lockq') = Len(lockq) + 1 /\ lockq'[Len(lockq) + 1] = t
        /\ DOMAIN lockq \subseteq DOMAIN lockq' /\ Len(lockq) + 1 \in DOMAIN lockq'
        /\ \A i \in DOMAIN lockq : lockq'[i] = lockq[i]
        /\ lockq # <<>> => lockq' # <<>> /\ Head(lockq') = Head(lockq)
    BY <2>1 DEF TypeOK
  <2>3. QED BY <2>1, <2>2 DEF LockOrder, OthersStay, Holding
<1>19. ASSUME NEW t \in Task, NEW r \in Reply, Deliver(t, r) PROVE LockOrder'
  <2>1. \A u \in Task : task'[u].pc = task[u].pc
    BY <1>19 DEF Deliver, TypeOK, TaskState
  <2>2. QED BY <1>19, <2>1, LockKept DEF Deliver
<1>20. ASSUME task' = task, lockq' = lockq PROVE LockOrder'
  BY <1>20, LockKept
<1>21. CASE UNCHANGED vars
  BY <1>20, <1>21 DEF vars
<1>22. ASSUME NEW o \in PeerOffer, PeerReinvite(o) PROVE LockOrder'
  BY <1>20, <1>22 DEF PeerReinvite
<1>23. ASSUME NEW id \in 0 .. wire.cseq, NEW outcome \in Final, PeerNotify(id, outcome)
       PROVE  LockOrder'
  BY <1>20, <1>23 DEF PeerNotify
<1>24. CASE PeerBye \/ ReaderContinues
  BY <1>20, <1>24 DEF PeerBye, ReaderContinues, ReanswerKeyed, ReanswerSent,
                      ByeAnswered, ByeStops
<1>25. QED
  BY <1>5, <1>6, <1>7, <1>8, <1>9, <1>10, <1>11, <1>12, <1>13, <1>14, <1>15, <1>16,
     <1>17, <1>18, <1>19, <1>21, <1>22, <1>23, <1>24 DEF Next, VerbStep, OfferAnswered

\* The lock makes the verbs' exchanges exclusive.
LEMMA OneHolder ==
    ASSUME LockOrder, NEW t \in Task, NEW u \in Task,
           task[t].pc \in Holding, task[u].pc \in Holding
    PROVE  t = u
BY DEF LockOrder

----
(* Hold, resume and the media gate *)

\* A verb's step that is not part of an offer of ours, and leaves the gate and
\* the reader alone, keeps the agreement.
LEMMA AgreementKept ==
    ASSUME Agreement, NEW t \in Task, OthersStay(t),
           UNCHANGED <<reader, offerPending, onHold, held>>,
           ~Offering(t)', task'[t].pc # "rekey",
           task'[t].pc = "await" => task'[t].verb = "transfer"
    PROVE  Agreement'
BY DEF Agreement, ExchangeCovered, AnswerAlone, GateFollowsAnswer,
       GateFollowsAgreement, OthersStay, Offering

\* Sending an offer keeps it: the offer is pending and not yet answered.
LEMMA AgreementOffered ==
    ASSUME Agreement, NEW t \in Task, OthersStay(t),
           UNCHANGED <<reader, onHold, held>>, offerPending',
           task'[t].pc = "sent", task'[t].reply = "none"
    PROVE  Agreement'
BY DEF Agreement, ExchangeCovered, AnswerAlone, GateFollowsAnswer,
       GateFollowsAgreement, OthersStay, Offering

\* So does the end of an exchange: no other verb is in one.
LEMMA AgreementEnds ==
    ASSUME Agreement, LockOrder, NEW t \in Task, task[t].pc \in Holding,
           OthersStay(t), task'[t].pc = "idle",
           UNCHANGED reader,
           UNCHANGED <<onHold, held>> \/ (onHold' = held' /\ reader.pc # "answered")
    PROVE  Agreement'
<1>1. \A u \in Task \ {t} : ~Offering(u) /\ ~Offering(u)'
  BY OneHolder DEF Offering, Holding, OthersStay
<1>2. ~Offering(t)'
  BY DEF Offering
<1>3. QED
  BY <1>1, <1>2 DEF Agreement, ExchangeCovered, AnswerAlone, GateFollowsAnswer,
     GateFollowsAgreement, OthersStay

\* Every step keeps the media gate and the agreement of the two sides together.
LEMMA AgreementStep == TypeOK /\ LockOrder /\ Agreement /\ [Next]_vars => Agreement'
<1> SUFFICES ASSUME TypeOK, LockOrder, Agreement, [Next]_vars PROVE Agreement'
  OBVIOUS
<1>1. ASSUME NEW t \in Task, NEW v \in OfferVerb, Offer(t, v) PROVE Agreement'
  BY <1>1, TaskSends, AgreementOffered DEF Offer
<1>2. ASSUME NEW t \in Task, Reauthenticate(t) PROVE Agreement'
  <2>1. OthersStay(t) /\ task'[t].pc = "sent" /\ task'[t].reply = "none"
        /\ task'[t].verb = task[t].verb
    BY <1>2, TaskSends DEF Reauthenticate
  <2>2. CASE task[t].verb \in OfferVerb
    <3>1. offerPending'
      BY <1>2, <2>2 DEF Reauthenticate, Waiting, Agreement, ExchangeCovered, Offering
    <3>2. QED BY <1>2, <2>1, <3>1, AgreementOffered DEF Reauthenticate
  <2>3. CASE task[t].verb \notin OfferVerb
    BY <1>2, <2>1, <2>3, AgreementKept DEF Reauthenticate, Offering
  <2>4. QED BY <2>2, <2>3
<1>3. ASSUME NEW t \in Task, OfferRekeys(t) PROVE Agreement'
  <2>1. /\ OthersStay(t) /\ task'[t].pc = "rekey" /\ task'[t].verb = task[t].verb
        /\ Offering(t) /\ task[t].reply = "ok"
    BY <1>3 DEF OfferRekeys, OthersStay, TypeOK, TaskState, Waiting, Offering
  <2>2. offerPending /\ reader.pc \notin {"rekey", "answered"}
    BY <2>1 DEF Agreement, ExchangeCovered, AnswerAlone
  <2>3. QED BY <1>3, <2>1, <2>2 DEF OfferRekeys, Agreement, ExchangeCovered, AnswerAlone,
              GateFollowsAnswer, GateFollowsAgreement, OthersStay, Offering
<1>4. ASSUME NEW t \in Task, OfferConfirmed(t) \/ OfferKeyed(t) PROVE Agreement'
  <2>1. OfferSettles(t) /\ task[t].pc \in Holding
    BY <1>4 DEF OfferConfirmed, OfferKeyed, Waiting, Holding
  <2>2. reader.pc # "answered"
    BY <1>4 DEF OfferConfirmed, OfferKeyed, Waiting, Agreement, ExchangeCovered,
                AnswerAlone, Offering
  <2>3. onHold' = held' \/ UNCHANGED <<onHold, held>>
    BY <2>1 DEF OfferSettles
  <2>4. OthersStay(t) /\ task'[t].pc = "idle"
    BY <2>1, TaskReturns DEF OfferSettles
  <2>5. QED BY <2>1, <2>2, <2>3, <2>4, AgreementEnds DEF OfferSettles
<1>5. ASSUME NEW t \in Task, VerbRejected(t) \/ ResponseTimeout(t) \/ VerbAborted(t)
      PROVE  Agreement'
  <2>1. PICK result : VerbRaises(t, result)
    BY <1>5 DEF VerbRejected, ResponseTimeout, VerbAborted
  <2>2. OthersStay(t) /\ task'[t].pc = "idle"
    BY <2>1, TaskReturns DEF VerbRaises
  <2>3. CASE Offering(t)
    BY <2>1, <2>2, <2>3, AgreementEnds DEF VerbRaises, Offering, Holding
  <2>4. CASE ~Offering(t)
    <3>1. offerPending' = offerPending
      BY <1>5, <2>1, <2>4 DEF VerbRaises, VerbRejected, ResponseTimeout, VerbAborted,
            Waiting, Offering, Agreement, ExchangeCovered, TypeOK, OfferVerb
    <3>2. QED BY <2>1, <2>2, <3>1, AgreementKept DEF VerbRaises, Offering
  <2>5. QED BY <2>3, <2>4
<1>6. ASSUME NEW t \in Task, SendInfo(t) \/ NextInfo(t) \/ Refer(t) \/ ReferAgain(t)
      PROVE  Agreement'
  <2>1. /\ OthersStay(t) /\ task'[t].pc = "sent"
        /\ task'[t].verb \in {"info", "transfer"}
    BY <1>6, TaskSends DEF SendInfo, NextInfo, Refer, ReferAgain
  <2>2. QED BY <1>6, <2>1, AgreementKept
            DEF SendInfo, NextInfo, Refer, ReferAgain, Offering, OfferVerb
<1>7. ASSUME NEW t \in Task, InfoDone(t) \/ HangUpStops(t) \/ HangUpAfterEnd(t)
                             \/ ArmRefused(t) \/ ReferAcceptedReports(t)
                             \/ OutcomeWakes(t) \/ OutcomeDeadline(t)
      PROVE  Agreement'
  <2>1. /\ OthersStay(t) /\ task'[t].pc = "idle"
        /\ UNCHANGED <<reader, offerPending, onHold, held>>
    BY <1>7, TaskReturns DEF InfoDone, HangUpStops, HangUpAfterEnd, ArmRefused,
          ReferAcceptedReports, OutcomeWakes, OutcomeDeadline, Reports
  <2>2. QED BY <2>1, AgreementKept DEF Offering
<1>8. ASSUME NEW t \in Task, ReferAcceptedWaits(t) PROVE Agreement'
  <2>1. OthersStay(t) /\ task'[t].pc = "await" /\ task'[t].verb = "transfer"
    BY <1>8 DEF ReferAcceptedWaits, OthersStay, TypeOK, TaskState
  <2>2. QED BY <1>8, <2>1, AgreementKept DEF ReferAcceptedWaits, Offering
<1>9. ASSUME NEW t \in Task, HangUp(t) PROVE Agreement'
  <2>1. OthersStay(t) /\ task'[t].pc = "stopping"
    BY <1>9 DEF HangUp, OthersStay, TypeOK, TaskState
  <2>2. QED BY <1>9, <2>1, AgreementKept DEF HangUp, Offering
<1>10. ASSUME NEW t \in Task, NEW v \in Verb, WaitForLock(t, v) PROVE Agreement'
  <2>1. OthersStay(t) /\ task'[t].pc = "lock"
    BY <1>10, TaskWaits
  <2>2. QED BY <1>10, <2>1, AgreementKept DEF WaitForLock, Offering
<1>11. ASSUME NEW t \in Task, NEW r \in Reply, Deliver(t, r) PROVE Agreement'
  <2>1. \A u \in Task : task'[u].pc = task[u].pc /\ task'[u].verb = task[u].verb
    BY <1>11 DEF Deliver, TypeOK, TaskState
  <2>2. QED BY <1>11, <2>1 DEF Deliver, Agreement, ExchangeCovered, AnswerAlone,
              GateFollowsAnswer, GateFollowsAgreement, Offering
<1>12. ASSUME NEW o \in PeerOffer, PeerReinvite(o) PROVE Agreement'
  <2>1. \A t \in Task : ~Offering(t)
    BY <1>12 DEF PeerReinvite, Glare, Agreement, ExchangeCovered
  <2>2. reader'.pc \in {"rekey", "answered"} /\ reader'.offer = o
    <3>1. CASE Secured /\ o # "offerless"
      BY <1>12, <3>1 DEF PeerReinvite
    <3>2. CASE ~(Secured /\ o # "offerless")
      BY <1>12, <3>2 DEF PeerReinvite, Answers, IdleReader
    <3>3. QED BY <3>1, <3>2
  <2>3. onHold = held
    BY <1>12 DEF PeerReinvite, Agreement, GateFollowsAgreement
  <2>4. reader'.pc = "answered" =>
          held' = IF o = "offerless" THEN held ELSE HeldByPeer(o)
    BY <1>12 DEF PeerReinvite, Answers
  <2>5. reader'.pc # "answered" => held' = held
    BY <1>12 DEF PeerReinvite, Answers, IdleReader
  <2>6. UNCHANGED <<task, offerPending, onHold>>
    BY <1>12 DEF PeerReinvite
  <2>7. ExchangeCovered' /\ AnswerAlone'
    BY <2>1, <2>2, <2>6 DEF Agreement, ExchangeCovered, AnswerAlone, Offering
  <2>8. GateFollowsAnswer' /\ GateFollowsAgreement'
    BY <2>2, <2>3, <2>4, <2>5, <2>6 DEF GateFollowsAnswer, GateFollowsAgreement
  <2>9. QED BY <2>7, <2>8 DEF Agreement
<1>13. CASE ReanswerKeyed
  <2>1. reader'.pc = "answered" /\ reader'.offer = reader.offer
    BY <1>13 DEF ReanswerKeyed, Answers, IdleReader
  <2>2. onHold = held
    BY <1>13 DEF ReanswerKeyed, Agreement, GateFollowsAgreement
  <2>3. QED BY <1>13, <2>1, <2>2 DEF ReanswerKeyed, Answers, Agreement, ExchangeCovered,
              AnswerAlone, GateFollowsAnswer, GateFollowsAgreement, Offering
<1>14. CASE ReanswerSent
  <2>1. onHold' = held' /\ reader'.pc = "idle"
    BY <1>14 DEF ReanswerSent, IdleReader, Agreement, GateFollowsAnswer
  <2>2. QED BY <1>14, <2>1 DEF ReanswerSent, Agreement, ExchangeCovered,
              AnswerAlone, GateFollowsAnswer, GateFollowsAgreement, Offering
<1>15. CASE PeerBye \/ ByeAnswered \/ ByeStops
  <2>1. /\ reader.pc # "answered" /\ reader'.pc \notin {"rekey", "answered"}
        /\ UNCHANGED <<task, offerPending, onHold, held>>
    BY <1>15 DEF PeerBye, ByeAnswered, ByeStops, IdleReader
  <2>2. QED BY <2>1 DEF Agreement, ExchangeCovered, AnswerAlone, GateFollowsAnswer,
              GateFollowsAgreement, Offering
<1>16. ASSUME UNCHANGED <<task, reader, offerPending, onHold, held>> PROVE Agreement'
  BY <1>16 DEF Agreement, ExchangeCovered, AnswerAlone, GateFollowsAnswer,
        GateFollowsAgreement, Offering
<1>17. ASSUME NEW id \in 0 .. wire.cseq, NEW outcome \in Final, PeerNotify(id, outcome)
       PROVE  Agreement'
  BY <1>16, <1>17 DEF PeerNotify
<1>18. CASE UNCHANGED vars
  BY <1>16, <1>18 DEF vars
<1>19. QED
  BY <1>1, <1>2, <1>3, <1>4, <1>5, <1>6, <1>7, <1>8, <1>9, <1>10, <1>11, <1>12, <1>13,
     <1>14, <1>15, <1>17, <1>18 DEF Next, VerbStep, OfferAnswered, ReaderContinues

----
(* Transfers *)

\* A step of a task that has no transfer, and none of a transfer's state.
LEMMA TransfersKept ==
    ASSUME Transfers, NEW t \in Task, OthersStay(t), xfer' = xfer, ended' = ended,
           ~Transferring(t), ~Transferring(t)'
    PROVE  Transfers'
BY DEF Transfers, TransferOwnsLatch, ReportsOwned, OutcomeFromOwnRefer, LatchDecides,
       Transferring, OthersStay

\* A transfer that reports, or fails, disarms the latch it owns.
LEMMA TransfersDisarmed ==
    ASSUME TypeOK, Transfers, NEW t \in Task, OthersStay(t), task'[t].pc = "idle",
           ended' = ended, xfer.owner = t, xfer' = Disarmed
    PROVE  Transfers'
<1>1. xfer'.owner = NoTask /\ xfer'.outcome = "none"
  BY DEF Disarmed
<1>2. \A u \in Task : ~Transferring(u)'
  BY DEF Transfers, TransferOwnsLatch, Transferring, OthersStay
<1>3. QED
  BY <1>1, <1>2, ConstantsAssumption
     DEF Transfers, TransferOwnsLatch, ReportsOwned, OutcomeFromOwnRefer, LatchDecides,
         Transferring

\* The end of the call wakes the transfer that waits, and changes no outcome.
LEMMA TransfersWoken ==
    ASSUME TypeOK, Transfers, WakeTransferOnEnd,
           \A u \in Task : /\ Transferring(u)' = Transferring(u)
                           /\ task'[u].reply = task[u].reply
    PROVE  Transfers'
<1>1. /\ xfer'.owner = xfer.owner /\ xfer'.refer = xfer.refer
      /\ xfer'.cause = xfer.cause /\ xfer'.outcome = xfer.outcome
      /\ xfer.latched => xfer'.latched
      /\ xfer.owner # NoTask => xfer'.latched
  BY DEF WakeTransferOnEnd, TypeOK, TransferState
<1>2. QED
  BY <1>1 DEF Transfers, TransferOwnsLatch, ReportsOwned, OutcomeFromOwnRefer,
     LatchDecides, Transferring

\* Every step keeps the latch with its transfer.
LEMMA TransferStep ==
    TypeOK /\ LockOrder /\ Agreement /\ Transfers /\ [Next]_vars => Transfers'
<1> SUFFICES ASSUME TypeOK, LockOrder, Agreement, Transfers, [Next]_vars
             PROVE  Transfers'
  OBVIOUS
<1>1. ASSUME NEW t \in Task, NEW v \in Verb, Runs(t, v) PROVE ~Transferring(t)
  BY <1>1 DEF Runs, CallsVerb, Transferring
<1>2. ASSUME NEW t \in Task, NEW v \in OfferVerb, Offer(t, v) PROVE Transfers'
  <2>1. ~Transferring(t) /\ ~Transferring(t)'
    BY <1>1, <1>2, TaskSends DEF Offer, Transferring, Verb, OfferVerb
  <2>2. QED BY <1>2, <2>1, TaskSends, TransfersKept DEF Offer
<1>3. ASSUME NEW t \in Task, Reauthenticate(t) \/ SendInfo(t) \/ NextInfo(t)
      PROVE  Transfers'
  <2>1. ~Transferring(t)
    BY <1>1, <1>3 DEF Reauthenticate, SendInfo, NextInfo, Waiting, Transferring, Verb,
                      OfferVerb
  <2>2. OthersStay(t) /\ ~Transferring(t)'
    <3>1. OthersStay(t) /\ task'[t].pc = "sent"
          /\ task'[t].verb \in OfferVerb \cup {"info"}
      BY <1>3, TaskSends DEF Reauthenticate, SendInfo, NextInfo
    <3>2. QED BY <3>1 DEF Transferring, OfferVerb
  <2>3. QED BY <1>3, <2>1, <2>2, TransfersKept DEF Reauthenticate, SendInfo, NextInfo
<1>4. ASSUME NEW t \in Task, OfferConfirmed(t) \/ OfferKeyed(t) PROVE Transfers'
  <2>1. ~Transferring(t)
    BY <1>4 DEF OfferConfirmed, OfferKeyed, Waiting, Transferring, OfferVerb
  <2>2. OthersStay(t) /\ ~Transferring(t)'
    BY <1>4, TaskReturns DEF OfferConfirmed, OfferKeyed, OfferSettles, Transferring
  <2>3. QED BY <1>4, <2>1, <2>2, TransfersKept DEF OfferConfirmed, OfferKeyed, OfferSettles
<1>5. ASSUME NEW t \in Task, OfferRekeys(t) PROVE Transfers'
  <2>1. OthersStay(t) /\ task'[t].pc = "rekey"
    BY <1>5 DEF OfferRekeys, OthersStay, TypeOK, TaskState
  <2>2. ~Transferring(t)
    BY <1>5 DEF OfferRekeys, Waiting, Transferring, OfferVerb
  <2>3. QED BY <1>5, <2>1, <2>2, TransfersKept DEF OfferRekeys, Transferring
<1>6. ASSUME NEW t \in Task, VerbRejected(t) \/ ResponseTimeout(t) \/ VerbAborted(t)
      PROVE  Transfers'
  <2>1. PICK result : VerbRaises(t, result)
    BY <1>6 DEF VerbRejected, ResponseTimeout, VerbAborted
  <2>2. OthersStay(t) /\ task'[t].pc = "idle"
    BY <2>1, TaskReturns DEF VerbRaises
  <2>3. CASE xfer.owner = t
    BY <2>1, <2>2, <2>3, TransfersDisarmed DEF VerbRaises
  <2>4. CASE xfer.owner # t
    <3>1. ~Transferring(t) /\ ~Transferring(t)'
      BY <2>2, <2>4 DEF Transfers, TransferOwnsLatch, Transferring
    <3>2. QED BY <2>1, <2>2, <2>4, <3>1, TransfersKept DEF VerbRaises
  <2>5. QED BY <2>3, <2>4
<1>7. ASSUME NEW t \in Task, InfoDone(t) \/ HangUpStops(t) \/ HangUpAfterEnd(t)
                             \/ ArmRefused(t)
      PROVE  Transfers'
  <2>1. ~Transferring(t)
    BY <1>1, <1>7 DEF InfoDone, HangUpStops, HangUpAfterEnd, ArmRefused, Waiting,
                      Transferring, Verb
  <2>2. OthersStay(t) /\ ~Transferring(t)'
    BY <1>7, TaskReturns DEF InfoDone, HangUpStops, HangUpAfterEnd, ArmRefused, Transferring
  <2>3. QED BY <1>7, <2>1, <2>2, TransfersKept
            DEF InfoDone, HangUpStops, HangUpAfterEnd, ArmRefused
<1>8. ASSUME NEW t \in Task, Refer(t) PROVE Transfers'
  <2>1. /\ OthersStay(t) /\ task'[t].pc = "sent" /\ task'[t].verb = "transfer"
        /\ task'[t].reply = "none"
    BY <1>8, TaskSends DEF Refer
  <2>2. xfer.owner = NoTask /\ ~ended /\ ended' = ended
    BY <1>8 DEF Refer, RefusesToArm
  <2>3. /\ xfer'.owner = t /\ xfer'.refer = dialog.cseq + 1
        /\ xfer'.outcome = "none" /\ xfer'.cause = 0
    BY <1>8 DEF Refer, Disarmed
  <2>4. dialog.cseq + 1 > 0
    BY DEF TypeOK
  <2>5. TransferOwnsLatch'
    BY <2>1, <2>2, <2>3, ConstantsAssumption
       DEF Transfers, TransferOwnsLatch, Transferring, OthersStay
  <2>6. ReportsOwned'
    BY <2>1, <2>3, <2>4 DEF ReportsOwned, OutcomeFromOwnRefer
  <2>7. LatchDecides'
    BY <2>2, <2>3 DEF LatchDecides
  <2>8. QED BY <2>5, <2>6, <2>7 DEF Transfers
<1>9. ASSUME NEW t \in Task, ReferAgain(t) PROVE Transfers'
  <2>1. /\ OthersStay(t) /\ task'[t].pc = "sent" /\ task'[t].verb = "transfer"
        /\ task'[t].reply = "none"
    BY <1>9, TaskSends DEF ReferAgain
  <2>2. Transferring(t) /\ task[t].reply = "challenge"
    BY <1>9 DEF ReferAgain, Waiting, Transferring
  <2>3. xfer.owner = t
    BY <2>2 DEF Transfers, TransferOwnsLatch, Transferring
  <2>4. /\ xfer'.owner = t /\ xfer'.refer = dialog.cseq + 1
        /\ xfer'.outcome = xfer.outcome /\ xfer'.cause = xfer.cause
        /\ xfer'.latched = xfer.latched /\ ended' = ended
    BY <1>9, <2>3 DEF ReferAgain, TypeOK, TransferState
  <2>5. xfer.outcome # "none" => xfer.cause = 0
    BY <2>2, <2>3 DEF Transfers, ReportsOwned, OutcomeFromOwnRefer
  <2>6. dialog.cseq + 1 > 0
    BY DEF TypeOK
  <2>7. TransferOwnsLatch'
    BY <2>1, <2>3, <2>4 DEF Transfers, TransferOwnsLatch, Transferring, OthersStay
  <2>8. ReportsOwned'
    BY <2>1, <2>4, <2>5, <2>6 DEF ReportsOwned, OutcomeFromOwnRefer
  <2>9. LatchDecides'
    BY <2>3, <2>4, ConstantsAssumption DEF Transfers, LatchDecides
  <2>10. QED BY <2>7, <2>8, <2>9 DEF Transfers
<1>10. ASSUME NEW t \in Task, ReferAcceptedReports(t) \/ OutcomeWakes(t) \/ OutcomeDeadline(t)
       PROVE  Transfers'
  <2>1. PICK report : Reports(t, report)
    BY <1>10 DEF ReferAcceptedReports, OutcomeWakes, OutcomeDeadline
  <2>2. Transferring(t)
    BY <1>10 DEF ReferAcceptedReports, OutcomeWakes, OutcomeDeadline, Waiting, Transferring
  <2>3. xfer.owner = t
    BY <2>2 DEF Transfers, TransferOwnsLatch, Transferring
  <2>4. QED BY <2>1, <2>3, TaskReturns, TransfersDisarmed DEF Reports
<1>11. ASSUME NEW t \in Task, ReferAcceptedWaits(t) PROVE Transfers'
  <2>1. OthersStay(t) /\ task'[t].pc = "await" /\ task[t].reply = "ok"
        /\ task'[t].reply = "ok"
    BY <1>11 DEF ReferAcceptedWaits, OthersStay, TypeOK, TaskState, Waiting
  <2>2. Transferring(t) /\ Transferring(t)'
    BY <1>11, <2>1 DEF ReferAcceptedWaits, Waiting, Transferring
  <2>3. QED BY <1>11, <2>1, <2>2 DEF ReferAcceptedWaits, Transfers, TransferOwnsLatch,
              ReportsOwned, OutcomeFromOwnRefer, LatchDecides, Transferring, OthersStay
<1>12. ASSUME NEW t \in Task, HangUp(t) PROVE Transfers'
  <2>1. OthersStay(t) /\ task'[t].pc = "stopping" /\ task'[t].reply = task[t].reply
    BY <1>12 DEF HangUp, OthersStay, TypeOK, TaskState
  <2>2. ~Transferring(t) /\ ~Transferring(t)'
    BY <1>1, <1>12, <2>1 DEF HangUp, Transferring, Verb
  <2>3. \A u \in Task : Transferring(u)' = Transferring(u) /\ task'[u].reply = task[u].reply
    BY <2>1, <2>2 DEF OthersStay, Transferring
  <2>4. QED BY <1>12, <2>3, TransfersWoken DEF HangUp
<1>13. CASE ByeAnswered
  <2>1. \A u \in Task : Transferring(u)' = Transferring(u) /\ task'[u].reply = task[u].reply
    BY <1>13 DEF ByeAnswered, Transferring
  <2>2. QED BY <1>13, <2>1, TransfersWoken DEF ByeAnswered
<1>14. ASSUME NEW t \in Task, NEW v \in Verb, WaitForLock(t, v) PROVE Transfers'
  <2>1. ~Transferring(t)
    BY <1>14 DEF WaitForLock, CallsVerb, Transferring
  <2>2. OthersStay(t) /\ ~Transferring(t)'
    BY <1>14, TaskWaits DEF Transferring
  <2>3. QED BY <1>14, <2>1, <2>2, TransfersKept DEF WaitForLock
<1>15. ASSUME NEW t \in Task, NEW r \in Reply, Deliver(t, r) PROVE Transfers'
  <2>1. \A u \in Task : /\ Transferring(u)' = Transferring(u)
                        /\ u # t => task'[u].reply = task[u].reply
    BY <1>15 DEF Deliver, TypeOK, TaskState, Transferring
  <2>2. task'[t].reply = r
    BY <1>15 DEF Deliver, TypeOK, TaskState
  <2>3. TransferOwnsLatch'
    BY <1>15, <2>1 DEF Deliver, Transfers, TransferOwnsLatch, Transferring
  <2>4. QED BY <1>15, <2>1, <2>2, <2>3 DEF Deliver, Transfers, ReportsOwned,
              OutcomeFromOwnRefer, LatchDecides
<1>16. ASSUME NEW id \in 0 .. wire.cseq, NEW outcome \in Final, PeerNotify(id, outcome)
       PROVE  Transfers'
  <2>1. /\ xfer'.owner = xfer.owner /\ xfer'.refer = xfer.refer
        /\ xfer'.cause = id /\ xfer'.latched
    BY <1>16 DEF PeerNotify, TypeOK, TransferState
  <2>2. id = 0 \/ id = xfer.refer
    BY <1>16 DEF PeerNotify, MatchesActive
  <2>3. TransferOwnsLatch'
    BY <1>16, <2>1 DEF PeerNotify, Transfers, TransferOwnsLatch
  <2>4. ReportsOwned'
    BY <1>16, <2>1, <2>2 DEF PeerNotify, Transfers, ReportsOwned, OutcomeFromOwnRefer
  <2>5. QED BY <2>1, <2>3, <2>4 DEF Transfers, LatchDecides
<1>17. ASSUME UNCHANGED <<task, xfer, ended>> PROVE Transfers'
  BY <1>17 DEF Transfers, TransferOwnsLatch, ReportsOwned, OutcomeFromOwnRefer, LatchDecides
<1>18. ASSUME NEW o \in PeerOffer, PeerReinvite(o) PROVE Transfers'
  BY <1>17, <1>18 DEF PeerReinvite
<1>19. CASE PeerBye \/ ReanswerKeyed \/ ReanswerSent \/ ByeStops \/ UNCHANGED vars
  BY <1>17, <1>19 DEF PeerBye, ReanswerKeyed, ReanswerSent, ByeStops, vars
<1>20. QED
  BY <1>2, <1>3, <1>4, <1>5, <1>6, <1>7, <1>8, <1>9, <1>10, <1>11, <1>12, <1>13, <1>14,
     <1>15, <1>16, <1>18, <1>19 DEF Next, VerbStep, OfferAnswered, ReaderContinues

----
(* CSeq and SDP version numbers *)

\* A verb's request takes the next numbers.
LEMMA NumbersAdvance ==
    ASSUME TypeOK, Numbers, NEW t, NEW v, NEW dir, NEW retry, Sends(t, v, dir, retry),
           reader' = reader
    PROVE  Numbers'
<1>1. /\ dialog.cseq \in Nat /\ dialog.version \in Nat
      /\ wire.offers \in Nat /\ wire.answers \in Nat
  BY DEF TypeOK
<1>2. /\ dialog'.cseq = dialog.cseq + 1
      /\ wire'.cseq = Larger(wire.cseq, dialog.cseq + 1)
      /\ wire'.requests = wire.requests + 1
  BY DEF Sends, Advanced
<1>3. dialog'.cseq = wire'.cseq /\ wire'.cseq = wire'.requests
  BY <1>1, <1>2 DEF Numbers, Larger
<1>4. CASE v \in OfferVerb
  <2>1. /\ dialog'.version = dialog.version + 1
        /\ wire'.version = Larger(wire.version, dialog.version + 1)
        /\ wire'.offers = wire.offers + 1 /\ wire'.answers = wire.answers
    BY <1>4 DEF Sends, Advanced
  <2>2. QED BY <1>1, <1>3, <2>1 DEF Numbers, Larger
<1>5. CASE v \notin OfferVerb
  <2>1. /\ dialog'.version = dialog.version
        /\ wire'.version = Larger(wire.version, dialog.version)
        /\ wire'.offers = wire.offers + 0 /\ wire'.answers = wire.answers
    BY <1>5 DEF Sends, Advanced
  <2>2. QED BY <1>1, <1>3, <2>1 DEF Numbers, Larger
<1>6. QED BY <1>4, <1>5

\* No step of a plain call reuses a number.
LEMMA NumbersStep ==
    ASSUME ~Secured, TypeOK, Numbers, [Next]_vars
    PROVE  Numbers'
<1>1. ASSUME NEW t \in Task, NEW v \in OfferVerb, Offer(t, v) PROVE Numbers'
  BY <1>1, NumbersAdvance DEF Offer
<1>2. ASSUME NEW t \in Task, Reauthenticate(t) \/ SendInfo(t) \/ NextInfo(t)
                             \/ Refer(t) \/ ReferAgain(t)
      PROVE  Numbers'
  BY <1>2, NumbersAdvance DEF Reauthenticate, SendInfo, NextInfo, Refer, ReferAgain
<1>3. ASSUME NEW t \in Task, HangUp(t) PROVE Numbers'
  <2>1. /\ dialog.cseq \in Nat /\ dialog'.version = dialog.version
        /\ dialog'.cseq = dialog.cseq + 1
        /\ wire'.cseq = Larger(wire.cseq, dialog.cseq + 1)
        /\ wire'.requests = wire.requests + 1 /\ wire'.version = wire.version
        /\ wire'.offers = wire.offers /\ wire'.answers = wire.answers
        /\ reader' = reader
    BY <1>3 DEF HangUp, TypeOK
  <2>2. QED BY <2>1 DEF Numbers, Larger
<1>4. ASSUME NEW o \in PeerOffer, PeerReinvite(o) PROVE Numbers'
  <2>1. Answers(o, [dialog EXCEPT !.version = @ + 1])
    BY <1>4 DEF PeerReinvite
  <2>2. /\ dialog'.cseq = dialog.cseq /\ dialog'.version = dialog.version + 1
        /\ reader'.pc = "answered"
    BY <2>1 DEF Answers, IdleReader, TypeOK
  <2>3. /\ wire'.answers = wire.answers + 1 /\ wire'.offers = wire.offers
        /\ wire'.version = Larger(wire.version, dialog.version + 1)
        /\ wire'.cseq = wire.cseq /\ wire'.requests = wire.requests
    BY <2>1 DEF Answers, TypeOK
  <2>4. wire.answers \in Nat /\ wire.offers \in Nat
    BY DEF TypeOK
  <2>5. QED BY <2>2, <2>3, <2>4 DEF Numbers, Larger
<1>5. ASSUME UNCHANGED <<dialog, wire>>, reader'.pc # "rekey" PROVE Numbers'
  BY <1>5 DEF Numbers
<1>6. ASSUME NEW t \in Task, OfferConfirmed(t) \/ OfferRekeys(t) \/ OfferKeyed(t)
                             \/ VerbRejected(t) \/ ResponseTimeout(t) \/ VerbAborted(t)
      PROVE  Numbers'
  BY <1>5, <1>6 DEF OfferConfirmed, OfferRekeys, OfferKeyed, OfferSettles, VerbRejected,
        ResponseTimeout, VerbAborted, VerbRaises, Numbers
<1>7. ASSUME NEW t \in Task, InfoDone(t) \/ ArmRefused(t) \/ ReferAcceptedReports(t)
                             \/ ReferAcceptedWaits(t) \/ OutcomeWakes(t)
                             \/ OutcomeDeadline(t) \/ HangUpAfterEnd(t) \/ HangUpStops(t)
      PROVE  Numbers'
  BY <1>5, <1>7 DEF InfoDone, ArmRefused, ReferAcceptedReports, ReferAcceptedWaits, Reports,
        OutcomeWakes, OutcomeDeadline, HangUpAfterEnd, HangUpStops, Numbers
<1>8. ASSUME NEW t \in Task, NEW v \in Verb, WaitForLock(t, v) PROVE Numbers'
  BY <1>5, <1>8 DEF WaitForLock, Numbers
<1>9. ASSUME NEW t \in Task, NEW r \in Reply, Deliver(t, r) PROVE Numbers'
  BY <1>5, <1>9 DEF Deliver, Numbers
<1>10. ASSUME NEW id \in 0 .. wire.cseq, NEW outcome \in Final, PeerNotify(id, outcome)
       PROVE  Numbers'
  BY <1>5, <1>10 DEF PeerNotify, Numbers
<1>11. CASE PeerBye \/ ReaderContinues \/ UNCHANGED vars
  BY <1>5, <1>11 DEF PeerBye, ReaderContinues, ReanswerKeyed, ReanswerSent, ByeAnswered,
        ByeStops, IdleReader, Numbers, vars
<1>12. QED
  BY <1>1, <1>2, <1>3, <1>4, <1>6, <1>7, <1>8, <1>9, <1>10, <1>11 DEF Next, VerbStep, OfferAnswered

----
(* The theorems *)

\* The session starts idle, with the lock free and no transfer armed.
LEMMA InitIInv == Init => IInv /\ Numbers
<1> SUFFICES ASSUME Init PROVE IInv /\ Numbers
  OBVIOUS
<1>1. TypeOK
  <2>1. IdleTask \in TaskState
    BY DEF IdleTask, TaskState, Result
  <2>2. Disarmed \in TransferState
    BY DEF Disarmed, TransferState
  <2>3. IdleReader \in ReaderState
    BY DEF IdleReader, ReaderState
  <2>4. task \in [Task -> TaskState] /\ lockq \in Seq(Task)
    BY <2>1 DEF Init
  <2>5. /\ dialog \in [cseq : Nat, version : Nat]
        /\ wire \in [requests : Nat, cseq : Nat, offers : Nat, answers : Nat, version : Nat]
    BY DEF Init
  <2>6. QED BY <2>2, <2>3, <2>4, <2>5 DEF Init, TypeOK
<1>2. \A t \in Task : task[t].pc = "idle" /\ task[t].reply = "none"
  BY DEF Init, IdleTask
<1>3. LockOrder
  BY <1>2 DEF LockOrder, Holding
<1>4. Agreement
  BY <1>2 DEF Init, IdleReader, Agreement, ExchangeCovered, AnswerAlone,
     GateFollowsAnswer, GateFollowsAgreement, Offering
<1>5. Transfers
  BY <1>2, ConstantsAssumption DEF Init, Disarmed, Transfers, TransferOwnsLatch,
     ReportsOwned, OutcomeFromOwnRefer, LatchDecides
<1>6. Numbers
  BY DEF Init, IdleReader, Numbers
<1>7. QED BY <1>1, <1>3, <1>4, <1>5, <1>6 DEF IInv

\* The invariant holds in every state of every session.
THEOREM Invariance == Spec => []IInv
<1>1. Init => IInv
  BY InitIInv
<1>2. IInv /\ [Next]_vars => IInv'
  BY TypeStep, LockStep, AgreementStep, TransferStep DEF IInv, Agreement
<1>3. QED BY <1>1, <1>2, PTL DEF Spec

\* Every variable of the session keeps its type.
THEOREM TypeCorrect == Spec => []TypeOK
<1>1. IInv => TypeOK
  BY DEF IInv
<1>2. QED BY <1>1, Invariance, PTL

\* However many tasks run verbs, one has a request outstanding at a time.
THEOREM OneVerbAtATime == Spec => []OneVerbOutstanding
<1>1. IInv => OneVerbOutstanding
  BY OneHolder DEF IInv, OneVerbOutstanding, Holding
<1>2. QED BY <1>1, Invariance, PTL

\* Hold and resume by the verbs, under the lock, and by the peer, through the
\* reader that takes no lock, never leave the media gate out of step.
THEOREM GateCorrect == Spec => []GateFollowsAgreement
<1>1. IInv => GateFollowsAgreement
  BY DEF IInv, Agreement
<1>2. QED BY <1>1, Invariance, PTL

\* A verb and the reader never re-key the engine at the same time.
THEOREM RekeysExclude == Spec => []RekeyExclusive
<1>1. IInv => RekeyExclusive
  BY DEF IInv, Agreement, ExchangeCovered, AnswerAlone, Offering, RekeyExclusive
<1>2. QED BY <1>1, Invariance, PTL

\* The armed outcome is the one transfer's that is in progress.
THEOREM LatchOwned == Spec => []TransferOwnsLatch
<1>1. IInv => TransferOwnsLatch
  BY DEF IInv, Transfers
<1>2. QED BY <1>1, Invariance, PTL

\* A report that names another REFER never reaches the transfer.
THEOREM OutcomeOwned == Spec => []OutcomeFromOwnRefer
<1>1. IInv => OutcomeFromOwnRefer
  BY DEF IInv, Transfers, ReportsOwned
<1>2. QED BY <1>1, Invariance, PTL

\* Exchanges exclude each other: one verb's another's, and a verb's re-key the reader's.
THEOREM ExchangesExclude == Spec => []VerbsExclude
<1>1. OneVerbOutstanding /\ RekeyExclusive => VerbsExclude
  BY DEF VerbsExclude
<1>2. QED BY <1>1, OneVerbAtATime, RekeysExclude, PTL

\* A transfer's outcome state is its own, and what it holds is its own REFER's.
THEOREM LatchIsKept == Spec => []LatchKept
<1>1. TransferOwnsLatch /\ OutcomeFromOwnRefer => LatchKept
  BY DEF LatchKept
<1>2. QED BY <1>1, LatchOwned, OutcomeOwned, PTL

\* On a plain call no CSeq and no SDP version is ever used twice.
THEOREM PlainNumbersUnique ==
    ASSUME ~Secured
    PROVE  Spec => []NoNumberReused
<1>1. Init => Numbers
  BY InitIInv
<1>2. IInv /\ Numbers /\ [Next]_vars => Numbers'
  BY NumbersStep DEF IInv
<1>3. Numbers => NoNumberReused
  BY DEF Numbers, NoNumberReused
<1>4. QED BY <1>1, <1>2, <1>3, Invariance, PTL DEF Spec

----
(* CallSession implements TransferPromise: each step of a session is a step of *)
(* the promise, or leaves its outcomes as they are                             *)

\* The outcomes are read pointwise.
LEMMA OutcomeOf ==
    /\ \A t \in Task :
         PromisedOutcome[t] =
           IF xfer.owner = t
             THEN IF ~xfer.latched THEN "waiting"
                  ELSE IF xfer.outcome = "none" THEN "ended" ELSE xfer.outcome
             ELSE IF task[t].result \in Final THEN task[t].result
             ELSE IF task[t].result = "CALL_ENDED" THEN "ended"
             ELSE IF task[t].result \in Report THEN "unknown" ELSE "idle"
    /\ \A t \in Task :
         PromisedOutcome'[t] =
           IF xfer'.owner = t
             THEN IF ~xfer'.latched THEN "waiting"
                  ELSE IF xfer'.outcome = "none" THEN "ended" ELSE xfer'.outcome
             ELSE IF task'[t].result \in Final THEN task'[t].result
             ELSE IF task'[t].result = "CALL_ENDED" THEN "ended"
             ELSE IF task'[t].result \in Report THEN "unknown" ELSE "idle"
BY DEF PromisedOutcome

\* A step that changes the outcome of one task at most.
LEMMA OneOutcome ==
    ASSUME NEW t \in Task,
           \A u \in Task \ {t} : PromisedOutcome'[u] = PromisedOutcome[u]
    PROVE  PromisedOutcome' = [PromisedOutcome EXCEPT ![t] = PromisedOutcome'[t]]
<1>1. PromisedOutcome = [u \in Task |-> PromisedOutcome[u]]
  BY DEF PromisedOutcome
<1>2. PromisedOutcome' = [u \in Task |-> PromisedOutcome'[u]]
  BY DEF PromisedOutcome
<1>3. QED BY <1>1, <1>2

\* A step that changes no outcome.
LEMMA NoOutcome ==
    ASSUME \A u \in Task : PromisedOutcome'[u] = PromisedOutcome[u]
    PROVE  PromisedOutcome' = PromisedOutcome
BY DEF PromisedOutcome

\* The other tasks' outcomes do not depend on the task that moves.
LEMMA OthersOutcome ==
    ASSUME NEW t \in Task, OthersStay(t),
           xfer' = xfer \/ (xfer.owner \in {t, NoTask} /\ xfer'.owner \in {t, NoTask})
    PROVE  \A u \in Task \ {t} : PromisedOutcome'[u] = PromisedOutcome[u]
BY OutcomeOf, ConstantsAssumption DEF OthersStay

\* A task that is not transferring, and is left without a report, forgets.
LEMMA Forgets ==
    ASSUME NEW t \in Task, OthersStay(t), ended' = ended, xfer'.owner # t,
           xfer' = xfer \/ (xfer.owner = t /\ xfer'.owner = NoTask),
           task'[t].result \notin Report
    PROVE  Promised!Forget(t)
<1>1. PromisedOutcome'[t] = "idle"
  BY OutcomeOf DEF Report
<1>2. QED BY <1>1, OthersOutcome, OneOutcome DEF Promised!Forget

\* A verb that sends has no result yet.
LEMMA SendsResult ==
    ASSUME TypeOK, NEW t \in Task, NEW v, NEW dir, NEW retry, Sends(t, v, dir, retry)
    PROVE  OthersStay(t) /\ task'[t].result = "none"
<1>1. \E rec : rec.result = "none" /\ task' = [task EXCEPT ![t] = rec]
  BY DEF Sends
<1>2. QED BY <1>1, TaskMoves

----
\* What the promise sees of a step: one of its own steps, or nothing.
Keeps == Promised!PromiseNext \/ UNCHANGED <<ended, PromisedOutcome>>

\* A verb with no transfer, or one that fails, at most forgets a report.
LEMMA ForgettingSteps ==
    ASSUME IInv, NEW t \in Task,
           \/ \E v \in OfferVerb : Offer(t, v)
           \/ Reauthenticate(t) \/ OfferConfirmed(t) \/ OfferKeyed(t)
           \/ VerbRejected(t) \/ ResponseTimeout(t) \/ VerbAborted(t)
           \/ SendInfo(t) \/ NextInfo(t) \/ InfoDone(t)
           \/ ArmRefused(t) \/ HangUpAfterEnd(t) \/ HangUpStops(t)
           \/ \E v \in Verb : WaitForLock(t, v)
    PROVE  Keeps
<1> USE DEF IInv
<1>1. \A r \in {"none", "error", "cut", "succeeded"} \cup RefreshOutcome : r \notin Report
  BY DEF RefreshOutcome, Report, Final
<1>2. ASSUME NEW result \in {"none", "error", "cut", "succeeded"} \cup RefreshOutcome,
             VerbRaises(t, result)
      PROVE  Promised!Forget(t)
  <2>1. OthersStay(t) /\ task'[t].result = result /\ ended' = ended
    BY <1>2, TaskReturns DEF VerbRaises
  <2>2. CASE xfer.owner = t
    <3>1. xfer'.owner = NoTask /\ NoTask # t
      BY <1>2, <2>2, ConstantsAssumption DEF VerbRaises, Disarmed
    <3>2. QED BY <1>1, <2>1, <2>2, <3>1, Forgets
  <2>3. CASE xfer.owner # t
    BY <1>1, <1>2, <2>1, <2>3, Forgets DEF VerbRaises
  <2>4. QED BY <2>2, <2>3
<1>3. CASE VerbRejected(t) \/ ResponseTimeout(t) \/ VerbAborted(t)
  <2>1. \A reply : RefreshFailure(reply) \in {"error"} \cup RefreshOutcome
    BY DEF RefreshFailure, RefreshOutcome
  <2>2. PICK result \in {"none", "error", "cut", "succeeded"} \cup RefreshOutcome :
          VerbRaises(t, result)
    BY <1>3, <2>1 DEF VerbRejected, ResponseTimeout, VerbAborted
  <2>3. QED BY <1>2, <2>2 DEF Keeps, Promised!PromiseNext
<1>4. ASSUME OthersStay(t), ended' = ended, xfer' = xfer, ~Transferring(t),
             task'[t].result \notin Report
      PROVE  Keeps
  <2>1. xfer.owner # t
    BY <1>4 DEF Transfers, TransferOwnsLatch, Transferring
  <2>2. QED BY <1>4, <2>1, Forgets DEF Keeps, Promised!PromiseNext
<1>5. \A v \in Verb : Runs(t, v) => ~Transferring(t)
  BY DEF Runs, CallsVerb, Transferring
<1>6. ASSUME NEW v \in OfferVerb, Offer(t, v) PROVE Keeps
  <2>1. OthersStay(t) /\ task'[t].result = "none"
    BY <1>6, SendsResult DEF Offer
  <2>2. ~Transferring(t)
    BY <1>5, <1>6 DEF Offer, Verb
  <2>3. QED BY <1>1, <1>4, <1>6, <2>1, <2>2 DEF Offer
<1>7. CASE Reauthenticate(t) \/ SendInfo(t) \/ NextInfo(t)
  <2>1. OthersStay(t) /\ task'[t].result = "none"
    BY <1>7, SendsResult DEF Reauthenticate, SendInfo, NextInfo
  <2>2. ~Transferring(t)
    BY <1>5, <1>7 DEF Reauthenticate, SendInfo, NextInfo, Waiting, Transferring, Verb,
                      OfferVerb
  <2>3. QED BY <1>1, <1>4, <1>7, <2>1, <2>2 DEF Reauthenticate, SendInfo, NextInfo
<1>8. CASE OfferConfirmed(t) \/ OfferKeyed(t)
  <2>1. OthersStay(t) /\ task'[t].result \in {"none", "succeeded"}
    BY <1>8, TaskReturns DEF OfferConfirmed, OfferKeyed, OfferSettles
  <2>2. ~Transferring(t)
    BY <1>8 DEF OfferConfirmed, OfferKeyed, Waiting, Transferring, OfferVerb
  <2>3. QED BY <1>1, <1>4, <1>8, <2>1, <2>2 DEF OfferConfirmed, OfferKeyed, OfferSettles
<1>9. CASE InfoDone(t) \/ ArmRefused(t) \/ HangUpAfterEnd(t) \/ HangUpStops(t)
  <2>1. OthersStay(t) /\ task'[t].result \in {"none", "error"}
    BY <1>9, TaskReturns DEF InfoDone, ArmRefused, HangUpAfterEnd, HangUpStops
  <2>2. ~Transferring(t)
    BY <1>5, <1>9 DEF InfoDone, ArmRefused, HangUpAfterEnd, HangUpStops, Waiting,
                      Transferring, Verb
  <2>3. QED BY <1>1, <1>4, <1>9, <2>1, <2>2
            DEF InfoDone, ArmRefused, HangUpAfterEnd, HangUpStops
<1>10. ASSUME NEW v \in Verb, WaitForLock(t, v) PROVE Keeps
  <2>1. OthersStay(t) /\ task'[t].result = "none" /\ ~Transferring(t)
    BY <1>10, TaskWaits DEF WaitForLock, CallsVerb, Transferring
  <2>2. QED BY <1>1, <1>4, <1>10, <2>1 DEF WaitForLock
<1>11. QED BY <1>3, <1>6, <1>7, <1>8, <1>9, <1>10

\* A transfer begins, decides, gives up or reports as the promise says.
LEMMA TransferringSteps ==
    ASSUME IInv, NEW t \in Task,
           \/ Refer(t) \/ ReferAgain(t) \/ ReferAcceptedReports(t)
           \/ ReferAcceptedWaits(t) \/ OutcomeWakes(t) \/ OutcomeDeadline(t)
    PROVE  Keeps
<1> USE DEF IInv
<1>1. ASSUME Refer(t) PROVE Promised!Begin(t)
  <2>1. OthersStay(t) /\ ~ended /\ ended' = ended /\ xfer.owner = NoTask
        /\ xfer'.owner = t /\ ~xfer'.latched
    BY <1>1, TaskSends DEF Refer, RefusesToArm, Disarmed
  <2>2. \A u \in Task : PromisedOutcome[u] # "waiting"
    BY <2>1, OutcomeOf, ConstantsAssumption DEF Final
  <2>3. PromisedOutcome'[t] = "waiting"
    BY <2>1, OutcomeOf
  <2>4. QED BY <2>1, <2>2, <2>3, OthersOutcome, OneOutcome DEF Promised!Begin
<1>2. ASSUME Transferring(t) PROVE xfer.owner = t
  BY <1>2 DEF Transfers, TransferOwnsLatch, Transferring
<1>3. ASSUME OthersStay(t), xfer.owner = t, xfer'.owner = t, ended' = ended,
             xfer'.latched = xfer.latched, xfer'.outcome = xfer.outcome
      PROVE  UNCHANGED <<ended, PromisedOutcome>>
  <2>1. PromisedOutcome'[t] = PromisedOutcome[t]
    BY <1>3, OutcomeOf
  <2>2. QED BY <1>3, <2>1, OthersOutcome, NoOutcome
<1>4. CASE ReferAgain(t)
  <2>1. OthersStay(t) /\ xfer.owner = t
    BY <1>2, <1>4, TaskSends DEF ReferAgain, Waiting, Transferring
  <2>2. /\ xfer'.owner = t /\ ended' = ended
        /\ xfer'.latched = xfer.latched /\ xfer'.outcome = xfer.outcome
    BY <1>4, <2>1 DEF ReferAgain, TypeOK, TransferState
  <2>3. QED BY <1>3, <2>1, <2>2 DEF Keeps
<1>5. CASE ReferAcceptedWaits(t)
  <2>1. OthersStay(t) /\ xfer.owner = t
    BY <1>2, <1>5 DEF ReferAcceptedWaits, Waiting, Transferring, OthersStay, TypeOK
  <2>2. QED BY <1>3, <1>5, <2>1 DEF ReferAcceptedWaits, Keeps
<1>6. ASSUME NEW unknown \in {"TIMEOUT", "WAIT_DISABLED", "SUBSCRIPTION_DECLINED"},
             Reports(t, LatchedOr(unknown)), xfer.owner = t
      PROVE  Keeps
  <2>1. /\ OthersStay(t) /\ task'[t].result = LatchedOr(unknown) /\ ended' = ended
        /\ xfer'.owner = NoTask /\ NoTask # t
    BY <1>6, TaskReturns, ConstantsAssumption DEF Reports, Disarmed
  <2>2. \A u \in Task \ {t} : PromisedOutcome'[u] = PromisedOutcome[u]
    BY <1>6, <2>1, OthersOutcome
  <2>3. CASE xfer.latched
    <3>1. CASE xfer.outcome = "none"
      <4>1. LatchedOr(unknown) = "CALL_ENDED"
        BY <2>3, <3>1 DEF LatchedOr
      <4>2. PromisedOutcome'[t] = "ended" /\ PromisedOutcome[t] = "ended"
        BY <1>6, <2>1, <2>3, <3>1, <4>1, OutcomeOf DEF Final
      <4>3. QED BY <2>1, <2>2, <4>2, NoOutcome DEF Keeps
    <3>2. CASE xfer.outcome # "none"
      <4>1. LatchedOr(unknown) = xfer.outcome /\ xfer.outcome \in Final
        BY <2>3, <3>2 DEF LatchedOr, TypeOK, TransferState
      <4>2. PromisedOutcome'[t] = xfer.outcome /\ PromisedOutcome[t] = xfer.outcome
        BY <1>6, <2>1, <2>3, <3>2, <4>1, OutcomeOf
      <4>3. QED BY <2>1, <2>2, <4>2, NoOutcome DEF Keeps
    <3>3. QED BY <3>1, <3>2
  <2>4. CASE ~xfer.latched
    <3>1. ~ended /\ PromisedOutcome[t] = "waiting"
      BY <1>6, <2>1, <2>4, OutcomeOf DEF Transfers, LatchDecides
    <3>2. LatchedOr(unknown) = unknown
      BY <2>4 DEF LatchedOr
    <3>3. PromisedOutcome'[t] = "unknown"
      BY <2>1, <3>2, OutcomeOf DEF Report, Final
    <3>4. Promised!GiveUp(t)
      BY <2>1, <2>2, <3>1, <3>3, OneOutcome DEF Promised!GiveUp
    <3>5. QED BY <3>4 DEF Keeps, Promised!PromiseNext
  <2>5. QED BY <2>3, <2>4
<1>7. CASE ReferAcceptedReports(t)
  BY <1>2, <1>6, <1>7 DEF ReferAcceptedReports, Waiting, Transferring
<1>8. CASE OutcomeWakes(t) \/ OutcomeDeadline(t)
  BY <1>2, <1>6, <1>8 DEF OutcomeWakes, OutcomeDeadline, Transferring
<1>9. QED BY <1>1, <1>4, <1>5, <1>7, <1>8 DEF Keeps, Promised!PromiseNext

\* The call ends once, for every transfer that waits.
LEMMA EndingSteps ==
    ASSUME IInv, WakeTransferOnEnd, ended',
           \A u \in Task : task'[u].result = task[u].result
    PROVE  Keeps
<1> USE DEF IInv
<1>1. /\ xfer'.owner = xfer.owner /\ xfer'.outcome = xfer.outcome
      /\ xfer.owner # NoTask => xfer'.latched
      /\ ~xfer.latched => xfer.outcome = "none"
  BY DEF WakeTransferOnEnd, TypeOK, TransferState, Transfers, LatchDecides
<1>2. \A u \in Task :
        PromisedOutcome'[u] = IF PromisedOutcome[u] = "waiting" THEN "ended"
                                                                ELSE PromisedOutcome[u]
  <2>1. ASSUME NEW u \in Task, xfer.owner = u
        PROVE  PromisedOutcome'[u] = IF PromisedOutcome[u] = "waiting" THEN "ended"
                                                                       ELSE PromisedOutcome[u]
    <3>1. xfer'.owner = u /\ xfer'.latched
      BY <1>1, <2>1, ConstantsAssumption
    <3>2. PromisedOutcome'[u] = IF xfer.outcome = "none" THEN "ended" ELSE xfer.outcome
      BY <1>1, <3>1, OutcomeOf
    <3>3. xfer.outcome # "waiting"
      BY DEF TypeOK, TransferState, Final
    <3>4. QED BY <1>1, <2>1, <3>2, <3>3, OutcomeOf
  <2>2. ASSUME NEW u \in Task, xfer.owner # u
        PROVE  PromisedOutcome'[u] = PromisedOutcome[u] /\ PromisedOutcome[u] # "waiting"
    BY <1>1, <2>2, OutcomeOf DEF Final
  <2>3. QED BY <2>1, <2>2
<1>3. Promised!CallEnds
  <2>1. PromisedOutcome' = [u \in Task |-> PromisedOutcome'[u]]
    BY DEF PromisedOutcome
  <2>2. QED BY <1>2, <2>1 DEF Promised!CallEnds
<1>4. QED BY <1>3 DEF Keeps, Promised!PromiseNext

\* The peer's report decides the transfer that waits, on a live call.
LEMMA ReportingStep ==
    ASSUME IInv, NEW id, NEW outcome \in Final, PeerNotify(id, outcome)
    PROVE  Keeps
<1> USE DEF IInv
<1>1. PICK t \in Task : t = xfer.owner
  BY DEF PeerNotify, TypeOK, TransferState
<1>2. ~xfer.latched /\ ~ended /\ ended' = ended /\ task' = task
  BY <1>1, ConstantsAssumption DEF PeerNotify, Transfers, LatchDecides
<1>3. xfer'.owner = t /\ xfer'.latched /\ xfer'.outcome = outcome /\ outcome # "none"
  BY <1>1 DEF PeerNotify, TypeOK, TransferState, Final
<1>4. PromisedOutcome[t] = "waiting" /\ PromisedOutcome'[t] = outcome
  BY <1>1, <1>2, <1>3, OutcomeOf
<1>5. OthersStay(t)
  BY <1>2 DEF OthersStay
<1>6. \A u \in Task \ {t} : PromisedOutcome'[u] = PromisedOutcome[u]
  BY <1>1, <1>3, <1>5, OthersOutcome
<1>7. Promised!Decide(t, outcome)
  BY <1>2, <1>4, <1>6, OneOutcome DEF Promised!Decide
<1>8. QED BY <1>7 DEF Keeps, Promised!PromiseNext, Final, Promised!Reported

\* Nothing else is seen by the promise.
LEMMA SilentSteps ==
    ASSUME IInv,
           \/ \E t \in Task : OfferRekeys(t) \/ \E r \in Reply : Deliver(t, r)
           \/ \E o \in PeerOffer : PeerReinvite(o)
           \/ PeerBye \/ ReanswerKeyed \/ ReanswerSent \/ ByeStops
           \/ UNCHANGED vars
    PROVE  Keeps
<1> USE DEF IInv
<1>1. xfer' = xfer /\ ended' = ended
  BY DEF OfferRekeys, Deliver, PeerReinvite, PeerBye, ReanswerKeyed, ReanswerSent,
     ByeStops, vars
<1>2. \A u \in Task : task'[u].result = task[u].result
  <2>1. ASSUME NEW t \in Task, OfferRekeys(t) \/ \E r \in Reply : Deliver(t, r)
        PROVE  \A u \in Task : task'[u].result = task[u].result
    <3>1. CASE OfferRekeys(t)
      BY <3>1 DEF OfferRekeys, TypeOK, TaskState
    <3>2. ASSUME NEW r \in Reply, Deliver(t, r)
          PROVE  \A u \in Task : task'[u].result = task[u].result
      BY <3>2 DEF Deliver, TypeOK, TaskState
    <3>3. QED BY <2>1, <3>1, <3>2
  <2>2. CASE \/ \E o \in PeerOffer : PeerReinvite(o)
             \/ PeerBye \/ ReanswerKeyed \/ ReanswerSent \/ ByeStops \/ UNCHANGED vars
    <3>1. task' = task
      BY <2>2 DEF PeerReinvite, PeerBye, ReanswerKeyed, ReanswerSent, ByeStops, vars
    <3>2. QED BY <3>1
  <2>3. QED BY <2>1, <2>2
<1>3. \A u \in Task : PromisedOutcome'[u] = PromisedOutcome[u]
  BY <1>1, <1>2, OutcomeOf
<1>4. QED BY <1>1, <1>3, NoOutcome DEF Keeps

----
\* CallSession implements TransferPromise: whatever the verbs, the peer and the
\* end of the call do to each other, the first cause decides a transfer.
THEOREM PromiseKept == Spec => KeepsPromise
<1>1. Init => Promised!PromiseInit
  <2> SUFFICES ASSUME Init PROVE Promised!PromiseInit
    OBVIOUS
  <2>1. xfer.owner = NoTask /\ \A t \in Task : task[t].result = "none"
    BY DEF Init, Disarmed, IdleTask
  <2>2. \A t \in Task : PromisedOutcome[t] = "idle"
    BY <2>1, OutcomeOf, ConstantsAssumption DEF Report, Final
  <2>3. PromisedOutcome = [t \in Task |-> PromisedOutcome[t]]
    BY DEF PromisedOutcome
  <2>4. QED BY <2>2, <2>3 DEF Init, Promised!PromiseInit
<1>2. IInv /\ [Next]_vars => [Promised!PromiseNext]_(Promised!pvars)
  <2> SUFFICES ASSUME IInv, [Next]_vars PROVE Keeps
    BY DEF Keeps, Promised!pvars
  <2>1. ASSUME NEW t \in Task, HangUp(t) PROVE Keeps
    <3>1. \A u \in Task : task'[u].result = task[u].result
      BY <2>1 DEF HangUp, IInv, TypeOK, TaskState
    <3>2. QED BY <2>1, <3>1, EndingSteps DEF HangUp
  <2>2. CASE ByeAnswered
    <3>1. \A u \in Task : task'[u].result = task[u].result
      BY <2>2 DEF ByeAnswered
    <3>2. QED BY <2>2, <3>1, EndingSteps DEF ByeAnswered
  <2>3. QED
    BY <2>1, <2>2, ForgettingSteps, TransferringSteps, ReportingStep, SilentSteps
       DEF Next, VerbStep, OfferAnswered, ReaderContinues
<1>3. QED BY <1>1, <1>2, Invariance, PTL DEF Spec, KeepsPromise, Promised!Promise
====
