---- MODULE CallEnd_proofs ----
(***************************************************************************)
(* CallEnd: the end of a call leaves nothing behind, reports its errand    *)
(* once, and names its true cause, for any set of tools, any number of     *)
(* glares and any errands.                                                 *)
(*                                                                         *)
(* The dialog needs the longest argument.  A call marked ended whose peer  *)
(* still holds its dialog has a BYE at its send, or lost one to a          *)
(* cancellation; a call not marked ended whose loop is over was ended by   *)
(* its own goodbye or by a failure, and a failure sends a BYE.             *)
(***************************************************************************)
EXTENDS CallEnd, TLAPS

Late == {"signalling", "reporting", "bye", "done"}     \* the timers are cancelled

\* Whoever has a BYE at its send has marked the call ended, and the teardown sends one
\* only as its last step.
ByeMarked ==
    /\ byeBy # "none" => ended
    /\ byeBy = "end" => loop = "bye"

\* A peer that still holds the dialog of a call marked ended has its BYE coming, or lost.
EndedHearsBye == ended /\ phone = "up" => byeBy # "none" \/ cut

\* Media are stopped by an end of the call, or by its teardown.
StoppedEnded == media = "stopped" /\ loop # "done" => ended

\* A loop that is over while the call is not: it failed, or has said goodbye.
FailureKnown ==
    loop # "running" /\ ~ended => reason \in Failures \/ why = "goodbye"

\* The cap marks the call when it fires, and the mark stays until the call is gone.
CapMarked == cap = "fired" => capMark

TimersCancelled == loop \in Late => timer.pc = "off" /\ cap = "off"

\* What is reported is the outcome, once the teardown has told it and not before.
Outcome ==
    IF Destination = {} THEN <<>>
    ELSE <<[to |-> CHOOSE d \in Destination : TRUE, result |-> result]>>

ReportedOnce ==
    /\ loop \in {"running", "closing", "signalling", "reporting"} => reports = <<>>
    /\ loop \in {"bye", "done"} => reports = Outcome

IInv ==
    /\ TypeOK /\ NothingLeft /\ ByeMarked /\ EndedHearsBye /\ StoppedEnded
    /\ FailureKnown /\ CapMarked /\ TimersCancelled /\ ReportedOnce

----
(* Lemmas *)

\* An errand has one destination at most: the origin if a chat sent it, else the channel.
LEMMA OneDestination ==
    ASSUME errand \in Errand
    PROVE  /\ Destination \in {{}, {"origin"}, {"channel"}}
           /\ errand.origin = "no errand" => Destination = {}
           /\ Destination # {} =>
                (CHOOSE d \in Destination : TRUE) = IF errand.origin = "chat" THEN "origin"
                                                    ELSE "channel"
           /\ errand.origin = "chat" /\ errand.channel # "others" => Destination # {}
<1>1. /\ Destination \in {{}, {"origin"}, {"channel"}}
      /\ errand.origin = "no errand" => Destination = {}
      /\ errand.origin = "chat" => Destination # {"channel"}
      /\ errand.origin # "chat" => Destination # {"origin"}
      /\ errand.origin = "chat" /\ errand.channel # "others" => Destination # {}
  BY DEF Destination, Resolved, Errand
<1>2. \A x : (CHOOSE d \in {x} : TRUE) = x
  OBVIOUS
<1> QED
  BY <1>1, <1>2

\* The outcome depends on the errand and on what was recorded of it, and on nothing else.
LEMMA OutcomeKept == UNCHANGED <<errand, result>> => Outcome' = Outcome
BY DEF Outcome, Destination, Resolved

\* An outcome is one report or none, of the types the reports have.
LEMMA OutcomeType ==
    ASSUME TypeOK
    PROVE  Outcome \in Seq([to : {"origin", "channel"}, result : BOOLEAN])
<1>1. errand \in Errand
  BY CallEndAssumption DEF TypeOK, BridgeOK
<1>2. CASE Destination = {}
  BY <1>2 DEF Outcome
<1>3. CASE Destination # {}
  <2> DEFINE report == [to |-> CHOOSE d \in Destination : TRUE, result |-> result]
  <2>1. report \in [to : {"origin", "channel"}, result : BOOLEAN]
    BY <1>1, <1>3, OneDestination DEF TypeOK, BridgeOK
  <2>2. Outcome = <<report>>
    BY <1>3 DEF Outcome
  <2> HIDE DEF report
  <2>3. QED BY <2>1, <2>2
<1>4. QED BY <1>2, <1>3

----
(* The types *)

\* Every step keeps the types of the session timer and the duration watchdog.
LEMMA TimersTyped ==
    ASSUME TimersOK, [Next]_vars
    PROVE  TimersOK'
<1> USE CallEndAssumption DEF TimersOK, clocks
<1>1. CASE UNCHANGED clocks
  BY <1>1
<1>2. CASE CapFires
  BY <1>2 DEF CapFires
<1>3. ASSUME NEW w \in Ender, Leaves(w) PROVE TimersOK'
  BY <1>3 DEF Leaves
<1>4. CASE TimerDue
  BY <1>4 DEF TimerDue, TimerTo
<1>5. CASE Refresh
  <2>1. UNCHANGED cap
    BY <1>5 DEF Refresh
  <2>2. \/ \E pc \in {"off", "bye", "sleep"} : \E g \in {0, timer.glares} :
             timer' = [timer EXCEPT !.pc = pc, !.glares = g]
        \/ timer.glares < MaxGlares /\ timer' = [timer EXCEPT !.glares = @ + 1]
    BY <1>5 DEF Refresh, TimerTo, SleepAgain, GlareAgain
  <2>3. ASSUME NEW pc \in {"off", "bye", "sleep"}, NEW g \in {0, timer.glares},
               timer' = [timer EXCEPT !.pc = pc, !.glares = g]
        PROVE  TimersOK'
    <3>1. g \in 0..MaxGlares /\ pc \in {"sleep", "refresh", "bye", "off"}
      OBVIOUS
    <3>2. QED BY <2>1, <2>3, <3>1
  <2>4. CASE timer.glares < MaxGlares /\ timer' = [timer EXCEPT !.glares = @ + 1]
    <3>1. timer.glares + 1 \in 0..MaxGlares
      BY <2>4
    <3>2. QED BY <2>1, <2>4, <3>1
  <2>5. QED BY <2>2, <2>3, <2>4
<1>6. CASE CancelTimers
  BY <1>6 DEF CancelTimers, TimerTo
<1>7. [Next]_vars => \/ UNCHANGED clocks \/ CapFires \/ (\E w \in Ender : Leaves(w))
                     \/ TimerDue \/ Refresh \/ CancelTimers
  BY DEF Next, vars, AskHangUp, Drained, Interrupt, Ends, HangUp, HangUpTwice, HungUp,
         Clock, PeerHangsUp, PeerDies, MediaTimeout, LoopEnds, RecordResult, Teardown,
         Signal, Report
<1>8. QED BY <1>1, <1>2, <1>3, <1>4, <1>5, <1>6, <1>7

\* Every step keeps the types of the errand and its reports.
LEMMA BridgeTyped ==
    ASSUME TypeOK, ReportedOnce, [Next]_vars
    PROVE  BridgeOK'
<1> USE DEF BridgeOK, bridge
<1>1. CASE UNCHANGED bridge
  BY <1>1 DEF TypeOK
<1>2. CASE RecordResult
  BY <1>2 DEF TypeOK, RecordResult
<1>3. CASE Report
  <2>1. reports' = Outcome
    BY <1>3 DEF Report, Outcome, ReportedOnce
  <2>2. QED BY <1>3, <2>1, OutcomeType DEF TypeOK, Report
<1>4. [Next]_vars => UNCHANGED bridge \/ RecordResult \/ Report
  BY DEF Next, vars, AskHangUp, Drained, Interrupt, CapFires, Ends, HangUp, HangUpTwice,
         HungUp, Clock, TimerDue, Refresh, PeerHangsUp, PeerDies, MediaTimeout, LoopEnds,
         Teardown, CancelTimers, Signal
<1>5. QED BY <1>1, <1>2, <1>3, <1>4

\* Every step keeps the types of the call task's end.
LEMMA EndTyped ==
    ASSUME EndOK, [Next]_vars
    PROVE  EndOK'
<1> USE DEF EndOK, end
<1>1. CASE UNCHANGED end
  BY <1>1
<1>2. CASE \E t \in Task : AskHangUp(t) \/ Interrupt(t)
  BY <1>2 DEF AskHangUp, Interrupt, CutShort
<1>3. CASE CapFires
  BY <1>3 DEF CapFires, CapMarks
<1>4. CASE \E w \in Ender : Leaves(w)
  BY <1>4 DEF Leaves, Releases
<1>5. CASE LoopEnds
  BY <1>5 DEF LoopEnds, Classify, CleanReturn, Reasons, Failures
<1>6. CASE CancelTimers \/ Signal
  BY <1>6 DEF CancelTimers, Signal, CutShort
<1>7. CASE Report
  BY <1>7 DEF Report, Releases
<1>8. [Next]_vars => \/ UNCHANGED end \/ CapFires \/ (\E w \in Ender : Leaves(w))
                     \/ (\E t \in Task : AskHangUp(t) \/ Interrupt(t))
                     \/ LoopEnds \/ CancelTimers \/ Signal \/ Report
  BY DEF Next, vars, Drained, Ends, HangUp, HangUpTwice, HungUp, Clock, TimerDue, Refresh,
         PeerHangsUp, PeerDies, MediaTimeout, RecordResult, Teardown
<1>9. QED BY <1>1, <1>2, <1>3, <1>4, <1>5, <1>6, <1>7, <1>8

\* Every step keeps the types of the tools' tasks and of the dialog.
LEMMA DialogTyped ==
    ASSUME DialogOK, [Next]_vars
    PROVE  DialogOK'
<1> USE DEF DialogOK, dialog
<1>1. CASE UNCHANGED <<task, dialog>>
  BY <1>1
<1>2. ASSUME NEW t \in Task, AskHangUp(t) \/ Drained(t) PROVE DialogOK'
  BY <1>2 DEF AskHangUp, Drained, At
<1>3. ASSUME NEW t \in Task, Interrupt(t) PROVE DialogOK'
  BY <1>3 DEF Interrupt, CutShort, Hears
<1>4. ASSUME NEW w \in Ender, HangUp(w) PROVE DialogOK'
  BY <1>4 DEF HangUp
<1>5. ASSUME NEW w \in Ender, Leaves(w) PROVE task' \in [Task -> {"idle", "drain", "hangup"}]
  BY <1>5 DEF Leaves
<1>6. ASSUME NEW w \in Ender, HangUpTwice(w) PROVE DialogOK'
  BY <1>5, <1>6 DEF HangUpTwice, Stopped
<1>7. ASSUME NEW w \in Ender, HungUp(w) PROVE DialogOK'
  BY <1>5, <1>7 DEF HungUp, StopsMedia, Stopped, Hears
<1>8. CASE PeerHangsUp \/ PeerDies \/ MediaTimeout
  BY <1>8 DEF PeerHangsUp, PeerDies, MediaTimeout, Stopped
<1>9. CASE CancelTimers
  BY <1>9 DEF CancelTimers, CutShort, Hears
<1>10. CASE Report
  BY <1>10 DEF Report, Stopped
<1>11. [Next]_vars => \/ UNCHANGED <<task, dialog>> \/ CancelTimers \/ Report
                      \/ (\E t \in Task : AskHangUp(t) \/ Drained(t) \/ Interrupt(t))
                      \/ (\E w \in Ender : Ends(w))
                      \/ PeerHangsUp \/ PeerDies \/ MediaTimeout
  BY DEF Next, vars, CapFires, Clock, TimerDue, Refresh, LoopEnds, RecordResult, Teardown,
         Signal
<1>12. QED BY <1>1, <1>2, <1>3, <1>4, <1>6, <1>7, <1>8, <1>9, <1>10, <1>11 DEF Ends

\* Every step keeps the types.
LEMMA TypeStep ==
    ASSUME TypeOK, ReportedOnce, [Next]_vars
    PROVE  TypeOK'
BY TimersTyped, BridgeTyped, EndTyped, DialogTyped DEF TypeOK

----
(* The invariant is inductive *)

\* The call is up and nobody ends it yet.
LEMMA InitIInv == Init => IInv
<1> SUFFICES ASSUME Init PROVE IInv
  OBVIOUS
<1>1. TypeOK
  <2>1. TimersOK
    BY CallEndAssumption DEF Init, Agreed, TimersOK
  <2>2. BridgeOK
    <3>1. reports \in Seq([to : {"origin", "channel"}, result : BOOLEAN])
      BY DEF Init
    <3>2. QED BY <3>1 DEF Init, BridgeOK
  <2>3. EndOK
    BY DEF Init, EndOK
  <2>4. DialogOK
    BY DEF Init, DialogOK
  <2>5. QED BY <2>1, <2>2, <2>3, <2>4 DEF TypeOK
<1>2. NothingLeft /\ ByeMarked /\ EndedHearsBye /\ StoppedEnded /\ FailureKnown
  BY DEF Init, NothingLeft, ByeMarked, EndedHearsBye, StoppedEnded, FailureKnown
<1>3. CapMarked /\ TimersCancelled /\ ReportedOnce
  BY DEF Init, CapMarked, TimersCancelled, ReportedOnce, Late
<1>4. QED BY <1>1, <1>2, <1>3 DEF IInv

\* The parts of the invariant about the dialog, the media and the cause.
DialogInv == NothingLeft /\ ByeMarked /\ EndedHearsBye /\ StoppedEnded /\ FailureKnown

\* A hang_up that returns to the teardown leaves the call; any other leaves the rest alone.
LEMMA HangUpReturns ==
    ASSUME TypeOK, NEW w \in Ender, Leaves(w)
    PROVE  /\ loop' = (IF w = "end" THEN "done" ELSE loop)
           /\ UNCHANGED <<reason, why, cut>>
           /\ timer.pc = "off" => timer'.pc = "off"
           /\ cap = "off" => cap' = "off"
BY DEF Leaves, Releases, TypeOK, TimersOK

\* Every step keeps the promises about the dialog, the media and the cause.
LEMMA DialogStep ==
    ASSUME IInv, [Next]_vars
    PROVE  DialogInv'
<1> USE DEF IInv, DialogInv, NothingLeft, ByeMarked, EndedHearsBye, StoppedEnded, FailureKnown
<1>1. ASSUME NEW t \in Task, AskHangUp(t) \/ Drained(t) PROVE DialogInv'
  BY <1>1 DEF AskHangUp, Drained, dialog, clocks, end
<1>2. ASSUME NEW t \in Task, Interrupt(t) PROVE DialogInv'
  BY <1>2 DEF Interrupt, CutShort, Hears, dialog, clocks
<1>3. CASE CapFires
  BY <1>3 DEF CapFires, dialog
<1>4. ASSUME NEW w \in Ender, HangUp(w) PROVE DialogInv'
  BY <1>4, CallEndAssumption DEF HangUp, Wants, clocks, end, Ender
<1>5. ASSUME NEW w \in Ender, HangUpTwice(w) PROVE DialogInv'
  <2>1. w = "end" => loop = "bye"
    BY <1>5 DEF HangUpTwice, Wants
  <2>2. /\ loop' = (IF w = "end" THEN "done" ELSE loop)
        /\ UNCHANGED <<reason, why, cut>>
        /\ timer.pc = "off" => timer'.pc = "off"
        /\ cap = "off" => cap' = "off"
    BY <1>5, HangUpReturns DEF HangUpTwice
  <2>3. QED BY <1>5, <2>1, <2>2 DEF HangUpTwice, Stopped, TimersCancelled, Late
<1>6. ASSUME NEW w \in Ender, HungUp(w) PROVE DialogInv'
  <2>1. /\ loop' = (IF w = "end" THEN "done" ELSE loop)
        /\ UNCHANGED <<reason, why, cut>>
        /\ timer.pc = "off" => timer'.pc = "off"
        /\ cap = "off" => cap' = "off"
    BY <1>6, HangUpReturns DEF HungUp
  <2>2. phone' # "up" /\ byeBy' = "none" /\ ended /\ ended'
    BY <1>6, CallEndAssumption DEF HungUp, Hears, Ender
  <2>3. media' # "on" /\ (w = "end" => loop = "bye")
    BY <1>6 DEF HungUp, StopsMedia, Stopped
  <2>4. QED BY <2>1, <2>2, <2>3 DEF TimersCancelled, Late
<1>7. CASE Clock
  <2>1. timer.pc # "off"
    BY <1>7 DEF Clock, TimerDue, Refresh
  <2>2. QED BY <1>7, <2>1 DEF Clock, TimerDue, Refresh, dialog, end, TimersCancelled, Late
<1>8. CASE PeerHangsUp
  BY <1>8 DEF PeerHangsUp, Registered, Stopped, clocks, end
<1>9. CASE PeerDies \/ MediaTimeout
  BY <1>9 DEF PeerDies, MediaTimeout, clocks, end
<1>10. CASE LoopEnds
  <2>1. UNCHANGED <<dialog, cut>> /\ loop = "running" /\ loop' = "closing"
    BY <1>10 DEF LoopEnds
  <2>2. ~ended => reason' \in Failures \/ why' = "goodbye"
    BY <1>10 DEF LoopEnds, Classify, Failures, TypeOK, DialogOK
  <2>3. QED BY <2>1, <2>2 DEF dialog
<1>11. CASE CancelTimers
  BY <1>11 DEF CancelTimers, CutShort, Hears, dialog
<1>12. CASE Signal
  BY <1>12 DEF Signal, dialog, clocks
<1>13. CASE Report
  BY <1>13 DEF Report, ClosesDialog, Releases, Stopped, clocks, TimersCancelled, Late
<1>14. CASE RecordResult \/ UNCHANGED vars
  BY <1>14 DEF RecordResult, vars, dialog, clocks, end
<1>15. QED
  BY <1>1, <1>2, <1>3, <1>4, <1>5, <1>6, <1>7, <1>8, <1>9, <1>10, <1>11, <1>12, <1>13, <1>14
     DEF Next, Ends, Teardown

\* Every step keeps the cap marked while it fires, and the timers cancelled.
LEMMA ClocksStep ==
    ASSUME IInv, [Next]_vars
    PROVE  CapMarked' /\ TimersCancelled'
<1> USE DEF IInv, CapMarked, TimersCancelled, Late, clocks
<1>1. CASE UNCHANGED <<clocks, capMark, loop>>
  BY <1>1
<1>2. CASE CapFires
  BY <1>2 DEF CapFires, CapMarks
<1>3. ASSUME NEW w \in Ender, Leaves(w), Wants(w) \/ byeBy = w
      PROVE  CapMarked' /\ TimersCancelled'
  <2>1. w = "end" => loop = "bye"
    BY <1>3 DEF Wants, ByeMarked
  <2>2. /\ loop' = (IF w = "end" THEN "done" ELSE loop)
        /\ timer.pc = "off" => timer'.pc = "off"
        /\ cap = "off" => cap' = "off"
    BY <1>3, HangUpReturns
  <2>3. /\ cap' \in {cap, "off"}
        /\ w # "end" => UNCHANGED capMark
    BY <1>3 DEF Leaves
  <2>4. QED BY <2>1, <2>2, <2>3
<1>4. CASE Clock
  BY <1>4 DEF Clock, TimerDue, Refresh, end
<1>5. CASE LoopEnds \/ CancelTimers \/ Signal
  BY <1>5 DEF LoopEnds, CancelTimers, Signal, TimerTo, TypeOK, TimersOK
<1>6. CASE Report
  BY <1>6 DEF Report, Releases
<1>7. [Next]_vars => \/ UNCHANGED <<clocks, capMark, loop>> \/ CapFires \/ Clock
                     \/ (\E w \in Ender : Leaves(w) /\ (Wants(w) \/ byeBy = w))
                     \/ LoopEnds \/ CancelTimers \/ Signal \/ Report
  BY DEF Next, vars, end, AskHangUp, Drained, Interrupt, Ends, HangUp, HangUpTwice, HungUp,
         PeerHangsUp, PeerDies, MediaTimeout, RecordResult, Teardown
<1>8. QED BY <1>1, <1>2, <1>3, <1>4, <1>5, <1>6, <1>7

\* Every step tells the outcome once, as it then stands.
LEMMA ReportStep ==
    ASSUME IInv, [Next]_vars
    PROVE  ReportedOnce'
<1> USE DEF IInv, ReportedOnce, bridge
<1>1. CASE UNCHANGED <<bridge, loop>>
  BY <1>1, OutcomeKept
<1>2. ASSUME NEW w \in Ender, Leaves(w), Wants(w) \/ byeBy = w, UNCHANGED bridge
      PROVE  ReportedOnce'
  <2>1. loop' = (IF w = "end" THEN "done" ELSE loop)
    BY <1>2, HangUpReturns
  <2>2. w = "end" => loop = "bye"
    BY <1>2 DEF Wants, ByeMarked
  <2>3. QED BY <1>2, <2>1, <2>2, OutcomeKept
<1>3. CASE LoopEnds \/ CancelTimers \/ Signal
  BY <1>3 DEF LoopEnds, CancelTimers, Signal
<1>4. CASE Report
  <2>1. reports' = Outcome
    BY <1>4 DEF Report, Outcome
  <2>2. loop' \in {"bye", "done"} /\ UNCHANGED <<errand, result>>
    BY <1>4 DEF Report, Releases
  <2>3. QED BY <2>1, <2>2, OutcomeKept
<1>5. CASE RecordResult
  BY <1>5 DEF RecordResult, Accepts, end
<1>6. [Next]_vars => \/ UNCHANGED <<bridge, loop>> \/ RecordResult
                     \/ (\E w \in Ender : /\ Leaves(w) /\ (Wants(w) \/ byeBy = w)
                                          /\ UNCHANGED bridge)
                     \/ LoopEnds \/ CancelTimers \/ Signal \/ Report
  BY DEF Next, vars, end, AskHangUp, Drained, Interrupt, CapFires, Ends, HangUp, HangUpTwice,
         HungUp, Clock, TimerDue, Refresh, PeerHangsUp, PeerDies, MediaTimeout, Teardown
<1>7. QED BY <1>1, <1>2, <1>3, <1>4, <1>5, <1>6

\* Every step keeps the invariant.
LEMMA IInvStep == IInv /\ [Next]_vars => IInv'
BY TypeStep, DialogStep, ClocksStep, ReportStep DEF IInv, DialogInv

----
(* Theorems *)

\* The end of a call keeps its invariant: it needs no fairness.
LEMMA Invariance == FairSpec => []IInv
BY InitIInv, IInvStep, PTL DEF FairSpec

\* Once the teardown is over no media, timer or dialog is left and the outcome of the
\* errand has been told to whoever sent it, once.
THEOREM EndSettles == FairSpec => []Settled
<1>1. IInv => OutcomeReported
  <2> SUFFICES ASSUME IInv, loop = "done" PROVE OutcomeReported
    BY DEF OutcomeReported
  <2>1. errand \in Errand /\ reports = Outcome
    BY CallEndAssumption DEF IInv, TypeOK, BridgeOK, ReportedOnce
  <2>2. CASE Destination = {}
    <3>1. reports = <<>>
      BY <2>1, <2>2 DEF Outcome
    <3>2. ~(errand.origin = "chat" /\ errand.channel # "others")
      BY <2>1, <2>2, OneDestination
    <3>3. Len(<<>>) <= 1 /\ DOMAIN <<>> = {}
      OBVIOUS
    <3>4. Len(reports) <= 1 /\ DOMAIN reports = {}
      BY <3>1, <3>3
    <3>5. CASE errand.origin = "no errand"
      BY <3>1, <3>5 DEF OutcomeReported
    <3>6. CASE errand.origin # "no errand"
      BY <3>2, <3>4, <3>6, Zenon DEF OutcomeReported
    <3>7. QED BY <3>5, <3>6
  <2>3. CASE Destination # {}
    <3>1. /\ reports = <<[to |-> IF errand.origin = "chat" THEN "origin" ELSE "channel",
                          result |-> result]>>
          /\ errand.origin # "no errand"
      BY <2>1, <2>3, OneDestination DEF Outcome
    <3>2. \A x : Len(<<x>>) = 1 /\ DOMAIN <<x>> = {1} /\ <<x>>[1] = x
      OBVIOUS
    <3>3. /\ Len(reports) = 1 /\ DOMAIN reports = {1}
          /\ reports[1] = [to |-> IF errand.origin = "chat" THEN "origin" ELSE "channel",
                           result |-> result]
      BY <3>1, <3>2
    <3>4. reports[1].result = result /\ (reports[1].to = "origin" <=> errand.origin = "chat")
      BY <3>3
    <3>5. \A k \in DOMAIN reports :
              reports[k].result = result /\ (reports[k].to = "origin" <=> errand.origin = "chat")
      BY <3>3, <3>4
    <3>6. Len(reports) <= 1
      BY <3>3
    <3>7. QED BY <3>1, <3>3, <3>5, <3>6, Zenon DEF OutcomeReported
  <2>4. QED BY <2>2, <2>3
<1>2. IInv => Settled
  BY <1>1 DEF IInv, Settled
<1>3. QED BY <1>2, Invariance, PTL

\* The reason signalled to the Hermes session is the cause of the end.
THEOREM CauseIsReported == FairSpec => CauseReported
<1>1. ASSUME IInv, [Next]_vars, loop = "running", loop' = "closing"
      PROVE  /\ capMark => reason' = "MAX_CALL_DURATION"
             /\ cap = "fired" => reason' = "MAX_CALL_DURATION"
             /\ why' = "raised" \/ media = "timedout" => reason' \in Failures
  <2>1. LoopEnds
    BY <1>1
       DEF Next, vars, end, AskHangUp, Drained, Interrupt, CapFires, Ends, HangUp,
           HangUpTwice, HungUp, Leaves, Releases, Clock, TimerDue, Refresh, PeerHangsUp,
           PeerDies, MediaTimeout, RecordResult, Teardown, CancelTimers, Signal, Report
  <2>2. cap = "fired" => capMark
    BY <1>1 DEF IInv, CapMarked
  <2>3. reason' = Classify(why' = "raised")
    BY <2>1 DEF LoopEnds
  <2>4. capMark => reason' = "MAX_CALL_DURATION"
    BY <2>3 DEF Classify
  <2>5. why' = "raised" \/ media = "timedout" => reason' \in Failures
    BY <2>3 DEF Classify, Failures
  <2>6. QED BY <2>2, <2>4, <2>5
<1>2. QED BY <1>1, Invariance, PTL DEF FairSpec, CauseReported
====
