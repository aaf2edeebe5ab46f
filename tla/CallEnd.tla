---- MODULE CallEnd ----
(***************************************************************************)
(* The end of one answered call: the adapter's side of it in               *)
(* hermes_voip.adapter.  The peer, the agent's hang_up tools, the duration *)
(* watchdog, the session timer (hermes_voip.session_timer), the media      *)
(* watchdog and the call loop race to end the call; the call's own task    *)
(* classifies the end and tears it down, once.  A tool's task may be       *)
(* cancelled at any of its awaits.  A call that the agent placed on an     *)
(* errand reports its outcome to whoever sent it.                          *)
(*                                                                         *)
(* CallSession models the session's verbs, one at a time under its lock;   *)
(* here a refresh is a step, and hang_up the two steps around its send.    *)
(***************************************************************************)
EXTENDS Naturals, Sequences

CONSTANTS
    Task,       \* tasks that run the hang_up tool
    MaxGlares,  \* _SESSION_REFRESH_MAX_GLARE_RETRIES
    Errands     \* the kinds of call: its origin and its result channel, see Errand

\* An errand was given by a chat, or by nobody (a scheduled job), or the call is no
\* errand; the result channel is unset, names a chat, or is a pattern that takes in the
\* origin or does not.
Errand ==
    [origin : {"chat", "nobody", "no errand"}, channel : {"none", "fixed", "its own", "others"}]

ASSUME CallEndAssumption ==
    /\ MaxGlares \in Nat
    /\ Errands \subseteq Errand
    /\ Task \cap {"none", "timer", "cap", "end"} = {}

Ender == Task \cup {"timer", "cap", "end"}   \* who may call session.hang_up

VARIABLES
    task,       \* where each tool task is: idle, drain, hangup
    ended,      \* session.ended
    byeBy,      \* who holds the session's lock with a BYE at its send
    media,      \* on, stopped, timedout
    phone,      \* the peer's dialog: up, gone (silently dead), down
    timer,      \* the session timer: its refresher, where it is, its glares
    cap,        \* the duration watchdog: armed, fired, off
    agentMark, capMark,     \* _agent_hangups, _call_duration_exceeded
    loop,       \* the call task: running, or its teardown's progress
    reason,     \* the CallEndReason given to the teardown
    why,        \* ghost: what the call loop returned on
    cut,        \* ghost: a task was cancelled inside hang_up, after the ended mark
    errand,     \* info's objective and origin, and the configured channel
    result,     \* whether info holds a result: report_call_result was answered True
    reports     \* the outcome reports injected: where to, with the result or the bare reason

dialog == <<ended, byeBy, media, phone>>
clocks == <<timer, cap>>
end == <<agentMark, capMark, loop, reason, why, cut>>
bridge == <<errand, result, reports>>
vars == <<task, dialog, clocks, end, bridge>>

Registered == loop # "done"     \* in _call_sessions
Current == Registered /\ ~ended

Failures == {"MAX_CALL_DURATION", "PIPELINE_FAILURE", "MEDIA_TIMEOUT"}
Reasons == Failures \cup {"AGENT_HANGUP", "REMOTE_BYE"}     \* those a call loop ends with

\* The refresher that the two sides elected; no watchdog has fired yet.
Agreed(role) == [role |-> role, pc |-> "sleep", glares |-> 0]

TimersOK ==
    /\ timer \in [role : {"us", "peer"}, pc : {"sleep", "refresh", "bye", "off"},
                  glares : 0..MaxGlares]
    /\ cap \in {"armed", "fired", "off"}

BridgeOK ==
    /\ errand \in Errands /\ result \in BOOLEAN
    /\ reports \in Seq([to : {"origin", "channel"}, result : BOOLEAN])

EndOK ==
    /\ loop \in {"running", "closing", "signalling", "reporting", "bye", "done"}
    /\ reason \in Reasons \cup {"none"}
    /\ why \in {"none", "media", "raised", "goodbye"}
    /\ agentMark \in BOOLEAN /\ capMark \in BOOLEAN /\ cut \in BOOLEAN

DialogOK ==
    /\ task \in [Task -> {"idle", "drain", "hangup"}]
    /\ ended \in BOOLEAN /\ byeBy \in Ender \cup {"none"}
    /\ media \in {"on", "stopped", "timedout"} /\ phone \in {"up", "gone", "down"}

TypeOK == TimersOK /\ BridgeOK /\ EndOK /\ DialogOK

Init ==
    /\ task = [t \in Task |-> "idle"]
    /\ ended = FALSE /\ byeBy = "none" /\ media = "on" /\ phone = "up"
    /\ \E role \in {"us", "peer"} :
        timer = Agreed(role)
    /\ cap = "armed"
    /\ agentMark = FALSE /\ capMark = FALSE
    /\ loop = "running" /\ reason = "none" /\ why = "none" /\ cut = FALSE
    /\ errand \in Errands /\ result = FALSE /\ reports = <<>>

At(t, from, to) == task[t] = from /\ task' = [task EXCEPT ![t] = to]

----
(* CallSession.hang_up, and those who call it *)

\* hang_up_call: marked first, so that no end it causes is read as another's.
AskHangUp(t) ==
    /\ Current
    /\ At(t, "idle", "drain")
    /\ agentMark' = TRUE
    /\ UNCHANGED <<dialog, clocks, capMark, loop, reason, why, cut, bridge>>

Drained(t) ==
    /\ At(t, "drain", "hangup")
    /\ UNCHANGED <<dialog, clocks, end, bridge>>

CapMarksLate == capMark         \* the mark is made once hang_up has returned

CapMarks == TRUE

CapFires ==
    /\ cap = "armed"
    /\ cap' = IF Current THEN "fired" ELSE "off"
    /\ capMark' = IF Current THEN CapMarks ELSE capMark
    /\ UNCHANGED <<task, dialog, timer, agentMark, loop, reason, why, cut, bridge>>

Wants(w) ==
    CASE w = "timer" -> timer.pc = "bye"
      [] w = "cap" -> cap = "fired"
      [] w = "end" -> loop = "bye"
      [] OTHER -> task[w] = "hangup"

\* The teardown is done with the dialog: the call leaves the adapter's maps, and its
\* marks with it; the engine is stopped last.
Releases == loop' = "done" /\ agentMark' = FALSE /\ capMark' = FALSE

Stopped == IF media = "on" THEN "stopped" ELSE media

Leaves(w) ==    \* hang_up returns to w
    /\ IF w = "timer" THEN timer' = [timer EXCEPT !.pc = "off"] ELSE UNCHANGED timer
    /\ IF w = "cap" THEN cap' = "off" ELSE UNCHANGED cap
    /\ IF w = "end" THEN Releases ELSE UNCHANGED <<loop, agentMark, capMark>>
    /\ IF w \in Task THEN task' = [task EXCEPT ![w] = "idle"] ELSE UNCHANGED task
    /\ UNCHANGED <<reason, why, cut>>

HangUp(w) ==
    /\ Wants(w) /\ byeBy = "none"
    /\ ~ended
    /\ ended' = TRUE
    /\ byeBy' = w
    /\ UNCHANGED <<task, media, phone, clocks, end, bridge>>

HangUpTwice(w) ==       \* the call has ended already
    /\ Wants(w) /\ byeBy = "none"
    /\ ended
    /\ Leaves(w)
    /\ media' = IF w = "end" THEN Stopped ELSE media
    /\ UNCHANGED <<ended, byeBy, phone, bridge>>

Hears == IF phone = "up" THEN "down" ELSE phone     \* a BYE reaches the peer
StopsNothing(w) == IF w = "end" THEN Stopped ELSE media    \* left to the teardown
StopsMedia(w) == Stopped

\* The BYE is written, or its send fails (the peer is then taken for gone), and the
\* media plane is stopped.
HungUp(w) ==
    /\ byeBy = w
    /\ byeBy' = "none"
    /\ phone' \in {Hears, IF phone = "up" THEN "gone" ELSE phone}
    /\ media' = StopsMedia(w)
    /\ UNCHANGED <<ended, bridge>>
    /\ Leaves(w)

\* A cancellation inside hang_up: ended is set, the BYE may have been written or not,
\* and the media plane is not stopped.
CutShort ==
    /\ byeBy' = "none"
    /\ phone' \in {phone, Hears}
    /\ cut' = TRUE
    /\ UNCHANGED <<ended, media>>

----
(* A tool's task is cancelled, at any of its awaits *)

Interrupt(t) ==
    /\ task[t] # "idle"
    /\ task' = [task EXCEPT ![t] = "idle"]
    /\ IF byeBy = t THEN CutShort ELSE UNCHANGED <<dialog, cut>>
    /\ UNCHANGED <<clocks, agentMark, capMark, loop, reason, why, bridge>>

----
(* The session timer: _run_session_timer *)

TimerTo(pc) == timer' = [timer EXCEPT !.pc = pc]

TimerDue ==
    /\ timer.pc = "sleep"
    /\ TimerTo(IF ended THEN "off" ELSE IF timer.role = "us" THEN "refresh" ELSE "bye")
    /\ UNCHANGED <<task, dialog, cap, end, bridge>>

SleepAgain == timer' = [timer EXCEPT !.pc = "sleep", !.glares = 0]

GlareAgain == timer.glares < MaxGlares

\* One refresh, and what classify_refresh_failure makes of its answer.
Refresh ==
    /\ timer.pc = "refresh"
    /\ \/ ended /\ TimerTo("off")
       \/ ~ended /\ phone = "up" /\ SleepAgain       \* 2xx, or a failure that may pass
       \/ ~ended /\ TimerTo("bye")                   \* timeout, 408, 481
       \/ /\ ~ended /\ phone = "up"                  \* 491
          /\ IF GlareAgain THEN timer' = [timer EXCEPT !.glares = @ + 1] ELSE TimerTo("bye")
    /\ UNCHANGED <<task, dialog, cap, end, bridge>>

----
(* The peer and the media *)

PeerHangsUp ==
    /\ phone = "up"
    /\ phone' = "down"
    /\ IF Registered THEN ended' = TRUE /\ media' = Stopped ELSE UNCHANGED <<ended, media>>
    /\ UNCHANGED <<task, byeBy, clocks, end, bridge>>

PeerDies ==
    /\ phone = "up"
    /\ phone' = "gone"
    /\ UNCHANGED <<task, ended, byeBy, media, clocks, end, bridge>>

MediaTimeout ==
    /\ loop = "running" /\ media = "on"
    /\ media' = "timedout"
    /\ UNCHANGED <<task, ended, byeBy, phone, clocks, end, bridge>>

----
(* The end of the call's task: _classify_end_reason and _teardown_call *)

CleanReturn(mark) == IF mark THEN "AGENT_HANGUP" ELSE "REMOTE_BYE"

Classify(raised) ==
    IF capMark THEN "MAX_CALL_DURATION"
    ELSE IF raised THEN "PIPELINE_FAILURE"
    ELSE IF media = "timedout" THEN "MEDIA_TIMEOUT"
    ELSE CleanReturn(agentMark)

\* run() returns when the media stop, when one of its tasks raises, or when the
\* loop has said goodbye to a silent caller.
LoopEnds ==
    /\ loop = "running"
    /\ why' \in IF media = "on" THEN {"raised", "goodbye"} ELSE {"media", "raised"}
    /\ reason' = Classify(why' = "raised")
    /\ loop' = "closing"
    /\ UNCHANGED <<task, dialog, clocks, agentMark, capMark, cut, bridge>>

\* The session timer and the duration watchdog are cancelled and awaited, in whatever
\* they are.
CancelTimers ==
    /\ loop = "closing"
    /\ loop' = "signalling"
    /\ TimerTo("off") /\ cap' = "off"
    /\ IF byeBy \in {"timer", "cap"} THEN CutShort ELSE UNCHANGED <<dialog, cut>>
    /\ UNCHANGED <<task, agentMark, capMark, reason, why, bridge>>

\* Info is flagged ended, then the Hermes session is signalled: an await.
Signal ==
    /\ loop = "signalling"
    /\ loop' = "reporting"
    /\ UNCHANGED <<task, dialog, clocks, agentMark, capMark, reason, why, cut, bridge>>

\* resolve_result_channel: a named chat, or a pattern that takes in the origin.
Resolved ==
    CASE errand.channel = "fixed" -> {"channel"}
      [] errand.channel = "its own" /\ errand.origin = "chat" -> {"origin"}
      [] OTHER -> {}

\* _report_outbound_result: an origin is told, unless the channel is a pattern to resolve;
\* a call on no errand reports nothing.
Destination ==
    CASE errand.origin = "no errand" -> {}
      [] errand.origin = "chat" /\ errand.channel \in {"none", "fixed"} -> {"origin"}
      [] OTHER -> Resolved

ClosesDialog == reason \in Failures /\ ~ended

\* The outcome is reported, best effort, and a failure that left the dialog up sends its
\* BYE.
Report ==
    /\ loop = "reporting"
    /\ reports' = IF Destination = {} THEN reports
                  ELSE Append(reports, [to |-> CHOOSE d \in Destination : TRUE,
                                        result |-> result])
    /\ IF ClosesDialog
       THEN loop' = "bye" /\ UNCHANGED <<media, agentMark, capMark>>
       ELSE Releases /\ media' = Stopped
    /\ UNCHANGED <<task, ended, byeBy, phone, clocks, reason, why, cut, errand, result>>

AcceptsUntilGone == Registered
Accepts == loop \in {"running", "closing", "signalling"}

\* record_call_result: refused once info is flagged ended.
RecordResult ==
    /\ Accepts
    /\ result' = TRUE
    /\ UNCHANGED <<task, dialog, clocks, end, errand, reports>>

----
Ends(w) == HangUp(w) \/ HangUpTwice(w) \/ HungUp(w)

Clock == TimerDue \/ Refresh
Teardown == CancelTimers \/ Signal \/ Report

Next ==
    \/ \E t \in Task : AskHangUp(t) \/ Drained(t) \/ Interrupt(t)
    \/ CapFires
    \/ \E w \in Ender : Ends(w)
    \/ Clock
    \/ PeerHangsUp
    \/ PeerDies
    \/ MediaTimeout
    \/ LoopEnds
    \/ RecordResult
    \/ Teardown

\* Every task that can run runs, and time passes.  The peer, the agent, the two
\* watchdogs that a configuration may turn off and the loop's own end owe nothing.
FairSpec ==
    /\ Init /\ [][Next]_vars
    /\ \A t \in Task : WF_vars(Drained(t))
    /\ \A w \in Ender : WF_vars(Ends(w))
    /\ WF_vars(Clock)
    /\ WF_vars(media # "on" /\ LoopEnds)
    /\ WF_vars(Teardown)

----
(* Properties *)

\* The reason signalled to the Hermes session is the cause: a duration cap is never
\* read as the peer's BYE, nor a dead pipeline or a dead medium as the agent's will.
CauseReported ==
    [][loop = "running" /\ loop' = "closing" =>
        /\ capMark => reason' = "MAX_CALL_DURATION"
        /\ cap = "fired" => reason' = "MAX_CALL_DURATION"
        /\ why' = "raised" \/ media = "timedout" => reason' \in Failures]_vars

\* Once the teardown is over the media are stopped, both timers are gone and the peer
\* holds no call of ours or has its BYE on the way, unless the loop ended by its own
\* goodbye, or a task was cancelled inside hang_up.
NothingLeft ==
    loop = "done" =>
        /\ media # "on" /\ timer.pc = "off" /\ cap = "off"
        /\ phone = "up" => byeBy # "none" \/ why = "goodbye" \/ cut

\* A call that has ended, that outlived its cap, or whose peer has silently died is torn
\* down: by the session timer alone if no watchdog is configured.
EndsFinish == (ended \/ cap = "fired" \/ phone = "gone") ~> (loop = "done" \/ cut)

\* The agent's errand is accounted for, once, to whoever sent it or to the channel that the
\* operator named, never to both; what report_call_result accepted is in the report, and
\* a call on no errand reports nothing.
OutcomeReported ==
    loop = "done" =>
        IF errand.origin = "no errand" THEN reports = <<>>
        ELSE /\ Len(reports) <= 1
             /\ errand.origin = "chat" /\ errand.channel # "others" => Len(reports) = 1
             /\ \A i \in DOMAIN reports :
                    /\ reports[i].result = result
                    /\ reports[i].to = "origin" <=> errand.origin = "chat"

\* The end leaves nothing behind: no media, timer or dialog, and no outcome untold.
Settled == TypeOK /\ NothingLeft /\ OutcomeReported
====
