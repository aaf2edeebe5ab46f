---- MODULE Transfers ----
(***************************************************************************)
(* The agent's transfers of one call: transfer_blind and transfer_attended *)
(* of hermes_voip.adapter, behind the privilege gate of                    *)
(* hermes_voip.providers.policy and the keypad confirmation of             *)
(* hermes_voip.dtmf_confirm.  Each tool call runs in a task of its own,    *)
(* which the agent may cancel at any of its awaits; meanwhile the caller   *)
(* speaks, presses keys and hangs up.                                      *)
(*                                                                         *)
(* CallSession models the REFER and its outcome; here they are the step    *)
(* that sends it and the step that knows.  OutboundDial models the dial of *)
(* a consultation, CallEnd the end of the call.                            *)
(***************************************************************************)
EXTENDS FiniteSets

CONSTANTS
    Task,       \* tasks that run transfer tools
    Levels      \* privilege levels the caller may have

ASSUME TransfersAssumption == Levels \subseteq {0, 2, 3}

VARIABLES
    level,      \* GuardSessionState.privilege_level
    clamp,      \* its turn_restricted and degraded: none, restricted, degraded
    task,       \* where each tool task is
    window,     \* the armed confirmation: none, wait, yes, no
    press,      \* ghost: the first digit of a task's window, and if degraded by then
    pairing,    \* _attended_consults: none, pending (the sentinel), or a leg: up, ended
    ended,      \* session.ended
    stage       \* the call: on, over (its loop has ended), gone (out of the maps)

privilege == <<level, clamp>>
life == <<ended, stage>>
transferVars == <<privilege, task, window, press, pairing, life>>

Current == stage # "gone" /\ ~ended
Gate == clamp = "none" /\ level = 3     \* gate_tool_call of an IRREVERSIBLE tool

\* The hook before every call of a transfer tool, one that cancels too; a call that has
\* left the maps has no guard state and with it no privilege.
HookPasses == stage # "gone" /\ Gate

Unarmed == window = "none"      \* ArmedConfirmation.armed is false: one window per call

Asking == {t \in Task : task[t] \in {"prompt", "window"}}

TransfersTypeOK ==
    /\ level \in Levels /\ clamp \in {"none", "restricted", "degraded"}
    /\ task \in [Task -> {"idle", "prompt", "window", "refer", "sent", "dial",
                          "replaces", "bridging"}]
    /\ window \in {"none", "wait", "yes", "no"}
    /\ press \in [Task -> {"none", "clean", "degraded", "other"}]
    /\ pairing \in {"none", "pending", "up", "ended"}
    /\ ended \in BOOLEAN /\ stage \in {"on", "over", "gone"}

TransfersInit ==
    /\ level \in Levels /\ clamp = "none"
    /\ task = [t \in Task |-> "idle"]
    /\ window = "none" /\ press = [t \in Task |-> "none"]
    /\ pairing = "none"
    /\ ended = FALSE /\ stage = "on"

At(t, from, to) == task[t] = from /\ task' = [task EXCEPT ![t] = to]
Forgets(t) == [press EXCEPT ![t] = "none"]

----
(* The caller and the call *)

\* A screened turn restricts the tools or lifts the restriction; a keypad turn lifts
\* it; a screen that fails open degrades the call for good.
Screen ==
    /\ stage = "on" /\ clamp # "degraded"
    /\ clamp' \in {"none", "restricted", "degraded"}
    /\ UNCHANGED <<level, task, window, press, pairing, life>>

Decided(digit) == IF digit = "1" THEN "yes" ELSE "no"

FeedAgain(digit) ==     \* a later digit is judged as the first was
    IF window = "none" THEN "none" ELSE Decided(digit)

Feed(digit) == IF window = "wait" THEN Decided(digit) ELSE window

Heard(digit) ==
    IF digit # "1" THEN "other" ELSE IF clamp = "degraded" THEN "degraded" ELSE "clean"

Press(digit) ==
    /\ stage = "on" /\ ~ended
    /\ window # "none"
    /\ window' = Feed(digit)
    /\ press' = [t \in Task |->
                    IF t \in Asking /\ press[t] = "none" THEN Heard(digit) ELSE press[t]]
    /\ UNCHANGED <<privilege, task, pairing, life>>

HangsUp ==          \* whoever ends it
    /\ ~ended
    /\ ended' = TRUE
    /\ UNCHANGED <<privilege, task, window, press, pairing, stage>>

\* The loop ends, also of a call that nobody has hung up; then its teardown drops it
\* from the maps, the confirmation with it, and leaves the pairing.
Winds ==
    /\ stage # "gone"
    /\ stage' = IF stage = "on" THEN "over" ELSE "gone"
    /\ UNCHANGED <<privilege, task, window, press, pairing, ended>>

----
(* transfer_blind_on_call *)

AskBlind(t) ==
    /\ HookPasses
    /\ Current /\ Gate
    /\ Unarmed             \* ArmedConfirmation.arm raises on a second window
    /\ At(t, "idle", "prompt")
    /\ window' = "wait"
    /\ UNCHANGED <<privilege, press, pairing, life>>

Prompted(t) ==
    /\ At(t, "prompt", "window")
    /\ UNCHANGED <<privilege, window, press, pairing, life>>

NeverExpires == FALSE /\ UNCHANGED transferVars

Expire ==           \* a window is as long as its timer: none before the prompt is over
    /\ window = "wait"
    /\ \E t \in Task : task[t] = "window"
    /\ window' = "no"
    /\ UNCHANGED <<privilege, task, press, pairing, life>>

Revalidates == Current /\ Gate  \* after the await: the call, and its privilege

Decide(t) ==
    /\ window \in {"yes", "no"}
    /\ At(t, "window", IF window = "yes" /\ Revalidates THEN "refer" ELSE "idle")
    /\ window' = "none"
    /\ press' = IF task'[t] = "idle" THEN Forgets(t) ELSE press
    /\ UNCHANGED <<privilege, pairing, life>>

\* With the session's lock, _arm_transfer_outcome raises on an ended call and on a
\* second transfer.
RefusesRefer == ended \/ \E t \in Task : task[t] \in {"sent", "bridging"}

SendRefer(t) ==
    /\ At(t, "refer", IF RefusesRefer THEN "idle" ELSE "sent")
    /\ press' = Forgets(t)
    /\ UNCHANGED <<privilege, window, pairing, life>>

Referred(t) ==      \* rejected, or its outcome is known or timed out
    /\ At(t, "sent", "idle")
    /\ UNCHANGED <<privilege, window, press, pairing, life>>

----
(* transfer_attended: consult, complete, cancel *)

Consult(t) ==
    /\ HookPasses
    /\ Current /\ Gate
    /\ pairing = "none"
    /\ At(t, "idle", "dial")
    /\ pairing' = "pending"
    /\ UNCHANGED <<privilege, window, press, life>>

DialUp(t) ==
    /\ At(t, "dial", "idle")
    /\ pairing' = "up"
    /\ UNCHANGED <<privilege, window, press, life>>

DropsReservation == "none"      \* except BaseException: whatever it is by now

DialFails(t) ==
    /\ At(t, "dial", "idle")
    /\ pairing' = "none"
    /\ UNCHANGED <<privilege, window, press, life>>

Complete(t) ==
    /\ HookPasses
    /\ Current /\ pairing = "up" /\ Gate
    /\ At(t, "idle", "replaces")
    /\ UNCHANGED <<privilege, window, press, pairing, life>>

CompleteNothing(t) ==   \* the leg has ended, or it is still the sentinel
    /\ HookPasses
    /\ Current /\ pairing \in {"pending", "ended"}
    /\ task[t] = "idle"
    /\ pairing' = "none"
    /\ UNCHANGED <<privilege, task, window, press, life>>

SendReplaces(t) ==
    /\ At(t, "replaces", IF RefusesRefer THEN "idle" ELSE "bridging")
    /\ UNCHANGED <<privilege, window, press, pairing, life>>

\* Whatever the outcome, a failed one too, the pairing goes; a rejected REFER keeps it.
Bridged(t) ==
    /\ At(t, "bridging", "idle")
    /\ pairing' \in {"none", pairing}
    /\ UNCHANGED <<privilege, window, press, life>>

CancelConsult(t) ==     \* and its leg is hung up
    /\ HookPasses
    /\ task[t] = "idle"
    /\ pairing # "none"
    /\ pairing' = "none"
    /\ UNCHANGED <<privilege, task, window, press, life>>

LegEnds ==              \* its far end hangs up
    /\ pairing = "up"
    /\ pairing' = "ended"
    /\ UNCHANGED <<privilege, task, window, press, life>>

----
\* A tool's task is cancelled: every finally and except on its way out runs.
DisarmsOnAnswer(t) == IF task[t] = "window" THEN "none" ELSE window

Disarms(t) == IF t \in Asking THEN "none" ELSE window

Interrupt(t) ==
    /\ task[t] # "idle"
    /\ task' = [task EXCEPT ![t] = "idle"]
    /\ window' = Disarms(t)
    /\ press' = Forgets(t)
    /\ pairing' = IF task[t] = "dial" THEN DropsReservation ELSE pairing
    /\ UNCHANGED <<privilege, life>>

Asks(t) ==
    \/ AskBlind(t)
    \/ Consult(t)
    \/ Complete(t)
    \/ CompleteNothing(t)
    \/ CancelConsult(t)

Goes(t) ==
    \/ Prompted(t)
    \/ Decide(t)
    \/ SendRefer(t)
    \/ Referred(t)
    \/ DialUp(t)
    \/ DialFails(t)
    \/ SendReplaces(t)
    \/ Bridged(t)

TransfersNext ==
    \/ Screen
    \/ \E digit \in {"1", "2"} : Press(digit)
    \/ HangsUp
    \/ Winds
    \/ Expire
    \/ LegEnds
    \/ \E t \in Task : Asks(t) \/ Goes(t) \/ Interrupt(t)

\* The tools' tasks run, a window's timer too, and what they await comes or times out.
TransfersSpec ==
    /\ TransfersInit /\ [][TransfersNext]_transferVars
    /\ WF_transferVars(Expire)
    /\ \A t \in Task : WF_transferVars(Goes(t))

----
(* Properties *)

\* A blind transfer's REFER goes out only if the first key pressed since its own prompt
\* began was 1, on a call that was not degraded by then and has not ended since:
\* whatever was pressed before or after, whichever window was cancelled before it.
ReferConfirmed ==
    [][\A t \in Task : task[t] = "refer" /\ task'[t] = "sent"
            => press[t] = "clean" /\ ~ended]_transferVars

\* An armed window belongs to a tool that still asks: one that was cancelled, in its
\* prompt or after, leaves none that a later key could answer or that blocks the next.
WindowIsAsked == window # "none" <=> Asking # {}

\* A reserved consultation is being dialled: a dial that failed or was cancelled never
\* blocks the consultations after it.
ConsultReserved == pairing = "pending" => \E t \in Task : task[t] = "dial"

\* Every tool call returns: the confirmation is answered or times out, and the
\* transfer's outcome is known or given up.
ToolsReturn == \A t \in Task : task[t] # "idle" ~> task[t] = "idle"

\* No confirmation window and no reserved consultation outlives the tool that made it,
\* whichever await that tool failed or was cancelled at.
NothingOrphaned == WindowIsAsked /\ ConsultReserved
====
