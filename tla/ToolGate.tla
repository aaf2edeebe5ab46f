---- MODULE ToolGate ----
(***************************************************************************)
(* The gate before every VoIP tool: the guard state of a call as the       *)
(* screening of the caller's turns moves it (hermes_voip.providers.policy),*)
(* the risk of each tool and the ceilings of the caller's group            *)
(* (hermes_voip.tools), and the hook that Hermes runs before a tool        *)
(* (hermes_voip.voip_tools).                                               *)
(***************************************************************************)
EXTENDS Integers, CallerGroups

Safe == {"hang_up", "report_call_result"}
Elevated == {"hold_call", "resume_call", "list_registrations", "send_dtmf", "open_entry"}
Irreversible == {"place_call", "transfer_blind", "transfer_attended"}
Tools == Safe \cup Elevated \cup Irreversible

GrantOnly == {"open_entry"}

MinLevel(tool) == IF tool \in Elevated THEN ElevatedLevel ELSE IrreversibleLevel

----
(* GuardSessionState. *)

Guard(level, tools) ==
    [level |-> level, tools |-> tools, degraded |-> FALSE, restricted |-> FALSE]
NoGuard == Guard(-1, {})        \* no live call of that name

\* Mutant: a clean screen forgets an earlier failure.
RecordLatest(guard, verdict, failedOpen) ==
    [guard EXCEPT !.degraded = failedOpen, !.restricted = verdict # "allow"]
\* A screen: degraded is for the rest of the call, the clamp is of this turn only.
Record(guard, verdict, failedOpen) ==
    [guard EXCEPT !.degraded = @ \/ failedOpen, !.restricted = verdict # "allow"]

\* A keypad turn is not screened and is not clamped by the turn before it.
NoteTrustedTurn(guard) == [guard EXCEPT !.restricted = FALSE]

----
(* The decision. *)

GateToolCall(tool, guard, confirmed) ==
    \/ tool \in Safe
    \/ /\ ~ guard.degraded /\ ~ guard.restricted
       /\ guard.level >= MinLevel(tool)
       /\ tool \in Irreversible => confirmed

\* The group's list of tools can only remove; the door needs to be on it by name.
WithinGrant(tool, guard) ==
    /\ tool \in GrantOnly => tool \in guard.tools
    /\ tool \in Safe \/ guard.tools = {} \/ tool \in guard.tools

GateVoipTool(tool, guard, confirmed) ==
    tool \in Tools /\ WithinGrant(tool, guard) /\ GateToolCall(tool, guard, confirmed)

----
(* The hook. *)

\* A call from a session that is no call: only place_call, only from a session that is
\* listed and is not one of this plug-in's own.
ProactivePlaceCallAllowed(tool, session, listed) ==
    /\ tool = "place_call"
    /\ session.readable
    /\ session.platform # "voip"
    /\ session \in listed

ConfirmedAtChokepoint == Irreversible

\* The guard of the session's call; without a live one, no privilege but for that.
PreToolCall(tool, guard, session, listed) ==
    LET unknown == IF ProactivePlaceCallAllowed(tool, session, listed)
                   THEN IrreversibleLevel ELSE 0
        judged == IF guard = NoGuard THEN Guard(unknown, NoTools) ELSE guard
    IN  GateVoipTool(tool, judged, tool \in ConfirmedAtChokepoint)
====
