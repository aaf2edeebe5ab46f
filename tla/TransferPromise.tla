---- MODULE TransferPromise ----
(***************************************************************************)
(* What hermes_voip.call promises of a transfer's outcome, with no         *)
(* signalling in it.  A transfer waits for an outcome.  The first cause    *)
(* decides it: the peer's final report, while the call is up, or the end   *)
(* of the call.  A decision is never revised; a transfer that is told the  *)
(* outcome is unknown gave up while the call was up and nothing decided.   *)
(***************************************************************************)
CONSTANT Task

VARIABLES up, outcome

pvars == <<up, outcome>>

Reported == {"completed", "failed"}

PromiseInit == up = TRUE /\ outcome = [t \in Task |-> "idle"]

\* One transfer at a time waits, and only on a live call.
Begin(t) ==
    /\ up
    /\ \A u \in Task : outcome[u] # "waiting"
    /\ outcome' = [outcome EXCEPT ![t] = "waiting"]
    /\ UNCHANGED up

Decide(t, result) ==
    /\ up
    /\ outcome[t] = "waiting"
    /\ outcome' = [outcome EXCEPT ![t] = result]
    /\ UNCHANGED up

GiveUp(t) ==
    /\ up
    /\ outcome[t] = "waiting"
    /\ outcome' = [outcome EXCEPT ![t] = "unknown"]
    /\ UNCHANGED up

\* The task failed, or went on to something else.
Forget(t) ==
    /\ outcome' = [outcome EXCEPT ![t] = "idle"]
    /\ UNCHANGED up

CallEnds ==
    /\ up' = FALSE
    /\ outcome' = [t \in Task |-> IF outcome[t] = "waiting" THEN "ended"
                                                            ELSE outcome[t]]

PromiseNext ==
    \/ \E t \in Task :
         \/ Begin(t) \/ GiveUp(t) \/ Forget(t)
         \/ \E r \in Reported : Decide(t, r)
    \/ CallEnds

Promise == PromiseInit /\ [][PromiseNext]_pvars
====
