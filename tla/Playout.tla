---- MODULE Playout ----
(***************************************************************************)
(* What the agent's side says in one call: the voices of                   *)
(* hermes_voip.media.call_loop.CallLoop and the tasks that own them.  The  *)
(* greeting, the agent's replies, the comfort filler, the no-input         *)
(* watchdog, the "didn't catch that" reprompt and the delivery task share  *)
(* one active stream, one playout lock, one flag that arms the echo gate   *)
(* and one flag of caller activity; a barge-in, a turn, a hold or the end  *)
(* of the call may come at any await.                                      *)
(*                                                                         *)
(* A voice is named for its task, and its stream for the voice.  A frame   *)
(* is pulled from the synthesiser and then sent; between the two, and      *)
(* while each goes on, every other task may run.  A cancelled task unwinds *)
(* in the step that cancels it, after what the canceller does in the same  *)
(* breath.                                                                 *)
(***************************************************************************)
EXTENDS Naturals, Sequences, FiniteSets, Subsequence

CONSTANTS
    Reply,         \* the replies that the agent may speak()
    Nobody,
    Feature,       \* what the call is configured with
    MaxReprompts,  \* no_input_max_reprompts
    MaxRefusals,   \* max_consecutive_refusals, 0 for no limit
    MaxTurns       \* bound: turns that the caller finishes

AllFeatures == {"greeting", "filler", "watchdog", "didntCatch", "decline", "goodbye"}

ASSUME PlayoutAssumption ==
    /\ Feature \subseteq AllFeatures
    /\ MaxReprompts \in Nat /\ MaxRefusals \in Nat /\ MaxTurns \in Nat
    /\ IsFiniteSet(Reply)
    /\ Nobody \notin Reply \cup {"greeting", "filler", "watchdog", "didntCatch", "delivery"}
    /\ Reply \cap {"greeting", "filler", "watchdog", "didntCatch", "delivery"} = {}

Voice == Reply \cup {"greeting", "filler", "watchdog", "didntCatch", "delivery"}

VARIABLES
    at,         \* where the task of each voice is
    active,     \* _active_tts_stream
    stopped,    \* streams with the stop flag set
    queue,      \* _playout_lock: its holder, then those that wait for it
    audio,      \* _tts_audio_active
    aired,      \* ghost: streams with a frame on the wire
    caller,     \* _caller_active_in_window
    farewell,   \* tasks in the goodbye of _end_call_gracefully
    answered,   \* ghost: of these, those that the caller has answered
    count,      \* reprompts_sent, _consecutive_refusals, and turns so far
    held,       \* transport.on_hold
    ending,     \* _end_call
    phase       \* of run(): listening, draining, joining, returned

ends == <<farewell, answered>>
course == <<held, ending, phase>>
vars == <<at, active, stopped, queue, audio, aired, caller, ends, count, course>>

----
(* Values *)

Playing == {"pulling", "sending"}
Registered == {"ready", "waiting"} \cup Playing
\* "quiet" is a task that runs and has no stream; a reply not yet spoken is "unsaid".
Place == {"unsaid", "off", "quiet", "screening"} \cup Registered

Zero == [reprompts |-> 0, refusals |-> 0, turns |-> 0]

Init ==
    /\ at = [v \in Voice |->
                CASE v \in Reply -> "unsaid"
                  [] v = "greeting" /\ v \in Feature -> "ready"
                  [] v = "watchdog" /\ v \in Feature -> "quiet"
                  [] OTHER -> "off"]
    /\ active = IF "greeting" \in Feature THEN "greeting" ELSE Nobody
    /\ stopped = {} /\ queue = <<>> /\ audio = FALSE /\ aired = {}
    /\ caller = FALSE /\ farewell = {} /\ answered = {}
    /\ count = Zero
    /\ held = FALSE /\ ending = FALSE /\ phase = "listening"

----
(* The playout lock and the active stream *)

Holder == IF queue # <<>> /\ at[Head(queue)] \in Playing THEN Head(queue) ELSE Nobody

\* What a cancel() of the active stream stops: a stream that a task still is to play.
\* (A FailoverTTS's stream keeps no note of a cancel() before its first pull: README.)
Live == {active} \cap {v \in Voice : at[v] \in Registered}

\* The queue without these tasks, in its order.
Without(gone) == Those(queue, {i \in DOMAIN queue : queue[i] \notin gone})

\* The tasks of "gone" leave _play; "now" is the active stream as they do.  The
\* finally clause disarms the echo gate, unless a later stream has registered.
\* A task cancelled while it waits for the lock never enters the try.
Leaves(gone, now) ==
    /\ queue' = Without(gone)
    /\ stopped' = stopped \ gone
    /\ aired' = aired \ gone
    /\ IF now = Holder /\ Holder \in gone
       THEN active' = Nobody /\ audio' = FALSE
       ELSE active' = now /\ UNCHANGED audio

\* Mutant: the stream that was active goes on.
SpeaksOver(v, gone) ==
    /\ active' = v
    /\ stopped' = stopped \ ({v} \cup gone)
    /\ queue' = Append(Without(gone), v)
    /\ aired' = aired \ ({v} \cup gone)
    /\ audio' = (audio /\ queue # <<>>)

\* Mutant: the echo gate is disarmed when a stream registers.
SpeaksEarly(v, gone) ==
    /\ active' = v
    /\ stopped' = (stopped \cup Live) \ ({v} \cup gone)
    /\ queue' = Append(Without(gone), v)
    /\ aired' = aired \ ({v} \cup gone)
    /\ audio' = FALSE

\* _speak_text up to its first suspension: the stream registers, the one before
\* it is stopped, and the lock is taken if it is free.
Speaks(v, gone) ==
    /\ active' = v
    /\ stopped' = (stopped \cup Live) \ ({v} \cup gone)
    /\ queue' = Append(Without(gone), v)
    /\ aired' = aired \ ({v} \cup gone)
    /\ audio' = (audio /\ queue # <<>>)

Entered == IF queue = <<>> THEN "pulling" ELSE "waiting"

\* The caller shows life; a goodbye that plays has been answered.
CallerActs ==
    /\ caller' = TRUE
    /\ answered' = answered \cup farewell
    /\ UNCHANGED farewell

----
(* The end of the call, by the loop itself *)

Commits == ~caller /\ ~held

\* Mutant: the goodbye is final.
ConcludesDeaf(v) ==
    /\ caller' = FALSE
    /\ ending' = (ending \/ ~held)
    /\ at' = [at EXCEPT ![v] = IF v = "watchdog" /\ held THEN "quiet" ELSE "off"]
    /\ count' = IF v = "watchdog" /\ held THEN [count EXCEPT !.reprompts = 0] ELSE count
    /\ farewell' = farewell \ {v} /\ answered' = answered \ {v}

\* _end_call_gracefully once the goodbye is over, and what its caller does next.
Concludes(v) ==
    /\ caller' = FALSE
    /\ ending' = (ending \/ Commits)
    /\ at' = [at EXCEPT ![v] = IF v = "watchdog" /\ ~Commits THEN "quiet" ELSE "off"]
    /\ count' = IF v = "watchdog" /\ ~Commits THEN [count EXCEPT !.reprompts = 0] ELSE count
    /\ farewell' = farewell \ {v} /\ answered' = answered \ {v}

StartsGoodbye(v) ==
    /\ Speaks(v, {})
    /\ at' = [at EXCEPT ![v] = Entered]
    /\ farewell' = farewell \cup {v} /\ answered' = answered \ {v}
    /\ UNCHANGED <<count, ending>>

WindsUp(v) ==
    IF "goodbye" \in Feature
    THEN StartsGoodbye(v)
    ELSE Concludes(v) /\ UNCHANGED <<active, stopped, queue, audio, aired>>

----
(* _play *)

GreetingPlays ==
    /\ at["greeting"] = "ready"
    /\ at' = [at EXCEPT !["greeting"] = Entered]
    /\ queue' = Append(queue, "greeting")
    /\ audio' = (audio /\ queue # <<>>)
    /\ UNCHANGED <<active, stopped, aired, caller, ends, count, course>>

\* The lock is ours: nothing of this stream is on the wire yet.
Acquires(v) ==
    /\ at[v] = "waiting" /\ Head(queue) = v
    /\ at' = [at EXCEPT ![v] = "pulling"]
    /\ audio' = FALSE
    /\ UNCHANGED <<active, stopped, queue, aired, caller, ends, count, course>>

Pulls(v) ==
    /\ at[v] = "pulling" /\ v \notin stopped
    /\ at' = [at EXCEPT ![v] = "sending"]
    /\ UNCHANGED <<active, stopped, queue, audio, aired, caller, ends, count, course>>

Sends(v) ==
    /\ at[v] = "sending"
    /\ at' = [at EXCEPT ![v] = "pulling"]
    /\ audio' = TRUE
    /\ aired' = aired \cup {v}
    /\ UNCHANGED <<active, stopped, queue, caller, ends, count, course>>

\* The stream is over: at its end, at its stop flag, or by an error, which the
\* loop's own phrases survive and speak() hands to the agent.
Finishes(v) ==
    /\ Leaves({v}, active)
    /\ IF v \in farewell
       THEN Concludes(v)
       ELSE /\ at' = [at EXCEPT ![v] = IF v \in {"filler", "watchdog"} THEN "quiet" ELSE "off"]
            /\ UNCHANGED <<caller, ends, count, ending>>
    /\ UNCHANGED <<held, phase>>

Ends(v) == at[v] = "pulling" /\ Finishes(v)

Fails(v) == at[v] = "sending" /\ v # "greeting" /\ Finishes(v)

----
(* The agent, the filler and the watchdog *)

\* speak(): the filler's task is cancelled before the reply registers.
Says(r) ==
    /\ r \in Reply /\ at[r] = "unsaid"
    /\ Speaks(r, {"filler"})
    /\ at' = [at EXCEPT ![r] = Entered, !["filler"] = "off"]
    /\ UNCHANGED <<caller, ends, count, course>>

\* _comfort_gap after a sleep; when agent audio is on the wire it sleeps again.
FillerWakes ==
    /\ at["filler"] = "quiet" /\ ~audio
    /\ Speaks("filler", {})
    /\ at' = [at EXCEPT !["filler"] = Entered]
    /\ UNCHANGED <<caller, ends, count, course>>

\* _no_input_gap after a window in which somebody was there, or the call was held.
WindowExcused ==
    /\ at["watchdog"] = "quiet" /\ (held \/ caller)
    /\ caller' = (caller /\ held)
    /\ count' = [count EXCEPT !.reprompts = 0]
    /\ UNCHANGED <<at, active, stopped, queue, audio, aired, ends, course>>

WindowSilent == at["watchdog"] = "quiet" /\ ~held /\ ~caller /\ ~audio

Reprompts ==
    /\ WindowSilent /\ count.reprompts < MaxReprompts
    /\ Speaks("watchdog", {})
    /\ at' = [at EXCEPT !["watchdog"] = Entered]
    /\ count' = [count EXCEPT !.reprompts = @ + 1]
    /\ UNCHANGED <<caller, ends, course>>

GivesUp ==
    /\ WindowSilent /\ count.reprompts = MaxReprompts
    /\ WindsUp("watchdog")
    /\ IF "goodbye" \in Feature THEN UNCHANGED caller ELSE TRUE
    /\ UNCHANGED <<held, phase>>

----
(* The caller *)

\* barge_in(): the filler's task is cancelled, the active stream stopped.
BargesIn ==
    /\ phase = "listening"
    /\ CallerActs
    /\ at' = [at EXCEPT !["filler"] = "off"]
    /\ queue' = Without({"filler"})
    /\ stopped' = (stopped \cup Live) \ {"filler"}
    /\ aired' = aired \ {"filler"}
    /\ IF active = Holder /\ Holder = "filler"
       THEN active' = Nobody /\ audio' = FALSE
       ELSE UNCHANGED <<active, audio>>
    /\ UNCHANGED <<count, course>>

\* A key: _mark_caller_active.
Presses ==
    /\ phase # "returned" /\ ~caller
    /\ CallerActs
    /\ UNCHANGED <<at, active, stopped, queue, audio, aired, count, course>>

\* _on_untranscribed_turn.
Mumbles ==
    /\ phase \in {"listening", "draining"} /\ "didntCatch" \in Feature
    /\ count.turns < MaxTurns
    /\ CallerActs
    /\ count' = [count EXCEPT !.turns = @ + 1]
    /\ IF at["didntCatch"] = "off"
       THEN /\ Speaks("didntCatch", {})
            /\ at' = [at EXCEPT !["didntCatch"] = Entered]
       ELSE UNCHANGED <<at, active, stopped, queue, audio, aired>>
    /\ UNCHANGED course

\* _screen_and_deliver up to the guard.
FinishesTurn ==
    /\ phase \in {"listening", "draining"} /\ at["delivery"] = "off"
    /\ count.turns < MaxTurns
    /\ CallerActs
    /\ count' = [count EXCEPT !.turns = @ + 1]
    /\ Leaves({"didntCatch"}, active)
    /\ at' = [at EXCEPT !["delivery"] = "screening", !["didntCatch"] = "off"]
    /\ UNCHANGED course

\* The guard lets the turn pass: the filler is armed anew, the agent has the turn.
Delivers ==
    /\ at["delivery"] = "screening"
    /\ Leaves({"filler"}, active)
    /\ at' = [at EXCEPT !["delivery"] = "off",
                        !["filler"] = IF "filler" \in Feature THEN "quiet" ELSE "off"]
    /\ count' = [count EXCEPT !.refusals = 0]
    /\ UNCHANGED <<caller, ends, course>>

AtLimit == MaxRefusals > 0 /\ count.refusals + 1 >= MaxRefusals
Refused == [count EXCEPT !.refusals = IF @ < MaxRefusals THEN @ + 1 ELSE @]

Declines ==
    /\ at["delivery"] = "screening" /\ ~AtLimit
    /\ count' = Refused
    /\ IF "decline" \in Feature
       THEN Speaks("delivery", {}) /\ at' = [at EXCEPT !["delivery"] = Entered]
       ELSE /\ at' = [at EXCEPT !["delivery"] = "off"]
            /\ UNCHANGED <<active, stopped, queue, audio, aired>>
    /\ UNCHANGED <<caller, ends, course>>

\* The limit of refusals: the flag that this turn has set is cleared.
TurnsAway ==
    /\ at["delivery"] = "screening" /\ AtLimit
    /\ count' = Refused
    /\ caller' = FALSE
    /\ IF "goodbye" \in Feature
       THEN /\ Speaks("delivery", {})
            /\ at' = [at EXCEPT !["delivery"] = Entered]
            /\ farewell' = farewell \cup {"delivery"} /\ answered' = answered \ {"delivery"}
            /\ UNCHANGED ending
       ELSE /\ at' = [at EXCEPT !["delivery"] = "off"]
            /\ ending' = (ending \/ ~held)
            /\ UNCHANGED <<active, stopped, queue, audio, aired, ends>>
    /\ UNCHANGED <<held, phase>>

Holds ==
    /\ held' = ~held
    /\ UNCHANGED <<at, active, stopped, queue, audio, aired, caller, ends, count, ending, phase>>

----
(* run() *)

\* The pump: end of the inbound stream, or the next frame after _end_call.
StopsListening ==
    /\ phase = "listening"
    /\ phase' = "draining"
    /\ UNCHANGED <<at, active, stopped, queue, audio, aired, caller, ends, count, held, ending>>

\* The finally clause of run(): the watchdog and the reprompt are cancelled ...
Unwinds(gone) ==
    /\ phase' = "joining"
    /\ Leaves(gone, active)
    /\ at' = [v \in Voice |-> IF v \in gone THEN "off" ELSE at[v]]
    /\ farewell' = farewell \ gone /\ answered' = answered \ gone
    /\ UNCHANGED <<caller, count, held, ending>>

Drained ==
    /\ phase = "draining" /\ at["delivery"] = "off" /\ at["greeting"] = "off"
    /\ Unwinds({"watchdog", "didntCatch"})

\* ... also when the greeting fails, which takes the task group with it.
GreetingFails ==
    /\ phase \in {"listening", "draining"} /\ at["greeting"] \in Playing
    /\ Unwinds({"watchdog", "didntCatch", "delivery", "greeting"})

\* Mutant: the filler is left to its task.
ReturnsEarly ==
    /\ phase = "joining"
    /\ phase' = "returned"
    /\ UNCHANGED <<at, active, stopped, queue, audio, aired, caller, ends, count, held, ending>>

\* ... and when they have been joined, the filler.
Returns ==
    /\ phase = "joining"
    /\ phase' = "returned"
    /\ Leaves({"filler"}, active)
    /\ at' = [at EXCEPT !["filler"] = "off"]
    /\ UNCHANGED <<caller, ends, count, held, ending>>

----
Next ==
    \/ \E v \in Voice : Acquires(v) \/ Pulls(v) \/ Sends(v) \/ Ends(v) \/ Fails(v)
    \/ \E r \in Reply : Says(r)
    \/ GreetingPlays \/ FillerWakes
    \/ WindowExcused \/ Reprompts \/ GivesUp
    \/ BargesIn \/ Presses \/ Mumbles \/ FinishesTurn
    \/ Delivers \/ Declines \/ TurnsAway
    \/ Holds
    \/ StopsListening \/ Drained \/ GreetingFails \/ Returns

Spec == Init /\ [][Next]_vars

\* A task that can run does (one task at a time is at the head of the lock, so one
\* condition serves them all); a stream pulled again and again comes to its end; the
\* guard has a verdict.  The pump sees frames while the line is up, so an end that
\* was committed is noticed.  The agent, the caller and the clocks promise nothing.
Fairness ==
    /\ WF_vars(\E v \in Voice : Acquires(v) \/ Sends(v))
    /\ SF_vars(\E v \in Voice : Ends(v))
    /\ WF_vars(GreetingPlays)
    /\ WF_vars(Delivers \/ Declines \/ TurnsAway)
    /\ WF_vars(ending /\ StopsListening) /\ WF_vars(Drained) /\ WF_vars(Returns)

FairSpec == Spec /\ Fairness

----
(* Properties *)

TypeOK ==
    /\ at \in [Voice -> Place]
    /\ active \in Voice \cup {Nobody}
    /\ stopped \subseteq Voice /\ aired \subseteq Voice
    /\ farewell \subseteq {"watchdog", "delivery"} /\ answered \subseteq farewell
    /\ queue \in Seq(Voice) /\ Len(queue) <= Cardinality(Voice)
    /\ count \in [reprompts : 0..MaxReprompts, refusals : 0..MaxRefusals, turns : 0..MaxTurns]
    /\ {audio, caller, held, ending} \subseteq BOOLEAN
    /\ phase \in {"listening", "draining", "joining", "returned"}

\* Whatever supersedes what, a stream that is no longer the active one takes no
\* further frame from its synthesiser: one voice, the newest (speak, _speak_text).
SupersededIsSilent ==
    [][\A v \in Voice : at[v] = "pulling" /\ at'[v] = "sending" => v = active]_vars

\* While a stream that is on the wire still plays, the echo gate is armed, so the
\* agent's own echo is never taken for the caller (the flag is reset under the lock).
EchoGated == TypeOK /\ \A v \in aired : at[v] \in Playing => audio

\* The no-input watchdog never hangs up on a caller who has answered its goodbye.
EndsUnanswered ==
    [][ending' /\ ~ending =>
         \/ "watchdog" \notin answered
         \/ MaxRefusals > 0 /\ count'.refusals >= MaxRefusals]_vars

\* Once the line has ended, or the loop has decided to end the call, run() returns,
\* and from then on no task of the loop speaks: what is left is what the agent says.
RunReturns ==
    (phase = "draining" \/ ending) ~>
        [](phase = "returned" /\ \A v \in Voice \ Reply : at[v] = "off")

\* No reply is stuck behind the lock: every speak() returns.
SpeakReturns == \A r \in Reply : at[r] \in Registered ~> at[r] = "off"

\* Both of these: the loop ends and no reply is stuck (run, speak).
TurnsReturn == RunReturns /\ SpeakReturns
====
