---- MODULE MediaSend ----
(***************************************************************************)
(* The sending side of one call's media plane,                             *)
(* hermes_voip.media.engine.RtpMediaTransport: the carry buffer that cuts  *)
(* audio into packets, the pacing of each packet to its deadline, and what *)
(* may happen while a packet waits for it: a DTMF burst or another speaker *)
(* queueing for the TX lock, a barge-in that flushes, a re-key, a hold, the*)
(* cancellation of the speaking task, the flush before an agent's hang-up, *)
(* and stop().                                                             *)
(*                                                                         *)
(* Audio is counted in half packets, numbered as they go into the buffer: a*)
(* chunk from a synthesiser seldom ends on a packet, and what remains is   *)
(* carried to the next.  A packet is encoded, numbered and protected in one*)
(* step and leaves in another; the first of a stream leaves without        *)
(* waiting, which is the case of nothing happening in between.  Sequence   *)
(* numbers do not wrap here; timestamps and the clock are left out.        *)
(***************************************************************************)
EXTENDS Integers, Sequences

CONSTANTS
    Speaker,      \* tasks that may be in send_audio
    Tone, Key,    \* the task of a DTMF burst, and that of a re-key
    NoPacket,
    TonePackets,  \* packets of one burst, the redundant end packets included
    Fade,         \* half packets of the fade-out that flush_outbound sends
    Patient,      \* the hang-up's drain is never cut short by its timeout
    MaxHalves,    \* bound: half packets handed to send_audio
    MaxSeq,       \* bound: no burst starts past this sequence number
    MaxChanges    \* bound: barge-ins, re-keys and holds, of each

ASSUME MediaSendAssumption ==
    /\ {TonePackets, Fade, MaxHalves, MaxSeq, MaxChanges} \subseteq Nat
    /\ TonePackets > 0
    /\ Patient \in BOOLEAN
    /\ Tone \notin Speaker /\ Key \notin Speaker \cup {Tone}
    /\ NoPacket \notin [key : Nat, seq : Nat, from : Nat, to : Nat]

Task == Speaker \cup {Tone, Key}

VARIABLES
    at,        \* where each task is
    lock,      \* _tx_lock: its holder, then those that wait for it
    call,      \* the arguments and locals of each task's call
    first,     \* _tx_buffer: its first half packet,
    last,      \*   and the last half packet ever put into it
    inflight,  \* _inflight_wire
    seq,       \* _seq
    key,       \* _srtp_out, by the number of its key
    flushes,   \* _flush_generation
    held,      \* on_hold
    holds,     \* bound: times held
    open,      \* _transport is there
    handed,    \* bound: half packets handed to send_audio so far
    out,       \* ghost: packets that the last step has put on the wire
    sent,      \* ghost: the highest number, and the last half, on the wire
    cut,       \* ghost: halves that a flush or a hold has dropped
    orphaned   \* ghost: halves encoded by a task that was then cancelled

tasks == <<at, lock, call>>
buffer == <<first, last>>
ghosts == <<cut, orphaned>>
vars == <<tasks, buffer, inflight, seq, key, flushes, held, holds, open, handed,
          out, sent, ghosts>>

----
(* Packets, and what puts them on the wire *)

\* A packet of the halves from a to b; one of a DTMF burst carries none.
Packet(n, a, b) == [key |-> key, seq |-> n, from |-> a, to |-> b]
Packets == [key : Nat, seq : Nat, from : Nat, to : Nat]
Sounds(p) == p.from > 0

Smaller(a, b) == IF a < b THEN a ELSE b
Larger(a, b) == IF a < b THEN b ELSE a

Idle == [halves |-> 0, epoch |-> 0, packet |-> NoPacket, left |-> 0]

\* The halves from a to b as whole packets, the last one padded.
PacketsFor(a, b) ==
    [i \in 1..((b - a + 2) \div 2) |->
        Packet(seq + i - 1, a + 2 * (i - 1), Smaller(b, a + 2 * i - 1))]

Emit(ps) ==
    /\ out' = ps
    /\ sent' = IF ps = <<>> THEN sent
               ELSE [seq |-> Larger(sent.seq, ps[Len(ps)].seq),
                     half |-> Larger(sent.half, ps[Len(ps)].to)]

Nothing == out' = <<>> /\ UNCHANGED sent
Now(p) == IF p = NoPacket THEN <<>> ELSE <<p>>

Init ==
    /\ at = [t \in Task |-> "idle"]
    /\ lock = <<>>
    /\ call = [t \in Task |-> Idle]
    /\ first = 1 /\ last = 0 /\ inflight = NoPacket
    /\ seq = 1 /\ key = 1 /\ flushes = 0 /\ held = FALSE /\ holds = 0 /\ open = TRUE
    /\ handed = 0
    /\ out = <<>> /\ sent = [seq |-> 0, half |-> 0]
    /\ cut = {} /\ orphaned = {}

----
(* send_audio *)

\* Leaves the lock, or its place among those that wait for it.
Withdraws(t) ==
    \E i \in DOMAIN lock :
        /\ lock[i] = t
        /\ lock' = [j \in 1 .. Len(lock) - 1 |-> lock[IF j < i THEN j ELSE j + 1]]

\* Gives the lock up: the first that waits for it will find itself at its head.
LeaveLocked(t, queue) ==          \* the return that forgets the lock
    /\ at' = [at EXCEPT ![t] = "idle"]
    /\ call' = [call EXCEPT ![t] = Idle]
    /\ lock' = queue

Leave(t, queue) ==
    /\ at' = [at EXCEPT ![t] = "idle"]
    /\ call' = [call EXCEPT ![t] = Idle]
    /\ lock' = Tail(queue)

WholeIsDue(a, b) == a <= b        \* a padded packet for every chunk
Whole(a, b) == a < b

\* The next packet of a buffer a..b is encoded, parked and left to its deadline,
\* or there is no whole packet any more and the call returns.
Drains(t, c, queue, parked, a, b) ==
    /\ last' = b
    /\ IF open /\ Whole(a, b)
       THEN LET p == Packet(seq, a, a + 1) IN
            /\ first' = a + 2
            /\ seq' = seq + 1
            /\ inflight' = p
            /\ at' = [at EXCEPT ![t] = "pacing"]
            /\ call' = [call EXCEPT ![t] = [c EXCEPT !.packet = p]]
            /\ lock' = queue
       ELSE /\ first' = a
            /\ inflight' = parked
            /\ UNCHANGED seq
            /\ Leave(t, queue)

\* With the lock: the chunk joins what the buffer carries, under the flush
\* generation of this moment.
Enters(t, c, queue) ==
    Drains(t, [c EXCEPT !.epoch = flushes], queue, inflight, first, last + c.halves)

\* Hold and the closed socket are looked at once, before the lock.
SendAudio(t, n) ==
    /\ at[t] = "idle" /\ ~held /\ open
    /\ handed + n <= MaxHalves
    /\ handed' = handed + n
    /\ LET c == [Idle EXCEPT !.halves = n] IN
       IF lock = <<>>
       THEN Enters(t, c, <<t>>)
       ELSE /\ at' = [at EXCEPT ![t] = "queued"]
            /\ call' = [call EXCEPT ![t] = c]
            /\ lock' = Append(lock, t)
            /\ UNCHANGED <<buffer, inflight, seq>>
    /\ Nothing
    /\ UNCHANGED <<key, flushes, held, holds, open, ghosts>>

Acquire(t) ==
    /\ at[t] = "queued" /\ Head(lock) = t
    /\ Enters(t, call[t], lock)
    /\ Nothing
    /\ UNCHANGED <<key, flushes, held, holds, open, handed, ghosts>>

\* The deadline comes.  A barge-in since the chunk went into the buffer has
\* taken the packet back; after a stop() the packet stays parked.
Superseded(t) == flushes # call[t].epoch

Wake(t) ==
    /\ at[t] = "pacing"
    /\ IF Superseded(t)
       THEN inflight' = NoPacket /\ UNCHANGED <<buffer, seq>> /\ Leave(t, lock) /\ Nothing
       ELSE IF ~open
       THEN UNCHANGED <<buffer, seq, inflight>> /\ Leave(t, lock) /\ Nothing
       ELSE /\ Emit(<<call[t].packet>>)
            /\ Drains(t, call[t], lock, NoPacket, first, last)
    /\ UNCHANGED <<key, flushes, held, holds, open, handed, ghosts>>

\* The task is cancelled, as the comfort filler's is when the reply comes: the
\* packet stays parked and the rest of the chunk stays in the buffer.
Cancel(t) ==
    /\ at[t] \in {"queued", "pacing"} /\ t # Key
    /\ at' = [at EXCEPT ![t] = "idle"]
    /\ call' = [call EXCEPT ![t] = Idle]
    /\ Withdraws(t)
    /\ LET p == call[t].packet IN
       orphaned' = IF p = NoPacket THEN orphaned ELSE orphaned \cup p.from..p.to
    /\ Nothing
    /\ UNCHANGED <<buffer, inflight, seq, key, flushes, held, holds, open, handed, cut>>

----
(* send_dtmf and rekey_srtp *)

StartTone ==
    /\ at[Tone] = "idle" /\ open
    /\ seq + TonePackets <= MaxSeq
    /\ at' = [at EXCEPT ![Tone] = "toning"]
    /\ call' = [call EXCEPT ![Tone] = [Idle EXCEPT !.left = TonePackets]]
    /\ lock' = Append(lock, Tone)
    /\ Nothing
    /\ UNCHANGED <<buffer, inflight, seq, key, flushes, held, holds, open, handed, ghosts>>

\* The packets of a burst leave at once, one every deadline, under one lock.
TonePacket ==
    /\ at[Tone] = "toning" /\ Head(lock) = Tone
    /\ IF open /\ call[Tone].left > 0
       THEN /\ Emit(<<Packet(seq, 0, 0)>>)
            /\ seq' = seq + 1
            /\ call' = [call EXCEPT ![Tone].left = @ - 1]
            /\ UNCHANGED <<at, lock>>
       ELSE UNCHANGED seq /\ Leave(Tone, lock) /\ Nothing
    /\ UNCHANGED <<buffer, inflight, key, flushes, held, holds, open, handed, ghosts>>

StartRekey ==
    /\ at[Key] = "idle" /\ key <= MaxChanges
    /\ at' = [at EXCEPT ![Key] = "keying"]
    /\ lock' = Append(lock, Key)
    /\ Nothing
    /\ UNCHANGED <<call, buffer, inflight, seq, key, flushes, held, holds, open, handed, ghosts>>

MayRekeyAtOnce == TRUE            \* rekey_srtp without the lock

MayRekey == Head(lock) = Key

Rekey ==
    /\ at[Key] = "keying" /\ MayRekey
    /\ key' = key + 1
    /\ at' = [at EXCEPT ![Key] = "idle"]
    /\ Withdraws(Key)
    /\ Nothing
    /\ UNCHANGED <<call, buffer, inflight, seq, flushes, held, holds, open, handed, ghosts>>

----
(* What takes no lock *)

\* A burst of the halves a..b, unpaced, under the next numbers.
Inline(parked, a, b) ==
    /\ Emit(Now(parked) \o PacketsFor(a, b))
    /\ seq' = seq + Len(PacketsFor(a, b))

\* flush_outbound: the front of the buffer fades out, the rest is dropped.
Flush ==
    /\ flushes < MaxChanges
    /\ flushes' = flushes + 1
    /\ inflight' = NoPacket
    /\ first' = last + 1
    /\ IF open /\ ~held
       THEN Inline(NoPacket, first, Smaller(last, first + Fade - 1))
       ELSE Nothing /\ UNCHANGED seq
    /\ cut' = cut \cup first..last
                  \cup (IF inflight = NoPacket THEN {} ELSE inflight.from..inflight.to)
    /\ UNCHANGED <<tasks, last, key, held, holds, open, handed, orphaned>>

\* _flush_tx_tail: what is parked, then what is buffered.
ParkedLater == NoPacket           \* the tail flushed before what is parked

Parked == inflight

FlushTail ==
    /\ Inline(Parked, first, last)
    /\ inflight' = NoPacket
    /\ first' = last + 1

\* flush_pending_audio, before an agent's BYE: the drain has waited until no one
\* speaks, unless its timeout has passed.
FlushPending ==
    /\ open /\ ~held
    /\ Patient => \A t \in Speaker : at[t] = "idle"
    /\ FlushTail
    /\ UNCHANGED <<tasks, last, key, flushes, held, holds, open, handed, ghosts>>

Stop ==
    /\ open
    /\ IF held THEN Nothing /\ UNCHANGED seq /\ inflight' = NoPacket /\ first' = last + 1
       ELSE FlushTail
    /\ open' = FALSE
    /\ UNCHANGED <<tasks, last, key, flushes, held, holds, handed, ghosts>>

Hold ==
    /\ holds < MaxChanges
    /\ held' = ~held
    /\ holds' = IF held THEN holds ELSE holds + 1
    /\ first' = IF held THEN first ELSE last + 1
    /\ cut' = IF held THEN cut ELSE cut \cup first..last
    /\ Nothing
    /\ UNCHANGED <<tasks, last, inflight, seq, key, flushes, open, handed, orphaned>>

----
Next ==
    \/ \E t \in Speaker, n \in 1..3 : SendAudio(t, n)
    \/ \E t \in Speaker : Acquire(t) \/ Wake(t)
    \/ \E t \in Speaker \cup {Tone} : Cancel(t)
    \/ StartTone \/ TonePacket \/ StartRekey \/ Rekey
    \/ Flush \/ FlushPending \/ Stop \/ Hold

Spec == Init /\ [][Next]_vars

\* A task that holds the lock goes on, one that waits is let in: the event loop
\* and its timers run.  Nobody has to speak, flush, hold or stop.
FairSpec ==
    /\ Spec
    /\ \A t \in Speaker : WF_vars(Acquire(t) \/ Wake(t))
    /\ WF_vars(TonePacket) /\ WF_vars(Rekey)

----
(* Properties *)

TypeOK ==
    /\ at \in [Task -> {"idle", "queued", "pacing", "toning", "keying"}]
    /\ lock \in Seq(Task)
    /\ call \in [Task -> [halves : Nat, epoch : Nat,
                          packet : Packets \cup {NoPacket}, left : Nat]]
    /\ last \in Nat /\ first \in 1..last + 1
    /\ inflight \in Packets \cup {NoPacket}
    /\ {seq, key, flushes, holds, handed} \subseteq Nat
    /\ held \in BOOLEAN /\ open \in BOOLEAN
    /\ out \in Seq(Packets) /\ sent \in [seq : Nat, half : Nat]
    /\ cut \subseteq Nat /\ orphaned \subseteq Nat

\* The packet of a cancelled task, which only a tail flush may still send.
Orphan(p) == Sounds(p) /\ p.from \in orphaned

Before(i) == IF i = 1 THEN sent ELSE [seq |-> out'[i - 1].seq, half |-> out'[i - 1].to]

\* Every packet leaves with a higher sequence number than all before it and
\* under the key now in force, whoever sends it: a speaker at its deadline, a
\* DTMF burst, a fade-out or the flush of the tail.
NumbersInOrder ==
    [][\A i \in DOMAIN out' :
          ~Orphan(out'[i]) => out'[i].seq > Before(i).seq /\ out'[i].key = key]_vars

\* The audio is heard once and in the order it was handed over, and nothing of it
\* is left out but what a barge-in or a hold has dropped and the packet that a
\* cancelled task had encoded.
SamplesContinuous ==
    [][\A i \in DOMAIN out' :
          Sounds(out'[i]) =>
              /\ out'[i].from > Before(i).half
              /\ Before(i).half + 1..out'[i].from - 1 \subseteq cut' \cup orphaned']_vars

\* What a barge-in or a hold has dropped is not heard afterwards, a packet that
\* waited for its deadline at that moment included.
DroppedStaysOut ==
    [][\A i \in DOMAIN out' :
          Sounds(out'[i]) => cut \cap out'[i].from..out'[i].to = {}]_vars

\* Whoever speaks, sends a burst or re-keys is done some time, whatever flushes,
\* holds, cancellations and stops come in between.
TasksReturn == \A t \in Task : at[t] # "idle" ~> at[t] = "idle"

\* The audio is heard as it was handed over: in order, once, and without what was dropped
\* (send_audio, flush, set_hold, stop).
HeardAsHanded == SamplesContinuous /\ DroppedStaysOut
====
