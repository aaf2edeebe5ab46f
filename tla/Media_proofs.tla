---- MODULE Media_proofs ----
(***************************************************************************)
(* The media plane of a call.                                              *)
(*                                                                         *)
(* MediaSend: packets leave in the order of their numbers and under the    *)
(* key in force, and audio is heard once, in order and without what was    *)
(* dropped, for any speakers and bounds.  It is assumed that the drain     *)
(* before a hang-up is not cut by its timeout (Patient); types need not.   *)
(*                                                                         *)
(* What carries it is whose the parked packet is (Owned, Live): that of    *)
(* the speaker who waits at the head of the lock for its deadline, so that *)
(* no other task numbers, keys or speaks meanwhile; or an orphan, which    *)
(* only a flush of the tail may still send.                                *)
(*                                                                         *)
(* MediaReceive: the call hears the frames of the peer in their order, and *)
(* nothing is sent to where a peer was that has moved, for any network and *)
(* bounds.  The first rests on what the buffer holds (JitterTrue): slots   *)
(* after the last that was given, none further than the window, so that a  *)
(* number tells which packet it is; the second on what is remembered of    *)
(* the address that was left, or refuses it (LatchTrue).                   *)
(*                                                                         *)
(* That the stream is followed, heard and counted as it was sent, needs the*)
(* limits of the protocols (Followable, KeyedInTime) and three more        *)
(* invariants: SRTP knows the newest packet it has taken (SrtpTrue); the   *)
(* statistics are those of the packets counted, and SRTP takes each of them*)
(* once (StatsTrue); and a buffer that gives nothing waits with one packet *)
(* more for each that came (WaitTrue).                                     *)
(***************************************************************************)
EXTENDS MediaSend, MediaReceive, FiniteSetTheorems, SequenceTheorems, WellFoundedInduction,
        TLAPS

Place == {"idle", "queued", "pacing", "toning", "keying"}
Call == [halves : Nat, epoch : Nat, packet : Packets \cup {NoPacket}, left : Nat]

----
(* Whose the lock and the parked packet are *)

\* Whoever has something to do has the lock or is in line for it.
InLine == \A t \in Task : at[t] # "idle" => \E i \in DOMAIN lock : lock[i] = t

\* Who is at its deadline is a speaker, holds the lock, and has its packet.
Paced ==
    \A t \in Task : at[t] = "pacing" =>
        /\ t \in Speaker /\ Len(lock) > 0 /\ lock[1] = t
        /\ call[t].packet # NoPacket /\ call[t].epoch <= flushes

\* Who is not has none.
Unpaced == \A t \in Task : at[t] # "pacing" => call[t].packet = NoPacket

\* A packet that is parked is that of the task at its deadline, or a cancelled task's.
Owned ==
    inflight # NoPacket =>
        \/ inflight.from .. inflight.to \subseteq orphaned
        \/ \E t \in Task : at[t] = "pacing" /\ call[t].packet = inflight

\* The packet that will be sent at a deadline is parked.
Live ==
    \A t \in Task : at[t] = "pacing" /\ open =>
        inflight = IF Superseded(t) THEN NoPacket ELSE call[t].packet

Shut == ~open => inflight = NoPacket

Locked == Paced /\ Unpaced /\ Owned /\ Live /\ Shut

----
(* Numbers and audio *)

\* The next number is a new one; a parked packet has one that nothing overtakes, and the
\* key in force, unless its task was cancelled.
Numbered ==
    /\ sent.seq < seq
    /\ inflight # NoPacket =>
        /\ inflight.seq < seq
        /\ inflight.from \in orphaned \/ (inflight.seq > sent.seq /\ inflight.key = key)

\* A parked packet lies between what was heard and what is buffered, and was not dropped.
Between ==
    inflight # NoPacket =>
        /\ sent.half < inflight.from /\ inflight.from <= inflight.to /\ inflight.to < first
        /\ inflight.from .. inflight.to \cap cut = {}

\* What is buffered was neither heard nor dropped.
Ahead == sent.half < first /\ \A h \in cut : h < first

\* Of what is before the buffer and was not heard: all is parked, or given up.
Missing(h, a, parked) ==
    /\ h \in Nat /\ sent.half < h /\ h < a
    /\ parked # NoPacket => h \notin parked.from .. parked.to

Accounted == open => \A h : Missing(h, first, inflight) => h \in cut \cup orphaned

Ordered == Numbered /\ Between /\ Ahead /\ Accounted

IInv == TypeOK /\ InLine /\ Locked /\ Ordered

----
(* Sequences of packets *)

\* The packets that a burst makes of the halves from a to b (_emit_inline_frames).
LEMMA Packeting ==
    ASSUME seq \in Nat, key \in Nat, NEW a \in Nat \ {0}, NEW b \in Nat, a <= b + 1
    PROVE  /\ PacketsFor(a, b) \in Seq(Packets)
           /\ \A i \in 1 .. Len(PacketsFor(a, b)) :
                LET p == PacketsFor(a, b)[i] IN
                /\ p.seq = seq + i - 1 /\ p.key = key
                /\ a <= p.from /\ p.from <= p.to /\ p.to <= b
                /\ i = 1 => p.from = a
                /\ i > 1 => p.from = PacketsFor(a, b)[i - 1].to + 1
                /\ i = Len(PacketsFor(a, b)) => p.to = b
           /\ Len(PacketsFor(a, b)) \in Nat
           /\ Len(PacketsFor(a, b)) = 0 => a = b + 1
<1> DEFINE n == (b - a + 2) \div 2
           ps == PacketsFor(a, b)
           lo == [i \in 1 .. n |-> a + 2 * (i - 1)]
           hi == [i \in 1 .. n |-> Smaller(b, a + 2 * i - 1)]
<1>1. n \in Nat /\ 2 * n <= b - a + 2 /\ b - a + 1 <= 2 * n
  OBVIOUS
<1>2. ps = [i \in 1 .. n |-> Packet(seq + i - 1, lo[i], hi[i])]
  BY DEF PacketsFor
<1> HIDE DEF n, ps
<1>3. \A i \in 1 .. n :
        /\ lo[i] \in Nat /\ hi[i] \in Nat /\ a <= lo[i] /\ lo[i] <= hi[i] /\ hi[i] <= b
        /\ i < n => hi[i] = lo[i] + 1
        /\ i = n => hi[i] = b
        /\ i = 1 => lo[i] = a
        /\ i > 1 => i - 1 \in 1 .. n /\ i - 1 < n /\ lo[i] = lo[i - 1] + 2
  BY <1>1 DEF Smaller
<1> HIDE DEF lo, hi
<1>4. \A i \in 1 .. n :
        ps[i].key = key /\ ps[i].seq = seq + i - 1 /\ ps[i].from = lo[i] /\ ps[i].to = hi[i]
  BY <1>2 DEF Packet
<1>5. ASSUME NEW i \in 1 .. n PROVE ps[i] \in Packets
  <2>1. ps[i] = [key |-> key, seq |-> seq + i - 1, from |-> lo[i], to |-> hi[i]]
    BY <1>2 DEF Packet
  <2>2. lo[i] \in Nat /\ hi[i] \in Nat /\ seq + i - 1 \in Nat
    BY <1>1, <1>3
  <2>3. QED BY <2>1, <2>2 DEF Packets
<1>6. ps \in Seq(Packets) /\ Len(ps) = n
  BY <1>1, <1>2, <1>5
<1>7. ASSUME NEW i \in 1 .. n, i > 1 PROVE lo[i] = ps[i - 1].to + 1
  <2>1. i - 1 \in 1 .. n /\ i - 1 < n /\ lo[i] = lo[i - 1] + 2
    BY <1>3, <1>7
  <2>2. hi[i - 1] = lo[i - 1] + 1 /\ lo[i - 1] \in Nat
    BY <1>3, <2>1
  <2>3. ps[i - 1].to = hi[i - 1]
    BY <1>4, <2>1
  <2>4. QED BY <2>1, <2>2, <2>3
<1>8. \A i \in 1 .. n :
        /\ ps[i].seq = seq + i - 1 /\ ps[i].key = key
        /\ a <= ps[i].from /\ ps[i].from <= ps[i].to /\ ps[i].to <= b
        /\ i = 1 => ps[i].from = a
        /\ i > 1 => ps[i].from = ps[i - 1].to + 1
        /\ i = n => ps[i].to = b
  BY <1>3, <1>4, <1>7
<1>9. n \in Nat /\ (n = 0 => a = b + 1)
  BY <1>1
<1>10. QED BY <1>6, <1>8, <1>9 DEF ps

\* A burst: what it sends, after the parked packet if there is one, is what comes next.
LEMMA Bursting ==
    ASSUME TypeOK, NEW parked \in Packets \cup {NoPacket},
           NEW a \in Nat \ {0}, NEW b \in Nat, a <= b + 1,
           sent.seq < seq, sent.half < a,
           parked # NoPacket =>
               /\ parked.seq < seq /\ sent.half < parked.from
               /\ parked.from <= parked.to /\ parked.to < a,
           Inline(parked, a, b)
    PROVE  /\ out' \in Seq(Packets) /\ sent' \in [seq : Nat, half : Nat] /\ seq' \in Nat
           /\ sent'.seq < seq' /\ sent'.half <= b
           /\ \A h \in Nat : sent'.half < h /\ h <= b => Missing(h, a, parked)
           /\ \A i \in DOMAIN out' :
                /\ \/ parked # NoPacket /\ out'[i] = parked /\ Before(i) = sent
                   \/ /\ out'[i].seq > Before(i).seq /\ out'[i].key = key
                      /\ a <= out'[i].from /\ out'[i].to <= b
                /\ out'[i].from > Before(i).half
                /\ \A h \in Before(i).half + 1 .. out'[i].from - 1 : Missing(h, a, parked)
<1> DEFINE ps == PacketsFor(a, b)
           n == Len(ps)
<1>1. /\ seq \in Nat /\ key \in Nat /\ sent.seq \in Nat /\ sent.half \in Nat
      /\ sent = [seq |-> sent.seq, half |-> sent.half]
  BY DEF TypeOK
<1>2. /\ ps \in Seq(Packets) /\ n = Len(ps) /\ n \in Nat /\ (n = 0 => a = b + 1)
      /\ \A i \in 1 .. n :
           /\ ps[i].seq = seq + i - 1 /\ ps[i].key = key
           /\ a <= ps[i].from /\ ps[i].from <= ps[i].to /\ ps[i].to <= b
           /\ i = 1 => ps[i].from = a
           /\ i > 1 => ps[i].from = ps[i - 1].to + 1
           /\ i = n => ps[i].to = b
  BY <1>1, Packeting
<1>3. Emit(Now(parked) \o ps) /\ seq' = seq + n
  BY DEF Inline
<1> HIDE DEF ps, n
<1>4. \A i \in 1 .. n : ps[i] \in Packets
  BY <1>2
<1>5. CASE parked = NoPacket
  <2>1. out' = ps
    BY <1>2, <1>3, <1>5 DEF Now, Emit
  <2>2. CASE n = 0
    <3>1. ps = <<>>
      BY <1>2, <2>2, EmptySeq
    <3>2. Emit(<<>>)
      BY <1>2, <1>3, <1>5, <3>1 DEF Now
    <3>3. sent' = sent
      BY <3>2 DEF Emit
    <3>4. QED BY <1>1, <1>2, <1>3, <1>5, <2>1, <2>2, <3>1, <3>3 DEF Missing
  <2>3. CASE n > 0
    <3>1. sent' = [seq |-> Larger(sent.seq, ps[n].seq), half |-> Larger(sent.half, ps[n].to)]
      BY <1>2, <1>3, <1>5, <2>1, <2>3 DEF Emit
    <3>2. ps[n].seq = seq + n - 1 /\ ps[n].to = b
      BY <1>2, <2>3
    <3>3. sent' = [seq |-> seq + n - 1, half |-> b]
      BY <1>1, <1>2, <3>1, <3>2 DEF Larger
    <3>4. ASSUME NEW i \in 1 .. n
          PROVE  /\ ps[i].seq > Before(i).seq /\ ps[i].from > Before(i).half
                 /\ \A h \in Before(i).half + 1 .. ps[i].from - 1 : Missing(h, a, parked)
      <4>1. CASE i = 1
        <5>1. Before(i) = sent /\ ps[i].from = a /\ ps[i].seq = seq
          BY <1>1, <1>2, <4>1 DEF Before
        <5>2. QED BY <1>1, <1>5, <5>1 DEF Missing
      <4>2. CASE i > 1
        <5>0. i - 1 \in 1 .. n /\ i # 1
          BY <1>2, <4>2
        <5>1. /\ i - 1 \in 1 .. n /\ ps[i - 1].to \in Nat
              /\ Before(i).seq = ps[i - 1].seq /\ Before(i).half = ps[i - 1].to
          BY <1>4, <2>1, <5>0 DEF Before, Packets
        <5>2. ps[i - 1].seq = seq + (i - 1) - 1 /\ ps[i].seq = seq + i - 1
          BY <1>2, <5>1
        <5>3. ps[i].from = ps[i - 1].to + 1
          BY <1>2, <4>2
        <5>4. QED BY <1>1, <5>1, <5>2, <5>3
      <4>3. QED BY <1>2, <4>1, <4>2
    <3>5. DOMAIN out' = 1 .. n
      BY <1>2, <2>1
    <3>6. QED BY <1>1, <1>2, <1>3, <2>1, <2>3, <3>3, <3>4, <3>5 DEF Missing
  <2>4. QED BY <1>2, <2>2, <2>3
<1>6. CASE parked # NoPacket
  <2>1. /\ parked \in Packets /\ parked.seq \in Nat /\ parked.from \in Nat /\ parked.to \in Nat
    BY <1>6 DEF Packets
  <2>2. /\ out' = <<parked>> \o ps /\ out' \in Seq(Packets) /\ Len(out') = n + 1
        /\ out'[1] = parked /\ \A i \in 2 .. n + 1 : out'[i] = ps[i - 1]
    BY <1>2, <1>3, <1>6, <2>1 DEF Now, Emit
  <2>3. DOMAIN out' = 1 .. n + 1 /\ out' # <<>>
    BY <1>2, <2>2
  <2>4. sent' = [seq |-> Larger(sent.seq, out'[n + 1].seq), half |-> Larger(sent.half, out'[n + 1].to)]
    BY <1>2, <1>3, <1>6, <2>2, <2>3 DEF Now, Emit
  <2>5. /\ sent' \in [seq : Nat, half : Nat] /\ sent'.seq < seq' /\ sent'.half <= b
        /\ sent'.half = IF n = 0 THEN parked.to ELSE b
    <3>1. CASE n = 0
      <4>1. out'[n + 1] = parked /\ seq' = seq
        BY <1>1, <1>3, <2>2, <3>1
      <4>2. sent' = [seq |-> Larger(sent.seq, parked.seq), half |-> parked.to]
        BY <1>1, <1>6, <2>1, <2>4, <4>1 DEF Larger
      <4>3. Larger(sent.seq, parked.seq) \in Nat /\ Larger(sent.seq, parked.seq) < seq
        BY <1>1, <1>6, <2>1 DEF Larger
      <4>4. parked.to <= b
        BY <1>2, <1>6, <2>1, <3>1
      <4>5. QED BY <2>1, <3>1, <4>1, <4>2, <4>3, <4>4
    <3>2. CASE n > 0
      <4>1. out'[n + 1] = ps[n] /\ ps[n].seq = seq + n - 1 /\ ps[n].to = b
        BY <1>2, <2>2, <3>2
      <4>2. QED BY <1>1, <1>2, <1>3, <2>4, <3>2, <4>1 DEF Larger
    <3>3. QED BY <1>2, <3>1, <3>2
  <2>6. \A h \in Nat : sent'.half < h /\ h <= b => Missing(h, a, parked)
    <3>1. CASE n = 0
      <4>1. a = b + 1 /\ sent'.half = parked.to
        BY <1>2, <2>5, <3>1
      <4>2. QED BY <1>1, <1>6, <2>1, <4>1 DEF Missing
    <3>2. CASE n > 0
      BY <2>5, <3>2
    <3>3. QED BY <1>2, <3>1, <3>2
  <2>7. /\ Before(1) = sent /\ parked.from > sent.half
        /\ \A h \in sent.half + 1 .. parked.from - 1 : Missing(h, a, parked)
    BY <1>1, <1>6, <2>1 DEF Before, Missing
  <2>8. ASSUME NEW i \in 2 .. n + 1
        PROVE  /\ out'[i].seq > Before(i).seq /\ out'[i].key = key
               /\ a <= out'[i].from /\ out'[i].to <= b /\ out'[i].from > Before(i).half
               /\ \A h \in Before(i).half + 1 .. out'[i].from - 1 : Missing(h, a, parked)
    <3>1. /\ i - 1 \in 1 .. n /\ out'[i] = ps[i - 1]
          /\ ps[i - 1].seq = seq + (i - 1) - 1 /\ ps[i - 1].key = key
          /\ a <= ps[i - 1].from /\ ps[i - 1].to <= b
      <4>1. i - 1 \in 1 .. n
        BY <1>2
      <4>2. out'[i] = ps[i - 1]
        BY <2>2
      <4>3. QED BY <1>2, <4>1, <4>2
    <3>2. Before(i).seq = out'[i - 1].seq /\ Before(i).half = out'[i - 1].to
      BY DEF Before
    <3>3. CASE i = 2
      <4>1. Before(i).seq = parked.seq /\ Before(i).half = parked.to /\ out'[i].from = a
        <5>1. i - 1 = 1 /\ out'[i - 1] = parked
          BY <2>2, <3>3
        <5>2. ps[1].from = a
          BY <1>2, <3>1, <5>1
        <5>3. QED BY <3>1, <3>2, <5>1, <5>2
      <4>2. QED BY <1>1, <1>6, <2>1, <3>1, <3>3, <4>1 DEF Missing
    <3>4. CASE i > 2
      <4>1. i - 2 \in 1 .. n /\ i - 1 \in 2 .. n + 1 /\ (i - 1) - 1 = i - 2
        BY <1>2, <3>4
      <4>2. out'[i - 1] = ps[i - 2] /\ ps[i - 2].to \in Nat
        BY <1>4, <2>2, <4>1 DEF Packets
      <4>3. ps[i - 2].seq = seq + (i - 2) - 1 /\ ps[i - 1].from = ps[i - 2].to + 1
        BY <1>2, <3>1, <3>4, <4>1
      <4>4. QED BY <1>1, <3>1, <3>2, <4>2, <4>3
    <3>5. QED BY <3>3, <3>4
  <2>9. ASSUME NEW i \in DOMAIN out' PROVE i = 1 \/ i \in 2 .. n + 1
    BY <1>2, <2>3
  <2>10. \A i \in DOMAIN out' :
            /\ \/ parked # NoPacket /\ out'[i] = parked /\ Before(i) = sent
               \/ /\ out'[i].seq > Before(i).seq /\ out'[i].key = key
                  /\ a <= out'[i].from /\ out'[i].to <= b
            /\ out'[i].from > Before(i).half
            /\ \A h \in Before(i).half + 1 .. out'[i].from - 1 : Missing(h, a, parked)
    BY <1>6, <2>2, <2>7, <2>8, <2>9
  <2>11. seq' \in Nat
    BY <1>1, <1>2, <1>3
  <2>12. QED BY <2>2, <2>5, <2>6, <2>10, <2>11
<1>7. QED BY <1>5, <1>6

----
(* The lock and the parked packet *)

\* A task that withdraws leaves the others in their order: the head stays unless it goes.
LEMMA Withdrawing ==
    ASSUME lock \in Seq(Task), NEW t \in Task, Withdraws(t)
    PROVE  /\ lock' \in Seq(Task)
           /\ Len(lock) > 0 /\ lock[1] # t => Len(lock') > 0 /\ lock'[1] = lock[1]
<1>1. PICK i \in DOMAIN lock :
        lock[i] = t /\ lock' = [j \in 1 .. Len(lock) - 1 |-> lock[IF j < i THEN j ELSE j + 1]]
  BY DEF Withdraws
<1>2. Len(lock) \in Nat /\ i \in 1 .. Len(lock) /\ \A j \in 1 .. Len(lock) : lock[j] \in Task
  OBVIOUS
<1>3. \A j \in 1 .. Len(lock) - 1 : lock[IF j < i THEN j ELSE j + 1] \in Task
  BY <1>2
<1>4. Len(lock) - 1 \in Nat
  BY <1>2
<1>5. lock' \in Seq(Task) /\ Len(lock') = Len(lock) - 1
  BY <1>1, <1>3, <1>4
<1>6. ASSUME Len(lock) > 0, lock[1] # t PROVE Len(lock') > 0 /\ lock'[1] = lock[1]
  <2>1. i # 1 /\ 1 \in 1 .. Len(lock) - 1 /\ 1 < i
    BY <1>1, <1>2, <1>6
  <2>2. QED BY <1>1, <1>5, <2>1
<1>7. QED BY <1>5, <1>6

\* When nobody is at a deadline, what is parked is an orphan's.
LEMMA NobodyPaces ==
    ASSUME \A u \in Task : at'[u] # "pacing" /\ call'[u].packet = NoPacket,
           inflight' # NoPacket => inflight'.from .. inflight'.to \subseteq orphaned',
           ~open' => inflight' = NoPacket
    PROVE  Locked'
BY DEF Locked, Paced, Unpaced, Owned, Live, Shut

\* Only the head of the lock is at its deadline.
LEMMA HeadOnly ==
    ASSUME TypeOK, Locked, NEW t \in Task, Len(lock) > 0 => lock[1] = t,
           at[t] # "pacing"
    PROVE  \A u \in Task : at[u] # "pacing" /\ call[u].packet = NoPacket
BY DEF Locked, Paced, Unpaced

\* A step that leaves who is at a deadline, and the head of the lock, as they were.
LEMMA LockedAside ==
    ASSUME Locked,
           \A u \in Task : at'[u] = "pacing" <=> at[u] = "pacing",
           \A u \in Task : call'[u].packet = call[u].packet,
           \A u \in Task : at[u] = "pacing" => call'[u].epoch = call[u].epoch,
           \A u \in Task : at[u] = "pacing" /\ Len(lock) > 0 /\ lock[1] = u =>
               Len(lock') > 0 /\ lock'[1] = lock[1],
           UNCHANGED <<inflight, flushes, open, orphaned>>
    PROVE  Locked'
<1>1. Paced' /\ Unpaced'
  BY DEF Locked, Paced, Unpaced
<1>2. Owned' /\ Live' /\ Shut'
  BY DEF Locked, Owned, Live, Shut, Superseded
<1>3. QED BY <1>1, <1>2 DEF Locked

\* A step that sends nothing and touches neither numbers nor buffer.
LEMMA OrderedAside ==
    ASSUME Ordered, UNCHANGED <<first, inflight, seq, key, open, sent, cut, orphaned>>
    PROVE  Ordered'
BY DEF Ordered, Numbered, Between, Ahead, Accounted, Missing

----
(* What goes out *)

\* A packet that goes out has a new number and the key in force, unless it is an orphan;
\* its audio is the next that was not given up, and was not dropped.
GoesOut ==
    \A i \in DOMAIN out' :
        /\ ~Orphan(out'[i]) => out'[i].seq > Before(i).seq /\ out'[i].key = key
        /\ Sounds(out'[i]) =>
             /\ out'[i].from > Before(i).half
             /\ Before(i).half + 1 .. out'[i].from - 1 \subseteq cut' \cup orphaned'
             /\ cut \cap out'[i].from .. out'[i].to = {}

\* A step that sends nothing sends it in order.
LEMMA SaysNothing ==
    ASSUME Nothing
    PROVE  GoesOut /\ out' = <<>> /\ sent' = sent /\ out' \in Seq(Packets)
BY DEF Nothing, GoesOut

\* The next packet of the buffer, or the end of the call: after either the books are right.
LEMMA Draining ==
    ASSUME TypeOK, NEW t \in Speaker, NEW c \in Call, NEW queue \in Seq(Task),
           Len(queue) > 0, queue[1] = t, c.epoch = flushes,
           NEW parked \in Packets \cup {NoPacket}, NEW b \in Nat, first <= b + 1,
           Drains(t, c, queue, parked, first, b),
           UNCHANGED <<flushes, open, orphaned, cut, key>>,
           \A u \in Task : u # t => at[u] # "pacing" /\ call[u].packet = NoPacket,
           parked # NoPacket =>
               /\ parked.from .. parked.to \subseteq orphaned /\ parked.seq < seq
               /\ sent'.half < parked.from /\ parked.from <= parked.to /\ parked.to < first
               /\ parked.from .. parked.to \cap cut = {},
           ~open => parked = NoPacket,
           sent' \in [seq : Nat, half : Nat], sent'.seq < seq, sent'.half < first,
           \A h \in cut : h < first,
           open => \A h \in Nat : sent'.half < h /\ h < first => h \in cut \cup orphaned
    PROVE  /\ Locked' /\ Ordered'
           /\ at' \in [Task -> Place] /\ lock' \in Seq(Task) /\ call' \in [Task -> Call]
           /\ last' \in Nat /\ first' \in 1 .. last' + 1
           /\ inflight' \in Packets \cup {NoPacket} /\ seq' \in Nat
<1>1. /\ at \in [Task -> Place] /\ call \in [Task -> Call] /\ seq \in Nat /\ key \in Nat
      /\ first \in Nat \ {0} /\ flushes \in Nat /\ t \in Task /\ cut \subseteq Nat
      /\ NoPacket \notin Packets
  <2>1. at \in [Task -> Place] /\ call \in [Task -> Call] /\ cut \subseteq Nat
    BY DEF TypeOK, Place, Call
  <2>2. seq \in Nat /\ key \in Nat /\ flushes \in Nat /\ first \in Nat \ {0}
    BY DEF TypeOK
  <2>3. NoPacket \notin Packets /\ t \in Task
    BY MediaSendAssumption DEF Packets, Task
  <2>4. QED BY <2>1, <2>2, <2>3
<1>2. CASE open /\ Whole(first, b)
  <2> DEFINE p == Packet(seq, first, first + 1)
  <2>1. p \in Packets /\ p.key = key /\ p.seq = seq /\ p.from = first /\ p.to = first + 1
    BY <1>1 DEF Packet, Packets
  <2>2. /\ last' = b /\ first' = first + 2 /\ seq' = seq + 1 /\ inflight' = p /\ lock' = queue
        /\ at' = [at EXCEPT ![t] = "pacing"]
        /\ call' = [call EXCEPT ![t] = [c EXCEPT !.packet = p]]
    BY <1>2 DEF Drains
  <2>3. p # NoPacket
    BY <1>1, <2>1
  <2> HIDE DEF p
  <2>4. [c EXCEPT !.packet = p] \in Call
    BY <2>1 DEF Call
  <2>5. at' \in [Task -> Place] /\ call' \in [Task -> Call]
    BY <1>1, <2>2, <2>4 DEF Place
  <2>6. /\ at'[t] = "pacing" /\ call'[t].packet = p /\ call'[t].epoch = flushes
        /\ \A u \in Task : u # t => at'[u] # "pacing" /\ call'[u].packet = NoPacket
    BY <1>1, <2>2 DEF Call
  <2>7. Locked'
    <3>1. Paced' /\ Unpaced'
      BY <1>1, <2>2, <2>3, <2>6 DEF Paced, Unpaced
    <3>2. Owned' /\ Live' /\ Shut'
      BY <1>1, <1>2, <2>2, <2>6 DEF Owned, Live, Shut, Superseded
    <3>3. QED BY <3>1, <3>2 DEF Locked
  <2>8. first + 2 <= b + 1
    BY <1>1, <1>2 DEF Whole
  <2>9. Numbered' /\ Between' /\ Ahead'
    <3>1. Numbered'
      BY <1>1, <2>1, <2>2 DEF Numbered
    <3>2. Between'
      <4>1. sent'.half < first /\ first <= first + 1 /\ first + 1 < first + 2
        BY <1>1
      <4>2. first .. first + 1 \cap cut = {}
        BY <1>1
      <4>3. QED BY <1>1, <2>1, <2>2, <4>1, <4>2 DEF Between
    <3>3. Ahead'
      BY <1>1, <2>2 DEF Ahead
    <3>4. QED BY <3>1, <3>2, <3>3
  <2>10. Accounted'
    <3> SUFFICES ASSUME NEW h, Missing(h, first, inflight)' PROVE h \in cut' \cup orphaned'
      BY DEF Accounted
    <3>1. h \in Nat /\ sent'.half < h /\ h < first + 2 /\ h \notin first .. first + 1
      BY <2>1, <2>2, <2>3 DEF Missing
    <3>2. h < first
      BY <1>1, <3>1
    <3>3. QED BY <1>2, <3>1, <3>2
  <2>11. last' \in Nat /\ lock' \in Seq(Task) /\ inflight' \in Packets \cup {NoPacket}
    BY <2>1, <2>2
  <2>12. seq' \in Nat
    BY <1>1, <2>2
  <2>13. first' \in 1 .. last' + 1
    <3>1. first + 2 \in 1 .. b + 1
      BY <1>1, <2>8
    <3>2. QED BY <2>2, <3>1
  <2>14. Ordered'
    BY <2>9, <2>10, Zenon DEF Ordered
  <2>15. QED BY <2>5, <2>7, <2>11, <2>12, <2>13, <2>14, Zenon
<1>3. CASE ~(open /\ Whole(first, b))
  <2>1. /\ last' = b /\ first' = first /\ seq' = seq /\ inflight' = parked /\ lock' = Tail(queue)
        /\ at' = [at EXCEPT ![t] = "idle"] /\ call' = [call EXCEPT ![t] = Idle]
    BY <1>3 DEF Drains, Leave
  <2>2. Idle \in Call /\ Idle.packet = NoPacket
    BY DEF Idle, Call
  <2>3. /\ at' \in [Task -> Place] /\ call' \in [Task -> Call] /\ lock' \in Seq(Task)
        /\ \A u \in Task : at'[u] # "pacing" /\ call'[u].packet = NoPacket
    BY <1>1, <2>1, <2>2 DEF Place
  <2>4. Locked'
    BY <2>1, <2>3, NobodyPaces
  <2>5. parked # NoPacket => parked.from \in orphaned
    <3>1. ASSUME parked # NoPacket PROVE parked.from \in parked.from .. parked.to
      BY <3>1 DEF Packets
    <3>2. QED BY <3>1
  <2>6. Numbered' /\ Between' /\ Ahead'
    BY <2>1, <2>5 DEF Numbered, Between, Ahead
  <2>7. Accounted'
    BY <2>1 DEF Accounted, Missing
  <2>8. QED BY <1>1, <2>1, <2>3, <2>4, <2>6, <2>7 DEF Ordered
<1>4. QED BY <1>2, <1>3

----
(* The steps *)

\* What the type invariant says of each variable.
LEMMA Typed ==
    ASSUME TypeOK
    PROVE  /\ at \in [Task -> Place] /\ call \in [Task -> Call] /\ lock \in Seq(Task)
           /\ first \in Nat \ {0} /\ last \in Nat /\ first <= last + 1
           /\ inflight \in Packets \cup {NoPacket} /\ NoPacket \notin Packets
           /\ seq \in Nat /\ key \in Nat /\ flushes \in Nat /\ holds \in Nat /\ handed \in Nat
           /\ held \in BOOLEAN /\ open \in BOOLEAN /\ out \in Seq(Packets)
           /\ sent \in [seq : Nat, half : Nat] /\ cut \subseteq Nat /\ orphaned \subseteq Nat
<1>1. NoPacket \notin Packets
  BY MediaSendAssumption DEF Packets
<1>2. at \in [Task -> Place] /\ call \in [Task -> Call] /\ lock \in Seq(Task)
  BY DEF TypeOK, Place, Call
<1>3. QED BY <1>1, <1>2 DEF TypeOK

\* What a step leaves alone keeps its type.
LEMMA TypesStay ==
    ASSUME TypeOK, UNCHANGED <<flushes, held, holds, open, ghosts>>, sent' = sent
    PROVE  /\ flushes' \in Nat /\ holds' \in Nat /\ held' \in BOOLEAN /\ open' \in BOOLEAN
           /\ sent' \in [seq : Nat, half : Nat] /\ cut' \subseteq Nat /\ orphaned' \subseteq Nat
<1>1. /\ flushes' = flushes /\ holds' = holds /\ held' = held /\ open' = open
      /\ cut' = cut /\ orphaned' = orphaned
  BY DEF ghosts
<1>2. /\ flushes \in Nat /\ holds \in Nat /\ held \in BOOLEAN /\ open \in BOOLEAN
      /\ sent \in [seq : Nat, half : Nat] /\ cut \subseteq Nat /\ orphaned \subseteq Nat
  BY Typed
<1>3. QED BY <1>1, <1>2

\* Coming to the lock, and leaving it.
LEMMA Joins ==
    ASSUME lock \in Seq(Task), InLine, NEW t \in Task, lock' = Append(lock, t),
           \A u \in Task : u # t => at'[u] = at[u]
    PROVE  InLine'
<1> SUFFICES ASSUME NEW u \in Task, at'[u] # "idle" PROVE \E i \in DOMAIN lock' : lock'[i] = u
  BY DEF InLine
<1>1. CASE u = t
  <2>1. Len(lock) + 1 \in DOMAIN lock' /\ lock'[Len(lock) + 1] = t
    OBVIOUS
  <2>2. QED BY <1>1, <2>1
<1>2. CASE u # t
  <2>1. PICK i \in DOMAIN lock : lock[i] = u
    BY <1>2 DEF InLine
  <2>2. i \in DOMAIN lock' /\ lock'[i] = lock[i]
    OBVIOUS
  <2>3. QED BY <2>1, <2>2
<1>3. QED BY <1>1, <1>2

\* Whoever leaves its place in line, wherever it is, moves nobody else out of line.
LEMMA Quits ==
    ASSUME lock \in Seq(Task), InLine, NEW t \in Task,
           Withdraws(t) \/ (lock[1] = t /\ lock' = Tail(lock)),
           at'[t] = "idle", \A u \in Task : u # t => at'[u] = at[u]
    PROVE  InLine'
<1> SUFFICES ASSUME NEW u \in Task, at'[u] # "idle" PROVE \E i \in DOMAIN lock' : lock'[i] = u
  BY DEF InLine
<1>1. PICK i \in DOMAIN lock : lock[i] = u
  BY DEF InLine
<1>2. u # t /\ i \in 1 .. Len(lock) /\ Len(lock) \in Nat
  OBVIOUS
<1>3. CASE lock[1] = t /\ lock' = Tail(lock)
  <2>1. i # 1 /\ Len(lock') = Len(lock) - 1
    BY <1>1, <1>2, <1>3
  <2>2. i - 1 \in DOMAIN lock' /\ lock'[i - 1] = lock[i]
    BY <1>2, <1>3, <2>1
  <2>3. QED BY <1>1, <2>2
<1>4. CASE Withdraws(t)
  <2>1. PICK k \in DOMAIN lock :
          lock[k] = t /\ lock' = [j \in 1 .. Len(lock) - 1 |-> lock[IF j < k THEN j ELSE j + 1]]
    BY <1>4 DEF Withdraws
  <2>2. k \in 1 .. Len(lock) /\ k # i /\ DOMAIN lock' = 1 .. Len(lock) - 1
    BY <1>1, <1>2, <2>1
  <2>3. CASE i < k
    <3>1. i \in 1 .. Len(lock) - 1 /\ lock'[i] = lock[i]
      BY <1>2, <2>1, <2>2, <2>3
    <3>2. QED BY <1>1, <2>2, <3>1
  <2>4. CASE i > k
    <3>1. i - 1 \in 1 .. Len(lock) - 1 /\ ~(i - 1 < k) /\ (i - 1) + 1 = i
      BY <1>2, <2>2, <2>4
    <3>2. lock'[i - 1] = lock[i]
      BY <2>1, <3>1
    <3>3. QED BY <1>1, <2>2, <3>1, <3>2
  <2>5. QED BY <1>2, <2>2, <2>3, <2>4
<1>5. QED BY <1>3, <1>4

\* A speaker comes in: nobody was at a deadline, so what is parked is an orphan's.
LEMMA Entering ==
    ASSUME IInv, NEW t \in Speaker, NEW c \in Call, NEW queue \in Seq(Task),
           Len(queue) > 0, queue[1] = t,
           \A u \in Task : at[u] # "pacing" /\ call[u].packet = NoPacket,
           Enters(t, c, queue), Nothing,
           UNCHANGED <<key, flushes, open, ghosts>>
    PROVE  /\ Locked' /\ Ordered'
           /\ at' \in [Task -> Place] /\ lock' \in Seq(Task) /\ call' \in [Task -> Call]
           /\ last' \in Nat /\ first' \in 1 .. last' + 1
           /\ inflight' \in Packets \cup {NoPacket} /\ seq' \in Nat
<1> DEFINE d == [c EXCEPT !.epoch = flushes]
           b == last + c.halves
<1>1. TypeOK /\ Locked /\ Ordered
  BY DEF IInv
<1>0. flushes \in Nat /\ last \in Nat /\ first \in Nat /\ first <= last + 1 /\ c.halves \in Nat
  BY <1>1, Typed DEF Call
<1>2. d \in Call /\ d.epoch = flushes /\ b \in Nat /\ first <= b + 1
  <2>1. d \in Call /\ d.epoch = flushes
    BY <1>0 DEF Call
  <2>2. b \in Nat /\ first <= b + 1
    BY <1>0
  <2>3. QED BY <2>1, <2>2
<1>3. Drains(t, d, queue, inflight, first, b)
  BY DEF Enters
<1> HIDE DEF d, b
<1>4. sent' = sent /\ UNCHANGED <<flushes, open, orphaned, cut, key>>
  BY DEF Nothing, ghosts
<1>5. inflight # NoPacket => inflight.from .. inflight.to \subseteq orphaned
  BY <1>1 DEF Locked, Owned
<1>6. inflight # NoPacket =>
        /\ inflight.seq < seq /\ sent'.half < inflight.from /\ inflight.from <= inflight.to
        /\ inflight.to < first /\ inflight.from .. inflight.to \cap cut = {}
  BY <1>1, <1>4 DEF Ordered, Numbered, Between
<1>7. ~open => inflight = NoPacket
  BY <1>1 DEF Locked, Shut
<1>8. /\ sent' \in [seq : Nat, half : Nat] /\ sent'.seq < seq /\ sent'.half < first
      /\ \A h \in cut : h < first
  BY <1>1, <1>4, Typed DEF Ordered, Numbered, Ahead
<1>9. ASSUME open, NEW h \in Nat, sent'.half < h, h < first PROVE h \in cut \cup orphaned
  <2>1. CASE Missing(h, first, inflight)
    BY <1>1, <1>9, <2>1 DEF Ordered, Accounted
  <2>2. CASE ~Missing(h, first, inflight)
    BY <1>4, <1>5, <1>9, <2>2 DEF Missing
  <2>3. QED BY <2>1, <2>2
<1>10. inflight \in Packets \cup {NoPacket}
  BY <1>1, Typed
<1>11. QED BY <1>1, <1>2, <1>3, <1>4, <1>5, <1>6, <1>7, <1>8, <1>9, <1>10, Draining

\* The type invariant of the next state from its parts.
LEMMA TypesNext ==
    ASSUME at' \in [Task -> Place], lock' \in Seq(Task), call' \in [Task -> Call],
           last' \in Nat, first' \in 1 .. last' + 1,
           inflight' \in Packets \cup {NoPacket},
           seq' \in Nat, key' \in Nat, flushes' \in Nat, holds' \in Nat, handed' \in Nat,
           held' \in BOOLEAN, open' \in BOOLEAN, out' \in Seq(Packets),
           sent' \in [seq : Nat, half : Nat], cut' \subseteq Nat, orphaned' \subseteq Nat
    PROVE  TypeOK'
BY DEF TypeOK, Place, Call

\* What a step of the invariant comes to.
Keeps == TypeOK' /\ Locked' /\ Ordered' /\ GoesOut

\* send_audio(): the chunk goes into the buffer, or waits for the lock with its caller.
LEMMA SendAudioStep ==
    ASSUME IInv, NEW t \in Speaker, NEW n \in 1 .. 3, SendAudio(t, n)
    PROVE  Keeps
<1> DEFINE c == [Idle EXCEPT !.halves = n]
<1>1. TypeOK /\ Locked /\ Ordered /\ t \in Task
  BY DEF IInv, Task
<1>2. c \in Call /\ c.packet = NoPacket
  BY DEF Idle, Call
<1>3. GoesOut /\ out' \in Seq(Packets) /\ sent' = sent
  BY SaysNothing DEF SendAudio
<1>4. /\ UNCHANGED <<key, flushes, held, holds, open, ghosts>> /\ handed' = handed + n /\ Nothing
      /\ at[t] = "idle"
  BY DEF SendAudio
<1>5. CASE lock = <<>>
  <2>1. Enters(t, c, <<t>>)
    BY <1>5 DEF SendAudio
  <2>2. \A u \in Task : at[u] # "pacing" /\ call[u].packet = NoPacket
    BY <1>1, <1>5 DEF Locked, Paced, Unpaced
  <2>3. <<t>> \in Seq(Task) /\ Len(<<t>>) > 0 /\ <<t>>[1] = t
    BY <1>1
  <2> HIDE DEF c
  <2>4. /\ Locked' /\ Ordered'
        /\ at' \in [Task -> Place] /\ lock' \in Seq(Task) /\ call' \in [Task -> Call]
        /\ last' \in Nat /\ first' \in 1 .. last' + 1
        /\ inflight' \in Packets \cup {NoPacket} /\ seq' \in Nat
    BY <1>2, <1>4, <2>1, <2>2, <2>3, Entering
  <2>5. TypeOK'
    <3>1. /\ key' \in Nat /\ flushes' \in Nat /\ holds' \in Nat /\ handed' \in Nat
          /\ held' \in BOOLEAN /\ open' \in BOOLEAN /\ sent' \in [seq : Nat, half : Nat]
          /\ cut' \subseteq Nat /\ orphaned' \subseteq Nat
      <4>1. key \in Nat /\ handed \in Nat /\ n \in Nat
        BY <1>1, Typed
      <4>2. key' \in Nat /\ handed' \in Nat
        BY <1>4, <4>1
      <4>3. QED BY <1>1, <1>3, <1>4, <4>2, TypesStay
    <3>2. QED BY <1>3, <2>4, <3>1, TypesNext
  <2>6. QED BY <1>3, <2>4, <2>5 DEF Keeps
<1>6. CASE lock # <<>>
  <2>1. /\ at' = [at EXCEPT ![t] = "queued"] /\ call' = [call EXCEPT ![t] = c]
        /\ lock' = Append(lock, t) /\ UNCHANGED <<buffer, inflight, seq>>
    BY <1>6 DEF SendAudio
  <2> HIDE DEF c
  <2>2. at \in [Task -> Place] /\ call \in [Task -> Call] /\ lock \in Seq(Task)
    BY <1>1, Typed
  <2>3. /\ at' \in [Task -> Place] /\ call' \in [Task -> Call] /\ lock' \in Seq(Task)
        /\ Len(lock) > 0 => Len(lock') > 0 /\ lock'[1] = lock[1]
    BY <1>1, <1>2, <2>1, <2>2 DEF Place
  <2>4. call[t].packet = NoPacket
    BY <1>1, <1>4 DEF Locked, Unpaced
  <2>5. Locked'
    BY <1>1, <1>2, <1>4, <2>1, <2>2, <2>3, <2>4, LockedAside DEF ghosts
  <2>6. Ordered'
    BY <1>1, <1>3, <1>4, <2>1, OrderedAside DEF ghosts, buffer
  <2>7. TypeOK'
    <3>1. /\ key' \in Nat /\ flushes' \in Nat /\ holds' \in Nat /\ handed' \in Nat
          /\ held' \in BOOLEAN /\ open' \in BOOLEAN /\ sent' \in [seq : Nat, half : Nat]
          /\ cut' \subseteq Nat /\ orphaned' \subseteq Nat
      <4>1. key \in Nat /\ handed \in Nat /\ n \in Nat
        BY <1>1, Typed
      <4>2. key' \in Nat /\ handed' \in Nat
        BY <1>4, <4>1
      <4>3. QED BY <1>1, <1>3, <1>4, <4>2, TypesStay
    <3>2. /\ last' \in Nat /\ first' \in 1 .. last' + 1 /\ seq' \in Nat
          /\ inflight' \in Packets \cup {NoPacket}
      BY <1>1, <2>1, Typed DEF buffer
    <3>3. QED BY <1>3, <2>3, <3>1, <3>2, TypesNext
  <2>8. QED BY <1>3, <2>5, <2>6, <2>7 DEF Keeps
<1>7. QED BY <1>5, <1>6

\* A speaker that has waited for the lock goes in.
LEMMA AcquireStep ==
    ASSUME IInv, NEW t \in Speaker, Acquire(t)
    PROVE  Keeps
<1>1. TypeOK /\ Locked /\ Ordered /\ t \in Task
  BY DEF IInv, Task
<1>2. /\ at[t] = "queued" /\ Head(lock) = t /\ Enters(t, call[t], lock) /\ Nothing
      /\ UNCHANGED <<key, flushes, held, holds, open, handed, ghosts>>
  BY DEF Acquire
<1>3. GoesOut /\ out' \in Seq(Packets) /\ sent' = sent
  BY <1>2, SaysNothing
<1>4. call[t] \in Call /\ lock \in Seq(Task) /\ (Len(lock) > 0 => lock[1] = t)
  BY <1>1, <1>2, Typed
<1>6. Len(lock) > 0
  BY <1>1, <1>2, <1>4 DEF IInv, InLine
<1>5. \A u \in Task : at[u] # "pacing" /\ call[u].packet = NoPacket
  BY <1>1, <1>2, <1>4, HeadOnly
<1>7. /\ Locked' /\ Ordered'
      /\ at' \in [Task -> Place] /\ lock' \in Seq(Task) /\ call' \in [Task -> Call]
      /\ last' \in Nat /\ first' \in 1 .. last' + 1
      /\ inflight' \in Packets \cup {NoPacket} /\ seq' \in Nat
  BY <1>2, <1>4, <1>5, <1>6, Entering
<1>8. /\ key' \in Nat /\ flushes' \in Nat /\ holds' \in Nat /\ handed' \in Nat
      /\ held' \in BOOLEAN /\ open' \in BOOLEAN /\ sent' \in [seq : Nat, half : Nat]
      /\ cut' \subseteq Nat /\ orphaned' \subseteq Nat
  BY <1>1, <1>2, <1>3, Typed DEF ghosts
<1>9. TypeOK'
  BY <1>3, <1>7, <1>8, TypesNext
<1>10. QED BY <1>3, <1>7, <1>9 DEF Keeps

\* The deadline comes (_transmit_frame): the packet is still the parked one, or nobody's.
LEMMA WakeStep ==
    ASSUME IInv, NEW t \in Speaker, Wake(t)
    PROVE  Keeps
<1> DEFINE p == call[t].packet
<1>1. TypeOK /\ Locked /\ Ordered /\ t \in Task
  BY DEF IInv, Task
<1>2. at[t] = "pacing" /\ UNCHANGED <<key, flushes, held, holds, open, handed, ghosts>>
  BY DEF Wake
<1>3. /\ at \in [Task -> Place] /\ call \in [Task -> Call] /\ lock \in Seq(Task)
      /\ Len(lock) > 0 /\ lock[1] = t /\ p # NoPacket /\ p \in Packets
  <2>1. at \in [Task -> Place] /\ call \in [Task -> Call] /\ lock \in Seq(Task)
    BY <1>1, Typed
  <2>2. Len(lock) > 0 /\ lock[1] = t /\ p # NoPacket
    BY <1>1, <1>2 DEF Locked, Paced
  <2>3. p \in Packets
    BY <1>1, <2>1, <2>2 DEF Call
  <2>4. QED BY <2>1, <2>2, <2>3
<1>4. \A u \in Task : u # t => at[u] # "pacing" /\ call[u].packet = NoPacket
  BY <1>1, <1>3 DEF Locked, Paced, Unpaced
<1>5. /\ key' \in Nat /\ flushes' \in Nat /\ holds' \in Nat /\ handed' \in Nat
      /\ held' \in BOOLEAN /\ open' \in BOOLEAN /\ cut' \subseteq Nat /\ orphaned' \subseteq Nat
  BY <1>1, <1>2, Typed DEF ghosts
<1> HIDE DEF p
<1>6. CASE Superseded(t) \/ ~open
  <2>1. /\ UNCHANGED <<buffer, seq>> /\ Leave(t, lock) /\ Nothing
        /\ inflight' = inflight \/ (Superseded(t) /\ inflight' = NoPacket)
    BY <1>6 DEF Wake
  <2>2. inflight' = NoPacket /\ (open => inflight = NoPacket)
    BY <1>1, <1>2, <1>6, <2>1 DEF Wake, Locked, Live, Shut
  <2>3. /\ at' = [at EXCEPT ![t] = "idle"] /\ call' = [call EXCEPT ![t] = Idle]
        /\ lock' = Tail(lock)
    BY <2>1 DEF Leave
  <2>4. Idle \in Call /\ Idle.packet = NoPacket
    BY DEF Idle, Call
  <2>5. /\ at' \in [Task -> Place] /\ call' \in [Task -> Call] /\ lock' \in Seq(Task)
        /\ \A u \in Task : at'[u] # "pacing" /\ call'[u].packet = NoPacket
    BY <1>3, <1>4, <2>3, <2>4 DEF Place
  <2>6. Locked'
    BY <2>2, <2>5, NobodyPaces
  <2>7. GoesOut /\ sent' = sent /\ out' \in Seq(Packets)
    BY <2>1, SaysNothing
  <2>8. Ordered'
    BY <1>1, <1>2, <2>1, <2>2, <2>7
       DEF Ordered, Numbered, Between, Ahead, Accounted, Missing, ghosts, buffer
  <2>9. last' \in Nat /\ first' \in 1 .. last' + 1 /\ seq' \in Nat /\ sent' \in [seq : Nat, half : Nat]
    BY <1>1, <2>1, <2>7, Typed DEF buffer
  <2>10. TypeOK'
    BY <1>5, <2>2, <2>5, <2>7, <2>9, TypesNext
  <2>11. QED BY <2>6, <2>7, <2>8, <2>10 DEF Keeps
<1>7. CASE ~Superseded(t) /\ open
  <2>1. Emit(<<p>>) /\ Drains(t, call[t], lock, NoPacket, first, last)
    BY <1>7 DEF Wake, p
  <2>2. inflight = p /\ call[t].epoch = flushes
    BY <1>1, <1>2, <1>7 DEF Locked, Live, Superseded, p
  <2>3. /\ first \in Nat \ {0} /\ last \in Nat /\ first <= last + 1 /\ seq \in Nat /\ key \in Nat
        /\ sent.seq \in Nat /\ sent.half \in Nat /\ p.seq \in Nat /\ p.from \in Nat /\ p.to \in Nat
        /\ cut \subseteq Nat
    BY <1>1, <1>3, Typed DEF Packets
  <2>4. /\ sent.seq < seq /\ p.seq < seq /\ (p.from \in orphaned \/ (p.seq > sent.seq /\ p.key = key))
        /\ sent.half < p.from /\ p.from <= p.to /\ p.to < first
        /\ p.from .. p.to \cap cut = {}
    BY <1>1, <1>3, <2>2 DEF Ordered, Numbered, Between
  <2>5. out' = <<p>> /\ sent' = [seq |-> Larger(sent.seq, p.seq), half |-> Larger(sent.half, p.to)]
    BY <2>1 DEF Emit
  <2>6. sent' \in [seq : Nat, half : Nat] /\ sent'.seq < seq /\ sent'.half = p.to
    BY <2>3, <2>4, <2>5 DEF Larger
  <2>7. out' \in Seq(Packets) /\ DOMAIN out' = {1} /\ out'[1] = p /\ Before(1) = sent
    BY <1>3, <2>5 DEF Before
  <2>8. \A h \in Nat : sent.half < h /\ h < first /\ h \notin p.from .. p.to => h \in cut \cup orphaned
    BY <1>1, <1>7, <2>2 DEF Ordered, Accounted, Missing
  <2>9. GoesOut
    <3>1. ~Orphan(p) => p.seq > sent.seq /\ p.key = key
      BY <2>3, <2>4 DEF Orphan, Sounds
    <3>2. p.from > sent.half /\ cut \cap p.from .. p.to = {}
      BY <2>3, <2>4
    <3>3. sent.half + 1 .. p.from - 1 \subseteq cut' \cup orphaned'
      BY <1>2, <2>3, <2>4, <2>8 DEF ghosts
    <3>4. QED BY <2>7, <3>1, <3>2, <3>3 DEF GoesOut
  <2>10. \A h \in Nat : sent'.half < h /\ h < first => h \in cut \cup orphaned
    BY <2>3, <2>4, <2>6, <2>8
  <2>11. /\ \A h \in cut : h < first
         /\ UNCHANGED <<flushes, open, orphaned, cut, key>>
         /\ call[t] \in Call /\ sent'.half < first
    BY <1>1, <1>2, <1>3, <2>4, <2>6 DEF Ordered, Ahead, ghosts
  <2>12. /\ Locked' /\ Ordered'
         /\ at' \in [Task -> Place] /\ lock' \in Seq(Task) /\ call' \in [Task -> Call]
         /\ last' \in Nat /\ first' \in 1 .. last' + 1
         /\ inflight' \in Packets \cup {NoPacket} /\ seq' \in Nat
    BY <1>1, <1>3, <1>4, <2>1, <2>2, <2>3, <2>6, <2>10, <2>11, Draining
  <2>13. TypeOK'
    BY <1>5, <2>6, <2>7, <2>12, TypesNext
  <2>14. QED BY <2>9, <2>12, <2>13 DEF Keeps
<1>8. QED BY <1>6, <1>7

\* A step that leaves buffer and numbers alone keeps what was typed and ordered, if it
\* keeps the tasks'.
LEMMA TasksOnly ==
    ASSUME IInv, Locked', at' \in [Task -> Place], lock' \in Seq(Task), call' \in [Task -> Call],
           Nothing, UNCHANGED <<buffer, inflight, seq, key, flushes, held, holds, open, handed, cut>>,
           orphaned \subseteq orphaned', orphaned' \subseteq Nat
    PROVE  Keeps
<1>1. TypeOK /\ Ordered
  BY DEF IInv
<1>2. GoesOut /\ sent' = sent /\ out' \in Seq(Packets)
  BY SaysNothing
<1>3. Ordered'
  BY <1>1, <1>2 DEF Ordered, Numbered, Between, Ahead, Accounted, Missing, buffer
<1>4. /\ key' \in Nat /\ flushes' \in Nat /\ holds' \in Nat /\ handed' \in Nat
      /\ held' \in BOOLEAN /\ open' \in BOOLEAN /\ cut' \subseteq Nat
      /\ sent' \in [seq : Nat, half : Nat]
  BY <1>1, <1>2, Typed
<1>5. /\ last' \in Nat /\ first' \in 1 .. last' + 1 /\ seq' \in Nat
      /\ inflight' \in Packets \cup {NoPacket}
  BY <1>1, Typed DEF buffer
<1>6. TypeOK'
  BY <1>2, <1>4, <1>5, TypesNext
<1>7. QED BY <1>2, <1>3, <1>6 DEF Keeps

\* A cancelled speaker leaves its packet parked, an orphan from now on.
LEMMA CancelStep ==
    ASSUME IInv, NEW t \in Speaker \cup {Tone}, Cancel(t)
    PROVE  Keeps
<1>1. TypeOK /\ Locked /\ Ordered /\ t \in Task
  BY DEF IInv, Task
<1>2. /\ at' = [at EXCEPT ![t] = "idle"] /\ call' = [call EXCEPT ![t] = Idle] /\ Withdraws(t)
      /\ orphaned' = IF call[t].packet = NoPacket THEN orphaned
                     ELSE orphaned \cup call[t].packet.from .. call[t].packet.to
      /\ Nothing
      /\ UNCHANGED <<buffer, inflight, seq, key, flushes, held, holds, open, handed, cut>>
  BY DEF Cancel
<1>3. /\ at \in [Task -> Place] /\ call \in [Task -> Call] /\ lock \in Seq(Task)
      /\ orphaned \subseteq Nat
  BY <1>1, Typed
<1>4. Idle \in Call /\ Idle.packet = NoPacket
  BY DEF Idle, Call
<1>5. /\ at' \in [Task -> Place] /\ call' \in [Task -> Call] /\ lock' \in Seq(Task)
      /\ at'[t] = "idle" /\ call'[t].packet = NoPacket
      /\ \A u \in Task : u # t => at'[u] = at[u] /\ call'[u] = call[u]
  BY <1>1, <1>2, <1>3, <1>4, Withdrawing DEF Place
<1>6. orphaned \subseteq orphaned' /\ orphaned' \subseteq Nat
  <2>1. call[t].packet # NoPacket => call[t].packet \in Packets
    BY <1>1, <1>3 DEF Call
  <2>2. call[t].packet # NoPacket => call[t].packet.from .. call[t].packet.to \subseteq Nat
    BY <2>1 DEF Packets
  <2>3. QED BY <1>2, <1>3, <2>2
<1>7. Locked'
  <2>1. CASE at[t] = "pacing"
    <3>1. Len(lock) > 0 /\ lock[1] = t /\ call[t].packet # NoPacket
      BY <1>1, <2>1 DEF Locked, Paced
    <3>2. \A u \in Task : u # t => at[u] # "pacing" /\ call[u].packet = NoPacket
      BY <1>1, <3>1 DEF Locked, Paced, Unpaced
    <3>3. inflight # NoPacket => inflight.from .. inflight.to \subseteq orphaned'
      BY <1>1, <1>2, <3>1, <3>2 DEF Locked, Owned
    <3>4. ~open' => inflight' = NoPacket
      BY <1>1, <1>2 DEF Locked, Shut
    <3>5. QED BY <1>2, <1>5, <3>2, <3>3, <3>4, NobodyPaces
  <2>2. CASE at[t] # "pacing"
    <3>1. call[t].packet = NoPacket /\ orphaned' = orphaned
      BY <1>1, <1>2, <2>2 DEF Locked, Unpaced
    <3>2. \A u \in Task : at[u] = "pacing" /\ Len(lock) > 0 /\ lock[1] = u =>
            Len(lock') > 0 /\ lock'[1] = lock[1]
      BY <1>1, <1>2, <1>3, <2>2, Withdrawing
    <3>3. \A u \in Task : (at'[u] = "pacing" <=> at[u] = "pacing") /\ call'[u].packet = call[u].packet
      BY <1>5, <2>2, <3>1
    <3>4. \A u \in Task : at[u] = "pacing" => call'[u].epoch = call[u].epoch
      BY <1>5, <2>2
    <3>5. QED BY <1>1, <1>2, <3>1, <3>2, <3>3, <3>4, LockedAside
  <2>3. QED BY <2>1, <2>2
<1>8. QED BY <1>2, <1>5, <1>6, <1>7, TasksOnly

\* A burst or a re-key gets in line (send_dtmf, rekey_srtp).
LEMMA StartStep ==
    ASSUME IInv, StartTone \/ StartRekey
    PROVE  Keeps
<1>1. TypeOK /\ Locked /\ Tone \in Task /\ Key \in Task
  BY DEF IInv, Task
<1>2. /\ at \in [Task -> Place] /\ call \in [Task -> Call] /\ lock \in Seq(Task)
      /\ orphaned \subseteq Nat
  BY <1>1, Typed
<1>3. PICK t \in {Tone, Key}, p \in {"toning", "keying"} :
        /\ at[t] = "idle" /\ at' = [at EXCEPT ![t] = p] /\ lock' = Append(lock, t)
        /\ call' = call \/ call' = [call EXCEPT ![t] = [Idle EXCEPT !.left = TonePackets]]
        /\ Nothing
        /\ UNCHANGED <<buffer, inflight, seq, key, flushes, held, holds, open, handed, ghosts>>
  BY DEF StartTone, StartRekey
<1>4. [Idle EXCEPT !.left = TonePackets] \in Call /\ [Idle EXCEPT !.left = TonePackets].packet = NoPacket
  BY MediaSendAssumption DEF Idle, Call
<1>5. call[t].packet = NoPacket /\ t \in Task
  BY <1>1, <1>3 DEF Locked, Unpaced
<1>6. /\ at' \in [Task -> Place] /\ call' \in [Task -> Call] /\ lock' \in Seq(Task)
      /\ \A u \in Task : (at'[u] = "pacing" <=> at[u] = "pacing") /\ call'[u].packet = call[u].packet
      /\ \A u \in Task : at[u] = "pacing" => call'[u].epoch = call[u].epoch
      /\ Len(lock) > 0 => Len(lock') > 0 /\ lock'[1] = lock[1]
  <2>1. at' \in [Task -> Place] /\ \A u \in Task : at'[u] = "pacing" <=> at[u] = "pacing"
    BY <1>2, <1>3, <1>5 DEF Place
  <2>2. CASE call' = call
    BY <1>2, <1>3, <1>5, <2>1, <2>2
  <2>3. CASE call' = [call EXCEPT ![t] = [Idle EXCEPT !.left = TonePackets]]
    <3>1. call' \in [Task -> Call] /\ \A u \in Task : call'[u].packet = call[u].packet
      BY <1>2, <1>4, <1>5, <2>3
    <3>2. \A u \in Task : at[u] = "pacing" => call'[u].epoch = call[u].epoch
      BY <1>2, <1>3, <2>3
    <3>3. QED BY <1>2, <1>3, <1>5, <2>1, <3>1, <3>2
  <2>4. QED BY <1>3, <2>2, <2>3
<1>7. Locked'
  BY <1>1, <1>3, <1>6, LockedAside DEF ghosts
<1>8. QED BY <1>2, <1>3, <1>6, <1>7, TasksOnly DEF ghosts

\* Whoever else is at the head of the lock, what is parked is an orphan's.
LEMMA Orphaned ==
    ASSUME IInv, NEW t \in {Tone, Key}, at[t] # "idle", Head(lock) = t
    PROVE  /\ Len(lock) > 0 /\ lock[1] = t
           /\ \A u \in Task : at[u] # "pacing" /\ call[u].packet = NoPacket
           /\ inflight # NoPacket =>
                inflight.from .. inflight.to \subseteq orphaned /\ inflight.from \in orphaned
<1>1. TypeOK /\ Locked /\ Ordered /\ t \in Task /\ t \notin Speaker /\ lock \in Seq(Task)
  BY MediaSendAssumption, Typed DEF IInv, Task
<1>2. Len(lock) > 0 /\ lock[1] = t
  BY <1>1 DEF IInv, InLine
<1>3. \A u \in Task : at[u] # "pacing" /\ call[u].packet = NoPacket
  BY <1>1, <1>2 DEF Locked, Paced, Unpaced
<1>4. inflight # NoPacket => inflight.from .. inflight.to \subseteq orphaned
  BY <1>1, <1>3 DEF Locked, Owned
<1>5. inflight # NoPacket => inflight.from \in inflight.from .. inflight.to
  <2>1. inflight # NoPacket => inflight \in Packets
    BY <1>1, Typed
  <2>2. inflight # NoPacket => inflight.from <= inflight.to
    BY <1>1 DEF Ordered, Between
  <2>3. QED BY <2>1, <2>2 DEF Packets
<1>6. QED BY <1>2, <1>3, <1>4, <1>5

\* A packet of the burst (_send_one_dtmf_digit).
LEMMA TonePacketStep ==
    ASSUME IInv, TonePacket
    PROVE  Keeps
<1>1. TypeOK /\ Locked /\ Ordered /\ Tone \in Task
  BY DEF IInv, Task
<1>2. /\ at[Tone] = "toning" /\ Head(lock) = Tone
      /\ UNCHANGED <<buffer, inflight, key, flushes, held, holds, open, handed, ghosts>>
  BY DEF TonePacket
<1>3. /\ Len(lock) > 0 /\ lock[1] = Tone
      /\ \A u \in Task : at[u] # "pacing" /\ call[u].packet = NoPacket
      /\ inflight # NoPacket =>
           inflight.from .. inflight.to \subseteq orphaned /\ inflight.from \in orphaned
  BY <1>2, Orphaned
<1>4. /\ at \in [Task -> Place] /\ call \in [Task -> Call] /\ lock \in Seq(Task)
      /\ seq \in Nat /\ key \in Nat /\ sent \in [seq : Nat, half : Nat] /\ orphaned \subseteq Nat
  BY <1>1, Typed
<1>5. ~open' => inflight' = NoPacket
  BY <1>1, <1>2 DEF Locked, Shut
<1>6. CASE open /\ call[Tone].left > 0
  <2> DEFINE p == Packet(seq, 0, 0)
  <2>1. p \in Packets /\ p.seq = seq /\ p.key = key /\ p.from = 0 /\ p.to = 0
    BY <1>4 DEF Packet, Packets
  <2>2. /\ Emit(<<p>>) /\ seq' = seq + 1
        /\ call' = [call EXCEPT ![Tone].left = @ - 1] /\ UNCHANGED <<at, lock>>
    BY <1>6 DEF TonePacket
  <2> HIDE DEF p
  <2>3. out' = <<p>> /\ sent' = [seq |-> Larger(sent.seq, p.seq), half |-> Larger(sent.half, p.to)]
    BY <2>2 DEF Emit
  <2>4. sent.seq < seq
    BY <1>1 DEF Ordered, Numbered
  <2>5. sent' = [seq |-> seq, half |-> sent.half]
    BY <1>4, <2>1, <2>3, <2>4 DEF Larger
  <2>6. out' \in Seq(Packets) /\ DOMAIN out' = {1} /\ out'[1] = p /\ Before(1) = sent
    BY <2>1, <2>3 DEF Before
  <2>7. GoesOut
    BY <2>1, <2>4, <2>6 DEF GoesOut, Sounds
  <2>8. /\ call' \in [Task -> Call]
        /\ \A u \in Task : call'[u].packet = call[u].packet
    <3>1. call[Tone] \in Call /\ call[Tone].left - 1 \in Nat
      BY <1>1, <1>4, <1>6 DEF Call
    <3>2. [call[Tone] EXCEPT !.left = @ - 1] \in Call
      BY <3>1 DEF Call
    <3>3. call' = [call EXCEPT ![Tone] = [call[Tone] EXCEPT !.left = @ - 1]]
      BY <2>2
    <3>4. [call[Tone] EXCEPT !.left = @ - 1].packet = call[Tone].packet
      BY <3>1 DEF Call
    <3>5. QED BY <1>1, <1>4, <3>2, <3>3, <3>4
  <2>9. Locked'
    BY <1>2, <1>3, <1>5, <2>2, <2>8, NobodyPaces DEF ghosts
  <2>10. Ordered'
    <3>1. Numbered'
      <4>1. inflight # NoPacket => inflight.seq \in Nat /\ inflight.seq < seq
        BY <1>1, Typed DEF Packets, Ordered, Numbered
      <4>2. QED BY <1>2, <1>3, <1>4, <2>2, <2>5, <4>1 DEF Numbered, ghosts
    <3>2. Between' /\ Ahead' /\ Accounted'
      BY <1>1, <1>2, <2>5 DEF Ordered, Between, Ahead, Accounted, Missing, ghosts, buffer
    <3>3. QED BY <3>1, <3>2 DEF Ordered
  <2>11. TypeOK'
    <3>1. /\ key' \in Nat /\ flushes' \in Nat /\ holds' \in Nat /\ handed' \in Nat
          /\ held' \in BOOLEAN /\ open' \in BOOLEAN /\ cut' \subseteq Nat /\ orphaned' \subseteq Nat
          /\ last' \in Nat /\ first' \in 1 .. last' + 1 /\ inflight' \in Packets \cup {NoPacket}
      BY <1>1, <1>2, Typed DEF ghosts, buffer
    <3>2. at' \in [Task -> Place] /\ lock' \in Seq(Task) /\ seq' \in Nat
      BY <1>4, <2>2
    <3>3. sent' \in [seq : Nat, half : Nat]
      BY <1>4, <2>5
    <3>4. QED BY <2>6, <2>8, <3>1, <3>2, <3>3, TypesNext
  <2>12. QED BY <2>7, <2>9, <2>10, <2>11 DEF Keeps
<1>7. CASE ~(open /\ call[Tone].left > 0)
  <2>1. UNCHANGED seq /\ Leave(Tone, lock) /\ Nothing
    BY <1>7 DEF TonePacket
  <2>2. Idle \in Call /\ Idle.packet = NoPacket
    BY DEF Idle, Call
  <2>3. /\ at' \in [Task -> Place] /\ call' \in [Task -> Call] /\ lock' \in Seq(Task)
        /\ \A u \in Task : at'[u] # "pacing" /\ call'[u].packet = NoPacket
    BY <1>3, <1>4, <2>1, <2>2 DEF Place, Leave
  <2>4. Locked'
    BY <1>2, <1>3, <1>5, <2>3, NobodyPaces DEF ghosts
  <2>5. QED BY <1>2, <1>4, <2>1, <2>3, <2>4, TasksOnly DEF ghosts
<1>8. QED BY <1>6, <1>7

\* The keys change with the lock (rekey_srtp): only an orphan is parked under the old ones.
LEMMA RekeyStep ==
    ASSUME IInv, Rekey
    PROVE  Keeps
<1>1. TypeOK /\ Locked /\ Ordered /\ Key \in Task
  BY DEF IInv, Task
<1>2. /\ at[Key] = "keying" /\ Head(lock) = Key /\ key' = key + 1
      /\ at' = [at EXCEPT ![Key] = "idle"] /\ Withdraws(Key) /\ Nothing
      /\ UNCHANGED <<call, buffer, inflight, seq, flushes, held, holds, open, handed, ghosts>>
  BY DEF Rekey, MayRekey
<1>3. /\ \A u \in Task : at[u] # "pacing" /\ call[u].packet = NoPacket
      /\ inflight # NoPacket =>
           inflight.from .. inflight.to \subseteq orphaned /\ inflight.from \in orphaned
  BY <1>2, Orphaned
<1>4. at \in [Task -> Place] /\ call \in [Task -> Call] /\ lock \in Seq(Task)
  BY <1>1, Typed
<1>5. GoesOut /\ sent' = sent /\ out' \in Seq(Packets)
  BY <1>2, SaysNothing
<1>6. /\ at' \in [Task -> Place] /\ lock' \in Seq(Task)
      /\ \A u \in Task : at'[u] # "pacing"
  BY <1>1, <1>2, <1>3, <1>4, Withdrawing DEF Place
<1>7. Locked'
  <2>1. ~open' => inflight' = NoPacket
    BY <1>1, <1>2 DEF Locked, Shut
  <2>2. QED BY <1>2, <1>3, <1>6, <2>1, NobodyPaces DEF ghosts
<1>8. Ordered'
  BY <1>1, <1>2, <1>3, <1>5 DEF Ordered, Numbered, Between, Ahead, Accounted, Missing, ghosts, buffer
<1>9. /\ key' \in Nat /\ flushes' \in Nat /\ holds' \in Nat /\ handed' \in Nat
      /\ held' \in BOOLEAN /\ open' \in BOOLEAN /\ cut' \subseteq Nat /\ orphaned' \subseteq Nat
      /\ sent' \in [seq : Nat, half : Nat]
  <2>1. key' \in Nat
    BY <1>1, <1>2, Typed
  <2>2. handed' \in Nat
    BY <1>1, <1>2, Typed
  <2>3. QED BY <1>1, <1>2, <1>5, <2>1, <2>2, TypesStay
<1>10. /\ last' \in Nat /\ first' \in 1 .. last' + 1 /\ seq' \in Nat
       /\ inflight' \in Packets \cup {NoPacket} /\ call' \in [Task -> Call]
  BY <1>1, <1>2, <1>4, Typed DEF buffer
<1>11. TypeOK'
  BY <1>5, <1>6, <1>9, <1>10, TypesNext
<1>12. QED BY <1>5, <1>7, <1>8, <1>11 DEF Keeps

\* set_hold drops what is buffered; what is parked still goes out.
LEMMA HoldStep ==
    ASSUME IInv, Hold
    PROVE  Keeps
<1>1. TypeOK /\ Locked /\ Ordered
  BY DEF IInv
<1>2. /\ held' = ~held /\ holds' \in {holds, holds + 1}
      /\ first' = IF held THEN first ELSE last + 1
      /\ cut' = IF held THEN cut ELSE cut \cup first .. last
      /\ Nothing
      /\ UNCHANGED <<tasks, last, inflight, seq, key, flushes, open, handed, orphaned>>
  BY DEF Hold
<1>3. GoesOut /\ sent' = sent /\ out' \in Seq(Packets)
  BY <1>2, SaysNothing
<1>4. /\ first \in Nat \ {0} /\ last \in Nat /\ first <= last + 1 /\ cut \subseteq Nat
      /\ sent.half \in Nat /\ holds \in Nat
      /\ inflight \in Packets \cup {NoPacket}
      /\ (inflight # NoPacket => inflight.from \in Nat /\ inflight.to \in Nat)
  BY <1>1, Typed DEF Packets
<1>5. Locked'
  BY <1>1, <1>2, LockedAside DEF tasks
<1>6. Ordered'
  <2>1. Numbered'
    BY <1>1, <1>2, <1>3 DEF Ordered, Numbered
  <2>2. Between'
    BY <1>1, <1>2, <1>3, <1>4 DEF Ordered, Between
  <2>3. Ahead'
    BY <1>1, <1>2, <1>3, <1>4 DEF Ordered, Ahead
  <2>4. Accounted'
    <3> SUFFICES ASSUME open, NEW h, Missing(h, first, inflight)' PROVE h \in cut' \cup orphaned'
      BY <1>2 DEF Accounted
    <3>1. CASE h < first
      <4>1. Missing(h, first, inflight)
        BY <1>2, <1>3, <3>1 DEF Missing
      <4>2. QED BY <1>1, <1>2, <4>1 DEF Ordered, Accounted
    <3>2. CASE ~(h < first)
      <4>1. h \in Nat /\ h < first'
        BY DEF Missing
      <4>2. ~held /\ h \in first .. last
        BY <1>2, <1>4, <3>2, <4>1
      <4>3. QED BY <1>2, <4>2
    <3>3. QED BY <3>1, <3>2
  <2>5. QED BY <2>1, <2>2, <2>3, <2>4 DEF Ordered
<1>7. /\ at' \in [Task -> Place] /\ lock' \in Seq(Task) /\ call' \in [Task -> Call]
      /\ key' \in Nat /\ flushes' \in Nat /\ handed' \in Nat /\ seq' \in Nat
      /\ open' \in BOOLEAN /\ orphaned' \subseteq Nat
      /\ sent' \in [seq : Nat, half : Nat] /\ inflight' \in Packets \cup {NoPacket}
  BY <1>1, <1>2, <1>3, Typed DEF tasks
<1>8. /\ held' \in BOOLEAN /\ holds' \in Nat /\ last' \in Nat /\ first' \in 1 .. last' + 1
      /\ cut' \subseteq Nat
  BY <1>2, <1>4
<1>9. TypeOK'
  BY <1>3, <1>7, <1>8, TypesNext
<1>10. QED BY <1>3, <1>5, <1>6, <1>9 DEF Keeps

\* What was not heard before a burst of the buffer was given up, or is parked.
LEMMA GivenUp ==
    ASSUME IInv, open, NEW h, Missing(h, first, NoPacket)
    PROVE  h \in cut \cup orphaned \/ (inflight # NoPacket /\ h \in inflight.from .. inflight.to)
<1>1. CASE Missing(h, first, inflight)
  BY <1>1 DEF IInv, Ordered, Accounted
<1>2. CASE ~Missing(h, first, inflight)
  BY <1>2 DEF Missing
<1>3. QED BY <1>1, <1>2

\* flush_outbound: the front of the buffer fades out and the rest is dropped, with what was
\* parked; its task finds that it was superseded.
LEMMA FlushStep ==
    ASSUME IInv, Flush
    PROVE  Keeps
<1> DEFINE b == Smaller(last, first + Fade - 1)
<1>1. TypeOK /\ Locked /\ Ordered
  BY DEF IInv
<1>2. /\ flushes' = flushes + 1 /\ inflight' = NoPacket /\ first' = last + 1
      /\ cut' = cut \cup first .. last
                    \cup (IF inflight = NoPacket THEN {} ELSE inflight.from .. inflight.to)
      /\ UNCHANGED <<tasks, last, key, held, holds, open, handed, orphaned>>
  BY DEF Flush
<1>3. /\ first \in Nat \ {0} /\ last \in Nat /\ first <= last + 1 /\ cut \subseteq Nat
      /\ sent.half \in Nat /\ flushes \in Nat /\ Fade \in Nat
      /\ inflight \in Packets \cup {NoPacket}
      /\ (inflight # NoPacket => inflight.from \in Nat /\ inflight.to \in Nat)
  BY <1>1, Typed, MediaSendAssumption DEF Packets
<1>4. b \in Nat /\ first <= b + 1 /\ b <= last /\ (b < last => b + 1 >= first)
  BY <1>3 DEF Smaller
<1>5. /\ sent.seq < seq /\ sent.half < first /\ \A h \in cut : h < first
      /\ inflight # NoPacket => inflight.to < first
  BY <1>1 DEF Ordered, Numbered, Ahead, Between
<1>6. Locked'
  <2>1. Paced' /\ Unpaced'
    BY <1>1, <1>2, Typed DEF Locked, Paced, Unpaced, tasks, Call
  <2>2. \A u \in Task : at[u] = "pacing" => call[u].epoch \in Nat /\ call[u].epoch <= flushes
    BY <1>1, Typed DEF Locked, Paced, Call
  <2>3. \A u \in Task : at'[u] = "pacing" => Superseded(u)'
    BY <1>2, <1>3, <2>2 DEF Superseded, tasks
  <2>4. Live'
    BY <1>2, <2>3 DEF Live
  <2>5. Owned' /\ Shut'
    BY <1>2 DEF Owned, Shut
  <2>6. QED BY <2>1, <2>4, <2>5 DEF Locked
<1>7. /\ GoesOut /\ out' \in Seq(Packets) /\ sent' \in [seq : Nat, half : Nat] /\ seq' \in Nat
      /\ sent'.seq < seq' /\ sent'.half <= last
      /\ open => \A h \in Nat : sent'.half < h /\ h <= last => h \in cut' \cup orphaned
  <2>1. CASE open /\ ~held
    <3>1. Inline(NoPacket, first, b)
      BY <2>1 DEF Flush
    <3> HIDE DEF b
    <3>2. /\ out' \in Seq(Packets) /\ sent' \in [seq : Nat, half : Nat] /\ seq' \in Nat
          /\ sent'.seq < seq' /\ sent'.half <= b
          /\ \A h \in Nat : sent'.half < h /\ h <= b => Missing(h, first, NoPacket)
          /\ \A i \in DOMAIN out' :
               /\ \/ NoPacket # NoPacket /\ out'[i] = NoPacket /\ Before(i) = sent
                  \/ /\ out'[i].seq > Before(i).seq /\ out'[i].key = key
                     /\ first <= out'[i].from /\ out'[i].to <= b
               /\ out'[i].from > Before(i).half
               /\ \A h \in Before(i).half + 1 .. out'[i].from - 1 : Missing(h, first, NoPacket)
      BY <1>1, <1>3, <1>4, <1>5, <3>1, Bursting
    <3>3. \A h : Missing(h, first, NoPacket) => h \in cut' \cup orphaned
      BY <1>2, <2>1, GivenUp
    <3>4. GoesOut
      <4> SUFFICES ASSUME NEW i \in DOMAIN out'
                   PROVE  /\ out'[i].seq > Before(i).seq /\ out'[i].key = key
                          /\ out'[i].from > Before(i).half
                          /\ Before(i).half + 1 .. out'[i].from - 1 \subseteq cut' \cup orphaned'
                          /\ cut \cap out'[i].from .. out'[i].to = {}
        BY DEF GoesOut
      <4>1. out'[i].from \in Nat
        <5>1. out'[i] \in Packets
          BY <3>2
        <5>2. QED BY <5>1 DEF Packets
      <4>2. cut \cap out'[i].from .. out'[i].to = {}
        BY <1>3, <1>5, <3>2, <4>1
      <4>3. QED BY <1>2, <3>2, <3>3, <4>2
    <3>5. ASSUME NEW h \in Nat, sent'.half < h, h <= last PROVE h \in cut' \cup orphaned
      <4>1. CASE h <= b
        BY <3>2, <3>3, <3>5, <4>1
      <4>2. CASE ~(h <= b)
        <5>1. h \in first .. last
          BY <1>3, <1>4, <3>5, <4>2
        <5>2. QED BY <1>2, <5>1
      <4>3. QED BY <4>1, <4>2
    <3>6. sent'.half <= last
      BY <1>3, <1>4, <3>2
    <3>7. QED BY <3>2, <3>4, <3>5, <3>6
  <2>2. CASE ~(open /\ ~held)
    <3>1. Nothing /\ seq' = seq
      BY <2>2 DEF Flush
    <3>2. GoesOut /\ sent' = sent /\ out' \in Seq(Packets)
      BY <3>1, SaysNothing
    <3>3. ASSUME open, NEW h \in Nat, sent'.half < h, h <= last PROVE h \in cut' \cup orphaned
      <4>1. CASE h < first
        <5>1. Missing(h, first, NoPacket)
          BY <3>2, <3>3, <4>1 DEF Missing
        <5>2. QED BY <1>2, <3>3, <5>1, GivenUp
      <4>2. CASE ~(h < first)
        <5>1. h \in first .. last
          BY <1>3, <3>3, <4>2
        <5>2. QED BY <1>2, <5>1
      <4>3. QED BY <4>1, <4>2
    <3>4. seq \in Nat /\ sent \in [seq : Nat, half : Nat]
      BY <1>1, Typed
    <3>5. sent'.half <= last
      BY <1>3, <1>5, <3>2
    <3>6. QED BY <1>5, <3>1, <3>2, <3>3, <3>4, <3>5
  <2>3. QED BY <2>1, <2>2
<1> HIDE DEF b
<1>8. Ordered'
  <2>1. Numbered' /\ Between'
    BY <1>2, <1>7 DEF Numbered, Between
  <2>2. Ahead'
    <3>1. \A h \in cut' : h < last + 1
      BY <1>2, <1>3, <1>5
    <3>2. sent'.half < last + 1
      BY <1>3, <1>7
    <3>3. QED BY <1>2, <3>1, <3>2 DEF Ahead
  <2>3. Accounted'
    <3> SUFFICES ASSUME open, NEW h, Missing(h, first, inflight)' PROVE h \in cut' \cup orphaned'
      BY <1>2 DEF Accounted
    <3>1. h \in Nat /\ sent'.half < h /\ h < last + 1
      BY <1>2 DEF Missing
    <3>2. h <= last
      BY <1>3, <3>1
    <3>3. QED BY <1>2, <1>7, <3>1, <3>2
  <2>4. QED BY <2>1, <2>2, <2>3 DEF Ordered
<1>9. /\ at' \in [Task -> Place] /\ lock' \in Seq(Task) /\ call' \in [Task -> Call]
      /\ key' \in Nat /\ holds' \in Nat /\ handed' \in Nat
      /\ held' \in BOOLEAN /\ open' \in BOOLEAN /\ orphaned' \subseteq Nat
  BY <1>1, <1>2, Typed DEF tasks
<1>10. /\ flushes' \in Nat /\ last' \in Nat /\ first' \in 1 .. last' + 1 /\ cut' \subseteq Nat
       /\ inflight' \in Packets \cup {NoPacket}
  <2>1. flushes' \in Nat /\ last' \in Nat /\ first' \in 1 .. last' + 1
    BY <1>2, <1>3
  <2>2. first .. last \subseteq Nat
    BY <1>3
  <2>3. (IF inflight = NoPacket THEN {} ELSE inflight.from .. inflight.to) \subseteq Nat
    BY <1>3
  <2>4. cut' \subseteq Nat
    BY <1>2, <1>3, <2>2, <2>3
  <2>5. QED BY <1>2, <2>1, <2>4
<1>11. TypeOK'
  BY <1>7, <1>9, <1>10, TypesNext
<1>12. QED BY <1>6, <1>7, <1>8, <1>11 DEF Keeps

\* _flush_tx_tail: what is parked, then what is buffered, at once.
LEMMA TailStep ==
    ASSUME IInv, open, FlushTail, UNCHANGED <<tasks, last, key, flushes, held, holds, handed, ghosts>>,
           open' \in BOOLEAN
    PROVE  TypeOK' /\ Ordered' /\ GoesOut
<1>1. TypeOK /\ Locked /\ Ordered
  BY DEF IInv
<1>2. Inline(inflight, first, last) /\ inflight' = NoPacket /\ first' = last + 1
  BY DEF FlushTail, Parked
<1>3. /\ first \in Nat \ {0} /\ last \in Nat /\ first <= last + 1 /\ cut \subseteq Nat
      /\ sent.half \in Nat
      /\ inflight \in Packets \cup {NoPacket}
      /\ (inflight # NoPacket => inflight.from \in Nat /\ inflight.to \in Nat)
  BY <1>1, Typed DEF Packets
<1>4. /\ sent.seq < seq /\ sent.half < first /\ \A h \in cut : h < first
      /\ inflight # NoPacket =>
           /\ inflight.seq < seq /\ sent.half < inflight.from
           /\ inflight.from <= inflight.to /\ inflight.to < first
           /\ inflight.from .. inflight.to \cap cut = {}
           /\ inflight.from \in orphaned \/ (inflight.seq > sent.seq /\ inflight.key = key)
  BY <1>1 DEF Ordered, Numbered, Ahead, Between
<1>5. /\ out' \in Seq(Packets) /\ sent' \in [seq : Nat, half : Nat] /\ seq' \in Nat
      /\ sent'.seq < seq' /\ sent'.half <= last
      /\ \A h \in Nat : sent'.half < h /\ h <= last => Missing(h, first, inflight)
      /\ \A i \in DOMAIN out' :
           /\ \/ inflight # NoPacket /\ out'[i] = inflight /\ Before(i) = sent
              \/ /\ out'[i].seq > Before(i).seq /\ out'[i].key = key
                 /\ first <= out'[i].from /\ out'[i].to <= last
           /\ out'[i].from > Before(i).half
           /\ \A h \in Before(i).half + 1 .. out'[i].from - 1 : Missing(h, first, inflight)
  BY <1>1, <1>2, <1>3, <1>4, Bursting
<1>6. \A h : Missing(h, first, inflight) => h \in cut \cup orphaned
  BY <1>1 DEF Ordered, Accounted
<1>7. GoesOut
  <2> SUFFICES ASSUME NEW i \in DOMAIN out'
               PROVE  /\ ~Orphan(out'[i]) => out'[i].seq > Before(i).seq /\ out'[i].key = key
                      /\ out'[i].from > Before(i).half
                      /\ Before(i).half + 1 .. out'[i].from - 1 \subseteq cut' \cup orphaned'
                      /\ cut \cap out'[i].from .. out'[i].to = {}
    BY DEF GoesOut
  <2>1. out'[i].from > Before(i).half
    BY <1>5
  <2>2. Before(i).half + 1 .. out'[i].from - 1 \subseteq cut' \cup orphaned'
    BY <1>5, <1>6 DEF ghosts
  <2>3. CASE inflight # NoPacket /\ out'[i] = inflight /\ Before(i) = sent
    <3>1. cut \cap out'[i].from .. out'[i].to = {}
      BY <1>4, <2>3
    <3>2. ~Orphan(inflight) => inflight.seq > sent.seq /\ inflight.key = key
      BY <1>3, <1>4, <2>3 DEF Orphan, Sounds
    <3>3. QED BY <2>1, <2>2, <2>3, <3>1, <3>2
  <2>4. CASE /\ out'[i].seq > Before(i).seq /\ out'[i].key = key
             /\ first <= out'[i].from /\ out'[i].to <= last
    <3>1. out'[i].from \in Nat
      <4>1. out'[i] \in Packets
        BY <1>5
      <4>2. QED BY <4>1 DEF Packets
    <3>2. cut \cap out'[i].from .. out'[i].to = {}
      BY <1>3, <1>4, <2>4, <3>1
    <3>3. QED BY <2>1, <2>2, <2>4, <3>2
  <2>5. QED BY <1>5, <2>3, <2>4
<1>8. Ordered'
  <2>1. Numbered' /\ Between'
    BY <1>2, <1>5 DEF Numbered, Between
  <2>2. Ahead'
    <3>1. \A h \in cut : h < last + 1
      BY <1>3, <1>4
    <3>2. sent'.half < last + 1
      BY <1>3, <1>5
    <3>3. QED BY <1>2, <3>1, <3>2 DEF Ahead, ghosts
  <2>3. Accounted'
    <3> SUFFICES ASSUME NEW h, Missing(h, first, inflight)' PROVE h \in cut' \cup orphaned'
      BY DEF Accounted
    <3>1. h \in Nat /\ sent'.half < h /\ h < last + 1
      BY <1>2 DEF Missing
    <3>2. h <= last
      BY <1>3, <3>1
    <3>3. QED BY <1>5, <1>6, <3>1, <3>2 DEF ghosts
  <2>4. QED BY <2>1, <2>2, <2>3 DEF Ordered
<1>9. /\ at' \in [Task -> Place] /\ lock' \in Seq(Task) /\ call' \in [Task -> Call]
      /\ key' \in Nat /\ flushes' \in Nat /\ holds' \in Nat /\ handed' \in Nat
      /\ held' \in BOOLEAN /\ cut' \subseteq Nat /\ orphaned' \subseteq Nat
  BY <1>1, Typed DEF tasks, ghosts
<1>10. last' \in Nat /\ first' \in 1 .. last' + 1 /\ inflight' \in Packets \cup {NoPacket}
  BY <1>2, <1>3
<1>11. TypeOK'
  BY <1>5, <1>9, <1>10, TypesNext
<1>12. QED BY <1>7, <1>8, <1>11

\* flush_pending_audio(): nobody speaks, so what is parked is an orphan.
LEMMA FlushPendingStep ==
    ASSUME Patient, IInv, FlushPending
    PROVE  Keeps
<1>1. /\ open /\ FlushTail /\ open' = open /\ \A t \in Speaker : at[t] = "idle"
      /\ UNCHANGED <<tasks, last, key, flushes, held, holds, handed, ghosts>>
  BY DEF FlushPending
<1>2. TypeOK /\ Locked /\ open' \in BOOLEAN
  BY <1>1, Typed DEF IInv
<1>3. TypeOK' /\ Ordered' /\ GoesOut
  BY <1>1, <1>2, TailStep
<1>4. \A u \in Task : at'[u] # "pacing" /\ call'[u].packet = NoPacket
  BY <1>1, <1>2 DEF Locked, Paced, Unpaced, tasks
<1>5. inflight' = NoPacket
  BY <1>1 DEF FlushTail
<1>6. Locked'
  BY <1>4, <1>5, NobodyPaces
<1>7. QED BY <1>3, <1>6 DEF Keeps

\* stop(): nothing goes out after it.
LEMMA StopStep ==
    ASSUME IInv, Stop
    PROVE  Keeps
<1>1. /\ open /\ open' = FALSE /\ inflight' = NoPacket
      /\ UNCHANGED <<tasks, last, key, flushes, held, holds, handed, ghosts>>
  BY DEF Stop, FlushTail
<1>2. TypeOK /\ Locked /\ Ordered
  BY DEF IInv
<1>3. Locked'
  BY <1>1, <1>2 DEF Locked, Paced, Unpaced, Owned, Live, Shut, tasks
<1>4. TypeOK' /\ Ordered' /\ GoesOut
  <2>1. CASE held
    <3>1. Nothing /\ UNCHANGED seq /\ first' = last + 1
      BY <2>1 DEF Stop
    <3>2. GoesOut /\ sent' = sent /\ out' \in Seq(Packets)
      BY <3>1, SaysNothing
    <3>3. first \in Nat /\ last \in Nat /\ first <= last + 1 /\ cut \subseteq Nat /\ sent.half \in Nat
      BY <1>2, Typed
    <3>4. Ordered'
      <4>1. Numbered' /\ Between' /\ Accounted'
        BY <1>1, <1>2, <3>1, <3>2 DEF Ordered, Numbered, Between, Accounted
      <4>2. Ahead'
        BY <1>1, <1>2, <3>1, <3>2, <3>3 DEF Ordered, Ahead, ghosts
      <4>3. QED BY <4>1, <4>2 DEF Ordered
    <3>5. /\ at' \in [Task -> Place] /\ lock' \in Seq(Task) /\ call' \in [Task -> Call]
          /\ key' \in Nat /\ flushes' \in Nat /\ holds' \in Nat /\ handed' \in Nat
          /\ held' \in BOOLEAN /\ cut' \subseteq Nat /\ orphaned' \subseteq Nat
      BY <1>1, <1>2, Typed DEF tasks, ghosts
    <3>6. /\ last' \in Nat /\ first' \in 1 .. last' + 1 /\ seq' \in Nat /\ open' \in BOOLEAN
          /\ inflight' \in Packets \cup {NoPacket} /\ sent' \in [seq : Nat, half : Nat]
      <4>1. seq \in Nat /\ sent \in [seq : Nat, half : Nat]
        BY <1>2, Typed
      <4>2. last' = last /\ seq' = seq /\ sent' = sent
        BY <1>1, <3>1, <3>2
      <4>3. first' \in 1 .. last' + 1
        BY <3>1, <3>3, <4>2
      <4>4. QED BY <1>1, <3>3, <4>1, <4>2, <4>3
    <3>7. TypeOK'
      BY <3>2, <3>5, <3>6, TypesNext
    <3>8. QED BY <3>2, <3>4, <3>7
  <2>2. CASE ~held
    BY <1>1, <2>2, TailStep DEF Stop
  <2>3. QED BY <2>1, <2>2
<1>5. QED BY <1>3, <1>4 DEF Keeps

\* Whoever is not done keeps its place in line.
LEMMA InLineStep ==
    ASSUME TypeOK, InLine, Paced, Next
    PROVE  InLine'
<1>1. TypeOK /\ InLine /\ at \in [Task -> Place] /\ lock \in Seq(Task)
  BY Typed
<1>2. ASSUME NEW t \in Task, NEW c, NEW queue, NEW parked, NEW a, NEW b,
             Drains(t, c, queue, parked, a, b)
      PROVE  /\ \A u \in Task : u # t => at'[u] = at[u]
             /\ lock' = queue \/ (lock' = Tail(queue) /\ at'[t] = "idle")
  BY <1>1, <1>2 DEF Drains, Leave
<1>3. ASSUME NEW t \in Task, Len(lock) > 0, lock[1] = t,
             \A u \in Task : u # t => at'[u] = at[u],
             lock' = lock \/ (lock' = Tail(lock) /\ at'[t] = "idle")
      PROVE  InLine'
  <2>1. CASE lock' = lock
    <3>1. 1 \in DOMAIN lock
      BY <1>1, <1>3
    <3>2. QED BY <1>1, <1>3, <2>1, <3>1 DEF InLine
  <2>2. CASE lock' = Tail(lock) /\ at'[t] = "idle"
    BY <1>1, <1>3, <2>2, Quits
  <2>3. QED BY <1>3, <2>1, <2>2
<1>4. ASSUME NEW t \in Task, at[t] # "idle", Head(lock) = t PROVE Len(lock) > 0 /\ lock[1] = t
  <2>1. PICK i \in DOMAIN lock : lock[i] = t
    BY <1>1, <1>4 DEF InLine
  <2>2. QED BY <1>1, <1>4, <2>1
<1>5. ASSUME NEW t \in Speaker, NEW n \in 1 .. 3, SendAudio(t, n) PROVE InLine'
  <2>1. t \in Task
    BY DEF Task
  <2>2. CASE lock = <<>>
    <3>1. Enters(t, [Idle EXCEPT !.halves = n], <<t>>)
      BY <1>5, <2>2 DEF SendAudio
    <3>2. /\ \A u \in Task : u # t => at'[u] = at[u]
          /\ lock' = <<t>> \/ (lock' = Tail(<<t>>) /\ at'[t] = "idle")
      BY <1>2, <2>1, <3>1 DEF Enters
    <3>3. \A u \in Task : at[u] = "idle"
      BY <1>1, <2>2 DEF InLine
    <3>4. 1 \in DOMAIN <<t>> /\ <<t>>[1] = t
      OBVIOUS
    <3>5. QED BY <3>2, <3>3, <3>4 DEF InLine
  <2>3. CASE lock # <<>>
    <3>1. lock' = Append(lock, t) /\ at' = [at EXCEPT ![t] = "queued"]
      BY <1>5, <2>3 DEF SendAudio
    <3>2. \A u \in Task : u # t => at'[u] = at[u]
      BY <1>1, <3>1
    <3>3. QED BY <1>1, <2>1, <3>1, <3>2, Joins
  <2>4. QED BY <2>2, <2>3
<1>6. ASSUME NEW t \in Speaker, Acquire(t) PROVE InLine'
  <2>1. t \in Task /\ Len(lock) > 0 /\ lock[1] = t
    BY <1>4, <1>6 DEF Acquire, Task
  <2>2. QED BY <1>2, <1>3, <1>6, <2>1 DEF Acquire, Enters
<1>7. ASSUME NEW t \in Speaker, Wake(t) PROVE InLine'
  <2>1. t \in Task /\ Len(lock) > 0 /\ lock[1] = t
    BY <1>7 DEF Wake, Task, Paced
  <2>2. CASE Superseded(t) \/ ~open
    <3>1. Leave(t, lock)
      BY <1>7, <2>2 DEF Wake
    <3>2. QED BY <1>1, <1>3, <2>1, <3>1 DEF Leave
  <2>3. CASE ~(Superseded(t) \/ ~open)
    <3>1. Drains(t, call[t], lock, NoPacket, first, last)
      BY <1>7, <2>3 DEF Wake
    <3>2. QED BY <1>2, <1>3, <2>1, <3>1
  <2>4. QED BY <2>2, <2>3
<1>8. ASSUME NEW t \in Speaker \cup {Tone}, Cancel(t) PROVE InLine'
  <2>1. t \in Task /\ Withdraws(t) /\ at' = [at EXCEPT ![t] = "idle"]
    BY <1>8 DEF Cancel, Task
  <2>2. at'[t] = "idle" /\ \A u \in Task : u # t => at'[u] = at[u]
    BY <1>1, <2>1
  <2>3. QED BY <1>1, <2>1, <2>2, Quits
<1>9. CASE StartTone \/ StartRekey
  <2>1. PICK t \in Task : lock' = Append(lock, t) /\ \A u \in Task : u # t => at'[u] = at[u]
    BY <1>1, <1>9 DEF StartTone, StartRekey, Task
  <2>2. QED BY <1>1, <2>1, Joins
<1>10. CASE TonePacket
  <2>1. Tone \in Task /\ Len(lock) > 0 /\ lock[1] = Tone
    BY <1>4, <1>10 DEF TonePacket, Task
  <2>2. UNCHANGED <<at, lock>> \/ Leave(Tone, lock)
    BY <1>10 DEF TonePacket
  <2>3. QED BY <1>1, <1>3, <2>1, <2>2 DEF Leave
<1>11. CASE Rekey
  <2>1. Key \in Task /\ Withdraws(Key) /\ at' = [at EXCEPT ![Key] = "idle"]
    BY <1>11 DEF Rekey, Task
  <2>2. at'[Key] = "idle" /\ \A u \in Task : u # Key => at'[u] = at[u]
    BY <1>1, <2>1
  <2>3. QED BY <1>1, <2>1, <2>2, Quits
<1>12. CASE Flush \/ FlushPending \/ Stop \/ Hold
  BY <1>1, <1>12 DEF Flush, FlushPending, Stop, Hold, tasks, InLine
<1>13. QED
  BY <1>5, <1>6, <1>7, <1>8, <1>9, <1>10, <1>11, <1>12 DEF Next

----
(* The types and the line, whether or not a hang-up's drain is cut short *)

\* What needs no assumption on the drain.
Lined == TypeOK /\ InLine /\ Paced /\ Unpaced

LinedNext == TypeOK' /\ Paced' /\ Unpaced'

\* A packet of the buffer is encoded, or the call returns.
LEMMA DrainTyped ==
    ASSUME TypeOK, NEW t \in Speaker, NEW c \in Call, NEW queue \in Seq(Task),
           Len(queue) > 0, queue[1] = t, c.epoch <= flushes,
           NEW parked \in Packets \cup {NoPacket}, NEW b \in Nat, first <= b + 1,
           Drains(t, c, queue, parked, first, b), UNCHANGED flushes,
           \A u \in Task : u # t => at[u] # "pacing" /\ call[u].packet = NoPacket
    PROVE  /\ Paced' /\ Unpaced'
           /\ at' \in [Task -> Place] /\ lock' \in Seq(Task) /\ call' \in [Task -> Call]
           /\ last' \in Nat /\ first' \in 1 .. last' + 1
           /\ inflight' \in Packets \cup {NoPacket} /\ seq' \in Nat
<1>1. /\ at \in [Task -> Place] /\ call \in [Task -> Call] /\ seq \in Nat /\ key \in Nat
      /\ first \in Nat \ {0} /\ flushes \in Nat /\ NoPacket \notin Packets /\ t \in Task
  BY Typed DEF Task
<1>2. CASE open /\ Whole(first, b)
  <2> DEFINE p == Packet(seq, first, first + 1)
  <2>1. p \in Packets
    BY <1>1 DEF Packet, Packets
  <2>2. /\ last' = b /\ first' = first + 2 /\ seq' = seq + 1 /\ inflight' = p /\ lock' = queue
        /\ at' = [at EXCEPT ![t] = "pacing"]
        /\ call' = [call EXCEPT ![t] = [c EXCEPT !.packet = p]]
    BY <1>2 DEF Drains
  <2> HIDE DEF p
  <2>3. [c EXCEPT !.packet = p] \in Call /\ [c EXCEPT !.packet = p].packet = p
        /\ [c EXCEPT !.packet = p].epoch = c.epoch
    BY <2>1 DEF Call
  <2>4. at' \in [Task -> Place] /\ call' \in [Task -> Call]
    BY <1>1, <2>2, <2>3 DEF Place
  <2>5. /\ at'[t] = "pacing" /\ call'[t].packet = p /\ call'[t].epoch = c.epoch
        /\ \A u \in Task : u # t => at'[u] # "pacing" /\ call'[u].packet = NoPacket
    BY <1>1, <2>2, <2>3
  <2>6. Paced' /\ Unpaced'
    BY <1>1, <2>1, <2>2, <2>5 DEF Paced, Unpaced
  <2>7. last' \in Nat /\ first' \in 1 .. last' + 1 /\ seq' \in Nat
    BY <1>1, <1>2, <2>2 DEF Whole
  <2>8. QED BY <2>1, <2>2, <2>4, <2>6, <2>7
<1>3. CASE ~(open /\ Whole(first, b))
  <2>1. /\ last' = b /\ first' = first /\ seq' = seq /\ inflight' = parked /\ lock' = Tail(queue)
        /\ at' = [at EXCEPT ![t] = "idle"] /\ call' = [call EXCEPT ![t] = Idle]
    BY <1>3 DEF Drains, Leave
  <2>2. Idle \in Call /\ Idle.packet = NoPacket
    BY DEF Idle, Call
  <2>3. /\ at' \in [Task -> Place] /\ call' \in [Task -> Call] /\ lock' \in Seq(Task)
        /\ \A u \in Task : at'[u] # "pacing" /\ call'[u].packet = NoPacket
    BY <1>1, <2>1, <2>2 DEF Place
  <2>4. Paced' /\ Unpaced'
    BY <2>3 DEF Paced, Unpaced
  <2>5. QED BY <1>1, <2>1, <2>3, <2>4
<1>4. QED BY <1>2, <1>3

\* What is emitted keeps the ghosts' types.
LEMMA EmitTyped ==
    ASSUME TypeOK, NEW ps \in Seq(Packets), Emit(ps)
    PROVE  out' \in Seq(Packets) /\ sent' \in [seq : Nat, half : Nat]
<1>1. sent \in [seq : Nat, half : Nat] /\ sent.seq \in Nat /\ sent.half \in Nat
  BY Typed
<1>2. CASE ps = <<>>
  BY <1>1, <1>2 DEF Emit
<1>3. CASE ps # <<>>
  <2>1. ps[Len(ps)] \in Packets
    BY <1>3
  <2>2. ps[Len(ps)].seq \in Nat /\ ps[Len(ps)].to \in Nat
    BY <2>1 DEF Packets
  <2>3. sent' = [seq |-> Larger(sent.seq, ps[Len(ps)].seq), half |-> Larger(sent.half, ps[Len(ps)].to)]
    BY <1>3 DEF Emit
  <2>4. Larger(sent.seq, ps[Len(ps)].seq) \in Nat /\ Larger(sent.half, ps[Len(ps)].to) \in Nat
    BY <1>1, <2>2 DEF Larger
  <2>5. QED BY <2>3, <2>4 DEF Emit
<1>4. QED BY <1>2, <1>3

\* So does a burst, of whatever order.
LEMMA InlineTyped ==
    ASSUME TypeOK, NEW parked \in Packets \cup {NoPacket},
           NEW a \in Nat \ {0}, NEW b \in Nat, a <= b + 1, Inline(parked, a, b)
    PROVE  out' \in Seq(Packets) /\ sent' \in [seq : Nat, half : Nat] /\ seq' \in Nat
<1>1. PacketsFor(a, b) \in Seq(Packets) /\ Len(PacketsFor(a, b)) \in Nat /\ seq \in Nat
  BY Packeting, Typed
<1>2. Now(parked) \in Seq(Packets)
  BY EmptySeq DEF Now
<1>3. Now(parked) \o PacketsFor(a, b) \in Seq(Packets)
  BY <1>1, <1>2
<1>4. Emit(Now(parked) \o PacketsFor(a, b)) /\ seq' = seq + Len(PacketsFor(a, b))
  BY DEF Inline
<1>5. out' \in Seq(Packets) /\ sent' \in [seq : Nat, half : Nat]
  BY <1>3, <1>4, EmitTyped
<1>6. QED BY <1>1, <1>4, <1>5

\* A step that leaves the speakers and the lock alone, and takes no flush back.
LEMMA LineStays ==
    ASSUME Lined, UNCHANGED tasks, flushes' \in Nat, flushes <= flushes',
           last' = last, first' \in {first, last + 1}, inflight' \in {inflight, NoPacket},
           seq' \in Nat, key' = key, holds' \in Nat, handed' = handed,
           held' \in BOOLEAN, open' \in BOOLEAN, out' \in Seq(Packets),
           sent' \in [seq : Nat, half : Nat], cut' \subseteq Nat, orphaned' \subseteq Nat
    PROVE  LinedNext
<1>1. TypeOK /\ Paced /\ Unpaced
  BY DEF Lined
<1>2. /\ at \in [Task -> Place] /\ call \in [Task -> Call] /\ lock \in Seq(Task)
      /\ key \in Nat /\ handed \in Nat /\ inflight \in Packets \cup {NoPacket} /\ flushes \in Nat
      /\ first \in Nat \ {0} /\ last \in Nat /\ first <= last + 1
  BY <1>1, Typed
<1>3. at' = at /\ lock' = lock /\ call' = call
  BY DEF tasks
<1>4. Unpaced'
  BY <1>1, <1>3 DEF Unpaced
<1>5. Paced'
  <2>1. \A u \in Task : call[u].epoch \in Nat
    BY <1>2 DEF Call
  <2>2. QED BY <1>1, <1>2, <1>3, <2>1 DEF Paced
<1>6. last' \in Nat /\ first' \in 1 .. last' + 1
  BY <1>2
<1>7. key' \in Nat /\ handed' \in Nat /\ inflight' \in Packets \cup {NoPacket}
  BY <1>2
<1>8. TypeOK'
  BY <1>2, <1>3, <1>6, <1>7, TypesNext
<1>9. QED BY <1>4, <1>5, <1>8 DEF LinedNext

\* A step of a task that is not at its deadline after it, in a lock whose head stays
\* unless it goes.
LEMMA LineMoves ==
    ASSUME Lined, NEW t \in Task, at' \in [Task -> Place], call' \in [Task -> Call],
           lock' \in Seq(Task), at'[t] # "pacing", call'[t].packet = NoPacket,
           \A u \in Task : u # t => at'[u] = at[u] /\ call'[u] = call[u],
           Len(lock) > 0 /\ lock[1] # t => Len(lock') > 0 /\ lock'[1] = lock[1],
           UNCHANGED <<buffer, inflight, flushes, held, holds, open, handed, cut>>,
           seq' \in Nat, key' \in Nat, orphaned' \subseteq Nat, out' \in Seq(Packets),
           sent' \in [seq : Nat, half : Nat]
    PROVE  LinedNext
<1>1. TypeOK /\ Paced /\ Unpaced
  BY DEF Lined
<1>2. Paced' /\ Unpaced'
  <2>1. ASSUME NEW u \in Task, at'[u] = "pacing"
        PROVE  /\ u \in Speaker /\ Len(lock') > 0 /\ lock'[1] = u
               /\ call'[u].packet # NoPacket /\ call'[u].epoch <= flushes'
    <3>1. u # t /\ at[u] = "pacing" /\ call'[u] = call[u] /\ flushes' = flushes
      BY <2>1
    <3>2. Len(lock) > 0 /\ lock[1] = u
      BY <1>1, <3>1 DEF Paced
    <3>3. Len(lock') > 0 /\ lock'[1] = u
      BY <3>1, <3>2
    <3>4. QED BY <1>1, <3>1, <3>3 DEF Paced
  <2>2. ASSUME NEW u \in Task, at'[u] # "pacing" PROVE call'[u].packet = NoPacket
    BY <1>1, <2>2 DEF Unpaced
  <2>3. QED BY <2>1, <2>2 DEF Paced, Unpaced
<1>3. /\ last' \in Nat /\ first' \in 1 .. last' + 1 /\ inflight' \in Packets \cup {NoPacket}
      /\ flushes' \in Nat /\ holds' \in Nat /\ handed' \in Nat
  <2>1. /\ last' = last /\ first' = first /\ inflight' = inflight
        /\ flushes' = flushes /\ holds' = holds /\ handed' = handed
    BY DEF buffer
  <2>2. /\ first \in Nat \ {0} /\ last \in Nat /\ first <= last + 1
        /\ inflight \in Packets \cup {NoPacket}
        /\ flushes \in Nat /\ holds \in Nat /\ handed \in Nat
    BY <1>1, Typed
  <2>3. QED BY <2>1, <2>2
<1>4. held' \in BOOLEAN /\ open' \in BOOLEAN /\ cut' \subseteq Nat
  BY <1>1, Typed
<1>5. TypeOK'
  BY <1>3, <1>4, TypesNext
<1>6. QED BY <1>2, <1>5 DEF LinedNext

\* Every step keeps the types, and who is at its deadline.
LEMMA LinedStep ==
    ASSUME Lined, Next
    PROVE  LinedNext
<1>1. TypeOK /\ InLine /\ Paced /\ Unpaced
  BY DEF Lined
<1>2. /\ at \in [Task -> Place] /\ call \in [Task -> Call] /\ lock \in Seq(Task)
      /\ first \in Nat \ {0} /\ last \in Nat /\ first <= last + 1 /\ seq \in Nat /\ key \in Nat
      /\ flushes \in Nat /\ holds \in Nat /\ handed \in Nat /\ inflight \in Packets \cup {NoPacket}
      /\ sent \in [seq : Nat, half : Nat] /\ cut \subseteq Nat /\ orphaned \subseteq Nat
      /\ NoPacket \notin Packets
  BY <1>1, Typed
<1>3. held \in BOOLEAN /\ open \in BOOLEAN
  BY <1>1, Typed
<1>4. Idle \in Call /\ Idle.packet = NoPacket
  BY DEF Idle, Call
<1>5. ASSUME NEW t \in Task, at[t] # "idle", Head(lock) = t PROVE Len(lock) > 0 /\ lock[1] = t
  <2>1. PICK i \in DOMAIN lock : lock[i] = t
    BY <1>1, <1>5 DEF InLine
  <2>2. QED BY <1>2, <1>5, <2>1
<1>6. ASSUME NEW t \in Task, Len(lock) > 0 => lock[1] = t
      PROVE  \A u \in Task : u # t => at[u] # "pacing" /\ call[u].packet = NoPacket
  BY <1>1, <1>6 DEF Paced, Unpaced
<1>7. ASSUME NEW t \in Speaker, NEW c \in Call, NEW queue \in Seq(Task), Len(queue) > 0,
             queue[1] = t, Len(lock) > 0 => lock[1] = t,
             Enters(t, c, queue), Nothing, handed' \in Nat,
             UNCHANGED <<key, flushes, held, holds, open, ghosts>>
      PROVE  LinedNext
  <2> DEFINE d == [c EXCEPT !.epoch = flushes]
             b == last + c.halves
  <2>1. d \in Call /\ d.epoch = flushes
    BY <1>2 DEF Call
  <2>2. c.halves \in Nat
    BY DEF Call
  <2>3. b \in Nat /\ first <= b + 1
    BY <1>2, <2>2
  <2>4. Drains(t, d, queue, inflight, first, b)
    BY <1>7 DEF Enters
  <2>5. t \in Task /\ d.epoch <= flushes /\ flushes' = flushes
    BY <1>2, <1>7, <2>1 DEF Task
  <2>6. \A u \in Task : u # t => at[u] # "pacing" /\ call[u].packet = NoPacket
    BY <1>6, <1>7, <2>5
  <2> HIDE DEF d, b
  <2>7. /\ Paced' /\ Unpaced'
        /\ at' \in [Task -> Place] /\ lock' \in Seq(Task) /\ call' \in [Task -> Call]
        /\ last' \in Nat /\ first' \in 1 .. last' + 1
        /\ inflight' \in Packets \cup {NoPacket} /\ seq' \in Nat
    BY <1>1, <1>2, <1>7, <2>1, <2>3, <2>4, <2>5, <2>6, DrainTyped
  <2>8. out' \in Seq(Packets) /\ sent' = sent
    BY <1>7, SaysNothing
  <2>9. key' \in Nat
    BY <1>2, <1>7
  <2>10. TypeOK'
    BY <1>1, <1>7, <2>7, <2>8, <2>9, TypesStay, TypesNext
  <2>11. QED BY <2>7, <2>10 DEF LinedNext
<1>8. ASSUME NEW t \in Speaker, NEW n \in 1 .. 3, SendAudio(t, n) PROVE LinedNext
  <2> DEFINE c == [Idle EXCEPT !.halves = n]
  <2>1. c \in Call /\ c.packet = NoPacket /\ t \in Task
    BY DEF Idle, Call, Task
  <2>2. /\ handed' \in Nat /\ Nothing /\ UNCHANGED <<key, flushes, held, holds, open, ghosts>>
    BY <1>2, <1>8 DEF SendAudio
  <2>3. CASE lock = <<>>
    <3>1. Enters(t, c, <<t>>)
      BY <1>8, <2>3 DEF SendAudio
    <3>2. <<t>> \in Seq(Task) /\ Len(<<t>>) > 0 /\ <<t>>[1] = t /\ ~(Len(lock) > 0)
      BY <2>1, <2>3
    <3> HIDE DEF c
    <3>3. QED BY <1>7, <2>1, <2>2, <3>1, <3>2
  <2>4. CASE lock # <<>>
    <3>1. /\ at' = [at EXCEPT ![t] = "queued"] /\ call' = [call EXCEPT ![t] = c]
          /\ lock' = Append(lock, t) /\ UNCHANGED <<buffer, inflight, seq>> /\ handed' = handed + n
      BY <1>8, <2>4 DEF SendAudio
    <3> HIDE DEF c
    <3>2. /\ at' \in [Task -> Place] /\ call' \in [Task -> Call] /\ lock' \in Seq(Task)
          /\ at'[t] = "queued" /\ call'[t] = c
          /\ \A u \in Task : u # t => at'[u] = at[u] /\ call'[u] = call[u]
      BY <1>2, <2>1, <3>1 DEF Place
    <3>3. Len(lock') > 0 /\ (Len(lock) > 0 => lock'[1] = lock[1])
      BY <1>2, <3>1
    <3>4. Paced' /\ Unpaced'
      BY <1>1, <2>1, <2>2, <3>2, <3>3 DEF Paced, Unpaced
    <3>5. out' \in Seq(Packets) /\ sent' = sent
      BY <2>2, SaysNothing
    <3>6. /\ last' \in Nat /\ first' \in 1 .. last' + 1 /\ seq' \in Nat /\ key' \in Nat
          /\ inflight' \in Packets \cup {NoPacket}
      BY <1>2, <2>2, <3>1 DEF buffer
    <3>7. TypeOK'
      BY <1>1, <2>2, <3>2, <3>5, <3>6, TypesStay, TypesNext
    <3>8. QED BY <3>4, <3>7 DEF LinedNext
  <2>5. QED BY <2>3, <2>4
<1>9. ASSUME NEW t \in Speaker, Acquire(t) PROVE LinedNext
  <2>1. /\ at[t] = "queued" /\ Head(lock) = t /\ Enters(t, call[t], lock) /\ Nothing
        /\ handed' = handed /\ UNCHANGED <<key, flushes, held, holds, open, ghosts>>
    BY <1>9 DEF Acquire
  <2>2. t \in Task /\ Len(lock) > 0 /\ lock[1] = t
    BY <1>5, <2>1 DEF Task
  <2>3. call[t] \in Call /\ handed' \in Nat
    BY <1>2, <2>1, <2>2
  <2>4. QED BY <1>2, <1>7, <2>1, <2>2, <2>3
<1>10. ASSUME NEW t \in Speaker, Wake(t) PROVE LinedNext
  <2>1. at[t] = "pacing" /\ UNCHANGED <<key, flushes, held, holds, open, handed, ghosts>> /\ t \in Task
    BY <1>10 DEF Wake, Task
  <2>2. /\ Len(lock) > 0 /\ lock[1] = t /\ call[t] \in Call /\ call[t].packet # NoPacket
        /\ call[t].epoch <= flushes
    BY <1>1, <1>2, <2>1 DEF Paced
  <2>3. call[t].packet \in Packets
    BY <2>2 DEF Call
  <2>4. key' \in Nat /\ handed' \in Nat /\ flushes' = flushes
    BY <1>2, <2>1
  <2>5. CASE Superseded(t) \/ ~open
    <3>1. /\ inflight' \in {inflight, NoPacket} /\ UNCHANGED <<buffer, seq>>
          /\ Leave(t, lock) /\ Nothing
      BY <1>10, <2>5 DEF Wake
    <3>2. /\ at' = [at EXCEPT ![t] = "idle"] /\ call' = [call EXCEPT ![t] = Idle]
          /\ lock' = Tail(lock)
      BY <3>1 DEF Leave
    <3>3. /\ at' \in [Task -> Place] /\ call' \in [Task -> Call] /\ lock' \in Seq(Task)
          /\ at'[t] = "idle" /\ call'[t] = Idle
          /\ \A u \in Task : u # t => at'[u] = at[u] /\ call'[u] = call[u]
      BY <1>2, <1>4, <2>1, <2>2, <3>2 DEF Place
    <3>4. Paced' /\ Unpaced'
      BY <1>4, <1>6, <2>1, <2>2, <3>3 DEF Paced, Unpaced
    <3>5. out' \in Seq(Packets) /\ sent' = sent
      BY <3>1, SaysNothing
    <3>6. /\ last' \in Nat /\ first' \in 1 .. last' + 1 /\ seq' \in Nat
          /\ inflight' \in Packets \cup {NoPacket}
      BY <1>2, <3>1 DEF buffer
    <3>7. TypeOK'
      BY <1>1, <2>1, <2>4, <3>3, <3>5, <3>6, TypesStay, TypesNext
    <3>8. QED BY <3>4, <3>7 DEF LinedNext
  <2>6. CASE ~Superseded(t) /\ open
    <3>1. Emit(<<call[t].packet>>) /\ Drains(t, call[t], lock, NoPacket, first, last)
      BY <1>10, <2>6 DEF Wake
    <3>2. <<call[t].packet>> \in Seq(Packets)
      BY <2>3
    <3>3. out' \in Seq(Packets) /\ sent' \in [seq : Nat, half : Nat]
      BY <1>1, <3>1, <3>2, EmitTyped
    <3>4. \A u \in Task : u # t => at[u] # "pacing" /\ call[u].packet = NoPacket
      BY <1>6, <2>1, <2>2
    <3>5. /\ Paced' /\ Unpaced'
          /\ at' \in [Task -> Place] /\ lock' \in Seq(Task) /\ call' \in [Task -> Call]
          /\ last' \in Nat /\ first' \in 1 .. last' + 1
          /\ inflight' \in Packets \cup {NoPacket} /\ seq' \in Nat
      BY <1>1, <1>2, <2>2, <2>4, <3>1, <3>4, DrainTyped
    <3>6. /\ flushes' \in Nat /\ holds' \in Nat /\ held' \in BOOLEAN /\ open' \in BOOLEAN
          /\ cut' \subseteq Nat /\ orphaned' \subseteq Nat
      BY <1>2, <1>3, <2>1 DEF ghosts
    <3>7. TypeOK'
      BY <2>4, <3>3, <3>5, <3>6, TypesNext
    <3>8. QED BY <3>5, <3>7 DEF LinedNext
  <2>7. QED BY <2>5, <2>6
<1>11. ASSUME NEW t \in Speaker \cup {Tone}, Cancel(t) PROVE LinedNext
  <2>1. /\ at' = [at EXCEPT ![t] = "idle"] /\ call' = [call EXCEPT ![t] = Idle] /\ Withdraws(t)
        /\ orphaned' = IF call[t].packet = NoPacket THEN orphaned
                       ELSE orphaned \cup call[t].packet.from .. call[t].packet.to
        /\ Nothing
        /\ UNCHANGED <<buffer, inflight, seq, key, flushes, held, holds, open, handed, cut>>
        /\ t \in Task
    BY <1>11 DEF Cancel, Task
  <2>2. orphaned' \subseteq Nat
    <3>1. call[t].packet # NoPacket => call[t].packet \in Packets
      BY <1>2, <2>1 DEF Call
    <3>2. call[t].packet # NoPacket => call[t].packet.from .. call[t].packet.to \subseteq Nat
      BY <3>1 DEF Packets
    <3>3. QED BY <1>2, <2>1, <3>2
  <2>3. /\ lock' \in Seq(Task)
        /\ Len(lock) > 0 /\ lock[1] # t => Len(lock') > 0 /\ lock'[1] = lock[1]
    BY <1>2, <2>1, Withdrawing
  <2>4. /\ at' \in [Task -> Place] /\ call' \in [Task -> Call]
        /\ at'[t] = "idle" /\ call'[t] = Idle
        /\ \A u \in Task : u # t => at'[u] = at[u] /\ call'[u] = call[u]
    BY <1>2, <1>4, <2>1 DEF Place
  <2>5. out' \in Seq(Packets) /\ sent' = sent
    BY <2>1, SaysNothing
  <2>6. /\ UNCHANGED <<buffer, inflight, flushes, held, holds, open, handed, cut>>
        /\ seq' \in Nat /\ key' \in Nat /\ sent' \in [seq : Nat, half : Nat]
    BY <1>2, <2>1, <2>5
  <2>7. QED BY <1>4, <2>1, <2>2, <2>3, <2>4, <2>5, <2>6, LineMoves
<1>12. CASE StartTone \/ StartRekey
  <2>1. PICK t \in {Tone, Key}, p \in {"toning", "keying"} :
          /\ at[t] = "idle" /\ at' = [at EXCEPT ![t] = p] /\ lock' = Append(lock, t)
          /\ call' = call \/ call' = [call EXCEPT ![t] = [Idle EXCEPT !.left = TonePackets]]
          /\ Nothing
          /\ UNCHANGED <<buffer, inflight, seq, key, flushes, held, holds, open, handed, ghosts>>
    BY <1>12 DEF StartTone, StartRekey
  <2>2. /\ [Idle EXCEPT !.left = TonePackets] \in Call
        /\ [Idle EXCEPT !.left = TonePackets].packet = NoPacket
    BY MediaSendAssumption DEF Idle, Call
  <2>3. t \in Task /\ call[t].packet = NoPacket
    BY <1>1, <2>1 DEF Unpaced, Task
  <2>4. /\ at' \in [Task -> Place] /\ at'[t] # "pacing" /\ lock' \in Seq(Task)
        /\ \A u \in Task : u # t => at'[u] = at[u]
        /\ Len(lock) > 0 /\ lock[1] # t => Len(lock') > 0 /\ lock'[1] = lock[1]
    BY <1>2, <2>1, <2>3 DEF Place
  <2>5. /\ call' \in [Task -> Call] /\ call'[t].packet = NoPacket
        /\ \A u \in Task : u # t => call'[u] = call[u]
    <3>1. CASE call' = call
      BY <1>2, <2>3, <3>1
    <3>2. CASE call' = [call EXCEPT ![t] = [Idle EXCEPT !.left = TonePackets]]
      BY <1>2, <2>2, <2>3, <3>2
    <3>3. QED BY <2>1, <3>1, <3>2
  <2>6. out' \in Seq(Packets) /\ sent' = sent
    BY <2>1, SaysNothing
  <2>7. /\ UNCHANGED <<buffer, inflight, flushes, held, holds, open, handed, cut>>
        /\ seq' \in Nat /\ key' \in Nat /\ orphaned' \subseteq Nat
        /\ sent' \in [seq : Nat, half : Nat]
    BY <1>2, <2>1, <2>6 DEF ghosts
  <2>8. QED BY <2>3, <2>4, <2>5, <2>6, <2>7, LineMoves
<1>13. CASE TonePacket
  <2>1. /\ at[Tone] = "toning" /\ Head(lock) = Tone /\ Tone \in Task
        /\ UNCHANGED <<buffer, inflight, key, flushes, held, holds, open, handed, ghosts>>
    BY <1>13 DEF TonePacket, Task
  <2>2. Len(lock) > 0 /\ lock[1] = Tone /\ call[Tone].packet = NoPacket
    BY <1>1, <1>5, <2>1 DEF Unpaced
  <2>3. /\ UNCHANGED <<buffer, inflight, flushes, held, holds, open, handed, cut>>
        /\ key' \in Nat /\ orphaned' \subseteq Nat
    BY <1>2, <2>1 DEF ghosts
  <2>4. CASE open /\ call[Tone].left > 0
    <3>1. /\ Emit(<<Packet(seq, 0, 0)>>) /\ seq' = seq + 1
          /\ call' = [call EXCEPT ![Tone].left = @ - 1] /\ UNCHANGED <<at, lock>>
      BY <1>13, <2>4 DEF TonePacket
    <3>2. <<Packet(seq, 0, 0)>> \in Seq(Packets)
      BY <1>2 DEF Packet, Packets
    <3>3. out' \in Seq(Packets) /\ sent' \in [seq : Nat, half : Nat]
      BY <1>1, <3>1, <3>2, EmitTyped
    <3>4. call[Tone] \in Call /\ call[Tone].left - 1 \in Nat
      BY <1>2, <2>1, <2>4 DEF Call
    <3>5. /\ [call[Tone] EXCEPT !.left = @ - 1] \in Call
          /\ [call[Tone] EXCEPT !.left = @ - 1].packet = call[Tone].packet
      BY <3>4 DEF Call
    <3>6. call' = [call EXCEPT ![Tone] = [call[Tone] EXCEPT !.left = @ - 1]]
      BY <3>1
    <3>7. /\ call' \in [Task -> Call] /\ call'[Tone].packet = NoPacket
          /\ \A u \in Task : u # Tone => call'[u] = call[u]
      BY <1>2, <2>1, <2>2, <3>5, <3>6
    <3>8. seq' \in Nat /\ at'[Tone] # "pacing" /\ at' = at /\ lock' = lock
      BY <1>2, <2>1, <3>1
    <3>9. QED BY <1>2, <2>1, <2>3, <3>3, <3>7, <3>8, LineMoves
  <2>5. CASE ~(open /\ call[Tone].left > 0)
    <3>1. /\ seq' = seq /\ Nothing /\ at' = [at EXCEPT ![Tone] = "idle"]
          /\ call' = [call EXCEPT ![Tone] = Idle] /\ lock' = Tail(lock)
      BY <1>13, <2>5 DEF TonePacket, Leave
    <3>2. /\ at' \in [Task -> Place] /\ call' \in [Task -> Call] /\ lock' \in Seq(Task)
          /\ at'[Tone] = "idle" /\ call'[Tone] = Idle
          /\ \A u \in Task : u # Tone => at'[u] = at[u] /\ call'[u] = call[u]
      BY <1>2, <1>4, <2>1, <2>2, <3>1 DEF Place
    <3>3. out' \in Seq(Packets) /\ sent' \in [seq : Nat, half : Nat] /\ seq' \in Nat
      BY <1>2, <3>1, SaysNothing
    <3>4. QED BY <1>4, <2>1, <2>2, <2>3, <3>2, <3>3, LineMoves
  <2>6. QED BY <2>4, <2>5
<1>14. CASE Rekey
  <2>1. /\ at[Key] = "keying" /\ key' = key + 1 /\ at' = [at EXCEPT ![Key] = "idle"]
        /\ Withdraws(Key) /\ Nothing /\ Key \in Task
        /\ UNCHANGED <<call, buffer, inflight, seq, flushes, held, holds, open, handed, ghosts>>
    BY <1>14 DEF Rekey, Task
  <2>2. /\ lock' \in Seq(Task)
        /\ Len(lock) > 0 /\ lock[1] # Key => Len(lock') > 0 /\ lock'[1] = lock[1]
    BY <1>2, <2>1, Withdrawing
  <2>3. /\ at' \in [Task -> Place] /\ at'[Key] # "pacing" /\ call'[Key].packet = NoPacket
        /\ \A u \in Task : u # Key => at'[u] = at[u] /\ call'[u] = call[u]
    BY <1>1, <1>2, <2>1 DEF Place, Unpaced
  <2>4. out' \in Seq(Packets) /\ sent' = sent
    BY <2>1, SaysNothing
  <2>5. /\ UNCHANGED <<buffer, inflight, flushes, held, holds, open, handed, cut>>
        /\ seq' \in Nat /\ key' \in Nat /\ orphaned' \subseteq Nat
        /\ sent' \in [seq : Nat, half : Nat] /\ call' \in [Task -> Call]
    BY <1>2, <2>1, <2>4 DEF ghosts
  <2>6. QED BY <2>1, <2>2, <2>3, <2>4, <2>5, LineMoves
<1>15. CASE Flush
  <2> DEFINE b == Smaller(last, first + Fade - 1)
  <2>1. /\ flushes' = flushes + 1 /\ inflight' = NoPacket /\ first' = last + 1
        /\ cut' = cut \cup first .. last
                      \cup (IF inflight = NoPacket THEN {} ELSE inflight.from .. inflight.to)
        /\ UNCHANGED <<tasks, last, key, held, holds, open, handed, orphaned>>
    BY <1>15 DEF Flush
  <2>2. b \in Nat /\ first <= b + 1
    BY <1>2, MediaSendAssumption DEF Smaller
  <2>3. out' \in Seq(Packets) /\ sent' \in [seq : Nat, half : Nat] /\ seq' \in Nat
    <3>1. CASE open /\ ~held
      <4>1. Inline(NoPacket, first, b)
        BY <1>15, <3>1 DEF Flush
      <4> HIDE DEF b
      <4>2. QED BY <1>1, <1>2, <2>2, <4>1, InlineTyped
    <3>2. CASE ~(open /\ ~held)
      <4>1. Nothing /\ seq' = seq
        BY <1>15, <3>2 DEF Flush
      <4>2. QED BY <1>2, <4>1, SaysNothing
    <3>3. QED BY <3>1, <3>2
  <2> HIDE DEF b
  <2>4. cut' \subseteq Nat
    <3>1. inflight # NoPacket => inflight.from .. inflight.to \subseteq Nat
      BY <1>2 DEF Packets
    <3>2. first .. last \subseteq Nat
      BY <1>2
    <3>3. QED BY <1>2, <2>1, <3>1, <3>2
  <2>5. /\ flushes' \in Nat /\ flushes <= flushes' /\ holds' \in Nat /\ orphaned' \subseteq Nat
        /\ held' \in BOOLEAN /\ open' \in BOOLEAN
    BY <1>2, <1>3, <2>1
  <2>6. QED BY <2>1, <2>3, <2>4, <2>5, LineStays
<1>16. CASE FlushPending \/ Stop
  <2>1. /\ UNCHANGED <<tasks, last, key, flushes, held, holds, handed, ghosts>>
        /\ inflight' = NoPacket /\ first' = last + 1 /\ open' \in BOOLEAN
        /\ (Nothing /\ seq' = seq) \/ Inline(inflight, first, last)
    BY <1>3, <1>16 DEF FlushPending, Stop, FlushTail, Parked
  <2>2. out' \in Seq(Packets) /\ sent' \in [seq : Nat, half : Nat] /\ seq' \in Nat
    <3>1. CASE Nothing /\ seq' = seq
      BY <1>2, <3>1, SaysNothing
    <3>2. CASE Inline(inflight, first, last)
      BY <1>1, <1>2, <3>2, InlineTyped
    <3>3. QED BY <2>1, <3>1, <3>2
  <2>3. /\ flushes' \in Nat /\ flushes <= flushes' /\ holds' \in Nat /\ held' \in BOOLEAN
        /\ cut' \subseteq Nat /\ orphaned' \subseteq Nat
    BY <1>2, <1>3, <2>1 DEF ghosts
  <2>4. QED BY <2>1, <2>2, <2>3, LineStays
<1>17. CASE Hold
  <2>1. /\ UNCHANGED <<tasks, last, inflight, seq, key, flushes, open, handed, orphaned>>
        /\ held' = ~held /\ holds' \in {holds, holds + 1} /\ first' \in {first, last + 1}
        /\ cut' \in {cut, cut \cup first .. last} /\ Nothing
    BY <1>17 DEF Hold
  <2>2. out' \in Seq(Packets) /\ sent' \in [seq : Nat, half : Nat]
    BY <1>2, <2>1, SaysNothing
  <2>3. /\ flushes' \in Nat /\ flushes <= flushes' /\ holds' \in Nat /\ seq' \in Nat
        /\ orphaned' \subseteq Nat
    BY <1>2, <2>1
  <2>4. cut' \subseteq Nat
    BY <1>2, <2>1
  <2>5. held' \in BOOLEAN /\ open' \in BOOLEAN
    BY <1>3, <2>1
  <2>6. QED BY <2>1, <2>2, <2>3, <2>4, <2>5, LineStays
<1>18. QED
  BY <1>8, <1>9, <1>10, <1>11, <1>12, <1>13, <1>14, <1>15, <1>16, <1>17 DEF Next

----
(* The theorems *)

\* A call starts with an empty buffer and an idle lock.
LEMMA InitIInv == Init => IInv
<1> SUFFICES ASSUME Init PROVE IInv
  OBVIOUS
<1>1. Idle \in Call /\ Idle.packet = NoPacket
  BY DEF Idle, Call
<1>2. TypeOK
  <2>1. at \in [Task -> Place] /\ lock \in Seq(Task) /\ call \in [Task -> Call]
    BY <1>1, EmptySeq DEF Init, Place
  <2>2. last \in Nat /\ first \in 1 .. last + 1 /\ inflight \in Packets \cup {NoPacket}
    BY DEF Init
  <2>3. {seq, key, flushes, holds, handed} \subseteq Nat /\ held \in BOOLEAN /\ open \in BOOLEAN
    <3>1. {seq, key, flushes, holds, handed} \subseteq Nat
      BY DEF Init
    <3>2. held = FALSE /\ open = TRUE
      BY DEF Init
    <3>3. QED BY <3>1, <3>2
  <2>4. out \in Seq(Packets) /\ sent \in [seq : Nat, half : Nat]
    BY EmptySeq DEF Init
  <2>5. cut \subseteq Nat /\ orphaned \subseteq Nat
    BY DEF Init
  <2>6. QED BY <2>1, <2>2, <2>3, <2>4, <2>5 DEF TypeOK, Place, Call
<1>3. InLine /\ Locked
  BY <1>1 DEF Init, InLine, Locked, Paced, Unpaced, Owned, Live, Shut
<1>4. Ordered
  BY DEF Init, Ordered, Numbered, Between, Ahead, Accounted, Missing
<1>5. QED BY <1>2, <1>3, <1>4 DEF IInv

\* Every step keeps the invariant, and what it sends goes out as it should.
LEMMA Step ==
    ASSUME Patient, IInv, [Next]_vars
    PROVE  IInv' /\ (GoesOut \/ UNCHANGED vars)
<1>1. CASE Next
  <2>1. Keeps
    BY <1>1, SendAudioStep, AcquireStep, WakeStep, CancelStep, StartStep, TonePacketStep,
       RekeyStep, FlushStep, FlushPendingStep, StopStep, HoldStep DEF Next
  <2>2. InLine'
    BY <1>1, InLineStep DEF IInv, Locked
  <2>3. QED BY <2>1, <2>2 DEF Keeps, IInv
<1>2. CASE UNCHANGED vars
  <2>1. TypeOK' /\ InLine'
    BY <1>2 DEF IInv, TypeOK, InLine, vars, tasks, buffer, ghosts
  <2>2. Locked'
    BY <1>2 DEF IInv, Locked, Paced, Unpaced, Owned, Live, Shut, Superseded, vars, tasks, buffer, ghosts
  <2>3. Ordered'
    BY <1>2 DEF IInv, Ordered, Numbered, Between, Ahead, Accounted, Missing, vars, tasks, buffer, ghosts
  <2>4. QED BY <1>2, <2>1, <2>2, <2>3 DEF IInv
<1>3. QED BY <1>1, <1>2

\* The inductive invariant holds in every reachable state, for any speakers and bounds.
THEOREM Invariance == Patient => (FairSpec => []IInv)
<1> SUFFICES ASSUME Patient PROVE FairSpec => []IInv
  OBVIOUS
<1>1. IInv /\ [Next]_vars => IInv'
  BY Step
<1>2. QED BY InitIInv, <1>1, PTL DEF FairSpec, Spec

\* The types of the sending side, and that who waits is in line, patient or not.
THEOREM TypeCorrect == FairSpec => []TypeOK
<1>1. Init => Lined
  BY InitIInv DEF IInv, Locked, Lined
<1>2. ASSUME Lined, [Next]_vars PROVE Lined'
  <2>1. CASE Next
    BY <1>2, <2>1, LinedStep, InLineStep DEF Lined, LinedNext
  <2>2. CASE UNCHANGED vars
    BY <1>2, <2>2 DEF Lined, TypeOK, InLine, Paced, Unpaced, vars, tasks, buffer, ghosts
  <2>3. QED BY <1>2, <2>1, <2>2
<1>3. Lined => TypeOK
  BY DEF Lined
<1>4. QED BY <1>1, <1>2, <1>3, PTL DEF FairSpec, Spec

\* Every packet leaves with a new number and under the key in force, whoever sends it
\* (_transmit_frame, _send_one_dtmf_digit, _emit_inline_frames, rekey_srtp).
THEOREM NumbersAreInOrder == Patient => (FairSpec => NumbersInOrder)
<1> SUFFICES ASSUME Patient PROVE FairSpec => NumbersInOrder
  OBVIOUS
<1>1. IInv /\ [Next]_vars =>
        [\A i \in DOMAIN out' :
            ~Orphan(out'[i]) => out'[i].seq > Before(i).seq /\ out'[i].key = key]_vars
  BY Step DEF GoesOut
<1>2. QED BY Invariance, <1>1, PTL DEF FairSpec, Spec, NumbersInOrder

\* The audio is heard once, in order, and without what a barge-in or a hold has dropped
\* (send_audio, flush_outbound, set_hold, stop).
THEOREM AudioIsHeard == Patient => (FairSpec => HeardAsHanded)
<1> SUFFICES ASSUME Patient PROVE FairSpec => HeardAsHanded
  OBVIOUS
<1>1. IInv /\ [Next]_vars =>
        [\A i \in DOMAIN out' :
            Sounds(out'[i]) =>
                /\ out'[i].from > Before(i).half
                /\ Before(i).half + 1 .. out'[i].from - 1 \subseteq cut' \cup orphaned']_vars
  BY Step DEF GoesOut
<1>2. IInv /\ [Next]_vars =>
        [\A i \in DOMAIN out' :
            Sounds(out'[i]) => cut \cap out'[i].from .. out'[i].to = {}]_vars
  BY Step DEF GoesOut
<1>3. QED
  BY Invariance, <1>1, <1>2, PTL DEF FairSpec, Spec, HeardAsHanded, SamplesContinuous, DroppedStaysOut

----
(* The receiving side *)

\* Packets as they are sent, the frames that are heard of them, and the buffer.
Sent == [ssrc : Source, seq : Int, idx : Nat]
Frame == [ssrc : Source, seq : Int, idx : Nat \cup {None}]

Buffer ==
    [ssrc : Source, packets : SUBSET Sent, next : Int, highest : Int, depth : Nat, clean : Int,
     candidate : Int, heard : Int, far : Int, run : Int]

\* What the later steps tell apart.
ReceiveTypes ==
    /\ carried \in Carried /\ secured \in BOOLEAN /\ latched \in BOOLEAN
    /\ top \in [Source -> Nat \cup {None}] /\ reinvite \in {"none", "answered", "moved"}
    /\ srtp = [key |-> srtp.key, rollovers |-> srtp.rollovers, top |-> srtp.top,
               seen |-> srtp.seen]
    /\ ghost = [home |-> ghost.home, slot |-> ghost.slot, silent |-> ghost.silent,
                left |-> ghost.left, counted |-> ghost.counted, given |-> ghost.given,
                copies |-> ghost.copies]

\* A peer that was never heard from where it was before the move: its old source sent
\* nothing that could still be taken.
Mute == IF secured THEN srtp.key = 2 ELSE top[1] = None /\ top[2] # None

\* Where is sent to: until the peer moves, to the source that was heard first; after
\* that, what could bring back the address that was left is remembered or refused.
LatchTrue ==
    /\ srtp.key = (IF secured /\ reinvite # "none" THEN 2 ELSE 1)
    /\ reinvite # "moved" =>
         /\ ghost.left = {} /\ left = Nowhere
         /\ latched => aim = Real(1) \/ (aim = Real(2) /\ Mute)
         /\ ~latched => aim = Sdp(1)
         /\ ~latched /\ ~secured => top[1] = None /\ top[2] = None
    /\ reinvite = "moved" /\ ghost.left # {} =>
         /\ ghost.left = {Sdp(1), Real(1)} /\ aim \in {Sdp(2), Real(2)}
         /\ latched \/ left = Real(1) \/ Mute

\* A buffer that plays a source: it holds slots after the last that was given, none
\* further than the window, as they were sent.
Fits(jb, s, slot) ==
    /\ jb.ssrc = s /\ jb.next = Number(s, slot + 1) /\ jb.depth >= 1
    /\ \A p \in jb.packets : p = RtpPacket(s, p.idx) /\ p.idx \in slot + 1..slot + 1 + MaxAhead

JitterTrue ==
    /\ ghost.slot \in Int
    /\ \/ ghost.home = None /\ jitter = Empty(None)
       \/ /\ ghost.home \in Source /\ jitter \in Buffer /\ IsFiniteSet(jitter.packets)
          /\ Fits(jitter, ghost.home, ghost.slot) /\ ghost.slot <= top[ghost.home]
          /\ \A p \in jitter.packets : p.idx <= top[ghost.home]

ReceiveInv == ReceiveTypes /\ LatchTrue /\ JitterTrue
----
(* Remainders *)

\* Quotient and remainder.
LEMMA Division ==
    ASSUME NEW a \in Int, NEW m \in Nat \ {0}
    PROVE  /\ a \div m \in Int /\ a % m \in 0..m - 1
           /\ a = m * (a \div m) + (a % m)
  BY SMT

\* A positive multiple is no less than the factor.
LEMMA Product == ASSUME NEW m \in Nat \ {0}, NEW q \in Int, q >= 1 PROVE m * q >= m
  BY SMT

\* The remainder is the only one there is.
LEMMA Remainder ==
    ASSUME NEW a \in Int, NEW m \in Nat \ {0}, NEW q \in Int, NEW r \in 0..m - 1,
           a = m * q + r
    PROVE  a % m = r
<1>1. PICK p \in Int, s \in 0..m - 1 : a = m * p + s /\ a % m = s
  BY Division
<1>2. m * (q - p) = s - r
  BY <1>1
<1>3. m * (p - q) = r - s
  BY <1>1
<1>4. ~(q - p >= 1)
  BY <1>2, <1>1, Product
<1>5. ~(p - q >= 1)
  BY <1>3, <1>1, Product
<1>6. q = p
  BY <1>4, <1>5, <1>1
<1>7. QED BY <1>6, <1>1

\* A remainder may be taken before a sum is formed.
LEMMA RemainderOfSum ==
    ASSUME NEW a \in Int, NEW k \in Int, NEW m \in Nat \ {0}
    PROVE  ((a % m) + k) % m = (a + k) % m
<1>1. PICK q \in Int, r \in 0..m - 1 : a = m * q + r /\ a % m = r
  BY Division
<1>2. PICK p \in Int, s \in 0..m - 1 : r + k = m * p + s /\ (r + k) % m = s
  BY Division, <1>1
<1>3. PICK c \in Int : c = a + k
  OBVIOUS
<1>4. PICK t \in Int : t = q + p
  OBVIOUS
<1>5. c = m * t + s
  BY <1>1, <1>2, <1>3, <1>4
<1>6. c % m = s
  BY <1>5, Remainder
<1>7. QED BY <1>1, <1>2, <1>3, <1>6

\* So may both sides of a difference.
LEMMA RemainderOfDifference ==
    ASSUME NEW a \in Int, NEW b \in Int, NEW m \in Nat \ {0}
    PROVE  ((b % m) - (a % m)) % m = (b - a) % m
<1>1. PICK q \in Int, r \in 0..m - 1 : a = m * q + r /\ a % m = r
  BY Division
<1>2. PICK p \in Int, t \in 0..m - 1 : b = m * p + t /\ b % m = t
  BY Division
<1>3. PICK x \in Int : x = t - r
  BY <1>1
<1>4. PICK o \in Int, s \in 0..m - 1 : x = m * o + s /\ x % m = s
  BY Division
<1>5. PICK c \in Int : c = b - a
  OBVIOUS
<1>6. PICK u \in Int : u = o + p - q
  BY <1>1
<1>7. c = m * u + s
  BY <1>1, <1>2, <1>3, <1>4, <1>5, <1>6
<1>8. c % m = s
  BY <1>7, Remainder
<1>9. QED BY <1>1, <1>2, <1>3, <1>4, <1>5, <1>8

\* Within one turn of the numbers a remainder is the number, or what is left of the turn.
LEMMA RemainderNear ==
    ASSUME NEW d \in Int, NEW m \in Nat \ {0}
    PROVE  /\ d \in 0..m - 1 => d % m = d
           /\ d \in -m..-1 => d % m = d + m
<1>1. d \in 0..m - 1 => d % m = d
  BY Remainder, d = m * 0 + d
<1>2. d \in -m..-1 => d % m = d + m
  BY Remainder, d = m * (-1) + (d + m)
<1>3. QED BY <1>1, <1>2

----
(* Sequence numbers *)

\* The numbers of a source's packets are as far apart as the packets are sent, but
\* for whole turns.
LEMMA NumbersApart ==
    ASSUME NEW s \in Source, NEW i \in Int, NEW j \in Int
    PROVE  /\ Number(s, i) \in 0..SeqMod - 1
           /\ (Number(s, i) + j) % SeqMod = Number(s, i + j)
           /\ SeqAhead(Number(s, i), Number(s, j)) = (j - i) % SeqMod
<1>1. SeqMod \in Nat \ {0} /\ First[s] \in Nat
  BY JitterAssumption, MediaReceiveAssumption DEF Source
<1>2. Number(s, i) \in 0..SeqMod - 1
  <2>1. PICK a \in Int : a = First[s] + i
    BY <1>1
  <2>2. QED BY <1>1, <2>1, Division DEF Number
<1>3. (Number(s, i) + j) % SeqMod = Number(s, i + j)
  <2>1. PICK a \in Int : a = First[s] + i
    BY <1>1
  <2>2. a + j = First[s] + (i + j)
    BY <1>1, <2>1
  <2>3. ((a % SeqMod) + j) % SeqMod = (a + j) % SeqMod
    BY <1>1, RemainderOfSum
  <2>4. QED BY <2>1, <2>2, <2>3 DEF Number
<1>4. SeqAhead(Number(s, i), Number(s, j)) = (j - i) % SeqMod
  <2>1. PICK a \in Int, b \in Int : a = First[s] + i /\ b = First[s] + j
    BY <1>1
  <2>2. b - a = j - i
    BY <1>1, <2>1
  <2>3. ((b % SeqMod) - (a % SeqMod)) % SeqMod = (b - a) % SeqMod
    BY <1>1, RemainderOfDifference
  <2>4. QED BY <2>1, <2>2, <2>3 DEF Number, SeqAhead
<1>5. QED BY <1>2, <1>3, <1>4

\* The number of the slot that is next, and of those after it.
LEMMA NextNumber ==
    ASSUME NEW s \in Source, NEW i \in Int, NEW k \in Int
    PROVE  /\ (Number(s, i + 1) + k) % SeqMod = Number(s, i + 1 + k)
           /\ Number(s, i + 1) \in Nat
<1>1. PICK j \in Int : j = i + 1
  OBVIOUS
<1>2. SeqMod \in Nat
  BY JitterAssumption
<1>3. QED BY <1>1, <1>2, NumbersApart

\* Half the numbers are more than the window.
LEMMA Halves == /\ SeqMod \div 2 \in Nat /\ 2 * (SeqMod \div 2) <= SeqMod
                /\ MaxAhead < SeqMod \div 2 /\ Reach + 1 < SeqMod \div 2
                /\ MaxAhead \in Nat \ {0} /\ SeqMod \in Nat \ {0} /\ Reach \in Nat
  BY JitterAssumption, MediaReceiveAssumption

\* AheadBy and no further than half the numbers, the distance is the true one.
LEMMA AheadBy ==
    ASSUME NEW s \in Source, NEW i \in Int, NEW j \in Int, j - i \in 0..SeqMod \div 2
    PROVE  SeqAhead(Number(s, i), Number(s, j)) = j - i
<1>1. PICK d \in Int : d = j - i /\ d \in 0..SeqMod - 1
  BY Halves
<1>2. d % SeqMod = d
  BY <1>1, RemainderNear, Halves
<1>3. QED BY <1>1, <1>2, NumbersApart, Halves

\* So is the other way round, from a packet behind.
LEMMA BehindBy ==
    ASSUME NEW s \in Source, NEW i \in Int, NEW j \in Int, j - i \in -(SeqMod \div 2)..-1
    PROVE  SeqAhead(Number(s, i), Number(s, j)) = SeqMod - (i - j)
<1>1. PICK d \in Int : d = j - i /\ d \in -SeqMod..-1
  BY Halves
<1>2. d % SeqMod = d + SeqMod
  BY <1>1, RemainderNear, Halves
<1>3. QED BY <1>1, <1>2, NumbersApart, Halves

\* Two packets in the window with one number are one.
LEMMA NumberOnce ==
    ASSUME NEW s \in Source, NEW i \in Int, NEW j \in Int, j - i \in 0..SeqMod \div 2,
           Number(s, j) = Number(s, i)
    PROVE  j = i
<1>1. SeqAhead(Number(s, i), Number(s, j)) = SeqAhead(Number(s, i), Number(s, i))
  OBVIOUS
<1>2. SeqAhead(Number(s, i), Number(s, i)) = i - i
  BY AheadBy, Halves
<1>3. QED BY <1>1, <1>2, AheadBy

\* Late is what is before the slot that is next, as long as it comes within reach.
LEMMA LateIsBefore ==
    ASSUME NEW s \in Source, NEW i \in Int, NEW slot \in Int, NEW jb, NEW p,
           jb.next = Number(s, slot + 1), p.seq = Number(s, i),
           i - slot \in -(SeqMod \div 2)..SeqMod \div 2, i >= slot - Reach
    PROVE  Late(jb, p) <=> i < slot + 1
<1>1. ASSUME i < slot + 1 PROVE Late(jb, p)
  <2>1. SeqAhead(p.seq, jb.next) = (slot + 1) - i
    BY <1>1, AheadBy, Halves
  <2>2. p.seq # jb.next
    BY <1>1, NumberOnce, Halves
  <2>3. QED BY <2>1, <2>2, Halves DEF Late, SeqBefore
<1>2. ASSUME ~(i < slot + 1) PROVE ~Late(jb, p)
  <2>1. CASE i = slot + 1
    BY <2>1 DEF Late, SeqBefore
  <2>2. CASE i > slot + 1
    <3>1. SeqAhead(p.seq, jb.next) = SeqMod - (i - (slot + 1))
      BY <2>2, BehindBy, Halves
    <3>2. QED BY <3>1, Halves DEF Late, SeqBefore
  <2>3. QED BY <1>2, <2>1, <2>2
<1>3. QED BY <1>1, <1>2
----
(* The buffer: pop *)

\* A set of naturals that is not empty has a least element.
LEMMA Least == ASSUME NEW T \in SUBSET Nat, T # {} PROVE \E x \in T : \A y \in T : x <= y
<1>1. PICK x \in T : \A y \in T : ~ (<<y, x>> \in OpToRel(<, Nat))
  BY NatLessThanWellFounded, WFMin, Zenon
<1>2. \A y \in T : ~ (y < x)
  BY <1>1 DEF OpToRel
<1>3. QED BY <1>2

\* The packet that is due is that of the slot that is next.
LEMMA DueIsNext ==
    ASSUME NEW s \in Source, NEW slot \in Int, NEW jb \in Buffer, Fits(jb, s, slot),
           NEW p \in Due(jb)
    PROVE  p \in jb.packets /\ p = RtpPacket(s, slot + 1) /\ p.idx = slot + 1
<1>1. /\ p \in jb.packets /\ p.seq = Number(s, slot + 1)
      /\ p = RtpPacket(s, p.idx) /\ p.idx \in slot + 1..slot + 1 + MaxAhead /\ p.idx \in Int
  BY Halves DEF Due, Fits
<1>2. p.seq = Number(s, p.idx)
  BY <1>1 DEF RtpPacket
<1>3. p.idx = slot + 1
  BY <1>1, <1>2, NumberOnce, Halves
<1>4. QED BY <1>1, <1>3

\* A gap ends at the first packet that is held.
LEMMA GapEnds ==
    ASSUME NEW s \in Source, NEW slot \in Int, NEW jb \in Buffer, Fits(jb, s, slot),
           Due(jb) = {}, jb.packets # {}
    PROVE  /\ CoalescedGap(jb) \in 1..MaxAhead
           /\ Number(s, slot + 1 + CoalescedGap(jb)) \in Numbers(jb)
           /\ \A k \in 1..CoalescedGap(jb) - 1 : Number(s, slot + 1 + k) \notin Numbers(jb)
<1> DEFINE Held(k) == (jb.next + k) % SeqMod \in Numbers(jb)
           Ends(n) == (\A k \in 1..n - 1 : ~Held(k)) /\ (n = MaxAhead \/ Held(n))
<1>1. \A k \in Int : Held(k) <=> Number(s, slot + 1 + k) \in Numbers(jb)
  <2> TAKE k \in Int
  <2>1. (Number(s, slot + 1) + k) % SeqMod = Number(s, slot + 1 + k)
    BY NextNumber
  <2>2. QED BY <2>1 DEF Fits
<1>2. \E d \in 1..MaxAhead : Held(d)
  <2>1. PICK q \in jb.packets : TRUE
    OBVIOUS
  <2>2. q = RtpPacket(s, q.idx) /\ q.idx \in slot + 1..slot + 1 + MaxAhead
    BY DEF Fits
  <2>3. PICK d \in 0..MaxAhead : q.idx = slot + 1 + d
    <3>1. q.idx - (slot + 1) \in 0..MaxAhead
      BY <2>2, Halves
    <3>2. QED BY <3>1, <2>2
  <2>4. q.seq = Number(s, slot + 1 + d)
    BY <2>2, <2>3 DEF RtpPacket
  <2>5. d # 0
    BY <2>4 DEF Due, Fits
  <2>6. Held(d)
    BY <2>4, <1>1 DEF Numbers
  <2>7. QED BY <2>3, <2>5, <2>6
<1>3. PICK n \in 1..MaxAhead : Held(n) /\ \A k \in 1..n - 1 : ~Held(k)
  <2> DEFINE T == {d \in 1..MaxAhead : Held(d)}
  <2>1. T \in SUBSET Nat /\ T # {}
    BY <1>2, Halves
  <2>2. PICK n \in T : \A d \in T : n <= d
    BY <2>1, Least
  <2>3. \A k \in 1..n - 1 : ~Held(k)
    BY <2>2, Halves
  <2>4. QED BY <2>2, <2>3
<1>4. CoalescedGap(jb) = CHOOSE g \in 1..MaxAhead : Ends(g)
  BY DEF CoalescedGap
<1>5. PICK g \in 1..MaxAhead : g = CoalescedGap(jb) /\ Ends(g)
  <2>1. \E g \in 1..MaxAhead : Ends(g)
    BY <1>3
  <2> HIDE DEF Ends
  <2>2. QED BY <2>1, <1>4
<1>6. Held(g)
  <2> SUFFICES ASSUME g = MaxAhead PROVE Held(g)
    BY <1>5
  <2>1. n <= g
    BY <1>3
  <2>2. ~(n < g)
    BY <1>3, <1>5, Halves
  <2>3. QED BY <1>3, <2>1, <2>2
<1>7. QED BY <1>1, <1>5, <1>6, Halves

\* What has been given and what is left on the way: the slots from the first that was
\* due, each a packet that was held or lost, and behind a loss there is a packet.
LastLost(given) == given.out # <<>> /\ Lost(given.out[Len(given.out)])

\* What comes out changes no count but the depth, which may shrink.
Untouched(b, jb) ==
    /\ b.far = jb.far /\ b.run = jb.run /\ b.candidate = jb.candidate /\ b.heard = jb.heard
    /\ b.depth <= jb.depth

Going(given, jb, s, slot) ==
    /\ given \in [jb : Buffer, out : Seq(Frame)]
    /\ given.jb.packets \subseteq jb.packets /\ Untouched(given.jb, jb)
    /\ Fits(given.jb, s, slot + Len(given.out))
    /\ \A k \in 1..Len(given.out) :
         Lost(given.out[k]) \/ (given.out[k] \in jb.packets /\ given.out[k].idx = slot + k)
    /\ LastLost(given) => Due(given.jb) # {}

Quiet(given) ==
    Due(given.jb) = {} /\ ~(given.jb.next # None /\ Cardinality(given.jb.packets) >= given.jb.depth)

Work(given) == 2 * Cardinality(given.jb.packets) - (IF LastLost(given) THEN 1 ELSE 0)

\* The due packet comes out.
LEMMA PopDue ==
    ASSUME NEW s \in Source, NEW slot \in Int, NEW jb \in Buffer, IsFiniteSet(jb.packets),
           NEW given, Going(given, jb, s, slot), Due(given.jb) # {}
    PROVE  /\ Going(Pop(given), jb, s, slot)
           /\ Work(Pop(given)) <= Work(given) - 1
           /\ Pop(given).out # <<>>
<1>1. PICK b, gone : b = given.jb /\ gone = given.out
  OBVIOUS
<1>2. /\ b \in Buffer /\ gone \in Seq(Frame) /\ b.packets \subseteq jb.packets
      /\ Fits(b, s, slot + Len(gone)) /\ Due(b) # {} /\ Untouched(b, jb)
  BY <1>1 DEF Going
<1>3. PICK p : p = (CHOOSE q \in Due(b) : TRUE) /\ p \in Due(b)
  BY <1>2
<1>4. PICK n \in Int : n = slot + Len(gone)
  BY <1>2
<1>5. p \in b.packets /\ p = RtpPacket(s, n + 1) /\ p.idx = n + 1
  BY <1>2, <1>3, <1>4, DueIsNext
<1>6. PICK c : c = Popped(b, p)
  OBVIOUS
<1>7. Pop(given) = [jb |-> c, out |-> Append(gone, p)]
  BY <1>1, <1>2, <1>3, <1>6, Zenon DEF Pop
<1>8. p \in Sent /\ p \in Frame
  <2>1. p \in Sent
    BY <1>2, <1>5 DEF Buffer
  <2>2. QED BY <2>1 DEF Sent, Frame
<1>9. Append(gone, p) \in Seq(Frame) /\ Len(Append(gone, p)) = Len(gone) + 1
      /\ \A k \in 1..Len(gone) + 1 :
           Append(gone, p)[k] = IF k = Len(gone) + 1 THEN p ELSE gone[k]
  BY <1>2, <1>8
<1>10. /\ c \in Buffer /\ c.packets = b.packets \ {p} /\ c.ssrc = b.ssrc
      /\ c.next = (b.next + 1) % SeqMod /\ c.depth >= 1
  <2>1. (b.next + 1) % SeqMod \in Int
    <3>1. b \in Buffer
      BY <1>2, Zenon
    <3>2. b.next \in Int
      BY <3>1 DEF Buffer
    <3>3. PICK x \in Int : x = b.next + 1
      BY <3>2
    <3>4. x % SeqMod \in 0..SeqMod - 1
      BY Division, Halves
    <3>5. QED BY <3>3, <3>4, Halves
  <2>2. /\ Floor \in Nat \ {0} /\ ShrinkAfter \in Nat
    BY JitterAssumption
  <2>3. b.depth \in Nat /\ b.depth >= 1 /\ b.clean \in Int
    BY <1>2 DEF Buffer, Fits
  <2>4. Cleaner(b) \in Int
    BY <2>3, <2>2 DEF Cleaner
  <2>5. Shrinks(b) => b.depth - 1 \in Nat /\ b.depth - 1 >= 1
    BY <2>3, <2>2 DEF Shrinks
  <2>6. QED BY <1>2, <1>6, <2>1, <2>5, <2>3, <2>4 DEF Popped, Buffer
<1>11. Fits(c, s, n + 1)
  <2>1. (Number(s, n + 1) + 1) % SeqMod = Number(s, n + 1 + 1)
    BY NextNumber
  <2>2. \A q \in c.packets : q = RtpPacket(s, q.idx) /\ q.idx \in n + 1 + 1..n + 1 + 1 + MaxAhead
    <3> TAKE q \in c.packets
    <3>1. q = RtpPacket(s, q.idx) /\ q.idx \in n + 1..n + 1 + MaxAhead
      BY <1>2, <1>4, <1>10 DEF Fits
    <3>2. q.idx # n + 1
      BY <3>1, <1>5, <1>10
    <3>3. QED BY <3>1, <3>2, Halves
  <2>3. QED BY <1>2, <1>4, <1>10, <2>1, <2>2 DEF Fits
<1>12. ~LastLost(Pop(given))
  <2>1. ~Lost(p)
    BY <1>8 DEF Lost, None, Sent
  <2>2. PICK o : o = Append(gone, p)
    OBVIOUS
  <2>3. Len(o) = Len(gone) + 1 /\ Len(gone) \in Nat /\ o[Len(gone) + 1] = p
    BY <1>2, <1>9, <2>2
  <2>4. QED BY <1>7, <2>1, <2>2, <2>3 DEF LastLost
<1>13. Going(Pop(given), jb, s, slot)
  <2>1. \A k \in 1..Len(gone) + 1 :
           Lost(Append(gone, p)[k]) \/ (Append(gone, p)[k] \in jb.packets /\ Append(gone, p)[k].idx = slot + k)
    <3> TAKE k \in 1..Len(gone) + 1
    <3>1. CASE k = Len(gone) + 1
      BY <3>1, <1>2, <1>4, <1>5, <1>9
    <3>2. CASE k # Len(gone) + 1
      BY <3>2, <1>1, <1>2, <1>9 DEF Going
    <3>3. QED BY <3>1, <3>2
  <2>2. PICK o : o = Append(gone, p) /\ o \in Seq(Frame) /\ Len(o) = Len(gone) + 1
    BY <1>9
  <2>3. Fits(c, s, slot + Len(o))
    BY <1>2, <1>4, <1>11, <2>2
  <2>4. PICK g : g = Pop(given) /\ g = [jb |-> c, out |-> o]
    BY <1>7, <2>2
  <2>5. /\ g \in [jb : Buffer, out : Seq(Frame)] /\ g.jb = c /\ g.out = o
        /\ c.packets \subseteq jb.packets
    BY <1>2, <1>10, <2>2, <2>4
  <2>6. \A k \in 1..Len(o) : Lost(o[k]) \/ (o[k] \in jb.packets /\ o[k].idx = slot + k)
    BY <2>1, <2>2
  <2>7. Untouched(c, jb)
    <3>1. /\ c.far = b.far /\ c.run = b.run /\ c.candidate = b.candidate /\ c.heard = b.heard
          /\ c.depth = IF Shrinks(b) THEN b.depth - 1 ELSE b.depth
      BY <1>2, <1>6 DEF Popped, Buffer
    <3>2. b.depth \in Nat /\ jb.depth \in Nat
      BY <1>2 DEF Buffer
    <3>3. QED BY <1>2, <3>1, <3>2 DEF Untouched
  <2>8. Going(g, jb, s, slot)
    BY <1>12, <2>3, <2>4, <2>5, <2>6, <2>7 DEF Going
  <2>9. QED BY <2>4, <2>8
<1>14. Work(Pop(given)) <= Work(given) - 1
  <2>1. IsFiniteSet(b.packets) /\ Cardinality(c.packets) = Cardinality(b.packets) - 1
        /\ Cardinality(b.packets) \in Nat
    <3>1. b.packets \subseteq jb.packets /\ p \in b.packets /\ c.packets = b.packets \ {p}
      BY <1>2, <1>5, <1>10
    <3>2. QED BY <3>1, FS_Subset, FS_RemoveElement, FS_CardinalityType
  <2>2. Pop(given).jb = c
    BY <1>7
  <2>3. QED BY <1>1, <1>12, <2>1, <2>2 DEF Work
<1>15. Pop(given).out # <<>>
  BY <1>7, <1>9
<1>16. QED BY <1>13, <1>14, <1>15

\* The gap comes out as lost slots, and then a packet is due.
LEMMA PopGap ==
    ASSUME NEW s \in Source, NEW slot \in Int, NEW jb \in Buffer, IsFiniteSet(jb.packets),
           NEW given, Going(given, jb, s, slot), Due(given.jb) = {}, ~Quiet(given)
    PROVE  /\ Going(Pop(given), jb, s, slot)
           /\ Work(Pop(given)) <= Work(given) - 1
           /\ Pop(given).out # <<>>
<1>1. PICK b, gone : b = given.jb /\ gone = given.out
  OBVIOUS
<1>2. /\ b \in Buffer /\ gone \in Seq(Frame) /\ b.packets \subseteq jb.packets
      /\ Fits(b, s, slot + Len(gone)) /\ Due(b) = {}
      /\ b.next # None /\ Cardinality(b.packets) >= b.depth
      /\ \A k \in 1..Len(gone) : Lost(gone[k]) \/ (gone[k] \in jb.packets /\ gone[k].idx = slot + k)
      /\ ~LastLost(given) /\ Untouched(b, jb)
  BY <1>1 DEF Going, Quiet
<1>3. b.next \in Int /\ b.ssrc \in Source /\ b.depth \in Nat /\ b.depth >= 1
  <2>1. b.next \in Int /\ b.ssrc \in Source /\ b.depth \in Nat
    BY <1>2 DEF Buffer
  <2>2. QED BY <1>2, <2>1 DEF Fits
<1>4. IsFiniteSet(b.packets) /\ Cardinality(b.packets) \in Nat /\ b.packets # {}
  <2>1. IsFiniteSet(b.packets)
    BY <1>2, FS_Subset
  <2>2. Cardinality(b.packets) \in Nat
    BY <2>1, FS_CardinalityType
  <2>3. ASSUME b.packets = {} PROVE FALSE
    <3>1. Cardinality({}) = 0
      BY FS_EmptySet
    <3>2. QED BY <1>2, <1>3, <2>3, <3>1
  <2>4. QED BY <2>1, <2>2, <2>3
<1>5. PICK n \in Int : n = slot + Len(gone) /\ Fits(b, s, n)
  BY <1>2
<1>6. PICK g : g = CoalescedGap(b)
  OBVIOUS
<1>7. /\ g \in 1..MaxAhead /\ g \in Nat \ {0}
      /\ Number(s, n + 1 + g) \in Numbers(b)
      /\ \A k \in 1..g - 1 : Number(s, n + 1 + k) \notin Numbers(b)
  <2>1. b \in Buffer /\ Fits(b, s, n) /\ Due(b) = {} /\ b.packets # {}
    BY <1>2, <1>4, <1>5
  <2>2. /\ CoalescedGap(b) \in 1..MaxAhead
        /\ Number(s, n + 1 + CoalescedGap(b)) \in Numbers(b)
        /\ \A k \in 1..CoalescedGap(b) - 1 : Number(s, n + 1 + k) \notin Numbers(b)
    BY <2>1, GapEnds
  <2>3. /\ g \in 1..MaxAhead
        /\ Number(s, n + 1 + g) \in Numbers(b)
        /\ \A k \in 1..g - 1 : Number(s, n + 1 + k) \notin Numbers(b)
    BY <1>6, <2>2, Zenon
  <2>4. g \in Nat \ {0}
    BY <2>3, Halves
  <2>5. QED BY <2>3, <2>4, Zenon
<1>8. PICK c : c = Skipped(b)
  OBVIOUS
<1>9. PICK lost : lost = [k \in 1..g |-> LostAt(b, k)]
  OBVIOUS
<1>10. PICK o : o = gone \o lost
  OBVIOUS
<1>11. PICK new : new = Pop(given) /\ new = [jb |-> c, out |-> o]
  BY <1>1, <1>2, <1>6, <1>8, <1>9, <1>10, Zenon DEF Pop
<1>12. lost \in Seq(Frame) /\ Len(lost) = g /\ \A k \in 1..g : Lost(lost[k])
  <2>1. \A k \in 1..g : LostAt(b, k) \in Frame /\ Lost(LostAt(b, k))
    <3> TAKE k \in 1..g
    <3>1. PICK x \in Int : x = b.next + k - 1
      BY <1>3, <1>7
    <3>2. x % SeqMod \in 0..SeqMod - 1
      BY Division, Halves
    <3>3. x % SeqMod \in Int
      BY <3>2, Halves
    <3>4. b.ssrc \in Source
      BY <1>2 DEF Buffer
    <3>5. QED BY <3>1, <3>3, <3>4 DEF LostAt, Frame, Lost
  <2>2. QED BY <2>1, <1>7, <1>9
<1>13. /\ o \in Seq(Frame) /\ Len(o) = Len(gone) + g /\ Len(gone) \in Nat
       /\ \A k \in 1..Len(gone) + g : o[k] = IF k <= Len(gone) THEN gone[k] ELSE lost[k - Len(gone)]
  <2>1. o \in Seq(Frame) /\ Len(o) = Len(gone) + Len(lost)
    BY <1>2, <1>10, <1>12, ConcatProperties
  <2>2. \A k \in 1..Len(gone) + Len(lost) :
            o[k] = IF k <= Len(gone) THEN gone[k] ELSE lost[k - Len(gone)]
    BY <1>2, <1>10, <1>12, ConcatProperties
  <2>3. QED BY <1>2, <1>12, <2>1, <2>2
<1>14. c \in Buffer /\ c.packets = b.packets /\ c.ssrc = b.ssrc /\ c.depth = b.depth
       /\ c.next = (b.next + g) % SeqMod
  <2>1. (b.next + g) % SeqMod \in Int
    <3>1. PICK x \in Int : x = b.next + g
      BY <1>3, <1>7
    <3>2. x % SeqMod \in 0..SeqMod - 1
      BY Division, Halves
    <3>3. QED BY <3>1, <3>2, Halves
  <2>2. c = [b EXCEPT !.next = (b.next + g) % SeqMod, !.clean = 0]
    BY <1>6, <1>8 DEF Skipped
  <2>3. b \in Buffer
    BY <1>2
  <2>4. PICK x \in Int : x = (b.next + g) % SeqMod
    BY <2>1
  <2>5. c = [b EXCEPT !.next = x, !.clean = 0]
    BY <2>2, <2>4
  <2>6. c \in Buffer
    BY <2>3, <2>5, 0 \in Int DEF Buffer
  <2>7. c.packets = b.packets /\ c.ssrc = b.ssrc /\ c.depth = b.depth /\ c.next = x
    BY <2>3, <2>5 DEF Buffer
  <2>8. QED BY <2>4, <2>6, <2>7
<1>15. c.next = Number(s, n + 1 + g)
  <2>1. (Number(s, n + 1) + g) % SeqMod = Number(s, n + 1 + g)
    BY <1>7, NextNumber
  <2>2. QED BY <1>5, <1>14, <2>1 DEF Fits
<1>16. Fits(c, s, n + g)
  <2>1. \A q \in c.packets : q = RtpPacket(s, q.idx) /\ q.idx \in n + g + 1..n + g + 1 + MaxAhead
    <3> TAKE q \in c.packets
    <3>1. q = RtpPacket(s, q.idx) /\ q.idx \in n + 1..n + 1 + MaxAhead /\ q.seq \in Numbers(b)
          /\ q \notin Due(b)
      BY <1>2, <1>5, <1>14 DEF Fits, Numbers
    <3>2. q.seq = Number(s, q.idx)
      BY <3>1 DEF RtpPacket
    <3>3. q.idx # n + 1
      BY <1>5, <1>14, <3>1, <3>2 DEF Due, Fits
    <3>4. ASSUME q.idx < n + 1 + g PROVE FALSE
      <4>1. PICK k \in 1..g - 1 : q.idx = n + 1 + k
        <5>1. q.idx - (n + 1) \in 1..g - 1
          BY <3>1, <3>3, <3>4, <1>7, Halves
        <5>2. q.idx = n + 1 + (q.idx - (n + 1))
          BY <3>1, Halves
        <5>3. QED BY <5>1, <5>2
      <4>2. QED BY <4>1, <3>1, <3>2, <1>7
    <3>5. QED BY <3>1, <3>4, <1>7, Halves
  <2>2. n + 1 + g = n + g + 1
    BY <1>7
  <2>3. QED BY <1>2, <1>14, <1>15, <2>1, <2>2 DEF Fits
<1>17. Due(c) # {}
  BY <1>7, <1>14, <1>15 DEF Due, Numbers
<1>18. LastLost(new)
  <2>1. o # <<>> /\ Len(o) \in 1..Len(gone) + g /\ ~(Len(o) <= Len(gone)) /\ Len(o) - Len(gone) = g
    BY <1>7, <1>13
  <2>2. o[Len(o)] = lost[g]
    BY <1>13, <2>1
  <2>3. QED BY <1>7, <1>11, <1>12, <2>1, <2>2 DEF LastLost
<1>19. Going(new, jb, s, slot)
  <2>1. \A k \in 1..Len(o) : Lost(o[k]) \/ (o[k] \in jb.packets /\ o[k].idx = slot + k)
    <3> TAKE k \in 1..Len(o)
    <3>1. CASE k <= Len(gone)
      <4>1. k \in 1..Len(gone) /\ o[k] = gone[k]
        BY <3>1, <1>13
      <4>2. QED BY <4>1, <1>2
    <3>2. CASE ~(k <= Len(gone))
      <4>1. k - Len(gone) \in 1..g
        BY <3>2, <1>13, <1>7
      <4>2. QED BY <4>1, <3>2, <1>12, <1>13
    <3>3. QED BY <3>1, <3>2
  <2>2. slot + Len(o) = n + g
    BY <1>5, <1>7, <1>13
  <2>3. /\ new \in [jb : Buffer, out : Seq(Frame)] /\ new.jb = c /\ new.out = o
        /\ c.packets \subseteq jb.packets
    BY <1>2, <1>11, <1>13, <1>14
  <2>4. Untouched(c, jb)
    <3>1. /\ c.far = b.far /\ c.run = b.run /\ c.candidate = b.candidate /\ c.heard = b.heard
          /\ c.depth = b.depth
      BY <1>2, <1>8 DEF Skipped, Buffer
    <3>2. QED BY <1>2, <3>1 DEF Untouched
  <2>5. QED BY <1>16, <1>17, <2>1, <2>2, <2>3, <2>4 DEF Going
<1>20. Work(new) <= Work(given) - 1
  BY <1>1, <1>2, <1>4, <1>11, <1>14, <1>18 DEF Work
<1>21. new.out # <<>>
  BY <1>18 DEF LastLost
<1>22. QED BY <1>11, <1>19, <1>20, <1>21

\* Nothing comes out of a buffer that waits.
LEMMA PopQuiet == ASSUME NEW given, Quiet(given) PROVE Pop(given) = given
<1>1. PICK b : b = given.jb
  OBVIOUS
<1>2. Due(b) = {} /\ ~(b.next # None /\ Cardinality(b.packets) >= b.depth)
  BY <1>1 DEF Quiet
<1>3. QED BY <1>1, <1>2 DEF Pop

\* There is a sequence of pops of any length.
LEMMA PopsExist ==
    ASSUME NEW start, NEW C \in Nat
    PROVE  \E f : f = [n \in 0..C |-> IF n = 0 THEN start ELSE Pop(f[n - 1])]
<1> DEFINE Good(n, f) == f = [k \in 0..n |-> IF k = 0 THEN start ELSE Pop(f[k - 1])]
           T == {n \in Nat : \A f : ~Good(n, f)}
<1>1. SUFFICES T = {}
  <2>1. \E f : Good(C, f)
    BY <1>1
  <2>2. QED BY <2>1
<1>2. SUFFICES ASSUME T # {} PROVE FALSE
  OBVIOUS
<1>3. PICK n \in T : \A m \in T : n <= m
  BY <1>2, Least
<1>4. n \in Nat /\ \A f : ~Good(n, f)
  BY <1>3
<1>5. n # 0
  <2>1. Good(0, [k \in 0..0 |-> start])
    OBVIOUS
  <2>2. QED BY <2>1, <1>4
<1>6. PICK m \in Nat : n = m + 1
  BY <1>4, <1>5
<1>7. m \notin T
  <2> HIDE DEF T
  <2>1. QED BY <1>3, <1>4, <1>6
<1>8. PICK f : Good(m, f)
  BY <1>7
<1>9. PICK g : g = [k \in 0..n |-> IF k <= m THEN f[k] ELSE Pop(f[m])]
  OBVIOUS
<1>10. \A k \in 0..m : f[k] = IF k = 0 THEN start ELSE Pop(f[k - 1])
  BY <1>8
<1>11. \A k \in 0..n : g[k] = IF k = 0 THEN start ELSE Pop(g[k - 1])
  <2> TAKE k \in 0..n
  <2>1. CASE k = 0
    BY <2>1, <1>6, <1>9, <1>10
  <2>2. CASE k # 0 /\ k <= m
    <3>1. k - 1 \in 0..n /\ k - 1 <= m /\ k \in 0..m
      BY <2>2, <1>6
    <3>2. g[k] = f[k] /\ g[k - 1] = f[k - 1]
      BY <3>1, <2>2, <1>9
    <3>3. QED BY <3>1, <3>2, <2>2, <1>10
  <2>3. CASE k = n
    <3>1. k - 1 = m /\ k # 0 /\ ~(k <= m) /\ m \in 0..n
      BY <2>3, <1>6
    <3>2. g[k] = Pop(f[m]) /\ g[m] = f[m]
      BY <3>1, <1>9
    <3>3. QED BY <3>1, <3>2
  <2>4. QED BY <2>1, <2>2, <2>3, <1>6
<1>12. Good(n, g)
  BY <1>9, <1>11
<1>13. QED BY <1>4, <1>12

\* All that is given by one push: the slots from the first that was due, in their
\* order, up to a packet that was held.
LEMMA DrainGives ==
    ASSUME NEW s \in Source, NEW slot \in Int, NEW jb \in Buffer, IsFiniteSet(jb.packets),
           Fits(jb, s, slot)
    PROVE  /\ Going(Drain(jb), jb, s, slot)
           /\ ~LastLost(Drain(jb))
           /\ Due(jb) # {} => Drain(jb).out # <<>>
           /\ Quiet(Drain(jb))
           /\ Drain(jb).out = <<>> => Drain(jb).jb = jb
           /\ Quiet([jb |-> jb, out |-> <<>>]) => Drain(jb).out = <<>>
<1>1. PICK C \in Nat : C = 2 * Cardinality(jb.packets)
  <2>1. 2 * Cardinality(jb.packets) \in Nat
    BY FS_CardinalityType
  <2>2. QED BY <2>1
<1>2. PICK start : start = [jb |-> jb, out |-> <<>>]
  OBVIOUS
<1>3. C = 2 * Cardinality(jb.packets) /\ start = [jb |-> jb, out |-> <<>>]
  BY <1>1, <1>2
<1> DEFINE Is(f) == f = [n \in 0..C |-> IF n = 0 THEN start ELSE Pop(f[n - 1])]
<1>4. Drain(jb) = (CHOOSE f : Is(f))[C]
  BY <1>3 DEF Drain
<1>5. \E f : Is(f)
  BY PopsExist
<1>6. PICK f : Is(f) /\ Drain(jb) = f[C]
  <2> HIDE DEF Is
  <2>1. QED BY <1>4, <1>5
<1>7. f[0] = start /\ \A n \in 1..C : f[n] = Pop(f[n - 1])
  BY <1>6
<1> HIDE DEF Is
<1> DEFINE Fine(n) ==
               /\ Going(f[n], jb, s, slot)
               /\ Quiet(f[n]) \/ Work(f[n]) <= C - n
               /\ f[n].out # <<>> \/ (f[n] = start /\ (n = 0 \/ Quiet(start)))
               /\ Quiet(start) => f[n] = start
           T == {n \in 0..C : ~Fine(n)}
<1>8. Fine(0)
  <2>1. start.jb = jb /\ start.out = <<>> /\ start \in [jb : Buffer, out : Seq(Frame)]
    BY <1>3, EmptySeq
  <2>2. Len(start.out) = 0 /\ ~LastLost(start)
    BY <2>1, EmptySeq DEF LastLost
  <2>3. slot + Len(start.out) = slot
    BY <2>2
  <2>4. Going(start, jb, s, slot)
    <3>1. Untouched(jb, jb)
      BY DEF Untouched, Buffer
    <3>2. QED BY <2>1, <2>2, <2>3, <3>1 DEF Going
  <2>5. Work(start) <= C - 0
    BY <1>3, <2>1, <2>2 DEF Work
  <2>6. QED BY <1>7, <2>4, <2>5
<1>9. ASSUME NEW n \in 1..C, Fine(n - 1) PROVE Fine(n)
  <2>1. PICK g : g = f[n - 1] /\ f[n] = Pop(g)
    BY <1>7
  <2>2. /\ Going(g, jb, s, slot)
        /\ Quiet(g) \/ Work(g) <= C - (n - 1)
        /\ g.out # <<>> \/ g = start
        /\ Quiet(start) => g = start
    BY <1>9, <2>1
  <2>3. CASE Quiet(g)
    <3>1. f[n] = g
      BY <2>1, <2>3, PopQuiet
    <3>2. Going(f[n], jb, s, slot) /\ Quiet(f[n])
      BY <2>2, <2>3, <3>1
    <3>3. f[n].out # <<>> \/ (f[n] = start /\ Quiet(start))
      BY <2>2, <2>3, <3>1
    <3>4. QED BY <2>2, <3>1, <3>2, <3>3
  <2>4. CASE ~Quiet(g)
    <3>1. Going(Pop(g), jb, s, slot) /\ Work(Pop(g)) <= Work(g) - 1 /\ Pop(g).out # <<>>
      <4>1. CASE Due(g.jb) # {}
        BY <2>2, <4>1, PopDue
      <4>2. CASE Due(g.jb) = {}
        BY <2>2, <2>4, <4>2, PopGap
      <4>3. QED BY <4>1, <4>2
    <3>2. Work(g) \in Int /\ Work(Pop(g)) \in Int
      <4>1. ASSUME NEW h, Going(h, jb, s, slot) PROVE Work(h) \in Int
        <5>1. h.jb.packets \subseteq jb.packets
          BY <4>1 DEF Going
        <5>2. Cardinality(h.jb.packets) \in Nat
          BY <5>1, FS_Subset, FS_CardinalityType
        <5>3. QED BY <5>2 DEF Work
      <4>2. QED BY <4>1, <2>2, <3>1
    <3>3. Work(f[n]) <= C - n
      BY <1>3, <2>1, <2>2, <2>4, <3>1, <3>2
    <3>4. Going(f[n], jb, s, slot) /\ f[n].out # <<>>
      BY <2>1, <3>1
    <3>5. ~Quiet(start)
      BY <2>2, <2>4
    <3>6. QED BY <3>3, <3>4, <3>5
  <2>5. QED BY <2>3, <2>4
<1>10. Fine(C)
  <2> HIDE DEF Fine
  <2>1. ASSUME T # {} PROVE FALSE
    <3>1. PICK n \in T : \A m \in T : n <= m
      <4>1. T \in SUBSET Nat
        BY <1>3
      <4> HIDE DEF T
      <4>2. QED BY <2>1, <4>1, Least
    <3>2. n \in 0..C /\ ~Fine(n)
      BY <3>1
    <3>3. n # 0
      BY <3>2, <1>8
    <3>4. PICK m \in 0..C : n = m + 1
      BY <3>2, <3>3
    <3>5. m \notin T
      <4> HIDE DEF T
      <4>1. QED BY <3>1, <3>2, <3>4
    <3>6. Fine(n - 1)
      BY <3>4, <3>5
    <3>7. QED BY <3>2, <3>3, <3>6, <1>9
  <2>2. QED BY <2>1
<1>11. PICK d : d = Drain(jb)
  OBVIOUS
<1>12. /\ Going(d, jb, s, slot)
       /\ Quiet(d) \/ Work(d) <= 0
       /\ d.out # <<>> \/ (d = start /\ (C = 0 \/ Quiet(start)))
       /\ Quiet(start) => d = start
  BY <1>6, <1>10, <1>11
<1>13. ~LastLost(d) /\ Quiet(d)
  <2>1. IsFiniteSet(d.jb.packets) /\ Cardinality(d.jb.packets) \in Nat
    BY <1>12, FS_Subset, FS_CardinalityType DEF Going
  <2>2. LastLost(d) => d.jb.packets # {}
    BY <1>12 DEF Going, Due
  <2>3. d.jb.packets # {} => Cardinality(d.jb.packets) >= 1
    BY <2>1, FS_EmptySet
  <2>4. LastLost(d) => ~Quiet(d)
    BY <1>12 DEF Going, Quiet
  <2>5. Quiet(d)
    <3> SUFFICES ASSUME Work(d) <= 0 PROVE Quiet(d)
      BY <1>12
    <3>1. d.jb.packets = {}
      BY <2>1, <2>2, <2>3 DEF Work
    <3>2. Cardinality(d.jb.packets) = 0 /\ d.jb.depth \in Nat /\ d.jb.depth >= 1
      BY <1>12, <3>1, FS_EmptySet DEF Going, Buffer, Fits
    <3>3. QED BY <3>1, <3>2 DEF Quiet, Due
  <2>6. QED BY <2>4, <2>5
<1>14. Due(jb) # {} => C # 0 /\ ~Quiet(start)
  <2> SUFFICES ASSUME Due(jb) # {} PROVE C # 0 /\ ~Quiet(start)
    OBVIOUS
  <2>1. ~Quiet(start)
    BY <1>3 DEF Quiet
  <2>2. ASSUME C = 0 PROVE FALSE
    <3>1. Cardinality(jb.packets) = 0
      BY <1>3, <2>2, FS_CardinalityType
    <3>2. jb.packets = {}
      BY <3>1, FS_EmptySet
    <3>3. QED BY <3>2 DEF Due
  <2>3. QED BY <2>1, <2>2
<1>15. d = start => d.jb = jb /\ d.out = <<>>
  BY <1>3
<1>16. QED BY <1>3, <1>11, <1>12, <1>13, <1>14, <1>15

----
(* The buffer: push *)

\* The same packets and the same slot next: other counts.
Like(new, jb) ==
    /\ new \in Buffer /\ new.ssrc = jb.ssrc /\ new.packets = jb.packets /\ new.next = jb.next
    /\ jb.depth >= 1 => new.depth >= 1

\* Such a buffer plays the same source from the same slot.
LEMMA LikeFits ==
    ASSUME NEW s, NEW slot, NEW jb, NEW new, Like(new, jb), Fits(jb, s, slot)
    PROVE  Fits(new, s, slot)
  BY DEF Like, Fits

\* What push changes beside the packets and the anchor: the counts of packets that
\* were too far, and the depth.
LEMMA CountsFar ==
    ASSUME NEW jb \in Buffer, NEW far \in Int, NEW run \in Int
    PROVE  Like([jb EXCEPT !.far = far, !.run = run], jb)
<1>1. PICK new : new = [jb EXCEPT !.far = far, !.run = run]
  OBVIOUS
<1>2. new \in Buffer
  BY <1>1 DEF Buffer
<1>3. /\ new.ssrc = jb.ssrc /\ new.packets = jb.packets /\ new.next = jb.next
      /\ new.depth = jb.depth
  BY <1>1 DEF Buffer
<1>4. QED BY <1>1, <1>2, <1>3 DEF Like

\* A packet in its place forgets those that were too far.
LEMMA ForgetsFar == ASSUME NEW jb \in Buffer PROVE Like(Unbroken(jb), jb)
<1>1. PICK far \in Int, run \in Int : far = None /\ run = 0
  BY DEF None
<1>2. Like([jb EXCEPT !.far = far, !.run = run], jb)
  BY CountsFar
<1>3. QED BY <1>1, <1>2 DEF Unbroken

\* A late or reordered packet makes the buffer deeper, no more.
LEMMA Grows == ASSUME NEW jb \in Buffer PROVE Like(Grow(jb), jb)
<1>1. Ceiling \in Nat /\ jb.depth \in Nat
  BY JitterAssumption DEF Buffer
<1>2. PICK d \in Nat : d = (IF jb.depth < Ceiling THEN jb.depth + 1 ELSE jb.depth) /\ d >= jb.depth
  BY <1>1
<1>3. PICK new : new = Grow(jb) /\ new = [jb EXCEPT !.depth = d, !.clean = 0]
  BY <1>2 DEF Grow
<1>4. new \in Buffer
  BY <1>2, <1>3, 0 \in Int DEF Buffer
<1>5. new.ssrc = jb.ssrc /\ new.packets = jb.packets /\ new.next = jb.next /\ new.depth = d
  BY <1>3 DEF Buffer
<1>6. QED BY <1>1, <1>2, <1>3, <1>4, <1>5 DEF Like

\* A packet of the window is taken.
LEMMA Takes ==
    ASSUME NEW s \in Source, NEW slot \in Int, NEW i \in Nat, NEW jb \in Buffer,
           IsFiniteSet(jb.packets), Fits(jb, s, slot), i \in slot + 1..slot + 1 + MaxAhead
    PROVE  LET new == Take(jb, RtpPacket(s, i)) IN
           /\ new \in Buffer /\ IsFiniteSet(new.packets)
           /\ new.packets \subseteq jb.packets \cup {RtpPacket(s, i)}
           /\ jb.packets = {} => new.packets = {RtpPacket(s, i)}
           /\ Fits(new, s, slot) /\ new.next = jb.next
<1>1. PICK p : p = RtpPacket(s, i)
  OBVIOUS
<1>2. p \in Sent /\ p.seq \in Int /\ p.idx = i /\ p = RtpPacket(s, p.idx)
  BY <1>1, NumbersApart DEF RtpPacket, Sent
<1>3. PICK b : b = Unbroken(jb)
  OBVIOUS
<1>4. Like(b, jb)
  BY <1>3, ForgetsFar
<1>5. b \in Buffer /\ b.packets = jb.packets /\ Fits(b, s, slot) /\ b.next = jb.next
  BY <1>4, LikeFits DEF Like
<1>6. PICK high \in Int :
        high = IF b.highest = None \/ SeqBefore(b.highest, p.seq) THEN p.seq ELSE b.highest
  BY <1>2, <1>5 DEF Buffer
<1>7. PICK kept : kept = (IF p.seq \in Numbers(jb) THEN b.packets ELSE b.packets \cup {p})
  OBVIOUS
<1>8. PICK new : new = Take(jb, p) /\ new = [b EXCEPT !.highest = high, !.packets = kept]
  BY <1>3, <1>6, <1>7 DEF Take
<1>9. /\ kept \in SUBSET Sent /\ IsFiniteSet(kept) /\ kept \subseteq jb.packets \cup {p}
      /\ jb.packets = {} => kept = {p}
  <2>1. jb.packets \subseteq Sent
    BY DEF Buffer
  <2>2. IsFiniteSet(jb.packets \cup {p})
    BY FS_AddElement
  <2>3. jb.packets = {} => p.seq \notin Numbers(jb)
    BY DEF Numbers
  <2>4. QED BY <1>2, <1>5, <1>7, <2>1, <2>2, <2>3
<1>10. new \in Buffer
  BY <1>5, <1>8, <1>9 DEF Buffer
<1>11. new.packets = kept /\ new.next = b.next /\ new.ssrc = b.ssrc /\ new.depth = b.depth
  BY <1>5, <1>8 DEF Buffer
<1>12. Fits(new, s, slot)
  BY <1>2, <1>5, <1>9, <1>11 DEF Fits
<1>13. QED BY <1>1, <1>5, <1>8, <1>9, <1>10, <1>11, <1>12

\* The first packet, or the first after a gap too long to wait for: the stream goes
\* on with it.
LEMMA TakesFirst ==
    ASSUME NEW s \in Source, NEW i \in Nat, NEW jb \in Buffer,
           jb.ssrc = s, jb.packets = {}, jb.next = Number(s, i), jb.depth >= 1
    PROVE  LET new == Take(jb, RtpPacket(s, i)) IN
           /\ new \in Buffer /\ IsFiniteSet(new.packets)
           /\ new.packets \subseteq {RtpPacket(s, i)}
           /\ Fits(new, s, i - 1) /\ Due(new) # {}
<1>1. PICK slot \in Int : slot = i - 1
  OBVIOUS
<1>2. slot + 1 = i /\ i \in slot + 1..slot + 1 + MaxAhead
  BY <1>1, Halves
<1>3. Fits(jb, s, slot)
  BY <1>2 DEF Fits
<1>4. IsFiniteSet(jb.packets)
  BY FS_EmptySet
<1>5. PICK new : new = Take(jb, RtpPacket(s, i))
  OBVIOUS
<1>6. /\ new \in Buffer /\ IsFiniteSet(new.packets)
      /\ new.packets = {RtpPacket(s, i)}
      /\ Fits(new, s, slot) /\ new.next = jb.next
  BY <1>2, <1>3, <1>4, <1>5, Takes
<1>7. Due(new) # {}
  <2>1. RtpPacket(s, i).seq = Number(s, i)
    BY DEF RtpPacket
  <2>2. RtpPacket(s, i) \in Due(new)
    BY <1>6, <2>1 DEF Due
  <2>3. QED BY <2>2
<1>8. QED BY <1>1, <1>5, <1>6, <1>7

\* A packet of the source that is played: the buffer goes on from the slot it was at,
\* or from the packet itself when that is beyond the window.
LEMMA Enqueues ==
    ASSUME NEW s \in Source, NEW slot \in Int, NEW i \in Nat, NEW jb \in Buffer,
           IsFiniteSet(jb.packets), Fits(jb, s, slot),
           i - slot \in -(SeqMod \div 2)..SeqMod \div 2, i >= slot - Reach
    PROVE  LET new == Enqueue(jb, RtpPacket(s, i)) IN
           /\ new \in Buffer /\ IsFiniteSet(new.packets)
           /\ new.packets \subseteq jb.packets \cup {RtpPacket(s, i)}
           /\ \/ Fits(new, s, slot)
              \/ Fits(new, s, i - 1) /\ Due(new) # {} /\ i > slot + 1 + MaxAhead
<1>1. PICK p : p = RtpPacket(s, i)
  OBVIOUS
<1>2. p \in Sent /\ p.seq = Number(s, i) /\ p.seq \in Int
  BY <1>1, NumbersApart DEF RtpPacket, Sent
<1>3. jb.next = Number(s, slot + 1) /\ jb.next # None /\ jb.depth >= 1 /\ jb.ssrc = s
  BY NextNumber DEF Fits, None
<1>4. Late(jb, p) <=> i < slot + 1
  BY <1>2, <1>3, LateIsBefore
<1>5. i >= slot + 1 => (TooFar(jb, p) <=> i > slot + 1 + MaxAhead)
  <2> SUFFICES ASSUME i >= slot + 1 PROVE TooFar(jb, p) <=> i > slot + 1 + MaxAhead
    OBVIOUS
  <2>1. PICK n \in Int : n = slot + 1
    OBVIOUS
  <2>2. i - n \in 0..SeqMod \div 2
    BY <2>1, Halves
  <2>3. SeqAhead(jb.next, p.seq) = i - n
    BY <1>2, <1>3, <2>1, <2>2, AheadBy
  <2>4. QED BY <2>1, <2>3, Halves DEF TooFar
<1>6. PICK new : new = Enqueue(jb, p)
  OBVIOUS
<1>7. CASE Late(jb, p)
  <2>1. Like(new, jb)
    <3>1. new = Unbroken(Grow(jb)) \/ new = Unbroken(jb)
      BY <1>3, <1>6, <1>7 DEF Enqueue
    <3>2. PICK g : g = Grow(jb)
      OBVIOUS
    <3>3. Like(g, jb)
      BY <3>2, Grows
    <3>4. Like(Unbroken(g), g)
      BY <3>3, ForgetsFar DEF Like
    <3>5. Like(Unbroken(jb), jb)
      BY ForgetsFar
    <3>6. QED BY <3>1, <3>2, <3>3, <3>4, <3>5 DEF Like
  <2>2. Fits(new, s, slot)
    BY <2>1, LikeFits
  <2>3. QED BY <1>1, <1>6, <2>1, <2>2 DEF Like
<1>8. CASE ~Late(jb, p) /\ TooFar(jb, p)
  <2>1. new = Beyond(jb, p)
    BY <1>3, <1>6, <1>8 DEF Enqueue
  <2>2. i > slot + 1 + MaxAhead
    BY <1>4, <1>5, <1>8
  <2>3. CASE ~Stranded(jb)
    <3>1. new = Unbroken(jb)
      BY <2>1, <2>3 DEF Beyond
    <3>2. Like(new, jb)
      BY <3>1, ForgetsFar
    <3>3. Fits(new, s, slot)
      BY <3>2, LikeFits
    <3>4. QED BY <1>1, <1>6, <3>2, <3>3 DEF Like
  <2>4. CASE Stranded(jb)
    <3>1. PICK run \in Int :
            run = IF jb.far # None /\ SeqBefore(jb.far, p.seq) THEN jb.run + 1 ELSE 1
      BY DEF Buffer
    <3>2. new = IF run < ReanchorAfter THEN [jb EXCEPT !.far = p.seq, !.run = run]
                ELSE Take([jb EXCEPT !.packets = {}, !.next = p.seq], p)
      BY <2>1, <2>4, <3>1 DEF Beyond
    <3>3. CASE run < ReanchorAfter
      <4>1. Like(new, jb)
        BY <1>2, <3>2, <3>3, CountsFar
      <4>2. Fits(new, s, slot)
        BY <4>1, LikeFits
      <4>3. QED BY <1>1, <1>6, <4>1, <4>2 DEF Like
    <3>4. CASE ~(run < ReanchorAfter)
      <4>1. PICK b : b = [jb EXCEPT !.packets = {}, !.next = p.seq]
        OBVIOUS
      <4>2. b \in Buffer
        BY <1>2, <4>1 DEF Buffer
      <4>3. b.packets = {} /\ b.next = p.seq /\ b.ssrc = s /\ b.depth >= 1
        BY <1>3, <4>1 DEF Buffer
      <4>4. new = Take(b, RtpPacket(s, i))
        BY <1>1, <3>2, <3>4, <4>1
      <4>5. QED BY <1>1, <1>2, <1>6, <2>2, <4>2, <4>3, <4>4, TakesFirst
    <3>5. QED BY <3>3, <3>4
  <2>5. QED BY <2>3, <2>4
<1>9. CASE ~Late(jb, p) /\ ~TooFar(jb, p)
  <2>1. i \in slot + 1..slot + 1 + MaxAhead
    BY <1>4, <1>5, <1>9, Halves
  <2>2. PICK b : b = (IF WideReorder(jb, p) THEN Grow(jb) ELSE jb)
    OBVIOUS
  <2>3. new = Take(b, p)
    BY <1>3, <1>6, <1>9, <2>2 DEF Enqueue
  <2>4. Like(b, jb)
    <3>1. Like(jb, jb)
      BY DEF Like
    <3>2. QED BY <2>2, <3>1, Grows
  <2>5. b \in Buffer /\ b.packets = jb.packets /\ Fits(b, s, slot)
    BY <2>4, LikeFits DEF Like
  <2>6. QED BY <1>1, <1>6, <2>1, <2>3, <2>5, Takes
<1>10. QED BY <1>7, <1>8, <1>9

\* An empty buffer has nothing, and is ready.
LEMMA EmptyIs ==
    ASSUME NEW s \in Source
    PROVE  /\ Empty(s) \in Buffer /\ Empty(s).packets = {} /\ Empty(s).next = None
           /\ Empty(s).ssrc = s /\ Empty(s).depth >= 1
<1>1. PICK n \in Int : n = None
  BY DEF None
<1>2. PICK d \in Nat : d = Floor /\ d >= 1
  BY JitterAssumption
<1>3. PICK e : e = Empty(s) /\ e = [ssrc |-> s, packets |-> {}, next |-> n, highest |-> n,
     depth |-> d, clean |-> 0, candidate |-> n, heard |-> 0, far |-> n, run |-> 0]
  BY <1>1, <1>2 DEF Empty
<1>4. e \in Buffer
  BY <1>3, 0 \in Int DEF Buffer
<1>5. QED BY <1>1, <1>2, <1>3, <1>4

\* The first packet of a source.
LEMMA EnqueuesFirst ==
    ASSUME NEW s \in Source, NEW i \in Nat, NEW jb \in Buffer,
           jb.ssrc = s, jb.packets = {}, jb.next = None, jb.depth >= 1
    PROVE  LET new == Enqueue(jb, RtpPacket(s, i)) IN
           /\ new \in Buffer /\ IsFiniteSet(new.packets)
           /\ new.packets \subseteq {RtpPacket(s, i)}
           /\ Fits(new, s, i - 1) /\ Due(new) # {}
<1>1. PICK p : p = RtpPacket(s, i)
  OBVIOUS
<1>2. p = RtpPacket(s, i) /\ p.seq = Number(s, i) /\ p.seq \in Int
  BY <1>1, NumbersApart DEF RtpPacket
<1>3. PICK b : b = [jb EXCEPT !.next = p.seq]
  OBVIOUS
<1>4. b \in Buffer
  BY <1>2, <1>3 DEF Buffer
<1>5. b.packets = {} /\ b.next = p.seq /\ b.ssrc = s /\ b.depth >= 1
  BY <1>3 DEF Buffer
<1>6. Enqueue(jb, p) = Take(b, p)
  BY <1>3 DEF Enqueue
<1>7. QED BY <1>2, <1>4, <1>5, <1>6, TakesFirst

\* A packet arrives: the buffer goes on where it was, or begins anew with the packet,
\* as the first of all, beyond the window, or of another source.
LEMMA Pushes ==
    ASSUME NEW s \in Source, NEW i \in Nat, NEW jb, NEW home, NEW slot \in Int,
           \/ home = None /\ jb = Empty(None)
           \/ home \in Source /\ jb \in Buffer /\ IsFiniteSet(jb.packets) /\ Fits(jb, home, slot),
           home = s => i - slot \in -(SeqMod \div 2)..SeqMod \div 2 /\ i >= slot - Reach
    PROVE  LET new == Push(jb, RtpPacket(s, i)) IN
           /\ new \in Buffer /\ IsFiniteSet(new.packets)
           /\ \/ home \in Source /\ Fits(new, home, slot)
                 /\ new.packets \subseteq jb.packets \cup (IF home = s THEN {RtpPacket(s, i)} ELSE {})
              \/ Fits(new, s, i - 1) /\ Due(new) # {} /\ (home = s => i > slot + 1 + MaxAhead)
                 /\ new.packets \subseteq jb.packets \cup {RtpPacket(s, i)}
<1>1. PICK p : p = RtpPacket(s, i)
  OBVIOUS
<1>2. p = RtpPacket(s, i) /\ p.ssrc = s
  BY <1>1 DEF RtpPacket
<1>3. None \notin Source
  BY DEF None, Source
<1>4. PICK new : new = Push(jb, p)
  OBVIOUS
<1>5. CASE home = None
  <2>1. jb = Empty(None) /\ jb.ssrc = None
    BY <1>3, <1>5 DEF Empty
  <2>2. PICK b : b = [jb EXCEPT !.ssrc = p.ssrc, !.candidate = None, !.heard = 0]
    OBVIOUS
  <2>3. b = Empty(s)
    BY <1>2, <2>1, <2>2 DEF Empty
  <2>4. new = Enqueue(b, p)
    BY <1>4, <2>1, <2>2 DEF Push
  <2>5. QED BY <1>2, <1>3, <1>4, <1>5, <2>3, <2>4, EmptyIs, EnqueuesFirst
<1>6. CASE home = s
  <2>1. jb \in Buffer /\ IsFiniteSet(jb.packets) /\ Fits(jb, s, slot) /\ jb.ssrc = s
    BY <1>3, <1>6 DEF Fits
  <2>2. PICK b : b = [jb EXCEPT !.ssrc = p.ssrc, !.candidate = None, !.heard = 0]
    OBVIOUS
  <2>3. Like(b, jb)
    <3>1. PICK n \in Int : n = None
      BY DEF None
    <3>2. b = [jb EXCEPT !.ssrc = s, !.candidate = n, !.heard = 0]
      BY <1>2, <2>2, <3>1
    <3>3. b \in Buffer
      BY <2>1, <3>2, 0 \in Int DEF Buffer
    <3>4. b.ssrc = s /\ b.packets = jb.packets /\ b.next = jb.next /\ b.depth = jb.depth
      BY <2>1, <3>2 DEF Buffer
    <3>5. QED BY <2>1, <3>3, <3>4 DEF Like
  <2>4. b \in Buffer /\ b.packets = jb.packets /\ Fits(b, s, slot)
    BY <2>1, <2>3, LikeFits DEF Like
  <2>5. new = Enqueue(b, p)
    BY <1>2, <1>4, <2>1, <2>2 DEF Push
  <2>6. QED BY <1>2, <1>4, <1>6, <2>1, <2>4, <2>5, Enqueues
<1>7. CASE home # None /\ home # s
  <2>1. /\ home \in Source /\ jb \in Buffer /\ IsFiniteSet(jb.packets) /\ Fits(jb, home, slot)
        /\ jb.ssrc = home /\ jb.ssrc \notin {None, p.ssrc}
    BY <1>2, <1>3, <1>7 DEF Fits
  <2>2. CASE HeardInARow(jb, p) < Hysteresis
    <3>1. PICK h \in Int : h = HeardInARow(jb, p)
      BY <2>1 DEF HeardInARow, Buffer
    <3>2. new = [jb EXCEPT !.candidate = s, !.heard = h]
      BY <1>2, <1>4, <2>1, <2>2, <3>1 DEF Push
    <3>3. s \in Int
      BY DEF Source
    <3>4. new \in Buffer
      BY <2>1, <3>1, <3>2, <3>3 DEF Buffer
    <3>5. new.ssrc = jb.ssrc /\ new.packets = jb.packets /\ new.next = jb.next
          /\ new.depth = jb.depth
      BY <2>1, <3>2 DEF Buffer
    <3>6. Fits(new, home, slot)
      BY <2>1, <3>5 DEF Fits
    <3>7. QED BY <1>2, <1>4, <1>7, <2>1, <3>4, <3>5, <3>6
  <2>3. CASE ~(HeardInARow(jb, p) < Hysteresis)
    <3>1. new = Enqueue(Empty(s), p)
      BY <1>2, <1>4, <2>1, <2>3 DEF Push
    <3>2. QED BY <1>2, <1>4, <1>7, <3>1, EmptyIs, EnqueuesFirst
  <2>4. QED BY <2>2, <2>3
<1>8. QED BY <1>5, <1>6, <1>7

----
(* The steps *)

\* The property of a step.
Played ==
    \A k \in Sounding(delivered') :
        /\ \A j \in Sounding(delivered') : delivered'[k].idx - delivered'[j].idx = k - j
        /\ ghost.home = delivered'[k].ssrc =>
             LET slot == delivered'[k].idx - k + 1 IN
             slot = ghost.slot + 1 \/ slot > ghost.slot + 1 + MaxAhead

\* At the beginning nothing is held and nobody has moved.
LEMMA ReceiveInitial == ReceiveInit => ReceiveInv
<1> SUFFICES ASSUME ReceiveInit PROVE ReceiveInv
  OBVIOUS
<1>1. ReceiveTypes
  <2>1. srtp = [key |-> srtp.key, rollovers |-> srtp.rollovers, top |-> srtp.top,
                seen |-> srtp.seen]
    BY DEF ReceiveInit, Unheard
  <2>2. PICK counted, copies :
            ghost = [home |-> None, slot |-> None, silent |-> 0, left |-> {}, counted |-> counted,
                     given |-> {}, copies |-> copies]
    BY DEF ReceiveInit, NoGhosts
  <2>3. ghost = [home |-> ghost.home, slot |-> ghost.slot, silent |-> ghost.silent,
                 left |-> ghost.left, counted |-> ghost.counted, given |-> ghost.given,
                 copies |-> ghost.copies]
    BY <2>2
  <2>4. QED BY <2>1, <2>3 DEF ReceiveInit, ReceiveTypes
<1>2. LatchTrue
  BY DEF ReceiveInit, LatchTrue, Unheard, NoGhosts, Source
<1>3. JitterTrue
  BY DEF ReceiveInit, JitterTrue, NoGhosts, None
<1>4. QED BY <1>1, <1>2, <1>3 DEF ReceiveInv

\* A step that leaves the sources, the buffer and what the ghosts say of them alone.
LEMMA BufferStays ==
    ASSUME JitterTrue, UNCHANGED <<jitter, top>>, ghost'.home = ghost.home,
           ghost'.slot = ghost.slot
    PROVE  JitterTrue'
<1>1. PICK jb, t, home, slot : jb = jitter /\ t = top /\ home = ghost.home /\ slot = ghost.slot
  OBVIOUS
<1>2. jitter' = jb /\ top' = t /\ ghost'.home = home /\ ghost'.slot = slot
  BY <1>1
<1>3. QED BY <1>1, <1>2 DEF JitterTrue

\* A packet that is not taken, or one that is: what it does to the source and the
\* newest that is known of it.
LEMMA ArriveTypes ==
    ASSUME ReceiveInv, NEW s \in Source, NEW i \in 0..Last[carried][s], Arrive(s, i)
    PROVE  /\ ReceiveTypes' /\ i \in Nat /\ i >= top[s] - Reach
           /\ top' \in [Source -> Nat \cup {None}]
           /\ top'[s] = Greater(top[s], i)
           /\ \A r \in Source : top'[r] >= top[r] /\ (r # s => top'[r] = top[r])
<1>1. ReceiveTypes
  BY DEF ReceiveInv
<1>2. Last[carried][s] \in Int
  BY <1>1, MediaReceiveAssumption DEF ReceiveTypes
<1>3. i \in Nat
  BY <1>2
<1>4. top[s] \in Int /\ Reach \in Nat /\ Jump[carried] \in Nat
  BY <1>1, MediaReceiveAssumption DEF ReceiveTypes, None
<1>5. i >= top[s] - Reach
  BY <1>3, <1>4 DEF Arrive, MayArrive
<1>6. PICK n \in Nat : n = Greater(top[s], i) /\ n >= top[s] /\ n >= i
  BY <1>3, <1>4 DEF Greater
<1>7. top' = [top EXCEPT ![s] = n]
  BY <1>6 DEF Arrive
<1>8. /\ top' \in [Source -> Nat \cup {None}] /\ top'[s] = n
      /\ \A r \in Source : r # s => top'[r] = top[r]
  BY <1>1, <1>7 DEF ReceiveTypes
<1>9. \A r \in Source : top'[r] >= top[r]
  BY <1>1, <1>6, <1>8 DEF ReceiveTypes, None
<1>10. UNCHANGED <<carried, secured, reinvite>> /\ latched' \in BOOLEAN
  BY <1>1 DEF Arrive, Latch, target, ReceiveTypes
<1>11. srtp' = [key |-> srtp'.key, rollovers |-> srtp'.rollovers, top |-> srtp'.top,
                seen |-> srtp'.seen]
  <2>1. CASE Accepted(s, i)
    <3>1. Unprotect(s, i)
      BY <2>1 DEF Arrive
    <3>2. QED BY <1>1, <3>1 DEF Unprotect, ReceiveTypes
  <2>2. CASE ~Accepted(s, i)
    BY <1>1, <2>2 DEF Arrive, media, ReceiveTypes
  <2>3. QED BY <2>1, <2>2
<1>12. /\ ghost' = [home |-> ghost'.home, slot |-> ghost'.slot, silent |-> ghost'.silent,
                    left |-> ghost'.left, counted |-> ghost'.counted, given |-> ghost'.given,
                    copies |-> ghost'.copies]
  BY <1>1 DEF Arrive, ReceiveTypes
<1>13. ReceiveTypes'
  BY <1>1, <1>8, <1>10, <1>11, <1>12 DEF ReceiveTypes
<1>14. QED BY <1>3, <1>5, <1>6, <1>7, <1>8, <1>9, <1>13

\* An audio packet keeps the order of what is heard.
LEMMA ArrivePlays ==
    ASSUME ReceiveInv, NEW s \in Source, NEW i \in 0..Last[carried][s], Arrive(s, i)
    PROVE  JitterTrue' /\ Played
<1>1. /\ i \in Nat /\ i >= top[s] - Reach /\ top'[s] = Greater(top[s], i)
      /\ top' \in [Source -> Nat \cup {None}] /\ top \in [Source -> Nat \cup {None}]
      /\ \A r \in Source : top'[r] >= top[r] /\ top[r] \in Int /\ top'[r] \in Int
  BY ArriveTypes DEF ReceiveInv, ReceiveTypes, None
<1>2. JitterTrue
  BY DEF ReceiveInv
<1>3. CASE ~Accepted(s, i)
  <2>1. delivered' = <<>> /\ UNCHANGED jitter
    BY <1>3 DEF Arrive, media
  <2>2. ghost'.home = ghost.home /\ ghost'.slot = ghost.slot
    BY <1>3 DEF Arrive, ReceiveInv, ReceiveTypes
  <2>3. Played
    BY <2>1 DEF Played, Sounding
  <2>4. JitterTrue'
    <3>1. PICK jb, t, u, home, slot :
            jb = jitter /\ t = top /\ u = top' /\ home = ghost.home /\ slot = ghost.slot
      OBVIOUS
    <3>2. jitter' = jb /\ ghost'.home = home /\ ghost'.slot = slot
      BY <2>1, <2>2, <3>1
    <3>3. /\ slot \in Int
          /\ \/ home = None /\ jb = Empty(None)
             \/ /\ home \in Source /\ jb \in Buffer /\ IsFiniteSet(jb.packets)
                /\ Fits(jb, home, slot) /\ slot <= t[home]
                /\ \A p \in jb.packets : p.idx <= t[home]
      BY <1>2, <3>1 DEF JitterTrue
    <3>4. jb \in Buffer => \A p \in jb.packets : p.idx \in Int
      BY DEF Buffer, Sent
    <3>5. home \in Source => u[home] >= t[home] /\ u[home] \in Int /\ t[home] \in Int
      BY <1>1, <3>1
    <3>6. home \in Source /\ jb \in Buffer /\ slot <= t[home] /\ (\A p \in jb.packets : p.idx <= t[home])
             => slot <= u[home] /\ \A p \in jb.packets : p.idx <= u[home]
      BY <3>3, <3>4, <3>5
    <3>7. QED BY <3>1, <3>2, <3>3, <3>6 DEF JitterTrue
  <2>5. QED BY <2>3, <2>4
<1>4. CASE Accepted(s, i)
  <2>1. PICK jb, home, slot : jb = jitter /\ home = ghost.home /\ slot = ghost.slot
    OBVIOUS
  <2>2. /\ slot \in Int
        /\ \/ home = None /\ jb = Empty(None)
           \/ /\ home \in Source /\ jb \in Buffer /\ IsFiniteSet(jb.packets)
              /\ Fits(jb, home, slot) /\ slot <= top[home]
              /\ \A p \in jb.packets : p.idx <= top[home]
    BY <1>2, <2>1 DEF JitterTrue
  <2>3. PICK p, new, d : p = RtpPacket(s, i) /\ new = Push(jb, p) /\ d = Drain(new)
    OBVIOUS
  <2>4. /\ jitter' = d.jb /\ delivered' = d.out
        /\ ghost'.home = d.jb.ssrc
        /\ ghost'.slot = IF d.out = <<>> THEN slot ELSE d.out[Len(d.out)].idx
    <3>1. jitter' = d.jb /\ delivered' = d.out
      BY <1>4, <2>1, <2>3 DEF Arrive
    <3>2. PICK home2, slot2, counted, silent :
            /\ ghost' = [ghost EXCEPT !.home = home2, !.slot = slot2, !.counted = counted,
                                      !.silent = silent]
            /\ home2 = d.jb.ssrc
            /\ slot2 = IF d.out = <<>> THEN ghost.slot ELSE d.out[Len(d.out)].idx
      <4>1. ghost' = [ghost EXCEPT
                  !.home = d.jb.ssrc,
                  !.slot = IF delivered' = <<>> THEN @ ELSE delivered'[Len(delivered')].idx,
                  !.counted[s] = Count(@, stats[s], Counted(stats[s], Number(s, i)), i),
                  !.silent = IF delivered' = <<>> /\ Newer(s, i) THEN @ + 1 ELSE 0]
        BY <1>4, <2>1, <2>3, Zenon DEF Arrive
      <4>2. QED BY <3>1, <4>1
    <3>3. ghost = [home |-> ghost.home, slot |-> ghost.slot, silent |-> ghost.silent,
                   left |-> ghost.left, counted |-> ghost.counted, given |-> ghost.given,
                   copies |-> ghost.copies]
      BY DEF ReceiveInv, ReceiveTypes
    <3>4. QED BY <2>1, <3>1, <3>2, <3>3
  <2>5. home = s => i - slot \in -(SeqMod \div 2)..SeqMod \div 2 /\ i >= slot - Reach
    <3> SUFFICES ASSUME home = s PROVE i - slot \in -(SeqMod \div 2)..SeqMod \div 2 /\ i >= slot - Reach
      OBVIOUS
    <3>1. i - slot \in -(SeqMod \div 2)..SeqMod \div 2
      BY <2>1 DEF Arrive, MayArrive, Within
    <3>2. home # None
      BY DEF Source, None
    <3>3. slot <= top[s]
      BY <2>2, <3>2
    <3>4. QED BY <1>1, <2>2, <3>1, <3>3, Halves
  <2>6. /\ new \in Buffer /\ IsFiniteSet(new.packets)
        /\ \/ home \in Source /\ Fits(new, home, slot)
              /\ new.packets \subseteq jb.packets \cup (IF home = s THEN {p} ELSE {})
           \/ Fits(new, s, i - 1) /\ Due(new) # {} /\ (home = s => i > slot + 1 + MaxAhead)
              /\ new.packets \subseteq jb.packets \cup {p}
    <3>1. /\ \/ home = None /\ jb = Empty(None)
             \/ home \in Source /\ jb \in Buffer /\ IsFiniteSet(jb.packets) /\ Fits(jb, home, slot)
      BY <2>2
    <3>2. QED BY <1>1, <2>2, <2>3, <2>5, <3>1, Pushes
  <2>7. PICK source \in Source, from \in Int :
           /\ Fits(new, source, from)
           /\ home = source => from = slot \/ from > slot + MaxAhead
           /\ (from = slot /\ home = source) \/ Due(new) # {}
           /\ new.packets \subseteq jb.packets \cup (IF source = s THEN {p} ELSE {})
    <3>1. CASE home \in Source /\ Fits(new, home, slot)
                 /\ new.packets \subseteq jb.packets \cup (IF home = s THEN {p} ELSE {})
      BY <2>2, <3>1
    <3>2. CASE Fits(new, s, i - 1) /\ Due(new) # {} /\ (home = s => i > slot + 1 + MaxAhead)
                 /\ new.packets \subseteq jb.packets \cup {p}
      <4>1. PICK from \in Int : from = i - 1
        BY <1>1
      <4>2. home = s => from > slot + MaxAhead
        BY <1>1, <2>2, <3>2, <4>1, Halves
      <4>3. Fits(new, s, from)
        BY <3>2, <4>1
      <4>4. QED BY <3>2, <4>2, <4>3
    <3>3. QED BY <2>6, <3>1, <3>2
  <2>8. \A q \in new.packets : q.idx \in Nat /\ q.ssrc = source /\ q.idx <= top'[source]
    <3> TAKE q \in new.packets
    <3>1. q = RtpPacket(source, q.idx)
      BY <2>7 DEF Fits
    <3>2. q.ssrc = source
      BY <3>1 DEF RtpPacket
    <3>3. q.idx \in Nat
      BY <2>6 DEF Buffer, Sent
    <3>4. CASE q \in jb.packets
      <4>1. home # None
        BY <2>2, <3>4 DEF Empty, None, Source
      <4>2. q = RtpPacket(home, q.idx) /\ q.idx <= top[home] /\ home \in Source
        BY <2>2, <3>4, <4>1 DEF Fits
      <4>3. home = source
        BY <3>2, <4>2 DEF RtpPacket
      <4>4. QED BY <1>1, <3>2, <3>3, <4>2, <4>3
    <3>5. CASE q = p /\ source = s
      <4>1. q.idx = i
        BY <2>3, <3>5 DEF RtpPacket
      <4>2. top'[s] >= i
        BY <1>1 DEF Greater
      <4>3. QED BY <3>2, <3>3, <3>5, <4>1, <4>2
    <3>6. QED BY <2>7, <3>4, <3>5
  <2>9. Going(d, new, source, from) /\ ~LastLost(d) /\ (Due(new) # {} => d.out # <<>>)
    BY <2>3, <2>6, <2>7, DrainGives
  <2>10. /\ d.jb \in Buffer /\ d.out \in Seq(Frame) /\ d.jb.packets \subseteq new.packets
         /\ Fits(d.jb, source, from + Len(d.out)) /\ Len(d.out) \in Nat
         /\ \A k \in 1..Len(d.out) :
              Lost(d.out[k]) \/ (d.out[k] \in new.packets /\ d.out[k].idx = from + k)
    BY <2>9 DEF Going
  <2>11. Played
    <3>1. \A k \in Sounding(d.out) :
             k \in Int /\ d.out[k] \in new.packets /\ d.out[k].idx = from + k
      BY <2>10 DEF Sounding
    <3>2. ASSUME NEW k \in Sounding(d.out), NEW j \in Sounding(d.out)
          PROVE  d.out[k].idx - d.out[j].idx = k - j
      BY <3>1
    <3>3. ASSUME NEW k \in Sounding(d.out), home = d.out[k].ssrc, NEW n, n = d.out[k].idx - k + 1
          PROVE  n = slot + 1 \/ n > slot + 1 + MaxAhead
      <4>1. home = source
        BY <2>8, <3>1, <3>3
      <4>2. n = from + 1
        BY <3>1, <3>3
      <4>3. QED BY <2>2, <2>7, <4>1, <4>2, Halves
    <3>4. QED BY <2>1, <2>4, <3>2, <3>3 DEF Played
  <2>12. JitterTrue'
    <3>1. PICK b, u, n : b = d.jb /\ u = top' /\ n = from + Len(d.out)
      OBVIOUS
    <3>2. b \in Buffer /\ IsFiniteSet(b.packets) /\ Fits(b, source, n) /\ b.ssrc = source
      BY <2>6, <2>10, <3>1, FS_Subset DEF Fits
    <3>3. \A q \in b.packets : q.idx <= u[source]
      BY <2>8, <2>10, <3>1
    <3>4. ghost'.slot = n /\ n \in Int /\ n <= u[source]
      <4>1. CASE d.out = <<>>
        <5>1. Len(d.out) = 0 /\ from = slot /\ home = source
          BY <2>7, <2>9, <4>1
        <5>2. home # None
          BY <5>1 DEF Source, None
        <5>3. QED BY <1>1, <2>2, <2>4, <3>1, <4>1, <5>1, <5>2
      <4>2. CASE d.out # <<>>
        <5>1. Len(d.out) \in 1..Len(d.out) /\ ~Lost(d.out[Len(d.out)])
          BY <2>9, <2>10, <4>2 DEF LastLost
        <5>2. d.out[Len(d.out)] \in new.packets /\ d.out[Len(d.out)].idx = n
          BY <2>10, <3>1, <5>1
        <5>3. QED BY <2>4, <2>8, <2>10, <3>1, <4>2, <5>2
      <4>3. QED BY <4>1, <4>2
    <3>5. jitter' = b /\ ghost'.home = source
      BY <2>4, <3>1, <3>2
    <3>6. QED BY <3>1, <3>2, <3>3, <3>4, <3>5 DEF JitterTrue
  <2>13. QED BY <2>11, <2>12
<1>5. QED BY <1>3, <1>4

\* Nor does it bring back the address that the peer has left: what comes from there is
\* refused, as the endpoint that was left or by its key.
LEMMA ArriveAims ==
    ASSUME ReceiveInv, NEW s \in Source, NEW i \in 0..Last[carried][s], Arrive(s, i)
    PROVE  LatchTrue'
<1>1. /\ i \in Nat /\ top' = [top EXCEPT ![s] = Greater(top[s], i)]
      /\ top \in [Source -> Nat \cup {None}] /\ secured \in BOOLEAN /\ latched \in BOOLEAN
      /\ LatchTrue /\ UNCHANGED <<secured, reinvite>>
  BY ArriveTypes DEF Arrive, ReceiveInv, ReceiveTypes
<1>2. ghost'.left = ghost.left
  BY DEF Arrive, ReceiveInv, ReceiveTypes
<1>3. srtp'.key = srtp.key
  <2>1. CASE Accepted(s, i)
    BY <2>1 DEF Arrive, Unprotect, ReceiveInv, ReceiveTypes
  <2>2. CASE ~Accepted(s, i)
    BY <2>2 DEF Arrive, media
  <2>3. QED BY <2>1, <2>2
<1>4. Greater(top[s], i) \in Nat /\ top[s] \in Int /\ None = -1
  BY <1>1 DEF Greater, None
<1>5. top'[s] # None /\ \A r \in Source : r # s => top'[r] = top[r]
  BY <1>1, <1>4
<1>6. top[1] # None => top'[1] # None
  BY <1>5 DEF Source
<1>7. top[2] # None => top'[2] # None
  BY <1>5 DEF Source
<1>8. s = 1 /\ top[1] = None => top[2] = None
  <2> SUFFICES ASSUME s = 1, top[1] = None PROVE top[2] = None
    OBVIOUS
  <2>1. Newer(s, i)
    BY <1>1, <1>4 DEF Newer
  <2>2. QED BY <2>1 DEF Arrive, MayArrive
<1>9. Mute => Mute' \/ (s = 1 /\ ~secured)
  BY <1>1, <1>3, <1>5, <1>7 DEF Mute, Source
<1>10. s = 1 /\ ~secured => ~Mute
  BY <1>8 DEF Mute
<1>11. Mute => Mute'
  BY <1>9, <1>10
<1>12. Accepted(s, i) => s = 1 \/ Mute' \/ (~secured /\ top[1] # None)
  <2> SUFFICES ASSUME Accepted(s, i), s = 2, ~(~secured /\ top[1] # None) PROVE Mute'
    BY DEF Source
  <2>1. CASE secured
    BY <2>1, <1>1, <1>3 DEF Accepted, Authentic, Mute
  <2>2. CASE ~secured
    <3>1. top[1] = None /\ top'[1] = None /\ top'[2] # None
      BY <2>2, <1>5 DEF Source
    <3>2. QED BY <2>2, <3>1, <1>1 DEF Mute
  <2>3. QED BY <1>1, <2>1, <2>2
<1>13. Accepted(s, i) => Latch(s)
  BY DEF Arrive
<1>14. ~Accepted(s, i) => secured /\ UNCHANGED target
  BY <1>1 DEF Arrive, Accepted
<1>15. reinvite # "moved" =>
         /\ ghost'.left = {} /\ left' = Nowhere
         /\ latched' => aim' = Real(1) \/ (aim' = Real(2) /\ Mute')
         /\ ~latched' => aim' = Sdp(1)
         /\ ~latched' /\ ~secured => top'[1] = None /\ top'[2] = None
  <2> SUFFICES ASSUME reinvite # "moved"
        PROVE /\ ghost'.left = {} /\ left' = Nowhere
              /\ latched' => aim' = Real(1) \/ (aim' = Real(2) /\ Mute')
              /\ ~latched' => aim' = Sdp(1)
              /\ ~latched' /\ ~secured => top'[1] = None /\ top'[2] = None
    OBVIOUS
  <2>1. /\ ghost.left = {} /\ left = Nowhere
        /\ latched => aim = Real(1) \/ (aim = Real(2) /\ Mute)
        /\ ~latched => aim = Sdp(1)
        /\ ~latched /\ ~secured => top[1] = None /\ top[2] = None
    BY <1>1 DEF LatchTrue
  <2>2. CASE ~Accepted(s, i)
    <3>1. secured /\ aim' = aim /\ latched' = latched /\ left' = left
      BY <1>14, <2>2 DEF target
    <3>2. QED BY <1>2, <1>11, <2>1, <3>1
  <2>3. CASE Accepted(s, i) /\ latched
    <3>1. aim' = aim /\ latched' = latched /\ left' = left
      BY <1>13, <2>3 DEF Latch, MayLatch, target
    <3>2. QED BY <1>2, <1>11, <2>1, <2>3, <3>1
  <2>4. CASE Accepted(s, i) /\ ~latched
    <3>1. MayLatch(s)
      BY <2>1, <2>4 DEF MayLatch, Real, Nowhere
    <3>2. aim' = Real(s) /\ latched' = TRUE /\ left' = Nowhere
      BY <1>13, <2>4, <3>1 DEF Latch
    <3>3. s = 1 \/ Mute'
      BY <1>1, <1>12, <2>1, <2>4
    <3>4. QED BY <1>2, <2>1, <3>2, <3>3 DEF Source
  <2>5. QED BY <1>1, <2>2, <2>3, <2>4
<1>16. reinvite = "moved" /\ ghost.left # {} =>
         /\ ghost'.left = {Sdp(1), Real(1)} /\ aim' \in {Sdp(2), Real(2)}
         /\ latched' \/ left' = Real(1) \/ Mute'
  <2> SUFFICES ASSUME reinvite = "moved", ghost.left # {}
        PROVE /\ ghost'.left = {Sdp(1), Real(1)} /\ aim' \in {Sdp(2), Real(2)}
              /\ latched' \/ left' = Real(1) \/ Mute'
    OBVIOUS
  <2>1. /\ ghost.left = {Sdp(1), Real(1)} /\ aim \in {Sdp(2), Real(2)}
        /\ latched \/ left = Real(1) \/ Mute
        /\ srtp.key = (IF secured THEN 2 ELSE 1)
    BY <1>1 DEF LatchTrue
  <2>2. CASE aim' = aim /\ latched' = latched /\ left' = left
    BY <1>2, <1>11, <2>1, <2>2
  <2>3. CASE Accepted(s, i) /\ MayLatch(s)
    <3>1. aim' = Real(s) /\ latched' = TRUE
      BY <1>13, <2>3 DEF Latch
    <3>2. ASSUME s = 1 PROVE FALSE
      <4>1. Mute
        BY <2>1, <2>3, <3>2 DEF MayLatch
      <4>2. secured
        BY <1>10, <3>2, <4>1
      <4>3. srtp.key = 1
        BY <2>3, <3>2, <4>2 DEF Accepted, Authentic
      <4>4. QED BY <2>1, <4>2, <4>3
    <3>3. s = 2
      BY <3>2 DEF Source
    <3>4. QED BY <1>2, <2>1, <3>1, <3>3
  <2>4. QED BY <1>13, <1>14, <2>2, <2>3 DEF Latch, target
<1>17. QED BY <1>1, <1>2, <1>3, <1>15, <1>16 DEF LatchTrue

\* The move and the new key; the other steps leave the aim alone.
LEMMA AimStays ==
    ASSUME LatchTrue, UNCHANGED <<secured, top, srtp, reinvite, target>>,
           ghost'.left = ghost.left
    PROVE  LatchTrue'
<1>1. PICK g, t, k : g = ghost.left /\ t = top /\ k = srtp
  OBVIOUS
<1>2. ghost'.left = g /\ top' = t /\ srtp' = k
  BY <1>1
<1>3. QED BY <1>1, <1>2 DEF LatchTrue, Mute, target

\* A new key: what the old source still sends is refused from here on.
LEMMA RekeyKeeps == ASSUME ReceiveInv, RekeySrtp PROVE ReceiveInv' /\ Played
<1>1. /\ UNCHANGED <<secured, top, target, ghost, jitter>> /\ delivered' = <<>>
      /\ reinvite = "none" /\ reinvite' = "answered"
      /\ srtp' = IF secured THEN Unheard(2) ELSE srtp
      /\ UNCHANGED <<carried, latched, aim, left>>
  BY DEF RekeySrtp, target
<1>2. ReceiveTypes'
  BY <1>1 DEF ReceiveInv, ReceiveTypes, Unheard
<1>3. LatchTrue'
  <2>1. srtp'.key = IF secured' THEN 2 ELSE 1
    BY <1>1 DEF ReceiveInv, LatchTrue, Unheard
  <2>2. Mute => Mute'
    BY <1>1, <2>1 DEF Mute
  <2>3. /\ ghost.left = {} /\ left = Nowhere
        /\ latched => aim = Real(1) \/ (aim = Real(2) /\ Mute)
        /\ ~latched => aim = Sdp(1)
        /\ ~latched /\ ~secured => top[1] = None /\ top[2] = None
    BY <1>1 DEF ReceiveInv, LatchTrue
  <2>4. QED BY <1>1, <2>1, <2>2, <2>3 DEF LatchTrue
<1>4. JitterTrue'
  BY <1>1, BufferStays DEF ReceiveInv
<1>5. QED BY <1>1, <1>2, <1>3, <1>4 DEF ReceiveInv, Played, Sounding

\* The move: the endpoint that is left is remembered.
LEMMA SetRemoteKeeps == ASSUME ReceiveInv, SetRemote PROVE ReceiveInv' /\ Played
<1>1. /\ UNCHANGED <<carried, secured, top, srtp, jitter>> /\ delivered' = <<>>
      /\ reinvite = "answered" /\ reinvite' = "moved"
      /\ left' = aim /\ aim' = Sdp(2) /\ latched' = FALSE
      /\ ghost' = [ghost EXCEPT !.left = IF latched THEN {Sdp(1), Real(1)} ELSE {}]
  BY DEF SetRemote, media
<1>2. /\ ghost'.left = (IF latched THEN {Sdp(1), Real(1)} ELSE {})
      /\ ghost'.home = ghost.home /\ ghost'.slot = ghost.slot
  BY <1>1 DEF ReceiveInv, ReceiveTypes
<1>3. ReceiveTypes'
  BY <1>1 DEF ReceiveInv, ReceiveTypes
<1>4. LatchTrue'
  <2>1. /\ srtp.key = (IF secured THEN 2 ELSE 1)
        /\ latched => aim = Real(1) \/ (aim = Real(2) /\ Mute)
    BY <1>1 DEF ReceiveInv, LatchTrue
  <2>2. Mute => Mute'
    BY <1>1 DEF Mute
  <2>3. srtp'.key = (IF secured' /\ reinvite' # "none" THEN 2 ELSE 1)
    BY <1>1, <2>1
  <2>4. latched => left' = Real(1) \/ Mute'
    BY <1>1, <2>1, <2>2
  <2>5. QED BY <1>1, <1>2, <2>3, <2>4 DEF LatchTrue
<1>5. JitterTrue'
  BY <1>1, <1>2, BufferStays DEF ReceiveInv
<1>6. QED BY <1>1, <1>3, <1>4, <1>5 DEF ReceiveInv, Played, Sounding

\* A telephone event is not audio, and RTCP and the end touch neither buffer nor aim.
LEMMA OtherKeeps ==
    ASSUME ReceiveInv, UNCHANGED <<carried, secured, top, srtp, jitter, reinvite, target>>,
           \/ UNCHANGED ghost
           \/ \E g, c : ghost' = [ghost EXCEPT !.copies = c, !.given = g]
    PROVE  ReceiveInv'
<1>1. ghost'.home = ghost.home /\ ghost'.slot = ghost.slot /\ ghost'.left = ghost.left
  BY DEF ReceiveInv, ReceiveTypes
<1>2. ReceiveTypes'
  BY DEF ReceiveInv, ReceiveTypes, target
<1>3. QED BY <1>1, <1>2, BufferStays, AimStays DEF ReceiveInv

\* Every step keeps it all, and what it gives to the call is in order.
LEMMA ReceiveStep ==
    ASSUME ReceiveInv, [ReceiveNext]_receiveVars
    PROVE  ReceiveInv' /\ (UNCHANGED receiveVars \/ carried = "events" \/ Played)
<1>1. ASSUME NEW s \in Source, NEW i \in 0..Last[carried][s], Arrive(s, i)
      PROVE  ReceiveInv' /\ Played
  BY <1>1, ArriveTypes, ArrivePlays, ArriveAims DEF ReceiveInv
<1>2. ASSUME NEW s \in Source, NEW p \in DOMAIN Event[s], Press(s, p)
      PROVE  ReceiveInv' /\ carried = "events"
  <2>1. carried = "events" /\ UNCHANGED <<carried, secured, top, srtp, jitter, reinvite, target>>
    BY <1>2 DEF Press, media
  <2>2. \E g, c : ghost' = [ghost EXCEPT !.copies = c, !.given = g]
    <3>1. ghost' = [ghost EXCEPT
                !.copies = [ghost.copies EXCEPT ![s][p] = Lesser(@ + 1, 2)],
                !.given = IF delivered' = <<>> THEN ghost.given
                          ELSE ghost.given \cup {delivered'[1]}]
      BY <1>2 DEF Press
    <3>2. QED BY <3>1
  <2>3. QED BY <2>1, <2>2, OtherKeeps
<1>3. CASE RekeySrtp
  BY <1>3, RekeyKeeps
<1>4. CASE SetRemote
  BY <1>4, SetRemoteKeeps
<1>5. CASE (\E kind \in {"muxed", "own", "dormant"} : StartRtcp(kind)) \/ StopMedia
           \/ SenderLeaves \/ StopEnds \/ LoseMedia
  <2>1. /\ UNCHANGED <<carried, secured, top, srtp, jitter, reinvite, target, ghost>>
        /\ delivered' = <<>>
    BY <1>5 DEF StartRtcp, StopMedia, SenderLeaves, StopEnds, LoseMedia, media
  <2>2. QED BY <2>1, OtherKeeps DEF Played, Sounding
<1>6. CASE UNCHANGED receiveVars
  <2>1. UNCHANGED <<carried, secured, top, srtp, jitter, reinvite, target, ghost>>
    BY <1>6 DEF receiveVars, media
  <2>2. QED BY <1>6, <2>1, OtherKeeps
<1>7. QED BY <1>1, <1>2, <1>3, <1>4, <1>5, <1>6 DEF ReceiveNext

----
----
(* The stream is followed *)

\* The newest packet that SRTP has taken is the ith of its source, and it has taken none
\* beyond.
Reached(s, i) ==
    /\ srtp.top = Number(s, i) /\ srtp.rollovers = Rollovers(s, i)
    /\ \A x \in srtp.seen : x \in Int /\ x <= First[s] + i

\* SRTP follows the source of its key: the first one from its first packet.
SrtpTrue ==
    secured =>
        /\ srtp.top = None => srtp.seen = {} /\ (srtp.key = 1 => top[1] = None)
        /\ srtp.top # None =>
             \E i \in 0..top[srtp.key] :
                /\ Reached(srtp.key, i) /\ i >= top[srtp.key] - Reach
                /\ srtp.key = 1 => i = top[1]

\* What the statistics say when these packets have been counted.
Statistics == [base : Int, max : Int, cycles : Int, received : Nat, bad : Int]

Tally(s, st, c) ==
    /\ st \in Statistics /\ c \in [first : Nat, low : Nat, high : Nat]
    /\ c.low <= c.first /\ c.first <= c.high
    /\ st.base = Number(s, c.first) /\ st.max = Number(s, c.high)
    /\ st.cycles = SeqMod * (Rollovers(s, c.high) - Rollovers(s, c.first))
    /\ st.received >= 1

\* Of the packets from the lowest that was counted to the highest, those that SRTP will
\* not take again.
Spent(s, c) ==
    {i \in c.low..c.high : First[s] + i \in srtp.seen \/ First[s] + i <= Newest - Window}

\* Packets of this source may pass.
Open(s) == secured => srtp.key = s

\* The statistics are those of the packets counted, each of them once where SRTP takes
\* each once; and the highest is not far behind the newest that has arrived.
StatsOf(s, st, c) ==
    /\ st = NoStats \/ Tally(s, st, c)
    /\ secured /\ srtp.top = None /\ srtp.key = s => st = NoStats
    /\ secured /\ srtp.key = 1 /\ s = 2 => st = NoStats
    /\ st # NoStats =>
         /\ c.high <= Last[carried][s]
         /\ Open(s) /\ Reach + Jump[carried] < Dropout => c.high \in top[s] - Reach..top[s]
         /\ secured => st.received <= c.high - c.low + 1
         /\ secured /\ srtp.key = s => st.received <= Cardinality(Spent(s, c))

StatsTrue ==
    /\ stats = [s \in Source |-> stats[s]] /\ ghost.counted = [s \in Source |-> ghost.counted[s]]
    /\ \A s \in Source : StatsOf(s, stats[s], ghost.counted[s])

\* A buffer with nothing to give: it waits for a packet, and counts those that are too
\* far, or of another source, up to its thresholds.
Waits(jb, s, slot, newest) ==
    /\ jb.depth <= Ceiling /\ Due(jb) = {} /\ Cardinality(jb.packets) < jb.depth
    /\ jb.run \in 0..ReanchorAfter - 1 /\ (jb.far = None => jb.run = 0)
    /\ jb.far # None => \E i \in slot + 2 + MaxAhead..newest : jb.far = Number(s, i)
    /\ jb.heard \in 0..Hysteresis - 1 /\ jb.candidate # s

\* How long it has waited.
Waited(jb) ==
    Cardinality(jb.packets) + jb.run + (IF jb.candidate = 2 THEN jb.heard ELSE 0)

WaitTrue ==
    /\ ghost.silent \in Nat /\ ghost.silent <= Waited(jitter)
    /\ ghost.home # None => Waits(jitter, ghost.home, ghost.slot, top[ghost.home])
    /\ ghost.home = 2 \/ jitter.candidate = 2 => top[2] # None

FollowInv == ReceiveInv /\ SrtpTrue /\ StatsTrue /\ WaitTrue

----
(* Turns of the numbers *)

\* The quotient is the only one there is.
LEMMA Quotient ==
    ASSUME NEW a \in Int, NEW m \in Nat \ {0}, NEW q \in Int, NEW r \in 0..m - 1,
           a = m * q + r
    PROVE  a \div m = q
<1>1. PICK p \in Int, s \in 0..m - 1 : a = m * p + s /\ a \div m = p
  BY Division
<1>2. m * (q - p) = s - r
  BY <1>1
<1>3. m * (p - q) = r - s
  BY <1>1
<1>4. ~(q - p >= 1)
  BY <1>2, <1>1, Product
<1>5. ~(p - q >= 1)
  BY <1>3, <1>1, Product
<1>6. QED BY <1>1, <1>4, <1>5

\* A number and its turn tell the packet.
LEMMA NumberAndTurn ==
    ASSUME NEW s \in Source, NEW i \in Int
    PROVE  /\ Rollovers(s, i) \in Int /\ Number(s, i) \in 0..SeqMod - 1 /\ First[s] \in 0..SeqMod - 1
           /\ First[s] + i = SeqMod * Rollovers(s, i) + Number(s, i)
<1>1. First[s] \in 0..SeqMod - 1
  BY MediaReceiveAssumption
<1>2. PICK a \in Int : a = First[s] + i
  BY <1>1, Halves
<1>3. a \div SeqMod \in Int /\ a % SeqMod \in 0..SeqMod - 1 /\ a = SeqMod * (a \div SeqMod) + (a % SeqMod)
  BY Division, Halves
<1>4. QED BY <1>1, <1>2, <1>3 DEF Rollovers, Number

\* Within one turn the numbers go on, and wrap once at most.
LEMMA Onward ==
    ASSUME NEW s \in Source, NEW i \in Int, NEW g \in 0..SeqMod - 1
    PROVE  IF Number(s, i) + g < SeqMod
           THEN Number(s, i + g) = Number(s, i) + g /\ Rollovers(s, i + g) = Rollovers(s, i)
           ELSE Number(s, i + g) = Number(s, i) + g - SeqMod
                /\ Rollovers(s, i + g) = Rollovers(s, i) + 1
<1>1. PICK q \in Int, r \in 0..SeqMod - 1, f \in Int :
        /\ q = Rollovers(s, i) /\ r = Number(s, i) /\ f = First[s]
        /\ f + i = SeqMod * q + r
  <2>1. First[s] \in Int
    BY NumberAndTurn, Halves
  <2>2. QED BY <2>1, NumberAndTurn, Zenon
<1>2. PICK a \in Int : a = f + (i + g)
  BY Halves
<1>3. Number(s, i + g) = a % SeqMod /\ Rollovers(s, i + g) = a \div SeqMod
  BY <1>1, <1>2 DEF Number, Rollovers
<1>4. a = SeqMod * q + (r + g)
  <2>1. PICK x \in Int : x = SeqMod * q
    BY Halves
  <2>2. f + i = x + r /\ r \in Int /\ g \in Int
    BY <1>1, <2>1, Halves
  <2>3. QED BY <1>2, <2>1, <2>2
<1>5. CASE r + g < SeqMod
  <2>1. PICK t \in 0..SeqMod - 1 : t = r + g
    BY <1>5, <1>1, Halves
  <2>2. a = SeqMod * q + t
    BY <1>4, <2>1
  <2>3. a % SeqMod = t /\ a \div SeqMod = q
    BY <2>2, Remainder, Quotient, Halves
  <2>4. QED BY <1>1, <1>3, <1>5, <2>1, <2>3
<1>6. CASE ~(r + g < SeqMod)
  <2>1. PICK t \in 0..SeqMod - 1 : t = r + g - SeqMod
    BY <1>6, <1>1, Halves
  <2>2. PICK o \in Int : o = q + 1
    OBVIOUS
  <2>3. a = SeqMod * o + t
    BY <1>1, <1>4, <2>1, <2>2, Halves
  <2>4. a % SeqMod = t /\ a \div SeqMod = o
    BY <2>3, Remainder, Quotient, Halves
  <2>5. QED BY <1>1, <1>3, <1>6, <2>1, <2>2, <2>4
<1>7. QED BY <1>5, <1>6

----
(* SRTP *)

\* The index of a packet, as SRTP counts.
LEMMA IndexIs ==
    ASSUME NEW s \in Source, NEW i \in Nat
    PROVE  Rollovers(s, i) * SeqMod + Number(s, i) = First[s] + i
<1>1. i \in Int
  OBVIOUS
<1>2. Number(s, i) \in Int
  BY <1>1, NumberAndTurn, Halves
<1>3. PICK q \in Int, r \in Int :
        q = Rollovers(s, i) /\ r = Number(s, i) /\ First[s] + i = SeqMod * q + r
  BY <1>1, <1>2, NumberAndTurn, Zenon
<1>4. q * SeqMod = SeqMod * q
  BY Halves
<1>5. QED BY <1>3, <1>4

\* The newest packet is the one that was reached.
LEMMA NewestIs ==
    ASSUME NEW s \in Source, NEW i \in Nat, Reached(s, i) PROVE Newest = First[s] + i
  BY IndexIs DEF Newest, Reached

\* The rollovers of a packet that is less than half the numbers ahead are guessed right;
\* so are those of any packet while nothing has wrapped and all is within half.
LEMMA EstimateIs ==
    ASSUME NEW s \in Source, NEW t \in Nat, NEW i \in Nat, Reached(s, t),
           \/ i - t \in 0..SeqMod \div 2 - 1
           \/ /\ First[s] + i < SeqMod /\ First[s] + t < SeqMod
              /\ i - t \in -(SeqMod \div 2)..SeqMod \div 2
    PROVE  Estimate(Number(s, i)) = Rollovers(s, i)
<1>1. PICK h \in Nat : h = SeqMod \div 2 /\ 2 * h <= SeqMod /\ h > 0
  BY Halves
<1>2. PICK q \in Int, r \in 0..SeqMod - 1 : q = Rollovers(s, t) /\ r = Number(s, t)
  BY NumberAndTurn
<1>3. srtp.top = r /\ srtp.rollovers = q /\ r # None /\ SeqMod \in Nat
  BY <1>2, Halves DEF Reached, None
<1>4. CASE i - t \in 0..h - 1
  <2>1. PICK g \in 0..SeqMod - 1 : g = i - t /\ g < h /\ i = t + g
    BY <1>1, <1>3, <1>4
  <2>2. IF r + g < SeqMod
        THEN Number(s, i) = r + g /\ Rollovers(s, i) = q
        ELSE Number(s, i) = r + g - SeqMod /\ Rollovers(s, i) = q + 1
    BY <1>2, <2>1, Onward
  <2>3. QED BY <1>1, <1>2, <1>3, <2>1, <2>2 DEF Estimate
<1>5. CASE /\ First[s] + i < SeqMod /\ First[s] + t < SeqMod
           /\ i - t \in -h..h
  <2>1. First[s] \in Nat
    BY NumberAndTurn
  <2>2. ASSUME NEW x \in Nat, First[s] + x < SeqMod
        PROVE  Number(s, x) = First[s] + x /\ Rollovers(s, x) = 0
    <3>1. PICK a \in 0..SeqMod - 1 : a = First[s] + x
      BY <1>3, <2>1, <2>2
    <3>2. a = SeqMod * 0 + a
      BY <1>3, <3>1
    <3>3. a % SeqMod = a /\ a \div SeqMod = 0
      BY <3>2, Remainder, Quotient, Halves
    <3>4. QED BY <3>1, <3>3 DEF Number, Rollovers
  <2>3. Number(s, i) = First[s] + i /\ Rollovers(s, i) = 0 /\ r = First[s] + t /\ q = 0
    BY <1>2, <1>5, <2>2
  <2>4. QED BY <1>1, <1>2, <1>3, <1>5, <2>1, <2>3 DEF Estimate
<1>6. QED BY <1>1, <1>4, <1>5
\* While its key is installed, a source's newest packet is always taken.
LEMMA FreshAccepted ==
    ASSUME Followable, KeyedInTime, ReceiveInv, SrtpTrue, NEW s \in Source,
           NEW i \in 0..Last[carried][s], MayArrive(s, i), Newer(s, i), Open(s)
    PROVE  Accepted(s, i)
<1> SUFFICES ASSUME secured PROVE Authentic(s, i) /\ IsNew(s, i)
  BY DEF Accepted
<1>1. /\ carried \in Carried /\ top \in [Source -> Nat \cup {None}] /\ srtp.key = s
      /\ Last[carried][s] \in Int /\ Jump[carried] \in Nat
  BY MediaReceiveAssumption DEF ReceiveInv, ReceiveTypes, Open
<1>2. i \in Nat /\ top[s] \in Int /\ i > top[s] /\ i <= top[s] + Jump[carried] /\ Reach \in Nat
  BY <1>1, Halves DEF MayArrive, Newer, None
<1>3. Jump[carried] < SeqMod \div 2 /\ SeqMod \div 2 \in Nat
  BY <1>1, Halves DEF Followable
<1>4. \/ Reach + Jump[carried] < SeqMod \div 2
      \/ First[2] + Last[carried][2] < SeqMod /\ Last[carried][2] <= SeqMod \div 2
  BY <1>1 DEF Followable
<1>5. First[s] \in Nat
  BY MediaReceiveAssumption, Halves
<1>6. CASE srtp.top = None
  <2>1. Estimate(Number(s, i)) = 0
    BY <1>6, Halves, SMT DEF Estimate, None
  <2>2. Rollovers(s, i) = 0
    <3>1. CASE s = 1
      <4>1. top[s] = None
        BY <1>1, <1>6, <3>1 DEF SrtpTrue
      <4>2. QED BY <4>1 DEF MayArrive, Within
    <3>2. CASE s = 2
      <4>1. CASE top[s] = None
        BY <4>1 DEF MayArrive, Within
      <4>2. CASE top[s] # None
        <5>1. First[s] + top[s] + Jump[carried] < SeqMod
          BY <1>1, <1>6, <3>2, <4>2 DEF KeyedInTime
        <5>2. PICK a \in 0..SeqMod - 1 : a = First[s] + i
          BY <1>1, <1>2, <1>5, <5>1, Halves
        <5>3. a = SeqMod * 0 + a
          BY <5>2, Halves
        <5>4. a \div SeqMod = 0
          BY <5>2, <5>3, Quotient, Halves
        <5>5. QED BY <5>2, <5>4 DEF Rollovers
      <4>3. QED BY <4>1, <4>2
    <3>3. QED BY <3>1, <3>2 DEF Source
  <2>3. QED BY <1>1, <1>6, <2>1, <2>2 DEF Authentic, IsNew
<1>7. CASE srtp.top # None
  <2>1. PICK t \in 0..top[s] : Reached(s, t) /\ t >= top[s] - Reach /\ (s = 1 => t = top[s])
    BY <1>1, <1>7 DEF SrtpTrue
  <2>2. t \in Nat /\ t < i
    BY <1>2, <2>1
  <2>3. Authentic(s, i)
    <3>1. CASE s = 1
      <4>1. PICK h \in Nat, j \in Nat : h = SeqMod \div 2 /\ j = Jump[carried] /\ j < h
        BY <1>1, <1>3
      <4>2. t = top[s] /\ t \in Int
        BY <2>1, <2>2, <3>1
      <4>3. i - t \in 0..h - 1
        BY <1>2, <4>1, <4>2
      <4>4. i - t \in 0..SeqMod \div 2 - 1
        BY <4>1, <4>3
      <4>5. QED BY <1>1, <1>2, <2>1, <2>2, <4>4, EstimateIs DEF Authentic
    <3>2. CASE Reach + Jump[carried] < SeqMod \div 2
      <4>1. PICK h \in Nat, j \in Nat : h = SeqMod \div 2 /\ j = Jump[carried] /\ Reach + j < h
        BY <1>1, <1>3, <3>2
      <4>2. i - t \in 0..h - 1
        BY <1>2, <2>1, <2>2, <4>1
      <4>3. i - t \in 0..SeqMod \div 2 - 1
        BY <4>1, <4>2
      <4>4. QED BY <1>1, <1>2, <2>1, <2>2, <4>3, EstimateIs DEF Authentic
    <3>3. CASE s = 2 /\ ~(Reach + Jump[carried] < SeqMod \div 2)
      <4>1. i <= Last[carried][2]
        BY <1>1, <1>2, <3>3
      <4>2. First[s] + i < SeqMod /\ First[s] + t < SeqMod /\ i - t \in -(SeqMod \div 2)..SeqMod \div 2
        BY <1>1, <1>2, <1>3, <1>4, <1>5, <2>2, <3>3, <4>1, Halves
      <4>3. QED BY <1>1, <1>2, <2>1, <2>2, <4>2, EstimateIs DEF Authentic
    <3>4. QED BY <3>1, <3>3, <3>2 DEF Source
  <2>4. Newest = First[s] + t
    BY <2>1, <2>2, NewestIs
  <2>5. IsNew(s, i)
    <3>1. First[s] + i > Newest /\ First[s] + i \in Int /\ Newest \in Int
      BY <1>2, <1>5, <2>2, <2>4
    <3>2. First[s] + i > Newest - Window
      BY <3>1, MediaReceiveAssumption
    <3>3. First[s] + i \notin srtp.seen
      BY <1>2, <1>5, <2>1, <2>2, <3>1 DEF Reached
    <3>4. QED BY <1>7, <3>2, <3>3 DEF IsNew
  <2>6. QED BY <2>3, <2>5
<1>8. QED BY <1>6, <1>7

\* A packet that is taken moves the newest, or marks its place behind it; one that is
\* not taken is not the newest of the source that is followed.
LEMMA ArriveSrtp ==
    ASSUME Followable, KeyedInTime, ReceiveInv, SrtpTrue, NEW s \in Source,
           NEW i \in 0..Last[carried][s], Arrive(s, i)
    PROVE  SrtpTrue'
<1> SUFFICES ASSUME secured PROVE SrtpTrue'
  BY DEF SrtpTrue, Arrive
<1>1. /\ i \in Nat /\ top \in [Source -> Nat \cup {None}] /\ top' \in [Source -> Nat \cup {None}]
      /\ top'[s] = Greater(top[s], i) /\ \A r \in Source : top'[r] >= top[r] /\ (r # s => top'[r] = top[r])
  BY ArriveTypes DEF ReceiveInv, ReceiveTypes
<1>2. PICK k \in Source : k = srtp.key
  BY DEF ReceiveInv, LatchTrue, Source
<1>3. First[s] \in Nat /\ secured'
  BY MediaReceiveAssumption, Halves DEF Arrive
<1>4. CASE ~Accepted(s, i)
  <2>1. srtp' = srtp
    BY <1>4 DEF Arrive, media
  <2>2. top'[k] = top[k]
    <3>1. CASE s # k
      BY <1>1, <3>1
    <3>2. CASE s = k
      <4>1. ~Newer(s, i)
        BY <1>2, <1>4, <3>2, FreshAccepted DEF Arrive, Open
      <4>2. QED BY <1>1, <3>2, <4>1 DEF Newer, Greater, None
    <3>3. QED BY <3>1, <3>2
  <2>3. k = 1 => top'[1] = top[1]
    BY <2>2
  <2>4. PICK u, t : u = top' /\ t = top /\ u[k] = t[k] /\ (k = 1 => u[1] = t[1])
    BY <2>2, <2>3
  <2>5. /\ srtp.top = None => srtp.seen = {} /\ (k = 1 => u[1] = None)
        /\ srtp.top # None =>
             \E j \in 0..u[k] : Reached(k, j) /\ j >= u[k] - Reach /\ (k = 1 => j = u[1])
    BY <1>2, <2>4 DEF SrtpTrue
  <2>6. QED BY <1>2, <2>1, <2>4, <2>5 DEF SrtpTrue, Reached
<1>5. CASE Accepted(s, i)
  <2>1. srtp.key = s /\ k = s
    BY <1>2, <1>5 DEF Accepted, Authentic
  <2>2. PICK index \in Int : index = First[s] + i
    BY <1>1, <1>3
  <2>3. srtp = [key |-> srtp.key, rollovers |-> srtp.rollovers, top |-> srtp.top, seen |-> srtp.seen]
    BY DEF ReceiveInv, ReceiveTypes
  <2>4. srtp' = IF srtp.top = None \/ index > Newest
                THEN [srtp EXCEPT !.rollovers = Rollovers(s, i), !.top = Number(s, i),
                                  !.seen = {x \in @ : x > index - Window} \cup {index}]
                ELSE [srtp EXCEPT !.seen = @ \cup {index}]
    BY <1>5, <2>2 DEF Arrive, Unprotect
  <2>5. Number(s, i) # None
    BY <1>1, NumberAndTurn, Halves DEF None
  <2>6. CASE srtp.top = None \/ index > Newest
    <3>1. /\ srtp'.key = s /\ srtp'.top = Number(s, i) /\ srtp'.rollovers = Rollovers(s, i)
          /\ srtp'.seen = {x \in srtp.seen : x > index - Window} \cup {index}
      BY <2>1, <2>3, <2>4, <2>6
    <3>2. \A x \in srtp'.seen : x \in Int /\ x <= First[s] + i
      <4>1. CASE srtp.top = None
        BY <2>2, <3>1, <4>1 DEF SrtpTrue
      <4>2. CASE srtp.top # None
        <5>1. PICK t \in 0..top[s] : Reached(s, t)
          BY <2>1, <4>2 DEF SrtpTrue
        <5>2. t \in Nat
          BY <1>1, <5>1 DEF None
        <5>3. index > First[s] + t
          BY <2>6, <4>2, <5>1, <5>2, NewestIs
        <5>4. QED BY <1>3, <2>2, <3>1, <5>1, <5>2, <5>3 DEF Reached
      <4>3. QED BY <4>1, <4>2
    <3>3. Reached(s, i)'
      BY <3>1, <3>2 DEF Reached, Rollovers, Number
    <3>4. s = 1 => i = top'[1]
      <4> SUFFICES ASSUME s = 1 PROVE i = top'[s]
        OBVIOUS
      <4>1. i > top[s]
        <5>1. CASE srtp.top = None
          BY <1>1, <2>1, <5>1 DEF SrtpTrue, None
        <5>2. CASE srtp.top # None
          <6>1. PICK t \in 0..top[s] : Reached(s, t) /\ t = top[s]
            BY <2>1, <5>2 DEF SrtpTrue
          <6>2. t \in Nat
            BY <1>1, <6>1 DEF None
          <6>3. index > First[s] + t
            BY <2>6, <5>2, <6>1, <6>2, NewestIs
          <6>4. QED BY <1>1, <1>3, <2>2, <6>1, <6>2, <6>3
        <5>3. QED BY <5>1, <5>2
      <4>2. QED BY <1>1, <4>1 DEF Greater, None
    <3>5. i \in 0..top'[s] /\ i >= top'[s] - Reach
      BY <1>1, Halves, ArriveTypes DEF Greater, None
    <3>6. srtp'.top # None
      BY <2>5, <3>1
    <3>7. QED BY <3>1, <3>3, <3>4, <3>5, <3>6 DEF SrtpTrue
  <2>7. CASE ~(srtp.top = None \/ index > Newest)
    <3>1. PICK t \in 0..top[s] : Reached(s, t) /\ t >= top[s] - Reach /\ (s = 1 => t = top[1])
      BY <2>1, <2>7 DEF SrtpTrue
    <3>2. t \in Nat
      BY <1>1, <3>1 DEF None
    <3>3. index <= First[s] + t
      BY <2>7, <3>1, <3>2, <1>3, <2>2, NewestIs
    <3>4. /\ srtp'.key = s /\ srtp'.top = srtp.top /\ srtp'.rollovers = srtp.rollovers
          /\ srtp'.seen = srtp.seen \cup {index}
      BY <2>1, <2>3, <2>4, <2>7
    <3>5. Reached(s, t)'
      BY <2>2, <3>1, <3>3, <3>4 DEF Reached, Rollovers, Number
    <3>6. t \in 0..top'[s] /\ i <= t /\ t >= top'[s] - Reach
      BY <1>1, <1>3, <2>2, <3>1, <3>2, <3>3 DEF None, Greater
    <3>7. s = 1 => t = top'[1]
      <4> SUFFICES ASSUME s = 1 PROVE t = top'[s]
        OBVIOUS
      <4>1. QED BY <1>1, <3>1, <3>2, <3>6 DEF Greater
    <3>8. srtp'.top # None
      BY <2>7, <3>4
    <3>9. QED BY <3>4, <3>5, <3>6, <3>7, <3>8 DEF SrtpTrue
  <2>8. QED BY <2>6, <2>7
<1>6. QED BY <1>4, <1>5

----
(* The statistics *)

\* A packet begins the count anew.
LEMMA BasedIs ==
    ASSUME NEW s \in Source, NEW i \in Nat
    PROVE  /\ Tally(s, Based(Number(s, i)), [first |-> i, low |-> i, high |-> i])
           /\ Based(Number(s, i)).received = 1 /\ Based(Number(s, i)).bad = None
<1>1. PICK n \in Int : n = Number(s, i)
  BY NumberAndTurn, Halves
<1>2. PICK q \in Int : q = Rollovers(s, i)
  BY NumberAndTurn
<1>3. SeqMod * (q - q) = 0
  BY Halves
<1>4. PICK st : st = Based(n) /\ st = [base |-> n, max |-> n, cycles |-> 0, received |-> 1, bad |-> None]
  BY DEF Based
<1>5. st \in Statistics
  BY <1>4, 0 \in Int, 1 \in Nat, -1 \in Int DEF Statistics, None
<1>6. QED BY <1>1, <1>2, <1>3, <1>4, <1>5 DEF Tally

\* A packet that may be taken for what it is: neither so far ahead that it looks late,
\* nor so late that it looks ahead.
Near(i, high) ==
    /\ i >= high => i - high <= SeqMod - Misorder
    /\ i < high => high - i <= SeqMod - Dropout

\* One packet: it is counted, or it is held for a restart, which the next one confirms.
LEMMA CountsOne ==
    ASSUME NEW s \in Source, NEW i \in Nat, NEW st, NEW c, Tally(s, st, c), Near(i, c.high)
    PROVE  LET new == Counted(st, Number(s, i))
               d == Count(c, st, new, i) IN
           /\ Tally(s, new, d)
           /\ \/ /\ d = c /\ new.received = st.received
                 /\ i - c.high >= Dropout \/ c.high - i >= Misorder
              \/ d = [first |-> i, low |-> i, high |-> i] /\ new.received = 1
              \/ d = [first |-> c.first, low |-> Lesser(c.low, i), high |-> Greater(c.high, i)]
                 /\ new.received = st.received + 1
<1>1. /\ SeqMod \in Nat \ {0} /\ Dropout \in Nat /\ Misorder \in Nat /\ Misorder >= 1
      /\ Misorder <= SeqMod - Dropout
  BY MediaReceiveAssumption, Halves
<1>2. PICK n \in 0..SeqMod - 1 : n = Number(s, i)
  BY NumberAndTurn
<1>3. PICK new, d : new = Counted(st, n) /\ d = Count(c, st, new, i)
  OBVIOUS
<1>4. PICK f \in Nat, lo \in Nat, hi \in Nat :
        c = [first |-> f, low |-> lo, high |-> hi] /\ lo <= f /\ f <= hi
  BY DEF Tally
<1>5. PICK q \in Int, m \in 0..SeqMod - 1, p \in Int :
        q = Rollovers(s, hi) /\ m = Number(s, hi) /\ p = Rollovers(s, f)
  <2>1. f \in Int /\ hi \in Int
    OBVIOUS
  <2>2. QED BY <2>1, NumberAndTurn
<1>6. /\ st \in Statistics /\ st.base = Number(s, f) /\ st.max = m /\ st.cycles = SeqMod * (q - p)
      /\ st.received >= 1 /\ st.received \in Nat /\ st.cycles \in Int /\ st.bad \in Int
      /\ st.base # None
  <2>1. Number(s, f) # None
    BY NumberAndTurn, Halves DEF None
  <2>2. QED BY <1>4, <1>5, <2>1 DEF Tally, Statistics
<1>7. PICK delta \in 0..SeqMod - 1 : delta = SeqAhead(st.max, n)
  <2>1. (n - m) % SeqMod \in 0..SeqMod - 1
    <3>1. PICK x \in Int : x = n - m
      BY <1>1
    <3>2. QED BY <1>1, <3>1, Division
  <2>2. QED BY <1>6, <2>1 DEF SeqAhead
<1>8. delta = IF i >= hi THEN i - hi ELSE i - hi + SeqMod
  <2>1. PICK x \in Int : x = i - hi
    OBVIOUS
  <2>2. delta = x % SeqMod
    BY <1>2, <1>5, <1>6, <1>7, <2>1, NumbersApart
  <2>3. Near(i, hi)
    BY <1>4
  <2>4. IF i >= hi THEN x \in 0..SeqMod - 1 ELSE x \in -SeqMod..-1
    BY <1>1, <2>1, <2>3 DEF Near
  <2>5. QED BY <1>1, <2>1, <2>2, <2>4, RemainderNear
<1>9. CASE delta < Dropout
  <2>1. i >= hi /\ i = hi + delta
    BY <1>1, <1>4, <1>8, <1>9 DEF Near
  <2>2. IF m + delta < SeqMod
        THEN n = m + delta /\ Rollovers(s, i) = q
        ELSE n = m + delta - SeqMod /\ Rollovers(s, i) = q + 1
    BY <1>2, <1>5, <2>1, Onward
  <2>3. PICK cycles \in Int, o \in Int :
          /\ o = Rollovers(s, i) /\ cycles = SeqMod * (o - p)
          /\ cycles = IF Wraps(st, n) THEN st.cycles + SeqMod ELSE st.cycles
    <3>1. Wraps(st, n) <=> ~(m + delta < SeqMod)
      BY <1>1, <1>5, <1>6, <1>7, <2>2 DEF Wraps
    <3>2. SeqMod * (q + 1 - p) = SeqMod * (q - p) + SeqMod
      BY <1>1
    <3>3. PICK o \in Int : o = Rollovers(s, i) /\ o = (IF Wraps(st, n) THEN q + 1 ELSE q)
      BY <1>5, <2>2, <3>1
    <3>4. SeqMod * (o - p) = IF Wraps(st, n) THEN st.cycles + SeqMod ELSE st.cycles
      BY <1>6, <3>2, <3>3
    <3>5. SeqMod * (o - p) \in Int
      BY <1>1
    <3>6. QED BY <3>3, <3>4, <3>5
  <2>4. new = [st EXCEPT !.cycles = cycles, !.max = n, !.received = st.received + 1]
    <3>1. ~(delta \in Dropout..SeqMod - Misorder)
      BY <1>1, <1>9
    <3>2. new = [st EXCEPT !.cycles = IF Wraps(st, n) THEN @ + SeqMod ELSE @,
                           !.max = n, !.received = @ + 1]
      BY <1>3, <1>6, <1>7, <1>9, <3>1, Zenon DEF Counted
    <3>3. QED BY <2>3, <3>2
  <2>5. /\ new \in Statistics /\ new.base = st.base /\ new.max = n /\ new.cycles = cycles
        /\ new.received = st.received + 1
    <3>1. n \in Int /\ st.received + 1 \in Nat
      BY <1>1, <1>6
    <3>2. QED BY <1>6, <2>3, <2>4, <3>1 DEF Statistics
  <2>6. d = [c EXCEPT !.low = Lesser(@, i), !.high = Greater(@, i)]
    BY <1>3, <1>6, <2>5 DEF Count
  <2>7. PICK low \in Nat, high \in Nat :
          low = Lesser(lo, i) /\ high = Greater(hi, i) /\ low <= lo /\ high = i
    <3>1. hi <= i
      BY <1>1, <1>4, <2>1
    <3>2. QED BY <3>1 DEF Lesser, Greater
  <2>8. d = [first |-> f, low |-> low, high |-> high]
    BY <1>4, <2>6, <2>7
  <2>9. Tally(s, new, d)
    <3>1. low <= f /\ f <= high
      BY <1>4, <2>1, <2>7, <1>1
    <3>2. d.first = f /\ d.low = low /\ d.high = i /\ d \in [first : Nat, low : Nat, high : Nat]
      BY <2>7, <2>8
    <3>3. new.base = Number(s, f) /\ new.max = Number(s, i) /\ new.received >= 1
          /\ new.cycles = SeqMod * (Rollovers(s, i) - Rollovers(s, f))
      BY <1>2, <1>5, <1>6, <2>3, <2>5
    <3>4. QED BY <2>5, <2>7, <3>1, <3>2, <3>3 DEF Tally
  <2>10. QED BY <1>2, <1>3, <1>4, <2>5, <2>7, <2>8, <2>9
<1>10. CASE ~(delta < Dropout) /\ delta \in Dropout..SeqMod - Misorder
  <2>1. new = IF n = st.bad THEN Based(n) ELSE [st EXCEPT !.bad = (n + 1) % SeqMod]
    BY <1>3, <1>6, <1>7, <1>10, Zenon DEF Counted
  <2>2. CASE n = st.bad
    <3>1. new.received = 1 /\ new.bad = None
      BY <1>2, <2>1, <2>2, BasedIs
    <3>2. d = [first |-> i, low |-> i, high |-> i]
      BY <1>3, <3>1 DEF Count
    <3>3. Tally(s, new, d)
      BY <1>2, <2>1, <2>2, <3>2, BasedIs
    <3>4. QED BY <1>2, <1>3, <3>1, <3>2, <3>3
  <2>3. CASE n # st.bad
    <3>1. PICK b \in 0..SeqMod - 1 : b = (n + 1) % SeqMod
      <4>1. PICK x \in Int : x = n + 1
        BY <1>1
      <4>2. QED BY <1>1, <4>1, Division
    <3>2. new = [st EXCEPT !.bad = b]
      BY <2>1, <2>3, <3>1
    <3>3. /\ new \in Statistics /\ new.base = st.base /\ new.max = st.max /\ new.cycles = st.cycles
          /\ new.received = st.received /\ new.bad = b
      BY <1>1, <1>6, <3>1, <3>2 DEF Statistics
    <3>4. b # None
      BY <1>1, <3>1 DEF None
    <3>5. d = c
      BY <1>3, <3>3, <3>4 DEF Count
    <3>6. Tally(s, new, d)
      BY <3>3, <3>5 DEF Tally
    <3>7. i - hi >= Dropout \/ hi - i >= Misorder
      BY <1>1, <1>7, <1>8, <1>10
    <3>8. QED BY <1>2, <1>3, <1>4, <3>3, <3>5, <3>6, <3>7
  <2>4. QED BY <2>2, <2>3
<1>11. CASE ~(delta < Dropout) /\ ~(delta \in Dropout..SeqMod - Misorder)
  <2>1. i < hi
    BY <1>1, <1>4, <1>7, <1>8, <1>11 DEF Near
  <2>2. new = [st EXCEPT !.received = @ + 1]
    BY <1>3, <1>6, <1>7, <1>11, Zenon DEF Counted
  <2>3. /\ new \in Statistics /\ new.base = st.base /\ new.max = st.max /\ new.cycles = st.cycles
        /\ new.received = st.received + 1
    BY <1>6, <2>2 DEF Statistics
  <2>4. d = [c EXCEPT !.low = Lesser(@, i), !.high = Greater(@, i)]
    BY <1>3, <1>6, <2>3 DEF Count
  <2>5. PICK low \in Nat, high \in Nat :
          low = Lesser(lo, i) /\ high = Greater(hi, i) /\ high = hi /\ low <= lo
    BY <2>1 DEF Lesser, Greater
  <2>6. d = [first |-> f, low |-> low, high |-> high]
    BY <1>4, <2>4, <2>5
  <2>7. Tally(s, new, d)
    BY <1>4, <1>5, <1>6, <2>3, <2>5, <2>6 DEF Tally
  <2>8. QED BY <1>2, <1>3, <1>4, <2>3, <2>5, <2>6, <2>7
<1>12. QED BY <1>9, <1>10, <1>11

\* What is counted is not expected less: the number is that of the stream.
LEMMA TallyExpects ==
    ASSUME NEW s \in Source, NEW st, NEW c, Tally(s, st, c)
    PROVE  Expected(st) = c.high - c.first + 1
<1>1. PICK f \in Nat, hi \in Nat : f = c.first /\ hi = c.high
  BY DEF Tally
<1>2. PICK q \in Int, m \in Int, p \in Int, n \in Int :
        /\ q = Rollovers(s, hi) /\ m = Number(s, hi) /\ First[s] + hi = SeqMod * q + m
        /\ p = Rollovers(s, f) /\ n = Number(s, f) /\ First[s] + f = SeqMod * p + n
  <2>1. ASSUME NEW i \in Nat
        PROVE  \E u \in Int, v \in Int :
                  u = Rollovers(s, i) /\ v = Number(s, i) /\ First[s] + i = SeqMod * u + v
    <3>1. i \in Int
      OBVIOUS
    <3>2. Number(s, i) \in Int
      BY <3>1, NumberAndTurn, Halves
    <3>3. QED BY <3>1, <3>2, NumberAndTurn, Zenon
  <2>2. QED BY <2>1
<1>3. First[s] \in Int
  BY NumberAndTurn, Halves
<1>4. Expected(st) = (SeqMod * (q - p) + m) - n + 1
  <2>1. st.cycles = SeqMod * (q - p) /\ st.max = m /\ st.base = n
    BY <1>1, <1>2 DEF Tally
  <2>2. QED BY <2>1 DEF Expected, Highest
<1>5. PICK x \in Int, y \in Int : x = SeqMod * q /\ y = SeqMod * p /\ SeqMod * (q - p) = x - y
  BY Halves
<1>6. QED BY <1>1, <1>2, <1>3, <1>4, <1>5

\* Some of these packets are no more than they are.
LEMMA PartOf ==
    ASSUME NEW low \in Nat, NEW high \in Nat, low <= high, NEW S \in SUBSET (low..high)
    PROVE  IsFiniteSet(S) /\ Cardinality(S) \in Nat /\ Cardinality(S) <= high - low + 1
<1>1. IsFiniteSet(low..high) /\ Cardinality(low..high) = high - low + 1
  BY FS_Interval
<1>2. IsFiniteSet(S) /\ Cardinality(S) <= Cardinality(low..high)
  BY <1>1, FS_Subset
<1>3. Cardinality(S) \in Nat
  BY <1>2, FS_CardinalityType
<1>4. QED BY <1>1, <1>2, <1>3

\* A packet that SRTP takes was not spent, and is from then on; what was spent stays so.
LEMMA SpentGrows ==
    ASSUME ReceiveInv, SrtpTrue, secured, NEW s \in Source, NEW i \in Nat, Accepted(s, i),
           Unprotect(s, i), NEW c, NEW d, c.low \in Nat, c.high \in Nat, d.low \in Nat, d.high \in Nat,
           srtp.top # None => d.low <= c.low /\ c.high <= d.high
    PROVE  /\ srtp'.top # None /\ srtp'.key = s
           /\ i \in d.low..d.high => i \in Spent(s, d)'
           /\ srtp.top # None => i \notin Spent(s, c) /\ Spent(s, c) \subseteq Spent(s, d)'
<1>1. /\ srtp.key = s /\ (srtp.top # None => IsNew(s, i)) /\ First[s] \in Nat
      /\ srtp = [key |-> srtp.key, rollovers |-> srtp.rollovers, top |-> srtp.top, seen |-> srtp.seen]
      /\ top[s] \in Nat \cup {None} /\ Window \in Nat
  BY MediaReceiveAssumption, Halves DEF Accepted, Authentic, ReceiveInv, ReceiveTypes
<1>2. PICK index \in Nat : index = First[s] + i
  BY <1>1
<1>3. srtp' = IF srtp.top = None \/ index > Newest
              THEN [srtp EXCEPT !.rollovers = Rollovers(s, i), !.top = Number(s, i),
                                !.seen = {x \in @ : x > index - Window} \cup {index}]
              ELSE [srtp EXCEPT !.seen = @ \cup {index}]
  BY <1>2 DEF Unprotect
<1>4. srtp.top # None =>
        /\ Newest \in Int /\ \A x \in srtp.seen : x \in Int
        /\ index > Newest - Window /\ index \notin srtp.seen
  <2> SUFFICES ASSUME srtp.top # None
        PROVE /\ Newest \in Int /\ \A x \in srtp.seen : x \in Int
              /\ index > Newest - Window /\ index \notin srtp.seen
    OBVIOUS
  <2>1. PICK t \in 0..top[s] : Reached(s, t)
    BY <1>1 DEF SrtpTrue
  <2>2. t \in Nat
    BY <1>1, <2>1 DEF None
  <2>3. Newest = First[s] + t
    BY <2>1, <2>2, NewestIs
  <2>4. QED BY <1>1, <1>2, <2>1, <2>2, <2>3 DEF Reached, IsNew
<1>5. /\ srtp'.key = s /\ srtp'.top # None
      /\ Newest' \in Int /\ index \in srtp'.seen
      /\ srtp.top # None =>
           /\ Newest' >= Newest
           /\ \A x \in srtp.seen : x \in srtp'.seen \/ x <= Newest' - Window
  <2>1. CASE srtp.top = None \/ index > Newest
    <3>1. /\ srtp'.key = s /\ srtp'.top = Number(s, i) /\ srtp'.rollovers = Rollovers(s, i)
          /\ srtp'.seen = {x \in srtp.seen : x > index - Window} \cup {index}
      BY <1>1, <1>3, <2>1
    <3>2. Newest' = index
      BY <1>2, <3>1, IndexIs DEF Newest
    <3>3. Number(s, i) # None
      BY NumberAndTurn, Halves DEF None
    <3>4. srtp.top # None => \A x \in srtp.seen : x > index - Window \/ x <= index - Window
      BY <1>1, <1>2, <1>4
    <3>5. srtp.top # None => index >= Newest
      BY <1>2, <1>4, <2>1
    <3>6. QED BY <1>2, <3>1, <3>2, <3>3, <3>4, <3>5
  <2>2. CASE ~(srtp.top = None \/ index > Newest)
    <3>1. /\ srtp'.key = s /\ srtp'.top = srtp.top /\ srtp'.rollovers = srtp.rollovers
          /\ srtp'.seen = srtp.seen \cup {index}
      BY <1>1, <1>3, <2>2
    <3>2. Newest' = Newest
      BY <3>1 DEF Newest
    <3>3. QED BY <1>4, <2>2, <3>1, <3>2
  <2>3. QED BY <2>1, <2>2
<1>6. Spent(s, d)' = {x \in d.low..d.high : First[s] + x \in srtp'.seen \/ First[s] + x <= Newest' - Window}
  BY DEF Spent
<1>7. i \in d.low..d.high => i \in Spent(s, d)'
  BY <1>2, <1>5, <1>6
<1>8. srtp.top # None => i \notin Spent(s, c)
  BY <1>1, <1>2, <1>4 DEF Spent
<1>9. srtp.top # None => Spent(s, c) \subseteq Spent(s, d)'
  <2> SUFFICES ASSUME srtp.top # None, NEW x \in Spent(s, c) PROVE x \in Spent(s, d)'
    OBVIOUS
  <2>1. /\ x \in c.low..c.high /\ x \in Int
        /\ First[s] + x \in srtp.seen \/ First[s] + x <= Newest - Window
    BY DEF Spent
  <2>2. x \in d.low..d.high
    BY <2>1
  <2>3. First[s] + x \in srtp'.seen \/ First[s] + x <= Newest' - Window
    <3>1. CASE First[s] + x \in srtp.seen
      BY <1>5, <3>1
    <3>2. CASE First[s] + x <= Newest - Window
      BY <1>1, <1>4, <1>5, <2>1, <3>2
    <3>3. QED BY <2>1, <3>1, <3>2
  <2>4. QED BY <1>6, <2>2, <2>3
<1>10. QED BY <1>5, <1>7, <1>8, <1>9

\* What a packet that is taken changes.
LEMMA ArriveGives ==
    ASSUME ReceiveInv, NEW s \in Source, NEW i, Arrive(s, i), Accepted(s, i)
    PROVE  LET d == Drain(Push(jitter, RtpPacket(s, i)))
               st == Counted(stats[s], Number(s, i)) IN
           /\ jitter' = d.jb /\ delivered' = d.out
           /\ ghost'.home = d.jb.ssrc
           /\ ghost'.slot = IF d.out = <<>> THEN ghost.slot ELSE d.out[Len(d.out)].idx
           /\ ghost'.silent = IF d.out = <<>> /\ Newer(s, i) THEN ghost.silent + 1 ELSE 0
           /\ stats' = [stats EXCEPT ![s] = st]
           /\ ghost'.counted = [ghost.counted EXCEPT ![s] = Count(ghost.counted[s], stats[s], st, i)]
<1>1. PICK d, st : d = Drain(Push(jitter, RtpPacket(s, i))) /\ st = Counted(stats[s], Number(s, i))
  OBVIOUS
<1>2. jitter' = d.jb /\ delivered' = d.out /\ stats' = [stats EXCEPT ![s] = st]
  BY <1>1 DEF Arrive
<1>3. PICK home, slot, counted, silent :
        /\ home = d.jb.ssrc
        /\ slot = (IF d.out = <<>> THEN ghost.slot ELSE d.out[Len(d.out)].idx)
        /\ silent = (IF d.out = <<>> /\ Newer(s, i) THEN ghost.silent + 1 ELSE 0)
        /\ counted = [ghost.counted EXCEPT ![s] = Count(ghost.counted[s], stats[s], st, i)]
  OBVIOUS
<1>4. ghost' = [ghost EXCEPT !.home = home, !.slot = slot, !.counted = counted, !.silent = silent]
  <2>1. ghost' = [ghost EXCEPT
              !.home = d.jb.ssrc,
              !.slot = IF delivered' = <<>> THEN @ ELSE delivered'[Len(delivered')].idx,
              !.counted[s] = Count(@, stats[s], st, i),
              !.silent = IF delivered' = <<>> /\ Newer(s, i) THEN @ + 1 ELSE 0]
    BY <1>1, Zenon DEF Arrive
  <2>2. QED BY <1>2, <1>3, <2>1
<1>5. ghost = [home |-> ghost.home, slot |-> ghost.slot, silent |-> ghost.silent,
               left |-> ghost.left, counted |-> ghost.counted, given |-> ghost.given,
               copies |-> ghost.copies]
  BY DEF ReceiveInv, ReceiveTypes
<1>6. QED BY <1>1, <1>2, <1>3, <1>5, <1>4

\* What one that is refused leaves.
LEMMA RefusedGives ==
    ASSUME ReceiveInv, NEW s \in Source, NEW i, Arrive(s, i), ~Accepted(s, i)
    PROVE  /\ UNCHANGED media
           /\ ghost'.home = ghost.home /\ ghost'.slot = ghost.slot /\ ghost'.counted = ghost.counted
           /\ ghost'.silent = IF Newer(s, i) /\ srtp.key = s THEN ghost.silent + 1 ELSE 0
<1>1. ghost' = [ghost EXCEPT !.silent = IF Newer(s, i) /\ srtp.key = s THEN @ + 1 ELSE 0]
      /\ UNCHANGED media
  BY DEF Arrive
<1>2. ghost = [home |-> ghost.home, slot |-> ghost.slot, silent |-> ghost.silent,
               left |-> ghost.left, counted |-> ghost.counted, given |-> ghost.given,
               copies |-> ghost.copies]
  BY DEF ReceiveInv, ReceiveTypes
<1>3. QED BY <1>1, <1>2

\* A step that does not follow the source further leaves its count.
LEMMA StatsStay ==
    ASSUME NEW s \in Source, NEW st, NEW c, StatsOf(s, st, c), UNCHANGED <<secured, carried>>,
           srtp'.key = srtp.key, secured => srtp' = srtp \/ srtp.key # s,
           Open(s) => top'[s] = top[s]
    PROVE  StatsOf(s, st, c)'
<1>1. secured /\ srtp.key = s => srtp' = srtp
  OBVIOUS
<1>2. srtp' = srtp => Spent(s, c)' = Spent(s, c)
  BY DEF Spent, Newest
<1>3. Open(s)' <=> Open(s)
  BY DEF Open
<1>4. PICK p, q, t, u, n : p = srtp' /\ q = srtp /\ t = top[s] /\ u = top'[s] /\ n = Spent(s, c)
  OBVIOUS
<1>5. Last[carried]' = Last[carried] /\ Jump[carried]' = Jump[carried]
  OBVIOUS
<1>6. Tally(s, st, c)' <=> Tally(s, st, c)
  BY DEF Tally, Number, Rollovers
<1>7. st = NoStats \/ Tally(s, st, c)'
  BY <1>6 DEF StatsOf
<1>8. secured' /\ srtp'.top = None /\ srtp'.key = s => st = NoStats
  BY <1>1 DEF StatsOf
<1>9. secured' /\ srtp'.key = 1 /\ s = 2 => st = NoStats
  BY DEF StatsOf
<1>10. ASSUME st # NoStats
       PROVE  /\ c.high <= Last[carried'][s]
              /\ Open(s)' /\ Reach + Jump[carried'] < Dropout => c.high \in top'[s] - Reach..top'[s]
              /\ secured' => st.received <= c.high - c.low + 1
              /\ secured' /\ srtp'.key = s => st.received <= Cardinality(Spent(s, c)')
  BY <1>1, <1>2, <1>3, <1>10 DEF StatsOf
<1>11. QED BY <1>7, <1>8, <1>9, <1>10 DEF StatsOf, NoStats

\* A packet that is taken is counted as what it is.
LEMMA ArriveStats ==
    ASSUME Followable, ReceiveInv, SrtpTrue, NEW s \in Source, NEW i \in 0..Last[carried][s],
           Arrive(s, i), Accepted(s, i), NEW st, NEW c, StatsOf(s, st, c)
    PROVE  LET new == Counted(st, Number(s, i)) IN StatsOf(s, new, Count(c, st, new, i))'
<1>1. /\ i \in Nat /\ i <= Last[carried][s] /\ carried \in Carried /\ UNCHANGED <<secured, carried>>
      /\ top[s] \in Nat \cup {None} /\ i >= top[s] - Reach /\ top'[s] = Greater(top[s], i)
      /\ Last[carried][s] \in Int /\ Jump[carried] \in Nat /\ i <= top[s] + Jump[carried]
      /\ top[s] \in Int
  <2>1. top \in [Source -> Nat \cup {None}] /\ carried \in Carried
    BY DEF ReceiveInv, ReceiveTypes
  <2>2. Last[carried][s] \in Int /\ Jump[carried] \in Nat /\ top[s] \in Int
    BY <2>1, MediaReceiveAssumption DEF None
  <2>3. i <= top[s] + Jump[carried]
    BY <2>1, <2>2 DEF Arrive, MayArrive
  <2>4. i \in Nat /\ i >= top[s] - Reach /\ top'[s] = Greater(top[s], i)
    BY ArriveTypes
  <2>5. UNCHANGED <<secured, carried>>
    BY DEF Arrive
  <2>6. top[s] \in Nat \cup {None} /\ i <= Last[carried][s]
    BY <2>1, <2>2
  <2>7. QED BY <2>1, <2>2, <2>3, <2>4, <2>5, <2>6
<1>2. /\ Reach \in Nat /\ Dropout \in Nat /\ Misorder \in Nat /\ SeqMod \in Nat /\ Reach < Misorder
      /\ Misorder <= SeqMod - Dropout
  BY MediaReceiveAssumption, Halves
<1>3. PICK new, d : new = Counted(st, Number(s, i)) /\ d = Count(c, st, new, i)
  OBVIOUS
<1>4. i \in top'[s] - Reach..top'[s]
  BY <1>1, <1>2 DEF Greater
<1>5. Unprotect(s, i) /\ Open(s) /\ srtp'.key = srtp.key
  BY DEF Arrive, Open, Accepted, Authentic, Unprotect, ReceiveInv, ReceiveTypes
<1>6. secured => srtp.key = s
  BY <1>5 DEF Open
<1>7. ASSUME new \in Statistics, Tally(s, new, d), d.high <= Last[carried][s],
             Reach + Jump[carried] < Dropout => d.high \in top'[s] - Reach..top'[s],
             secured => srtp'.top # None /\ new.received <= Cardinality(Spent(s, d)')
      PROVE  StatsOf(s, new, d)'
  <2>1. Tally(s, new, d)'
    BY <1>7 DEF Tally, Number, Rollovers
  <2>2. secured => new.received <= d.high - d.low + 1
    <3> SUFFICES ASSUME secured PROVE new.received <= d.high - d.low + 1
      OBVIOUS
    <3>1. PICK low \in Nat, high \in Nat :
            low = d.low /\ high = d.high /\ low <= high /\ new.received \in Nat
      BY <1>7 DEF Tally, Statistics
    <3>2. PICK S \in SUBSET (low..high) : S = Spent(s, d)'
      BY <3>1 DEF Spent
    <3>3. Cardinality(S) \in Nat /\ Cardinality(S) <= high - low + 1
      BY <3>1, PartOf
    <3>4. new.received <= Cardinality(S)
      BY <1>7, <3>2
    <3>5. QED BY <3>1, <3>3, <3>4
  <2>3. QED BY <1>1, <1>5, <1>6, <1>7, <2>1, <2>2 DEF StatsOf, NoStats
<1>8. ASSUME new.received = 1, Tally(s, new, d), d = [first |-> i, low |-> i, high |-> i]
      PROVE  StatsOf(s, new, d)'
  <2>1. secured => srtp'.top # None /\ i \in Spent(s, d)'
    <3> SUFFICES ASSUME secured PROVE srtp'.top # None /\ i \in Spent(s, d)'
      OBVIOUS
    <3>1. d.low = i /\ d.high = i
      BY <1>8
    <3>2. d.low <= d.low /\ d.high <= d.high /\ d.low \in Nat /\ d.high \in Nat
      BY <1>1, <3>1
    <3>3. i \in d.low..d.high
      BY <1>1, <3>1
    <3>4. QED BY <1>1, <1>5, <3>2, <3>3, SpentGrows
  <2>2. secured => new.received <= Cardinality(Spent(s, d)')
    <3> SUFFICES ASSUME secured PROVE new.received <= Cardinality(Spent(s, d)')
      OBVIOUS
    <3>1. PICK low \in Nat : low = i /\ low <= low
      BY <1>1
    <3>2. PICK S \in SUBSET (low..low) : S = Spent(s, d)' /\ i \in S
      BY <1>8, <2>1, <3>1 DEF Spent
    <3>3. IsFiniteSet(S) /\ Cardinality(S) \in Nat
      BY <3>1, PartOf
    <3>4. Cardinality(S) # 0
      BY <3>2, <3>3, FS_EmptySet
    <3>5. QED BY <1>8, <3>2, <3>4, <3>3
  <2>3. QED BY <1>1, <1>4, <1>7, <1>8, <2>1, <2>2 DEF Tally
<1>9. CASE st = NoStats
  <2>1. new = Based(Number(s, i))
    BY <1>3, <1>9 DEF Counted, NoStats
  <2>2. new.received = 1
    BY <1>1, <2>1, BasedIs
  <2>3. d = [first |-> i, low |-> i, high |-> i]
    BY <1>3, <1>9, <2>2 DEF Count, NoStats
  <2>4. Tally(s, new, d)
    BY <1>1, <2>1, <2>3, BasedIs
  <2>5. QED BY <1>3, <1>8, <2>2, <2>3, <2>4
<1>10. CASE st # NoStats
  <2>1. /\ Tally(s, st, c) /\ c.high <= Last[carried][s]
        /\ Reach + Jump[carried] < Dropout => c.high \in top[s] - Reach..top[s]
        /\ secured => srtp.top # None /\ st.received <= Cardinality(Spent(s, c))
    BY <1>5, <1>6, <1>10 DEF StatsOf
  <2>2. PICK f \in Nat, lo \in Nat, hi \in Nat :
          c = [first |-> f, low |-> lo, high |-> hi] /\ lo <= f /\ f <= hi
    BY <2>1 DEF Tally
  <2>3. \/ Reach + Jump[carried] < Dropout
        \/ Last[carried][s] <= SeqMod - Dropout /\ Last[carried][s] <= SeqMod - Misorder
    BY <1>1 DEF Followable
  <2>4. Near(i, c.high)
    BY <1>1, <1>2, <2>1, <2>2, <2>3 DEF Near
  <2>5. /\ Tally(s, new, d)
        /\ \/ /\ d = c /\ new.received = st.received
              /\ i - c.high >= Dropout \/ c.high - i >= Misorder
           \/ d = [first |-> i, low |-> i, high |-> i] /\ new.received = 1
           \/ d = [first |-> c.first, low |-> Lesser(c.low, i), high |-> Greater(c.high, i)]
              /\ new.received = st.received + 1
    BY <1>1, <1>3, <2>1, <2>4, CountsOne
  <2>6. new \in Statistics /\ st.received \in Nat
    BY <2>1, <2>5 DEF Tally, Statistics
  <2>7. CASE /\ d = c /\ new.received = st.received
             /\ i - c.high >= Dropout \/ c.high - i >= Misorder
    <3>1. ~(Reach + Jump[carried] < Dropout)
      BY <1>1, <1>2, <2>1, <2>2, <2>7
    <3>2. secured => srtp'.top # None /\ new.received <= Cardinality(Spent(s, d)')
      <4> SUFFICES ASSUME secured PROVE srtp'.top # None /\ new.received <= Cardinality(Spent(s, d)')
        OBVIOUS
      <4>1. c.low \in Nat /\ c.high \in Nat /\ c.low <= c.low /\ c.high <= c.high /\ c.low <= c.high
        BY <2>2
      <4>2. srtp'.top # None /\ Spent(s, c) \subseteq Spent(s, c)'
        BY <1>1, <1>5, <2>1, <4>1, SpentGrows
      <4>3. PICK S, T : S = Spent(s, c) /\ T = Spent(s, c)' /\ T \in SUBSET (c.low..c.high) /\ S \subseteq T
        BY <4>2 DEF Spent
      <4>4. Cardinality(S) <= Cardinality(T) /\ Cardinality(S) \in Nat /\ Cardinality(T) \in Nat
        BY <4>1, <4>3, PartOf, FS_Subset
      <4>5. QED BY <2>1, <2>6, <2>7, <4>2, <4>3, <4>4
    <3>3. QED BY <1>3, <1>7, <2>1, <2>5, <2>6, <2>7, <3>1, <3>2
  <2>8. CASE d = [first |-> i, low |-> i, high |-> i] /\ new.received = 1
    BY <1>3, <1>8, <2>5, <2>8
  <2>9. CASE d = [first |-> c.first, low |-> Lesser(c.low, i), high |-> Greater(c.high, i)]
             /\ new.received = st.received + 1
    <3>1. PICK low \in Nat, high \in Nat :
            /\ low = Lesser(lo, i) /\ high = Greater(hi, i) /\ low <= lo /\ hi <= high
            /\ i \in low..high /\ high = IF hi < i THEN i ELSE hi
      BY <1>1 DEF Lesser, Greater
    <3>2. d.low = low /\ d.high = high
      BY <2>2, <2>9, <3>1
    <3>3. high <= Last[carried][s]
      BY <1>1, <2>1, <2>2, <3>1
    <3>4. Reach + Jump[carried] < Dropout => high \in top'[s] - Reach..top'[s]
      <4> SUFFICES ASSUME Reach + Jump[carried] < Dropout PROVE high \in top'[s] - Reach..top'[s]
        OBVIOUS
      <4>1. hi \in top[s] - Reach..top[s]
        BY <2>1, <2>2
      <4>2. QED BY <1>1, <1>2, <3>1, <4>1 DEF Greater
    <3>5. secured => srtp'.top # None /\ new.received <= Cardinality(Spent(s, d)')
      <4> SUFFICES ASSUME secured PROVE srtp'.top # None /\ new.received <= Cardinality(Spent(s, d)')
        OBVIOUS
      <4>1. /\ c.low \in Nat /\ c.high \in Nat /\ d.low \in Nat /\ d.high \in Nat /\ c.low <= c.high
            /\ d.low <= c.low /\ c.high <= d.high /\ d.low <= d.high /\ i \in d.low..d.high
        BY <2>2, <3>1, <3>2
      <4>2. /\ srtp'.top # None /\ i \in Spent(s, d)'
            /\ i \notin Spent(s, c) /\ Spent(s, c) \subseteq Spent(s, d)'
        BY <1>1, <1>5, <2>1, <4>1, SpentGrows
      <4>3. Spent(s, c) \in SUBSET (c.low..c.high) /\ Spent(s, d)' \in SUBSET (d.low..d.high)
        BY DEF Spent
      <4>4. PICK S, T : /\ S = Spent(s, c) /\ T = Spent(s, d)' /\ T \in SUBSET (d.low..d.high)
                        /\ S \in SUBSET (c.low..c.high) /\ S \cup {i} \subseteq T /\ i \notin S
        BY <4>2, <4>3
      <4>5. IsFiniteSet(S) /\ IsFiniteSet(T) /\ Cardinality(S) \in Nat /\ Cardinality(T) \in Nat
        BY <4>1, <4>4, PartOf
      <4>6. Cardinality(S \cup {i}) = Cardinality(S) + 1
        BY <4>4, <4>5, FS_AddElement
      <4>7. Cardinality(S) + 1 <= Cardinality(T)
        BY <4>4, <4>5, <4>6, FS_Subset
      <4>8. QED BY <2>1, <2>6, <2>9, <4>2, <4>4, <4>5, <4>7
    <3>6. QED BY <1>3, <1>7, <2>5, <2>6, <3>2, <3>3, <3>4, <3>5
  <2>10. QED BY <2>5, <2>7, <2>8, <2>9
<1>11. QED BY <1>3, <1>9, <1>10

\* Any packet leaves the statistics true.
LEMMA ArriveCounts ==
    ASSUME Followable, KeyedInTime, ReceiveInv, SrtpTrue, StatsTrue, NEW s \in Source,
           NEW i \in 0..Last[carried][s], Arrive(s, i)
    PROVE  StatsTrue'
<1>1. /\ top \in [Source -> Nat \cup {None}] /\ top'[s] = Greater(top[s], i) /\ i \in Nat
      /\ \A r \in Source : r # s => top'[r] = top[r]
      /\ UNCHANGED <<secured, carried>>
  BY ArriveTypes DEF ReceiveInv, ReceiveTypes, Arrive
<1>2. PICK counts, tallies :
        /\ counts = stats /\ tallies = ghost.counted
        /\ counts = [r \in Source |-> counts[r]] /\ tallies = [r \in Source |-> tallies[r]]
        /\ \A r \in Source : StatsOf(r, counts[r], tallies[r])
  BY DEF StatsTrue
<1>3. CASE ~Accepted(s, i)
  <2>1. /\ srtp' = srtp /\ stats' = counts /\ ghost'.counted = tallies
    BY <1>2, <1>3, RefusedGives DEF media
  <2>2. Open(s) => top'[s] = top[s]
    <3> SUFFICES ASSUME Open(s) PROVE top'[s] = top[s]
      OBVIOUS
    <3>1. ~Newer(s, i)
      BY <1>3, FreshAccepted DEF Arrive
    <3>2. QED BY <1>1, <3>1 DEF Newer, Greater, None
  <2>3. ASSUME NEW r \in Source PROVE StatsOf(r, counts[r], tallies[r])'
    <3>1. Open(r) => top'[r] = top[r]
      BY <1>1, <2>2
    <3>2. QED BY <1>1, <1>2, <2>1, <3>1, StatsStay
  <2>4. QED BY <1>2, <2>1, <2>3 DEF StatsTrue
<1>4. CASE Accepted(s, i)
  <2>1. PICK new, d : new = Counted(counts[s], Number(s, i)) /\ d = Count(tallies[s], counts[s], new, i)
    OBVIOUS
  <2>2. stats' = [counts EXCEPT ![s] = new] /\ ghost'.counted = [tallies EXCEPT ![s] = d]
    BY <1>2, <1>4, <2>1, ArriveGives
  <2>3. StatsOf(s, new, d)'
    BY <1>2, <1>4, <2>1, ArriveStats
  <2>4. srtp'.key = srtp.key /\ (secured => srtp.key = s) /\ (~secured => srtp' = srtp)
    BY <1>4 DEF Arrive, Unprotect, Accepted, Authentic, ReceiveInv, ReceiveTypes
  <2>5. ASSUME NEW r \in Source, r # s PROVE StatsOf(r, counts[r], tallies[r])'
    BY <1>1, <1>2, <2>4, <2>5, StatsStay
  <2>6. PICK counts2, tallies2 :
          counts2 = [counts EXCEPT ![s] = new] /\ tallies2 = [tallies EXCEPT ![s] = d]
    OBVIOUS
  <2>7. /\ counts2 = [r \in Source |-> counts2[r]] /\ tallies2 = [r \in Source |-> tallies2[r]]
        /\ \A r \in Source : /\ counts2[r] = (IF r = s THEN new ELSE counts[r])
                             /\ tallies2[r] = (IF r = s THEN d ELSE tallies[r])
    BY <1>2, <2>6
  <2>8. ASSUME NEW r \in Source PROVE StatsOf(r, counts2[r], tallies2[r])'
    BY <2>3, <2>5, <2>7
  <2>9. QED BY <2>2, <2>7, <2>8, <2>6 DEF StatsTrue
<1>5. QED BY <1>3, <1>4

----
(* The waiting *)

\* A buffer that has just been given a packet in its place, or a late one.
Stirred(jb) ==
    /\ jb.far = None /\ jb.run = 0 /\ jb.candidate = None /\ jb.heard = 0
    /\ jb.depth <= Ceiling

\* What is too far, and who else was heard, is forgotten.
LEMMA TakeClears ==
    ASSUME NEW jb \in Buffer, NEW p
    PROVE  LET new == Take(jb, p) IN
           /\ new.far = None /\ new.run = 0 /\ new.candidate = jb.candidate /\ new.heard = jb.heard
           /\ new.depth = jb.depth
           /\ new.packets = IF p.seq \in Numbers(jb) THEN jb.packets ELSE jb.packets \cup {p}
<1>1. PICK b : b = Unbroken(jb)
  OBVIOUS
<1>2. b = [jb EXCEPT !.far = None, !.run = 0]
  BY <1>1 DEF Unbroken
<1>3. PICK high, kept :
        /\ high = (IF b.highest = None \/ SeqBefore(b.highest, p.seq) THEN p.seq ELSE b.highest)
        /\ kept = (IF p.seq \in Numbers(jb) THEN b.packets ELSE b.packets \cup {p})
  OBVIOUS
<1>4. PICK new : new = Take(jb, p)
  OBVIOUS
<1>5. new = [b EXCEPT !.highest = high, !.packets = kept]
  BY <1>1, <1>3, <1>4 DEF Take
<1>6. new.far = None /\ new.run = 0 /\ new.candidate = jb.candidate /\ new.heard = jb.heard
      /\ new.depth = jb.depth /\ new.packets = kept
  BY <1>2, <1>5 DEF Buffer
<1>7. b.packets = jb.packets
  BY <1>2 DEF Buffer
<1>8. QED BY <1>3, <1>4, <1>6, <1>7

\* The depth stays below its ceiling.
LEMMA GrowsTo ==
    ASSUME NEW jb \in Buffer, jb.depth <= Ceiling
    PROVE  /\ Grow(jb).depth <= Ceiling /\ Grow(jb).candidate = jb.candidate
           /\ Grow(jb).heard = jb.heard
<1>1. Ceiling \in Nat /\ jb.depth \in Nat
  BY JitterAssumption DEF Buffer
<1>2. PICK d \in Nat : d = (IF jb.depth < Ceiling THEN jb.depth + 1 ELSE jb.depth) /\ d <= Ceiling
  BY <1>1
<1>3. PICK new : new = Grow(jb) /\ new = [jb EXCEPT !.depth = d, !.clean = 0]
  BY <1>2 DEF Grow
<1>4. new.depth = d /\ new.candidate = jb.candidate /\ new.heard = jb.heard
  BY <1>3 DEF Buffer
<1>5. QED BY <1>2, <1>3, <1>4

\* A packet of the source that is played: it stirs the buffer, or is one more of those
\* that are too far.  The newest yet is waited with, or ends the waiting.
LEMMA PlayedOn ==
    ASSUME NEW s \in Source, NEW slot \in Int, NEW newest \in Int, NEW i \in Nat, NEW jb \in Buffer,
           IsFiniteSet(jb.packets), Fits(jb, s, slot), Waits(jb, s, slot, newest),
           slot <= newest, \A p \in jb.packets : p.idx <= newest,
           i - slot \in -(SeqMod \div 2)..SeqMod \div 2, i >= slot - Reach
    PROVE  LET new == Push(jb, RtpPacket(s, i)) IN
           /\ Stirred(new) \/ Waits(new, s, slot, Greater(newest, i))
           /\ new.candidate = None
           /\ i > newest => \/ Due(new) # {}
                            \/ Cardinality(new.packets) + new.run
                                 >= Cardinality(jb.packets) + jb.run + 1
<1>1. PICK p : p = RtpPacket(s, i)
  OBVIOUS
<1>2. p.seq = Number(s, i) /\ p.seq \in Int /\ p.ssrc = s /\ p.idx = i /\ p.seq # None
  BY <1>1, NumbersApart, Halves DEF RtpPacket, None
<1>3. PICK b : b = [jb EXCEPT !.ssrc = p.ssrc, !.candidate = None, !.heard = 0]
  OBVIOUS
<1>4. /\ b \in Buffer /\ b.ssrc = s /\ b.packets = jb.packets /\ b.next = jb.next
      /\ b.depth = jb.depth /\ b.far = jb.far /\ b.run = jb.run /\ b.candidate = None /\ b.heard = 0
  <2>1. None \in Int /\ 0 \in Int
    BY DEF None
  <2>2. QED BY <1>2, <1>3, <2>1 DEF Buffer
<1>5. PICK new : new = Push(jb, p) /\ new = Enqueue(b, p)
  BY <1>2, <1>3 DEF Push, Fits
<1>6. /\ jb.depth <= Ceiling /\ Due(jb) = {} /\ Cardinality(jb.packets) < jb.depth
      /\ jb.run \in 0..ReanchorAfter - 1 /\ (jb.far = None => jb.run = 0)
      /\ jb.far # None => \E j \in slot + 2 + MaxAhead..newest : jb.far = Number(s, j)
  BY DEF Waits
<1>7. /\ b.next = Number(s, slot + 1) /\ b.next # None /\ b.next \in Int /\ jb.depth \in Nat
      /\ Cardinality(jb.packets) \in Nat /\ jb.run \in Int /\ ReanchorAfter \in Nat
  <2>1. b.next = Number(s, slot + 1)
    BY <1>4 DEF Fits
  <2>2. Number(s, slot + 1) \in Nat
    BY 0 \in Int, NextNumber
  <2>3. jb.depth \in Nat /\ jb.run \in Int
    BY DEF Buffer
  <2>4. Cardinality(jb.packets) \in Nat /\ ReanchorAfter \in Nat
    BY FS_CardinalityType, JitterAssumption
  <2>5. QED BY <2>1, <2>2, <2>3, <2>4 DEF None
<1>8. Late(b, p) <=> i < slot + 1
  BY <1>2, <1>4, <1>7, LateIsBefore
<1>9. i >= slot + 1 => (TooFar(b, p) <=> i > slot + 1 + MaxAhead)
  <2> SUFFICES ASSUME i >= slot + 1 PROVE TooFar(b, p) <=> i > slot + 1 + MaxAhead
    OBVIOUS
  <2>1. PICK n \in Int : n = slot + 1
    OBVIOUS
  <2>2. i - n \in 0..SeqMod \div 2
    BY <2>1, Halves
  <2>3. SeqAhead(b.next, p.seq) = i - n
    BY <1>2, <1>7, <2>1, <2>2, AheadBy
  <2>4. QED BY <2>1, <2>3, Halves DEF TooFar
<1>10. CASE Late(b, p)
  <2>1. ~(i > newest)
    BY <1>8, <1>10
  <2>2. PICK g : g = (IF SeqAhead(p.seq, b.next) <= MaxAhead THEN Grow(b) ELSE b)
    OBVIOUS
  <2>3. g \in Buffer /\ g.depth <= Ceiling /\ g.candidate = None /\ g.heard = 0
    BY <1>4, <1>6, <2>2, Grows, GrowsTo DEF Like
  <2>4. new = [g EXCEPT !.far = None, !.run = 0]
    BY <1>5, <1>7, <1>10, <2>2 DEF Enqueue, Unbroken
  <2>5. Stirred(new)
    BY <2>3, <2>4 DEF Stirred, Buffer
  <2>6. QED BY <1>1, <1>5, <2>1, <2>5 DEF Stirred
<1>11. CASE ~Late(b, p) /\ TooFar(b, p)
  <2>1. i > slot + 1 + MaxAhead
    BY <1>8, <1>9, <1>11
  <2>2. Stranded(b)
    <3>1. b.next \notin Numbers(b)
      BY <1>4, <1>6 DEF Due, Numbers
    <3>2. QED BY <1>4, <1>6, <3>1 DEF Stranded
  <2>3. PICK forward : forward = (b.far # None /\ SeqBefore(b.far, p.seq))
    OBVIOUS
  <2>4. PICK run \in Nat : run = (IF b.far # None /\ SeqBefore(b.far, p.seq) THEN b.run + 1 ELSE 1)
    BY <1>4, <1>6, <1>7
  <2>5. i > newest => run = jb.run + 1
    <3> SUFFICES ASSUME i > newest PROVE run = jb.run + 1
      OBVIOUS
    <3>1. CASE jb.far = None
      BY <1>4, <1>6, <2>4, <3>1
    <3>2. CASE jb.far # None
      <4>1. PICK j \in Int : j \in slot + 2 + MaxAhead..newest /\ b.far = Number(s, j)
        BY <1>4, <1>6, <3>2
      <4>2. i - j \in 1..SeqMod \div 2 - 1
        BY <2>1, <4>1, Halves
      <4>3. SeqAhead(b.far, p.seq) = i - j
        BY <1>2, <4>1, <4>2, AheadBy, Halves
      <4>4. b.far # p.seq
        BY <1>2, <4>1, <4>2, NumberOnce, Halves
      <4>5. SeqBefore(b.far, p.seq)
        BY <4>2, <4>3, <4>4, Halves DEF SeqBefore
      <4>6. QED BY <1>4, <2>4, <3>2, <4>5
    <3>3. QED BY <3>1, <3>2
  <2>6. new = IF run < ReanchorAfter THEN [b EXCEPT !.far = p.seq, !.run = run]
              ELSE Take([b EXCEPT !.packets = {}, !.next = p.seq], p)
    BY <1>5, <1>7, <1>11, <2>2, <2>4 DEF Enqueue, Beyond
  <2>7. CASE run < ReanchorAfter
    <3>1. /\ new.packets = jb.packets /\ new.depth = jb.depth /\ new.next = jb.next
          /\ new.far = Number(s, i) /\ new.run = run /\ new.candidate = None /\ new.heard = 0
      BY <1>2, <1>4, <2>6, <2>7 DEF Buffer
    <3>2. i \in slot + 2 + MaxAhead..Greater(newest, i)
      BY <2>1, Halves DEF Greater
    <3>3. new.far # None
      BY <1>2, <3>1
    <3>4. run \in 0..ReanchorAfter - 1
      BY <1>7, <2>7
    <3>5. 0 \in 0..Hysteresis - 1 /\ None # s
      BY JitterAssumption DEF None, Source
    <3>6. Due(new) = {}
      BY <1>6, <3>1 DEF Due
    <3>7. Waits(new, s, slot, Greater(newest, i))
      BY <1>6, <3>1, <3>2, <3>3, <3>4, <3>5, <3>6 DEF Waits
    <3>8. QED BY <1>1, <1>5, <1>7, <2>5, <3>1, <3>7
  <2>8. CASE ~(run < ReanchorAfter)
    <3>1. PICK e : e = [b EXCEPT !.packets = {}, !.next = p.seq]
      OBVIOUS
    <3>2. /\ e \in Buffer /\ e.ssrc = s /\ e.packets = {} /\ e.next = Number(s, i)
          /\ e.depth = jb.depth /\ e.candidate = None /\ e.heard = 0
      BY <1>2, <1>4, <3>1 DEF Buffer
    <3>3. new = Take(e, RtpPacket(s, i))
      BY <1>1, <2>6, <2>8, <3>1
    <3>4. jb.depth >= 1
      BY DEF Fits
    <3>5. Due(new) # {}
      BY <3>2, <3>3, <3>4, TakesFirst
    <3>6. /\ new.far = None /\ new.run = 0 /\ new.candidate = e.candidate
          /\ new.heard = e.heard /\ new.depth = e.depth
      BY <3>2, <3>3, TakeClears
    <3>7. Stirred(new)
      BY <1>6, <3>2, <3>6 DEF Stirred
    <3>8. QED BY <1>1, <1>5, <3>5, <3>7 DEF Stirred
  <2>9. QED BY <2>7, <2>8
<1>12. CASE ~Late(b, p) /\ ~TooFar(b, p)
  <2>1. i \in slot + 1..slot + 1 + MaxAhead
    BY <1>8, <1>9, <1>12, Halves
  <2>2. PICK g : g = (IF WideReorder(b, p) THEN Grow(b) ELSE b)
    OBVIOUS
  <2>3. g \in Buffer /\ g.depth <= Ceiling /\ g.candidate = None /\ g.heard = 0
        /\ g.packets = jb.packets
    BY <1>4, <1>6, <2>2, Grows, GrowsTo DEF Like
  <2>4. new = Take(g, p)
    BY <1>5, <1>7, <1>12, <2>2 DEF Enqueue
  <2>5. Stirred(new) /\ new.packets = IF p.seq \in Numbers(g) THEN g.packets ELSE g.packets \cup {p}
    BY <2>3, <2>4, TakeClears DEF Stirred
  <2>6. ASSUME i > newest
        PROVE  Cardinality(new.packets) + new.run >= Cardinality(jb.packets) + jb.run + 1
    <3>1. jb.run = 0
      BY <1>6, <2>1, <2>6, Halves
    <3>2. \A q \in jb.packets : q.idx \in Int /\ q.idx < i /\ q.idx >= slot + 1
                                 /\ q.seq = Number(s, q.idx)
      <4> TAKE q \in jb.packets
      <4>1. q = RtpPacket(s, q.idx) /\ q.idx \in slot + 1..slot + 1 + MaxAhead
        BY DEF Fits
      <4>2. q.seq = Number(s, q.idx)
        BY <4>1 DEF RtpPacket
      <4>3. QED BY <2>6, <4>1, <4>2, Halves
    <3>3. \A q \in jb.packets : q.seq # p.seq
      <4> SUFFICES ASSUME NEW q \in jb.packets, q.seq = p.seq PROVE FALSE
        OBVIOUS
      <4>1. PICK j \in Int : j = q.idx /\ j < i /\ j >= slot + 1 /\ q.seq = Number(s, j)
        BY <3>2
      <4>2. i - j \in 0..SeqMod \div 2
        BY <2>1, <4>1, Halves
      <4>3. QED BY <1>2, <4>1, <4>2, NumberOnce
    <3>4. p.seq \notin Numbers(g) /\ p \notin jb.packets
      BY <2>3, <3>3 DEF Numbers
    <3>5. Cardinality(jb.packets \cup {p}) = Cardinality(jb.packets) + 1
      BY <3>4, FS_AddElement
    <3>6. new.packets = jb.packets \cup {p} /\ new.run = 0
      BY <2>3, <2>5, <3>4 DEF Stirred
    <3>7. QED BY <1>7, <3>1, <3>5, <3>6
  <2>7. QED BY <1>1, <1>5, <2>5, <2>6 DEF Stirred
<1>13. QED BY <1>10, <1>11, <1>12

\* The first packet of a source is given at once.
LEMMA FirstStirs ==
    ASSUME NEW s \in Source, NEW i \in Nat
    PROVE  LET new == Enqueue(Empty(s), RtpPacket(s, i)) IN Stirred(new) /\ Due(new) # {}
<1>1. PICK p : p = RtpPacket(s, i)
  OBVIOUS
<1>2. p.seq \in Int
  BY <1>1, NumbersApart DEF RtpPacket
<1>3. PICK e : e = Empty(s) /\ e \in Buffer /\ e.packets = {} /\ e.next = None /\ e.ssrc = s
             /\ e.depth >= 1
  BY EmptyIs
<1>4. e.depth <= Ceiling /\ e.candidate = None /\ e.heard = 0
  BY <1>3, JitterAssumption DEF Empty
<1>5. PICK b : b = [e EXCEPT !.next = p.seq]
  OBVIOUS
<1>6. b \in Buffer /\ b.depth <= Ceiling /\ b.candidate = None /\ b.heard = 0
  BY <1>3, <1>4, <1>5, <1>2 DEF Buffer
<1>7. PICK new : new = Take(b, p)
  OBVIOUS
<1>8. new = Enqueue(e, p)
  BY <1>3, <1>5, <1>7 DEF Enqueue
<1>9. Stirred(new)
  BY <1>6, <1>7, TakeClears DEF Stirred
<1>10. Due(new) # {}
  BY <1>1, <1>3, <1>8, EnqueuesFirst
<1>11. QED BY <1>1, <1>3, <1>8, <1>9, <1>10

\* Another source is waited with until it is the one that is played.
LEMMA HeardApart ==
    ASSUME NEW home \in Source, NEW s \in Source, s # home, NEW slot \in Int, NEW newest \in Int,
           NEW i \in Nat, NEW jb \in Buffer, Fits(jb, home, slot), Waits(jb, home, slot, newest)
    PROVE  LET new == Push(jb, RtpPacket(s, i)) IN
           \/ Stirred(new) /\ Due(new) # {}
           \/ /\ Waits(new, home, slot, newest) /\ new.candidate = s
              /\ new.packets = jb.packets /\ new.run = jb.run
              /\ new.heard = IF jb.candidate = s THEN jb.heard + 1 ELSE 1
<1>1. PICK p : p = RtpPacket(s, i)
  OBVIOUS
<1>2. p = RtpPacket(s, i) /\ p.ssrc = s
  BY <1>1 DEF RtpPacket
<1>3. PICK h : h = (IF jb.candidate = s THEN jb.heard + 1 ELSE 1) /\ h = HeardInARow(jb, p)
  BY <1>2 DEF HeardInARow
<1>4. PICK new : new = Push(jb, p)
  OBVIOUS
<1>5. jb.ssrc \notin {None, p.ssrc}
  BY <1>2 DEF Fits, None, Source
<1>6. CASE h < Hysteresis
  <2>1. new = [jb EXCEPT !.candidate = s, !.heard = h]
    BY <1>2, <1>3, <1>4, <1>5, <1>6 DEF Push
  <2>2. /\ new.packets = jb.packets /\ new.depth = jb.depth /\ new.next = jb.next
        /\ new.far = jb.far /\ new.run = jb.run /\ new.candidate = s /\ new.heard = h
    BY <2>1 DEF Buffer
  <2>3. h \in 0..Hysteresis - 1
    <3>1. Hysteresis \in Nat /\ jb.heard \in 0..Hysteresis - 1
      BY JitterAssumption DEF Waits
    <3>2. QED BY <1>3, <1>6, <3>1
  <2>4. Due(new) = {}
    BY <2>2 DEF Waits, Due
  <2>5. Waits(new, home, slot, newest)
    BY <2>2, <2>3, <2>4 DEF Waits
  <2>6. QED BY <1>2, <1>3, <1>4, <2>2, <2>5
<1>7. CASE ~(h < Hysteresis)
  <2>1. new = Enqueue(Empty(s), p)
    BY <1>2, <1>3, <1>4, <1>5, <1>7 DEF Push
  <2>2. Stirred(new) /\ Due(new) # {}
    BY <1>2, <2>1, FirstStirs
  <2>3. QED BY <1>2, <1>4, <2>2
<1>8. QED BY <1>6, <1>7

\* The same, of any packet that is taken: one that is newer than any before ends the
\* waiting or is one more that is waited with.
LEMMA PushWaits ==
    ASSUME NEW s \in Source, NEW i \in Nat, NEW jb, NEW home, NEW slot \in Int, NEW t,
           \A r \in Source : t[r] \in Int,
           \/ home = None /\ jb = Empty(None)
           \/ /\ home \in Source /\ jb \in Buffer /\ IsFiniteSet(jb.packets) /\ Fits(jb, home, slot)
              /\ Waits(jb, home, slot, t[home]) /\ slot <= t[home]
              /\ \A p \in jb.packets : p.idx <= t[home],
           home = s => i - slot \in -(SeqMod \div 2)..SeqMod \div 2 /\ i >= slot - Reach,
           i > t[s] /\ s = 1 => home # 2 /\ jb.candidate # 2
    PROVE  LET new == Push(jb, RtpPacket(s, i)) IN
           /\ \/ Stirred(new)
              \/ home \in Source /\ Waits(new, home, slot, IF home = s THEN Greater(t[s], i) ELSE t[home])
           /\ new.candidate \in {None, s}
           /\ home = None => Due(new) # {}
           /\ i > t[s] => Due(new) # {} \/ Waited(new) >= Waited(jb) + 1
<1>1. PICK new : new = Push(jb, RtpPacket(s, i))
  OBVIOUS
<1>2. None \notin Source
  BY DEF None, Source
<1>3. CASE home = None
  <2>1. PICK p : p = RtpPacket(s, i)
    OBVIOUS
  <2>2. p = RtpPacket(s, i) /\ p.ssrc = s
    BY <2>1 DEF RtpPacket
  <2>3. jb = Empty(None) /\ jb.ssrc = None
    BY <1>2, <1>3 DEF Empty
  <2>4. PICK b : b = [jb EXCEPT !.ssrc = p.ssrc, !.candidate = None, !.heard = 0]
    OBVIOUS
  <2>5. b = Empty(s)
    BY <2>2, <2>3, <2>4 DEF Empty
  <2>6. new = Enqueue(Empty(s), p)
    BY <1>1, <2>2, <2>5, <2>3, <2>4 DEF Push
  <2>7. Stirred(new) /\ Due(new) # {}
    BY <2>2, <2>6, FirstStirs
  <2>8. QED BY <1>1, <2>7 DEF Stirred
<1>4. CASE home = s
  <2>1. /\ jb \in Buffer /\ IsFiniteSet(jb.packets) /\ Fits(jb, s, slot)
        /\ Waits(jb, s, slot, t[s]) /\ slot <= t[s]
        /\ \A p \in jb.packets : p.idx <= t[s]
    BY <1>2, <1>4
  <2>2. PICK newest \in Int : newest = t[s]
    OBVIOUS
  <2>3. /\ Stirred(new) \/ Waits(new, s, slot, Greater(newest, i))
        /\ new.candidate = None
        /\ i > newest => \/ Due(new) # {}
                         \/ Cardinality(new.packets) + new.run
                              >= Cardinality(jb.packets) + jb.run + 1
    BY <1>1, <1>4, <2>1, <2>2, PlayedOn
  <2>4. i > newest => jb.candidate # 2
    <3>1. s = 2 => jb.candidate # 2
      BY <2>1 DEF Waits
    <3>2. QED BY <2>2, <3>1 DEF Source
  <2>5. /\ Cardinality(jb.packets) \in Nat /\ jb.run \in Int /\ new.run \in Int
        /\ Cardinality(new.packets) \in Nat
    <3>1. new \in Buffer /\ IsFiniteSet(new.packets)
      BY <1>1, <1>4, <2>1, Pushes
    <3>2. QED BY <2>1, <3>1, FS_CardinalityType DEF Buffer
  <2>6. i > newest => Due(new) # {} \/ Waited(new) >= Waited(jb) + 1
    <3>1. Waited(new) = Cardinality(new.packets) + new.run
      BY <2>3, <2>5 DEF Waited, None
    <3>2. i > newest => Waited(jb) = Cardinality(jb.packets) + jb.run
      BY <2>4, <2>5 DEF Waited
    <3>3. QED BY <2>3, <3>1, <3>2
  <2>7. QED BY <1>1, <1>2, <1>4, <2>2, <2>3, <2>6
<1>5. CASE home \in Source /\ home # s
  <2>1. /\ jb \in Buffer /\ IsFiniteSet(jb.packets) /\ Fits(jb, home, slot)
        /\ Waits(jb, home, slot, t[home]) /\ t[home] \in Int
    BY <1>2, <1>5
  <2>2. \/ Stirred(new) /\ Due(new) # {}
        \/ /\ Waits(new, home, slot, t[home]) /\ new.candidate = s
           /\ new.packets = jb.packets /\ new.run = jb.run
           /\ new.heard = IF jb.candidate = s THEN jb.heard + 1 ELSE 1
    BY <1>1, <1>5, <2>1, HeardApart
  <2>3. CASE Stirred(new) /\ Due(new) # {}
    BY <1>1, <1>2, <1>5, <2>3 DEF Stirred
  <2>4. CASE /\ Waits(new, home, slot, t[home]) /\ new.candidate = s
             /\ new.packets = jb.packets /\ new.run = jb.run
             /\ new.heard = IF jb.candidate = s THEN jb.heard + 1 ELSE 1
    <3>1. ASSUME i > t[s] PROVE Waited(new) >= Waited(jb) + 1
      <4>1. s = 2
        BY <1>5, <3>1 DEF Source
      <4>2. PICK n \in Nat, r \in Int : n = Cardinality(jb.packets) /\ r = jb.run
        BY <2>1, FS_CardinalityType DEF Buffer
      <4>3. jb.heard \in Int
        BY <2>1 DEF Buffer
      <4>4. QED BY <2>4, <4>1, <4>2, <4>3 DEF Waited
    <3>2. QED BY <1>1, <1>2, <1>5, <2>4, <3>1
  <2>5. QED BY <2>2, <2>3, <2>4
<1>6. QED BY <1>3, <1>4, <1>5

\* How long it waits has an end.
LEMMA WaitedIs ==
    ASSUME NEW jb \in Buffer, IsFiniteSet(jb.packets), NEW s, NEW slot, NEW newest,
           Waits(jb, s, slot, newest)
    PROVE  Waited(jb) \in 0..(Ceiling - 1) + (ReanchorAfter - 1) + (Hysteresis - 1)
<1>1. PICK n \in Nat, r \in Int, h \in Int, depth \in Nat :
        n = Cardinality(jb.packets) /\ r = jb.run /\ h = jb.heard /\ depth = jb.depth
  BY FS_CardinalityType DEF Buffer
<1>2. /\ depth <= Ceiling /\ n < depth /\ r \in 0..ReanchorAfter - 1 /\ h \in 0..Hysteresis - 1
      /\ Ceiling \in Nat /\ ReanchorAfter \in Nat /\ Hysteresis \in Nat
  BY <1>1, JitterAssumption DEF Waits
<1>3. Waited(jb) = n + r + (IF jb.candidate = 2 THEN h ELSE 0)
  BY <1>1 DEF Waited
<1>4. QED BY <1>1, <1>2, <1>3

\* A packet keeps the waiting true: what gives nothing to the call is waited with.
LEMMA ArriveWaits ==
    ASSUME Followable, KeyedInTime, ReceiveInv, SrtpTrue, WaitTrue, NEW s \in Source,
           NEW i \in 0..Last[carried][s], Arrive(s, i)
    PROVE  WaitTrue'
<1>1. /\ i \in Nat /\ i >= top[s] - Reach /\ top'[s] = Greater(top[s], i)
      /\ top' \in [Source -> Nat \cup {None}] /\ top \in [Source -> Nat \cup {None}]
      /\ \A r \in Source : /\ top'[r] >= top[r] /\ top[r] \in Int /\ top'[r] \in Int
                           /\ r # s => top'[r] = top[r]
  BY ArriveTypes DEF ReceiveInv, ReceiveTypes, None
<1>2. PICK jb, home, slot, t, u, silent :
        jb = jitter /\ home = ghost.home /\ slot = ghost.slot /\ t = top /\ u = top'
        /\ silent = ghost.silent
  OBVIOUS
<1>3. /\ slot \in Int /\ home \in Source \cup {None} /\ None \notin Source
      /\ home = None => jb = Empty(None)
      /\ home # None =>
           /\ jb \in Buffer /\ IsFiniteSet(jb.packets) /\ Fits(jb, home, slot)
           /\ slot <= t[home] /\ \A p \in jb.packets : p.idx <= t[home]
  BY <1>2 DEF ReceiveInv, JitterTrue, None, Source
<1>4. /\ silent \in Nat /\ silent <= Waited(jb)
      /\ home # None => Waits(jb, home, slot, t[home])
      /\ home = 2 \/ jb.candidate = 2 => t[2] # None
  BY <1>2 DEF WaitTrue
<1>5. /\ u[s] = Greater(t[s], i)
      /\ \A r \in Source : t[r] \in Int /\ u[r] \in Int /\ u[r] >= t[r] /\ (r # s => u[r] = t[r])
  BY <1>1, <1>2
<1>6. t[2] # None => u[2] # None
  BY <1>1, <1>2, <1>5 DEF Source, None
<1>7. s = 2 => u[2] # None
  BY <1>1, <1>5 DEF Greater, None
<1>8. CASE ~Accepted(s, i)
  <2>1. /\ jitter' = jb /\ ghost'.home = home /\ ghost'.slot = slot
        /\ ghost'.silent = IF Newer(s, i) /\ srtp.key = s THEN ghost.silent + 1 ELSE 0
    BY <1>2, <1>8, RefusedGives DEF media
  <2>2. Newer(s, i) => srtp.key # s
    <3> SUFFICES ASSUME Newer(s, i), srtp.key = s PROVE FALSE
      OBVIOUS
    <3>1. Open(s) /\ MayArrive(s, i)
      BY DEF Open, Arrive
    <3>2. QED BY <1>8, <3>1, FreshAccepted
  <2>3. ghost'.silent = 0
    BY <2>1, <2>2
  <2>4. home # None => Waits(jb, home, slot, u[home])
    <3> SUFFICES ASSUME home # None PROVE Waits(jb, home, slot, u[home])
      OBVIOUS
    <3>1. Waits(jb, home, slot, t[home]) /\ u[home] >= t[home] /\ u[home] \in Int /\ t[home] \in Int
      BY <1>3, <1>4, <1>5
    <3>2. QED BY <1>3, <3>1, Halves DEF Waits
  <2>5. 0 <= Waited(jb)
    <3>1. CASE home = None
      BY <1>4, <3>1, <1>3, FS_EmptySet DEF Empty, Waited, None
    <3>2. CASE home # None
      BY <1>3, <1>4, <3>2, WaitedIs
    <3>3. QED BY <3>1, <3>2
  <2>6. QED BY <1>2, <1>4, <1>6, <2>1, <2>3, <2>4, <2>5 DEF WaitTrue
<1>9. CASE Accepted(s, i)
  <2>1. Newer(s, i) <=> i > t[s]
    BY <1>2 DEF Newer
  <2>2. i > t[s] /\ s = 1 => home # 2 /\ jb.candidate # 2
    <3> SUFFICES ASSUME i > t[s], s = 1 PROVE home # 2 /\ jb.candidate # 2
      OBVIOUS
    <3>1. t[2] = None
      BY <1>2, <2>1 DEF Arrive, MayArrive
    <3>2. QED BY <1>4, <3>1
  <2>3. home = s => i - slot \in -(SeqMod \div 2)..SeqMod \div 2 /\ i >= slot - Reach
    <3> SUFFICES ASSUME home = s PROVE i - slot \in -(SeqMod \div 2)..SeqMod \div 2 /\ i >= slot - Reach
      OBVIOUS
    <3>1. i - slot \in -(SeqMod \div 2)..SeqMod \div 2
      BY <1>2 DEF Arrive, MayArrive, Within
    <3>2. slot <= t[s]
      BY <1>3
    <3>3. QED BY <1>1, <1>2, <1>3, <1>5, <3>1, <3>2, Halves
  <2>4. PICK new, d : new = Push(jb, RtpPacket(s, i)) /\ d = Drain(new)
    OBVIOUS
  <2>5. /\ jitter' = d.jb /\ ghost'.home = d.jb.ssrc
        /\ ghost'.slot = IF d.out = <<>> THEN slot ELSE d.out[Len(d.out)].idx
        /\ ghost'.silent = IF d.out = <<>> /\ Newer(s, i) THEN silent + 1 ELSE 0
    BY <1>2, <1>9, <2>4, ArriveGives
  <2>6. /\ \/ Stirred(new)
           \/ home \in Source
              /\ Waits(new, home, slot, IF home = s THEN Greater(t[s], i) ELSE t[home])
        /\ new.candidate \in {None, s}
        /\ home = None => Due(new) # {}
        /\ i > t[s] => Due(new) # {} \/ Waited(new) >= Waited(jb) + 1
    <3>1. \/ home = None /\ jb = Empty(None)
          \/ /\ home \in Source /\ jb \in Buffer /\ IsFiniteSet(jb.packets) /\ Fits(jb, home, slot)
             /\ Waits(jb, home, slot, t[home]) /\ slot <= t[home]
             /\ \A p \in jb.packets : p.idx <= t[home]
      BY <1>3, <1>4
    <3>2. \A r \in Source : t[r] \in Int
      BY <1>5
    <3>3. i \in Nat /\ slot \in Int
      BY <1>1, <1>3
    <3>4. LET pushed == Push(jb, RtpPacket(s, i)) IN
          /\ \/ Stirred(pushed)
             \/ home \in Source
                /\ Waits(pushed, home, slot, IF home = s THEN Greater(t[s], i) ELSE t[home])
          /\ pushed.candidate \in {None, s}
          /\ home = None => Due(pushed) # {}
          /\ i > t[s] => Due(pushed) # {} \/ Waited(pushed) >= Waited(jb) + 1
      BY <2>2, <2>3, <3>1, <3>2, <3>3, PushWaits
    <3>5. QED BY <2>4, <3>4
  <2>7. /\ new \in Buffer /\ IsFiniteSet(new.packets)
        /\ \/ home \in Source /\ Fits(new, home, slot)
           \/ Fits(new, s, i - 1) /\ Due(new) # {}
    <3>1. \/ home = None /\ jb = Empty(None)
          \/ home \in Source /\ jb \in Buffer /\ IsFiniteSet(jb.packets) /\ Fits(jb, home, slot)
      BY <1>3
    <3>2. QED BY <1>1, <1>3, <2>3, <2>4, <3>1, Pushes
  <2>8. PICK source \in Source, from \in Int :
          /\ Fits(new, source, from) /\ source \in {home, s}
          /\ (from = slot /\ home = source) \/ Due(new) # {}
    <3>1. CASE home \in Source /\ Fits(new, home, slot)
      BY <1>3, <3>1
    <3>2. CASE Fits(new, s, i - 1) /\ Due(new) # {}
      <4>1. PICK from \in Int : from = i - 1
        BY <1>1
      <4>2. QED BY <3>2, <4>1
    <3>3. QED BY <2>7, <3>1, <3>2
  <2>9. /\ Going(d, new, source, from)
        /\ Due(new) # {} => d.out # <<>>
        /\ Quiet(d)
        /\ d.out = <<>> => d.jb = new
        /\ Quiet([jb |-> new, out |-> <<>>]) => d.out = <<>>
    BY <2>4, <2>7, <2>8, DrainGives
  <2>10. /\ d.jb \in Buffer /\ d.jb.packets \subseteq new.packets /\ Untouched(d.jb, new)
         /\ Fits(d.jb, source, from + Len(d.out)) /\ Len(d.out) \in Int
    BY <2>9 DEF Going
  <2>11. /\ d.jb.ssrc = source /\ d.jb.next # None /\ IsFiniteSet(d.jb.packets)
    <3>1. d.jb.ssrc = source /\ d.jb.next = Number(source, from + Len(d.out) + 1)
      BY <2>10 DEF Fits
    <3>2. PICK n \in Int : n = from + Len(d.out)
      BY <2>10
    <3>3. Number(source, n + 1) \in Nat
      BY 0 \in Int, <3>2, NextNumber
    <3>4. QED BY <2>7, <2>10, <3>1, <3>2, <3>3, FS_Subset DEF None
  <2>12. Due(d.jb) = {} /\ Cardinality(d.jb.packets) < d.jb.depth
    <3>1. Cardinality(d.jb.packets) \in Nat /\ d.jb.depth \in Nat
      BY <2>10, <2>11, FS_CardinalityType DEF Buffer
    <3>2. QED BY <2>9, <2>11, <3>1 DEF Quiet
  <2>13. ~Stirred(new) => d.out = <<>>
    <3> SUFFICES ASSUME ~Stirred(new) PROVE d.out = <<>>
      OBVIOUS
    <3>1. Due(new) = {} /\ Cardinality(new.packets) < new.depth
      BY <2>6 DEF Waits
    <3>2. Cardinality(new.packets) \in Nat /\ new.depth \in Nat
      BY <2>7, FS_CardinalityType DEF Buffer
    <3>3. Quiet([jb |-> new, out |-> <<>>])
      BY <3>1, <3>2 DEF Quiet
    <3>4. QED BY <2>9, <3>3
  <2>14. PICK next : next = (IF d.out = <<>> THEN slot ELSE d.out[Len(d.out)].idx)
    OBVIOUS
  <2>15. Waits(d.jb, source, next, u[source])
    <3>1. CASE Stirred(new)
      <4>1. /\ d.jb.far = None /\ d.jb.run = 0 /\ d.jb.candidate = None /\ d.jb.heard = 0
            /\ d.jb.depth <= new.depth /\ new.depth <= Ceiling
            /\ d.jb.depth \in Nat /\ new.depth \in Nat /\ Ceiling \in Nat
        BY <2>7, <2>10, <3>1, JitterAssumption DEF Stirred, Untouched, Buffer
      <4>2. 0 \in 0..ReanchorAfter - 1 /\ 0 \in 0..Hysteresis - 1 /\ d.jb.depth <= Ceiling
        BY <4>1, JitterAssumption
      <4>3. QED BY <1>3, <2>12, <4>1, <4>2 DEF Waits
    <3>2. CASE ~Stirred(new)
      <4>1. d.jb = new /\ next = slot /\ Due(new) = {}
        BY <2>9, <2>12, <2>13, <2>14, <3>2
      <4>2. source = home
        BY <2>8, <4>1
      <4>3. u[home] = IF home = s THEN Greater(t[s], i) ELSE t[home]
        BY <1>5, <4>2
      <4>4. QED BY <2>6, <3>2, <4>1, <4>2, <4>3
    <3>3. QED BY <3>1, <3>2
  <2>16. Waited(d.jb) \in Nat
    BY <2>10, <2>11, <2>15, WaitedIs, JitterAssumption
  <2>17. d.out = <<>> /\ i > t[s] => silent + 1 <= Waited(d.jb)
    <3> SUFFICES ASSUME d.out = <<>>, i > t[s] PROVE silent + 1 <= Waited(d.jb)
      OBVIOUS
    <3>1. Waited(d.jb) >= Waited(jb) + 1
      BY <2>6, <2>9
    <3>2. Waited(jb) \in Int
      <4>1. home # None
        BY <2>6, <2>9
      <4>2. QED BY <1>3, <1>4, <4>1, WaitedIs, JitterAssumption
    <3>3. QED BY <1>4, <2>16, <3>1, <3>2
  <2>18. source = 2 \/ d.jb.candidate = 2 => u[2] # None
    <3>1. source = 2 => u[2] # None
      BY <1>4, <1>6, <1>7, <2>8
    <3>2. d.jb.candidate = 2 => s = 2
      BY <2>6, <2>10 DEF Untouched, None
    <3>3. QED BY <1>7, <3>1, <3>2
  <2>19. QED
    <3>1. ghost'.silent \in Nat /\ ghost'.silent <= Waited(d.jb)
      BY <1>4, <2>1, <2>5, <2>16, <2>17
    <3>2. /\ jitter' = d.jb /\ ghost'.home = source /\ ghost'.slot = next /\ top' = u
      BY <1>2, <2>5, <2>11, <2>14
    <3>3. QED BY <2>15, <2>18, <3>1, <3>2 DEF WaitTrue
<1>10. QED BY <1>8, <1>9

----
(* The stream is followed: the steps *)

\* At the beginning nothing has arrived.
LEMMA FollowInitial == ReceiveInit => FollowInv
<1> SUFFICES ASSUME ReceiveInit PROVE FollowInv
  OBVIOUS
<1>1. SrtpTrue
  BY DEF ReceiveInit, SrtpTrue, Unheard, Source
<1>2. StatsTrue
  <2>1. \A s \in Source : stats[s] = NoStats
    BY DEF ReceiveInit
  <2>2. stats = [s \in Source |-> stats[s]]
    BY <2>1 DEF ReceiveInit
  <2>3. ghost.counted = [s \in Source |-> ghost.counted[s]]
    BY DEF ReceiveInit, NoGhosts
  <2>4. \A s \in Source : StatsOf(s, stats[s], ghost.counted[s])
    BY <2>1 DEF StatsOf
  <2>5. QED BY <2>2, <2>3, <2>4 DEF StatsTrue
<1>3. WaitTrue
  <2>1. ghost.silent = 0 /\ ghost.home = None /\ jitter = Empty(None)
    BY DEF ReceiveInit, NoGhosts
  <2>2. Waited(Empty(None)) = 0
    BY FS_EmptySet DEF Empty, Waited, None
  <2>3. Empty(None).candidate = None
    BY DEF Empty
  <2>4. QED BY <2>1, <2>2, <2>3 DEF WaitTrue, None
<1>4. QED BY <1>1, <1>2, <1>3, ReceiveInitial DEF FollowInv

\* Steps that are not about audio leave all of it.
LEMMA FollowStays ==
    ASSUME SrtpTrue, StatsTrue, WaitTrue, UNCHANGED <<carried, secured, top, media>>,
           ghost'.home = ghost.home, ghost'.slot = ghost.slot, ghost'.silent = ghost.silent,
           ghost'.counted = ghost.counted
    PROVE  SrtpTrue' /\ StatsTrue' /\ WaitTrue'
<1>1. UNCHANGED <<carried, secured, top, srtp, stats, jitter>>
  BY DEF media
<1>2. SrtpTrue'
  BY <1>1 DEF SrtpTrue, Reached, Number, Rollovers
<1>3. WaitTrue'
  BY <1>1 DEF WaitTrue
<1>4. StatsTrue'
  <2>1. PICK counts, tallies :
          /\ counts = stats /\ tallies = ghost.counted
          /\ counts = [r \in Source |-> counts[r]] /\ tallies = [r \in Source |-> tallies[r]]
          /\ \A r \in Source : StatsOf(r, counts[r], tallies[r])
    BY DEF StatsTrue
  <2>2. stats' = counts /\ ghost'.counted = tallies
    BY <1>1, <2>1
  <2>3. ASSUME NEW r \in Source PROVE StatsOf(r, counts[r], tallies[r])'
    BY <1>1, <2>1, StatsStay
  <2>4. QED BY <2>1, <2>2, <2>3 DEF StatsTrue
<1>5. QED BY <1>2, <1>3, <1>4

\* With a new key the source that has it begins, and the other is not followed further.
LEMMA RekeyFollows ==
    ASSUME FollowInv, RekeySrtp PROVE SrtpTrue' /\ StatsTrue' /\ WaitTrue'
<1>1. /\ UNCHANGED <<carried, secured, top, stats, jitter, ghost>>
      /\ srtp' = IF secured THEN Unheard(2) ELSE srtp
      /\ reinvite = "none"
  BY DEF RekeySrtp
<1>2. CASE ~secured
  <2>1. UNCHANGED <<carried, secured, top, media>>
    BY <1>1, <1>2 DEF media
  <2>2. QED BY <1>1, <2>1, FollowStays DEF FollowInv
<1>3. CASE secured
  <2>1. srtp.key = 1 /\ srtp'.key = 2 /\ srtp'.top = None /\ srtp'.seen = {} /\ secured'
    BY <1>1, <1>3 DEF FollowInv, ReceiveInv, LatchTrue, Unheard
  <2>2. SrtpTrue'
    BY <2>1 DEF SrtpTrue
  <2>3. WaitTrue'
    BY <1>1 DEF FollowInv, WaitTrue
  <2>4. StatsTrue'
    <3>1. PICK counts, tallies :
            /\ counts = stats /\ tallies = ghost.counted
            /\ counts = [r \in Source |-> counts[r]] /\ tallies = [r \in Source |-> tallies[r]]
            /\ \A r \in Source : StatsOf(r, counts[r], tallies[r])
      BY DEF FollowInv, StatsTrue
    <3>2. stats' = counts /\ ghost'.counted = tallies
      BY <1>1, <3>1
    <3>3. ASSUME NEW r \in Source PROVE StatsOf(r, counts[r], tallies[r])'
      <4>1. PICK st, c : st = counts[r] /\ c = tallies[r] /\ StatsOf(r, st, c)
        BY <3>1
      <4>2. CASE r = 2
        <5>1. st = NoStats
          BY <1>3, <2>1, <4>1, <4>2 DEF StatsOf
        <5>2. StatsOf(r, st, c)'
          BY <5>1 DEF StatsOf, NoStats
        <5>3. QED BY <4>1, <5>2
      <4>3. CASE r # 2
        <5>1. Tally(r, st, c)' <=> Tally(r, st, c)
          BY DEF Tally, Number, Rollovers
        <5>2. ~Open(r)'
          BY <2>1, <4>3 DEF Open
        <5>3. st = NoStats \/ (/\ Tally(r, st, c) /\ c.high <= Last[carried][r]
                               /\ st.received <= c.high - c.low + 1)
          BY <1>3, <4>1 DEF StatsOf
        <5>4. StatsOf(r, st, c)'
          BY <1>1, <2>1, <4>3, <5>1, <5>2, <5>3 DEF StatsOf, NoStats
        <5>5. QED BY <4>1, <5>4
      <4>4. QED BY <4>2, <4>3
    <3>4. QED BY <3>1, <3>2, <3>3 DEF StatsTrue
  <2>5. QED BY <2>2, <2>3, <2>4
<1>4. QED BY <1>2, <1>3

\* Every step follows the stream.
LEMMA FollowStep ==
    ASSUME Followable, KeyedInTime, FollowInv, [ReceiveNext]_receiveVars PROVE FollowInv'
<1>1. ReceiveInv /\ SrtpTrue /\ StatsTrue /\ WaitTrue
  BY DEF FollowInv
<1>2. ReceiveInv'
  BY <1>1, ReceiveStep
<1>3. SrtpTrue' /\ StatsTrue' /\ WaitTrue'
  <2>1. ASSUME NEW s \in Source, NEW i \in 0..Last[carried][s], Arrive(s, i)
        PROVE  SrtpTrue' /\ StatsTrue' /\ WaitTrue'
    BY <1>1, <2>1, ArriveSrtp, ArriveCounts, ArriveWaits
  <2>2. CASE RekeySrtp
    BY <2>2, RekeyFollows
  <2>3. CASE SetRemote
    <3>1. UNCHANGED <<carried, secured, top, media>>
      BY <2>3 DEF SetRemote
    <3>2. \E l : ghost' = [ghost EXCEPT !.left = l]
      BY <2>3 DEF SetRemote
    <3>3. /\ ghost'.home = ghost.home /\ ghost'.slot = ghost.slot
          /\ ghost'.silent = ghost.silent /\ ghost'.counted = ghost.counted
      BY <1>1, <3>2 DEF ReceiveInv, ReceiveTypes
    <3>4. QED BY <1>1, <3>1, <3>3, FollowStays
  <2>4. ASSUME NEW s \in Source, NEW p \in DOMAIN Event[s], Press(s, p)
        PROVE  SrtpTrue' /\ StatsTrue' /\ WaitTrue'
    <3>1. UNCHANGED <<carried, secured, top, media>>
      BY <2>4 DEF Press
    <3>2. \E g, c : ghost' = [ghost EXCEPT !.copies = c, !.given = g]
      <4>1. ghost' = [ghost EXCEPT
                  !.copies = [ghost.copies EXCEPT ![s][p] = Lesser(@ + 1, 2)],
                  !.given = IF delivered' = <<>> THEN ghost.given
                            ELSE ghost.given \cup {delivered'[1]}]
        BY <2>4 DEF Press
      <4>2. QED BY <4>1
    <3>3. /\ ghost'.home = ghost.home /\ ghost'.slot = ghost.slot
          /\ ghost'.silent = ghost.silent /\ ghost'.counted = ghost.counted
      BY <1>1, <3>2 DEF ReceiveInv, ReceiveTypes
    <3>4. QED BY <1>1, <3>1, <3>3, FollowStays
  <2>5. CASE (\E kind \in {"muxed", "own", "dormant"} : StartRtcp(kind)) \/ StopMedia
             \/ SenderLeaves \/ StopEnds \/ LoseMedia
    <3>1. UNCHANGED <<carried, secured, top, media, ghost>>
      BY <2>5 DEF StartRtcp, StopMedia, SenderLeaves, StopEnds, LoseMedia
    <3>2. QED BY <1>1, <3>1, FollowStays
  <2>6. CASE UNCHANGED receiveVars
    <3>1. UNCHANGED <<carried, secured, top, media, ghost>>
      BY <2>6 DEF receiveVars
    <3>2. QED BY <1>1, <3>1, FollowStays
  <2>7. QED BY <2>1, <2>2, <2>3, <2>4, <2>5, <2>6 DEF ReceiveNext
<1>4. QED BY <1>1, <1>2, <1>3 DEF FollowInv

\* What is followed is heard before the patience ends, and counted as it was sent.
LEMMA FollowedIsTracked ==
    ASSUME Followable, FollowInv PROVE StreamTracked
<1>1. NeverDeaf
  <2>1. ghost.silent \in Nat /\ ghost.silent <= Waited(jitter)
    BY DEF FollowInv, WaitTrue
  <2>2. /\ Patience >= Ceiling + ReanchorAfter + Hysteresis - 2
        /\ {Patience, Ceiling, ReanchorAfter, Hysteresis} \subseteq Nat
    BY JitterAssumption, MediaReceiveAssumption DEF Followable
  <2>3. Waited(jitter) \in 0..(Ceiling - 1) + (ReanchorAfter - 1) + (Hysteresis - 1)
    <3>1. CASE ghost.home = None
      <4>1. jitter = Empty(None)
        BY <3>1 DEF FollowInv, ReceiveInv, JitterTrue, None, Source
      <4>2. Waited(Empty(None)) = 0
        BY FS_EmptySet DEF Empty, Waited, None
      <4>3. QED BY <4>1, <4>2, JitterAssumption
    <3>2. CASE ghost.home # None
      <4>1. jitter \in Buffer /\ IsFiniteSet(jitter.packets)
        BY <3>2 DEF FollowInv, ReceiveInv, JitterTrue
      <4>2. Waits(jitter, ghost.home, ghost.slot, top[ghost.home])
        BY <3>2 DEF FollowInv, WaitTrue
      <4>3. QED BY <4>1, <4>2, WaitedIs
    <3>3. QED BY <3>1, <3>2
  <2>4. QED BY <2>1, <2>2, <2>3 DEF NeverDeaf
<1>2. ReceptionTrue
  <2> SUFFICES ASSUME NEW s \in Source, NEW st, NEW c, st = stats[s], c = ghost.counted[s],
                      st.base # None
        PROVE /\ Expected(st) = c.high - c.first + 1
              /\ secured => st.received <= c.high - c.low + 1
    BY DEF ReceptionTrue
  <2>1. StatsOf(s, st, c)
    BY DEF FollowInv, StatsTrue
  <2>2. st # NoStats
    BY DEF NoStats
  <2>3. Tally(s, st, c) /\ (secured => st.received <= c.high - c.low + 1)
    BY <2>1, <2>2 DEF StatsOf
  <2>4. QED BY <2>3, TallyExpects
<1>3. QED BY <1>1, <1>2 DEF StreamTracked

----
(* The theorems *)

\* Of the receiving side: the endpoint that is sent to and what the buffer holds, at
\* all times (_inbound_gen, _maybe_latch, JitterBuffer).
THEOREM ReceiveInvariance == ReceiveSpec => []ReceiveInv
<1>1. ReceiveInv /\ [ReceiveNext]_receiveVars => ReceiveInv'
  BY ReceiveStep
<1>2. QED BY ReceiveInitial, <1>1, PTL DEF ReceiveSpec

\* Nothing more is sent to where a peer that was heard has moved from, whatever is
\* still on its way from there, for any number of packets (_maybe_latch, set_remote).
THEOREM MovedForGood == ReceiveSpec => []StaysMoved
<1>1. ReceiveInv => StaysMoved
  BY DEF ReceiveInv, LatchTrue, StaysMoved, Sdp, Real
<1>2. QED BY <1>1, ReceiveInvariance, PTL

\* The frames are given in the order they were sent, each in its slot, whatever the
\* network does, for every window, depth and threshold (JitterBuffer.push, pop).
THEOREM HeardInOrder == ReceiveSpec => PlayedInOrder
<1>1. ReceiveInv /\ [ReceiveNext]_receiveVars =>
        [carried # "events" =>
         \A k \in Sounding(delivered') :
            /\ \A j \in Sounding(delivered') : delivered'[k].idx - delivered'[j].idx = k - j
            /\ ghost.home = delivered'[k].ssrc =>
                 LET slot == delivered'[k].idx - k + 1 IN
                 slot = ghost.slot + 1 \/ slot > ghost.slot + 1 + MaxAhead]_receiveVars
  BY ReceiveStep DEF Played
<1>2. QED BY <1>1, ReceiveInvariance, PTL DEF ReceiveSpec, PlayedInOrder

\* The stream is followed through loss, disorder and restarts, under the limits that the
\* protocols put to them: whatever came before, the call hears it again, and the reports
\* to the peer count it as it was sent (JitterBuffer, SrtpSession, ReceptionStats).
THEOREM StreamIsTracked == Followable => (ReceiveSpec /\ []KeyedInTime => []StreamTracked)
<1> SUFFICES ASSUME Followable PROVE ReceiveSpec /\ []KeyedInTime => []StreamTracked
  OBVIOUS
<1>1. KeyedInTime /\ FollowInv /\ [ReceiveNext]_receiveVars => FollowInv'
  BY FollowStep
<1>2. FollowInv => StreamTracked
  BY FollowedIsTracked
<1>3. QED BY FollowInitial, <1>1, <1>2, PTL DEF ReceiveSpec
====
