---- MODULE Jitter ----
(***************************************************************************)
(* hermes_voip.rtp.JitterBuffer, as the media engine builds it: adaptive,  *)
(* with hysteresis on the source.  A buffer is a record and the operators  *)
(* are its methods.  A packet is its source, its sequence number and the   *)
(* number the sender counted, which the buffer never looks at.             *)
(*                                                                         *)
(* The engine pops after every push until nothing comes, so the first      *)
(* packet of a stream has always been emitted before the second is pushed: *)
(* the revision of the anchor by a reordered opening packet is left out.   *)
(***************************************************************************)
EXTENDS Integers, Sequences, FiniteSets

CONSTANTS
    SeqMod,         \* sequence numbers: 2^16
    MaxAhead,       \* the playout window
    Floor, Ceiling, \* target_depth and max_depth
    ShrinkAfter,    \* _SHRINK_AFTER
    ReanchorAfter,  \* _REANCHOR_AFTER
    Hysteresis      \* ssrc_hysteresis

ASSUME JitterAssumption ==
    /\ {SeqMod, MaxAhead, Floor, Ceiling, ShrinkAfter, ReanchorAfter, Hysteresis}
           \subseteq Nat \ {0}
    /\ MaxAhead < SeqMod \div 2 /\ Floor <= Ceiling

None == -1        \* no sequence number, and no source

----
(* Sequence numbers *)

SeqAhead(a, b) == (b - a) % SeqMod

SeqBefore(a, b) == a # b /\ SeqAhead(a, b) < SeqMod \div 2

\* With no packet held: a new buffer, or one that is reset to another source.
Empty(ssrc) ==
    [ssrc |-> ssrc, packets |-> {}, next |-> None, highest |-> None,
     depth |-> Floor, clean |-> 0, candidate |-> None, heard |-> 0,
     far |-> None, run |-> 0]

Numbers(jb) == {p.seq : p \in jb.packets}

----
(* push *)

Unbroken(jb) == [jb EXCEPT !.far = None, !.run = 0]

Grow(jb) ==
    [jb EXCEPT !.depth = IF @ < Ceiling THEN @ + 1 ELSE @, !.clean = 0]

\* The packet is buffered, the first copy of a number wins.
Take(jb, p) ==
    [Unbroken(jb) EXCEPT
        !.highest = IF @ = None \/ SeqBefore(@, p.seq) THEN p.seq ELSE @,
        !.packets = IF p.seq \in Numbers(jb) THEN @ ELSE @ \cup {p}]

LateIsDue(jb, p) == FALSE             \* a slot already emitted is filled again

Late(jb, p) == SeqBefore(p.seq, jb.next)

TooFar(jb, p) == SeqAhead(jb.next, p.seq) > MaxAhead

WideReorder(jb, p) ==
    /\ jb.highest # None /\ SeqBefore(p.seq, jb.highest)
    /\ SeqAhead(p.seq, jb.highest) >= jb.depth

\* pop() could still go on by itself.
StrandedNever(jb) == FALSE            \* no re-anchoring: the stream has gone for good

Stranded(jb) == jb.next \notin Numbers(jb) /\ Cardinality(jb.packets) < jb.depth

\* _reanchor_if_stranded: beyond the window, and counted; the last of a run moves
\* the anchor past the gap.
Beyond(jb, p) ==
    IF ~Stranded(jb) THEN Unbroken(jb)
    ELSE LET forward == jb.far # None /\ SeqBefore(jb.far, p.seq)
             run == IF forward THEN jb.run + 1 ELSE 1
         IN IF run < ReanchorAfter
            THEN [jb EXCEPT !.far = p.seq, !.run = run]
            ELSE Take([jb EXCEPT !.packets = {}, !.next = p.seq], p)

Enqueue(jb, p) ==
    CASE jb.next = None -> Take([jb EXCEPT !.next = p.seq], p)
      [] jb.next # None /\ Late(jb, p) ->
             Unbroken(IF SeqAhead(p.seq, jb.next) <= MaxAhead THEN Grow(jb) ELSE jb)
      [] jb.next # None /\ ~Late(jb, p) /\ TooFar(jb, p) -> Beyond(jb, p)
      [] OTHER -> Take(IF WideReorder(jb, p) THEN Grow(jb) ELSE jb, p)

\* _check_ssrc: packets of another source are dropped until so many came in a row
\* that it is the source now.
HeardInARow(jb, p) == IF jb.candidate = p.ssrc THEN jb.heard + 1 ELSE 1

Push(jb, p) ==
    IF jb.ssrc \in {None, p.ssrc}
    THEN Enqueue([jb EXCEPT !.ssrc = p.ssrc, !.candidate = None, !.heard = 0], p)
    ELSE IF HeardInARow(jb, p) < Hysteresis
    THEN [jb EXCEPT !.candidate = p.ssrc, !.heard = HeardInARow(jb, p)]
    ELSE Enqueue(Empty(p.ssrc), p)

----
(* pop, until nothing comes *)

Due(jb) == {p \in jb.packets : p.seq = jb.next}

\* _coalesced_gap: the slots up to the first that is buffered.
CoalescedGap(jb) ==
    CHOOSE n \in 1..MaxAhead :
        /\ \A k \in 1..n - 1 : (jb.next + k) % SeqMod \notin Numbers(jb)
        /\ n = MaxAhead \/ (jb.next + n) % SeqMod \in Numbers(jb)

Shrinks(jb) == jb.clean + 1 >= ShrinkAfter /\ jb.depth > Floor

\* The count of clean pops goes no further than it is looked at.
Cleaner(jb) == IF Shrinks(jb) THEN 0 ELSE IF jb.clean < ShrinkAfter THEN jb.clean + 1
               ELSE jb.clean

Popped(jb, p) ==
    [jb EXCEPT !.packets = @ \ {p}, !.next = (@ + 1) % SeqMod,
               !.depth = IF Shrinks(jb) THEN @ - 1 ELSE @, !.clean = Cleaner(jb)]

Skipped(jb) == [jb EXCEPT !.next = (@ + CoalescedGap(jb)) % SeqMod, !.clean = 0]

LostAt(jb, k) == [ssrc |-> jb.ssrc, seq |-> (jb.next + k - 1) % SeqMod, idx |-> None]

\* The packet that is due, or a Lost for each slot of a gap once enough packets wait
\* behind it, after what came out before.
Pop(given) ==
    LET jb == given.jb
        p == CHOOSE p \in Due(jb) : TRUE
    IN CASE Due(jb) # {} -> [jb |-> Popped(jb, p), out |-> Append(given.out, p)]
         [] Due(jb) = {} /\ jb.next # None /\ Cardinality(jb.packets) >= jb.depth ->
                [jb |-> Skipped(jb),
                 out |-> given.out \o [k \in 1..CoalescedGap(jb) |-> LostAt(jb, k)]]
         [] OTHER -> given

\* Everything that comes out now: no packet takes more than a gap and itself.
Drain(jb) ==
    LET After[n \in 0..2 * Cardinality(jb.packets)] ==
            IF n = 0 THEN [jb |-> jb, out |-> <<>>] ELSE Pop(After[n - 1])
    IN After[2 * Cardinality(jb.packets)]
====
