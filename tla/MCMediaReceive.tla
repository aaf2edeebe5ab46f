---- MODULE MCMediaReceive ----
(* Small instances of MediaReceive for TLC. *)
EXTENDS MediaReceive

\* The first source wraps, the second one comes later with fewer packets.
MCFirst == <<13, 2>>
MCLast == [speech |-> <<7, 3>>, tones |-> <<8, -1>>, events |-> <<0, 0>>]
MCJump == [speech |-> 6, tones |-> 2, events |-> 1]
\* Keys 5 and 7, and a flash, which is no digit.
MCEvent == <<<<5, 16>>, <<7, 5>>>>
MCKeypad == 0..15
MCTone == 3..7

\* The instance is within the limits that the theorem about the stream asks for.
ASSUME MCFollowable == Followable
====
