---- MODULE Agent_proofs ----
(***************************************************************************)
(* What the agent does on a call, for any values of the constants: whom it *)
(* talks to and what its tools may do (Admission), what it says (Playout)  *)
(* and the transfers it asks for (Transfers).                              *)
(*                                                                         *)
(* Playout: who is at the head of the playout lock's queue is the only one *)
(* that plays, so that a frame on the wire is behind an armed gate; every  *)
(* stream but the newest has its stop flag set; and a goodbye that the     *)
(* caller answers leaves the caller's mark until its end looks for it.     *)
(*                                                                         *)
(* Transfers: at most one tool asks at a time, so that a window that is    *)
(* taken down leaves nobody asking; and a window's answer follows the      *)
(* first key that was pressed for the task that asks: "yes" stands for a   *)
(* "1", pressed on a call that was not degraded or that is degraded still, *)
(* in which case the gate is shut when the tool comes to look at it.       *)
(*                                                                         *)
(* Admission: what the lists say of the caller stays with the call; its    *)
(* guard is the caller's level moved by what was heard since; and a tool   *)
(* that the hook let through is granted for that call, or for no call.     *)
(***************************************************************************)
EXTENDS Playout, Transfers, Admission, FiniteSetTheorems, SequenceTheorems,
        WellFoundedInduction, TLAPS

(* Subsequences *)

\* No one is in it twice.
Distinct(q) == \A i, j \in DOMAIN q : q[i] = q[j] => i = j

\* What a comprehension keeps: every element at one of these places, once for each of
\* them, and the first of all first.
LEMMA Keeps ==
    ASSUME NEW S, NEW s \in Seq(S), NEW places \in SUBSET DOMAIN s
    PROVE  /\ Those(s, places) \in Seq(S)
           /\ \A n \in DOMAIN Those(s, places) : \E i \in places : Those(s, places)[n] = s[i]
           /\ \A i \in places : \E n \in DOMAIN Those(s, places) : Those(s, places)[n] = s[i]
           /\ Distinct(s) => Distinct(Those(s, places))
           /\ 1 \in places => 1 \in DOMAIN Those(s, places) /\ Those(s, places)[1] = s[1]
           /\ Those(s, places) = <<>> <=> places = {}
<1> DEFINE upto == [i \in places |-> {j \in places : j <= i}]
           nth == [i \in places |-> Cardinality(upto[i])]
           size == Cardinality(places)
           Of(n) == CHOOSE i \in places : Cardinality({j \in places : j <= i}) = n
<1>1. /\ IsFiniteSet(places) /\ size \in Nat /\ places \subseteq Nat
      /\ DOMAIN s = 1 .. Len(s) /\ Len(s) \in Nat
  <2>1. DOMAIN s = 1 .. Len(s) /\ Len(s) \in Nat
    BY LenProperties
  <2>2. IsFiniteSet(1 .. Len(s)) /\ places \in SUBSET (1 .. Len(s))
    BY <2>1, FS_Interval
  <2>3. QED BY <2>1, <2>2, FS_Subset, FS_CardinalityType
<1>2. \A i \in places : nth[i] \in 1 .. size
  <2> SUFFICES ASSUME NEW i \in places PROVE nth[i] \in 1 .. size
    OBVIOUS
  <2>1. upto[i] \in SUBSET places /\ i \in upto[i]
    BY <1>1
  <2>2. IsFiniteSet(upto[i]) /\ Cardinality(upto[i]) <= size
    BY <1>1, <2>1, FS_Subset
  <2>3. Cardinality(upto[i]) \in Nat /\ Cardinality(upto[i]) # 0
    BY <2>1, <2>2, FS_CardinalityType, FS_EmptySet
  <2>4. nth[i] = Cardinality(upto[i])
    OBVIOUS
  <2> HIDE DEF nth, upto, size
  <2>5. QED BY <1>1, <2>2, <2>3, <2>4
<1>3. \A i, j \in places : i < j => nth[i] # nth[j]
  <2> SUFFICES ASSUME NEW i \in places, NEW j \in places, i < j, nth[i] = nth[j] PROVE FALSE
    OBVIOUS
  <2>1. upto[i] \in SUBSET upto[j] /\ j \in upto[j] /\ j \notin upto[i]
    BY <1>1
  <2>2. upto[j] \in SUBSET places
    OBVIOUS
  <2>3. IsFiniteSet(upto[j])
    BY <1>1, <2>2, FS_Subset
  <2>4. Cardinality(upto[i]) = Cardinality(upto[j])
    OBVIOUS
  <2> HIDE DEF nth, upto, size
  <2>5. upto[i] = upto[j]
    BY <2>1, <2>3, <2>4, FS_Subset
  <2>6. QED BY <2>1, <2>5
<1>4. \A i, j \in places : nth[i] = nth[j] => i = j
  <2> HIDE DEF nth, upto, size
  <2> SUFFICES ASSUME NEW i \in places, NEW j \in places, nth[i] = nth[j], i # j PROVE FALSE
    OBVIOUS
  <2>1. i \in Nat /\ j \in Nat
    BY <1>1
  <2>2. CASE i < j
    BY <1>3, <2>2
  <2>3. CASE j < i
    BY <1>3, <2>3
  <2>4. QED BY <2>1, <2>2, <2>3
<1>5. \A n \in 1 .. size : \E i \in places : nth[i] = n
  <2>1. nth \in [places -> 1 .. size]
    BY <1>2
  <2> HIDE DEF nth, upto
  <2>2. nth \in Injection(places, 1 .. size)
    BY <1>4, <2>1 DEF Injection, IsInjective
  <2>3. IsFiniteSet(1 .. size) /\ Cardinality(1 .. size) = size
    BY <1>1, FS_Interval
  <2>4. nth \in Surjection(places, 1 .. size)
    BY <2>2, <2>3, FS_Injection
  <2>5. QED BY <2>4 DEF Surjection
<1>6. \A n \in 1 .. size : Of(n) \in places /\ nth[Of(n)] = n
  <2> SUFFICES ASSUME NEW n \in 1 .. size PROVE Of(n) \in places /\ nth[Of(n)] = n
    OBVIOUS
  <2>1. \E i \in places : Cardinality({j \in places : j <= i}) = n
    BY <1>5
  <2>2. Of(n) \in places /\ Cardinality({j \in places : j <= Of(n)}) = n
    BY <2>1
  <2>3. QED BY <2>2
<1>7. Those(s, places) = [n \in 1 .. size |-> s[Of(n)]]
  BY DEF Those
<1>8. \A i \in places : Of(nth[i]) = i
  <2> HIDE DEF nth, upto, size, Of
  <2>1. QED BY <1>2, <1>4, <1>6
<1>9. \A i \in places : s[i] \in S
  BY <1>1, ElementOfSeq
<1>10. ASSUME 1 \in places PROVE nth[1] = 1 /\ 1 \in 1 .. size
  <2>0. \A j \in places : 1 <= j
    BY <1>1
  <2>1. upto[1] = {1}
    BY <1>1, <1>10, <2>0
  <2>2. QED BY <1>2, <1>10, <2>1, FS_Singleton
<1>11. size = 0 <=> places = {}
  BY <1>1, FS_EmptySet
<1> HIDE DEF nth, upto, Of, size
<1>12. Those(s, places) \in Seq(S)
  <2>1. \A n \in 1 .. size : s[Of(n)] \in S
    BY <1>6, <1>9
  <2>2. [n \in 1 .. size |-> s[Of(n)]] \in Seq(S)
    BY <1>1, <2>1, IsASeq
  <2>3. QED BY <1>7, <2>2
<1>13. /\ DOMAIN Those(s, places) = 1 .. size
       /\ \A n \in 1 .. size : Those(s, places)[n] = s[Of(n)]
  BY <1>7
<1>14. ASSUME Distinct(s) PROVE Distinct(Those(s, places))
  <2> SUFFICES ASSUME NEW m \in 1 .. size, NEW n \in 1 .. size, s[Of(m)] = s[Of(n)]
               PROVE  m = n
    BY <1>13 DEF Distinct
  <2>1. Of(m) \in DOMAIN s /\ Of(n) \in DOMAIN s
    BY <1>6
  <2>2. Of(m) = Of(n)
    BY <1>14, <2>1 DEF Distinct
  <2>3. QED BY <1>6, <2>2
<1>15. \A n \in DOMAIN Those(s, places) : \E i \in places : Those(s, places)[n] = s[i]
  BY <1>6, <1>13
<1>16. \A i \in places : \E n \in DOMAIN Those(s, places) : Those(s, places)[n] = s[i]
  BY <1>2, <1>8, <1>13
<1>17. 1 \in places => 1 \in DOMAIN Those(s, places) /\ Those(s, places)[1] = s[1]
  BY <1>8, <1>10, <1>13
<1>18. Those(s, places) = <<>> <=> places = {}
  <2>1. Len(Those(s, places)) = size
    BY <1>1, <1>12, <1>13, LenProperties
  <2>2. QED BY <1>12, <1>11, <2>1, EmptySeq
<1>19. QED BY <1>12, <1>14, <1>15, <1>16, <1>17, <1>18

----
(* Playout *)

\* Who holds the playout lock, or waits for it.
Locked == {"waiting"} \cup Playing

\* A voice is in a queue.
In(v, q) == \E i \in DOMAIN q : q[i] = v
\* The lock's queue is the voices that hold it or wait for it, each once, and only its
\* head plays.
QueueTrue ==
    /\ Distinct(queue)
    /\ \A v \in Voice : at[v] \in Locked <=> In(v, queue)
    /\ \A v \in Voice : at[v] \in Playing => v = queue[1]

\* What is on the wire plays, behind an armed gate.
AiredPlays == \A v \in aired : at[v] \in Playing /\ audio

\* Whoever has a stream and no stop flag is the newest.
NewestGoes == \A v \in Voice : at[v] \in Registered /\ v \notin stopped => v = active

\* The types of what the streams and the lock are kept in.
StreamTypes ==
    /\ at \in [Voice -> Place]
    /\ active \in Voice \cup {Nobody}
    /\ stopped \subseteq Voice /\ aired \subseteq Voice
    /\ queue \in Seq(Voice)
    /\ audio \in BOOLEAN

Streams == StreamTypes /\ QueueTrue /\ AiredPlays /\ NewestGoes

\* The limit of refusals was reached.
AtMost == MaxRefusals > 0 /\ count.refusals >= MaxRefusals

\* A goodbye has the lock or waits for it, the delivery's only once the limit of refusals
\* was reached; and a goodbye that the caller has answered leaves the caller's mark, until
\* that limit takes it away.
GoodbyeTrue ==
    /\ "watchdog" \in farewell => at["watchdog"] \in Locked
    /\ "delivery" \in farewell => at["delivery"] \in Locked /\ AtMost
    /\ "watchdog" \in answered => caller \/ (AtMost /\ at["delivery"] # "screening")

\* The types of the rest.
CallTypes ==
    /\ farewell \subseteq {"watchdog", "delivery"} /\ answered \subseteq farewell
    /\ count \in [reprompts : 0..MaxReprompts, refusals : 0..MaxRefusals, turns : 0..MaxTurns]
    /\ {caller, held, ending} \subseteq BOOLEAN
    /\ phase \in {"listening", "draining", "joining", "returned"}

PlayoutInv == Streams /\ CallTypes /\ GoodbyeTrue

----
(* The queue of the lock *)

\* What is left of a queue that some tasks leave: the others, every one of them once, and
\* its head stays at the head (_playout_lock).
LEMMA Kept ==
    ASSUME queue \in Seq(Voice), Distinct(queue), NEW gone
    PROVE  /\ Without(gone) \in Seq(Voice)
           /\ Distinct(Without(gone))
           /\ \A v : In(v, Without(gone)) <=> In(v, queue) /\ v \notin gone
           /\ queue # <<>> /\ queue[1] \notin gone
                => Without(gone) # <<>> /\ Without(gone)[1] = queue[1]
<1> DEFINE stay == {i \in DOMAIN queue : queue[i] \notin gone}
<1>1. Without(gone) = Those(queue, stay) /\ stay \in SUBSET DOMAIN queue
  BY DEF Without
<1>2. /\ Without(gone) \in Seq(Voice) /\ Distinct(Without(gone))
      /\ \A n \in DOMAIN Without(gone) : \E i \in stay : Without(gone)[n] = queue[i]
      /\ \A i \in stay : \E n \in DOMAIN Without(gone) : Without(gone)[n] = queue[i]
      /\ 1 \in stay => 1 \in DOMAIN Without(gone) /\ Without(gone)[1] = queue[1]
  <2> HIDE DEF stay
  <2>1. PICK kept : kept = Those(queue, stay)
    OBVIOUS
  <2>2. /\ kept \in Seq(Voice)
        /\ \A n \in DOMAIN kept : \E i \in stay : kept[n] = queue[i]
        /\ \A i \in stay : \E n \in DOMAIN kept : kept[n] = queue[i]
    BY <1>1, <2>1, Keeps
  <2>3. /\ Distinct(kept)
        /\ 1 \in stay => 1 \in DOMAIN kept /\ kept[1] = queue[1]
    BY <1>1, <2>1, Keeps
  <2>4. Without(gone) = kept
    BY <1>1, <2>1
  <2>5. QED BY <2>2, <2>3, <2>4, Zenon
<1>3. \A v : In(v, Without(gone)) <=> In(v, queue) /\ v \notin gone
  <2> TAKE v
  <2>1. ASSUME In(v, Without(gone)) PROVE In(v, queue) /\ v \notin gone
    <3>1. PICK n \in DOMAIN Without(gone) : Without(gone)[n] = v
      BY <2>1 DEF In
    <3>2. PICK i \in stay : v = queue[i]
      BY <1>2, <3>1
    <3>3. QED BY <3>2 DEF In
  <2>2. ASSUME In(v, queue), v \notin gone PROVE In(v, Without(gone))
    <3>1. PICK i \in DOMAIN queue : queue[i] = v
      BY <2>2 DEF In
    <3>2. i \in stay
      BY <2>2, <3>1
    <3>3. PICK n \in DOMAIN Without(gone) : Without(gone)[n] = queue[i]
      BY <1>2, <3>2
    <3>4. QED BY <3>1, <3>3 DEF In
  <2>3. QED BY <2>1, <2>2
<1>4. queue # <<>> => 1 \in DOMAIN queue
  BY EmptySeq, LenProperties
<1>5. 1 \in DOMAIN Without(gone) => Without(gone) # <<>>
  BY <1>2, EmptySeq, LenProperties
<1>6. QED BY <1>2, <1>3, <1>4, <1>5

\* No voice is in the queue twice, so that it is no longer than the voices are many.
LEMMA QueueBounded ==
    ASSUME queue \in Seq(Voice), Distinct(queue)
    PROVE  Len(queue) <= Cardinality(Voice)
<1>1. IsFiniteSet(Voice)
  <2>1. IsFiniteSet({"greeting", "filler", "watchdog", "didntCatch", "delivery"})
    <3>1. IsFiniteSet({"greeting"} \cup {"filler"} \cup {"watchdog"} \cup {"didntCatch"} \cup {"delivery"})
      BY FS_Singleton, FS_Union
    <3>2. {"greeting"} \cup {"filler"} \cup {"watchdog"} \cup {"didntCatch"} \cup {"delivery"}
            = {"greeting", "filler", "watchdog", "didntCatch", "delivery"}
      OBVIOUS
    <3>3. QED BY <3>1, <3>2
  <2>2. QED BY <2>1, PlayoutAssumption, FS_Union DEF Voice
<1>2. queue \in [1 .. Len(queue) -> Voice] /\ DOMAIN queue = 1 .. Len(queue) /\ Len(queue) \in Nat
  BY LenProperties
<1>3. queue \in Injection(1 .. Len(queue), Voice)
  BY <1>2 DEF Distinct, Injection, IsInjective
<1>4. Cardinality(1 .. Len(queue)) = Len(queue)
  <2>1. 1 \in Int /\ Len(queue) \in Int /\ Len(queue) >= 0
    BY <1>2
  <2>2. Cardinality(1 .. Len(queue)) = IF 1 > Len(queue) THEN 0 ELSE Len(queue) - 1 + 1
    BY <2>1, FS_Interval
  <2>3. QED BY <2>1, <2>2
<1>5. QED BY <1>1, <1>3, <1>4, FS_Injection

----
(* The streams *)

\* Some voices leave the lock and their streams, and others may be stopped as they do
\* (Leaves, BargesIn): what is said of the others stays.
LEMMA LeavesStreams ==
    ASSUME Streams, NEW gone, at' \in [Voice -> Place],
           \A v \in Voice : IF v \in gone THEN at'[v] \notin Registered
                            ELSE at'[v] = at[v] \/ (at[v] \notin Registered /\ at'[v] \notin Registered),
           queue' = Without(gone), aired' = aired \ gone,
           stopped \ gone \subseteq stopped', stopped' \subseteq Voice,
           IF active = Holder /\ Holder \in gone
           THEN active' = Nobody /\ audio' = FALSE
           ELSE UNCHANGED <<active, audio>>
    PROVE  Streams'
<1> USE DEF Streams, StreamTypes, QueueTrue
<1>0. /\ queue' = Without(gone) /\ stopped \ gone \subseteq stopped' /\ aired' = aired \ gone
      /\ \/ Holder \in gone /\ active = Holder /\ active' = Nobody /\ audio' = FALSE
         \/ ~(Holder \in gone /\ active = Holder) /\ active' = active /\ audio' = audio
  OBVIOUS
<1>1. /\ queue' \in Seq(Voice) /\ Distinct(queue')
      /\ \A v : In(v, queue') <=> In(v, queue) /\ v \notin gone
      /\ queue # <<>> /\ queue[1] \notin gone => queue' # <<>> /\ queue'[1] = queue[1]
  BY <1>0, Kept
<1>2. \A v \in Voice : at[v] \in Playing => queue # <<>> /\ Holder = v
  <2> SUFFICES ASSUME NEW v \in Voice, at[v] \in Playing PROVE queue # <<>> /\ Holder = v
    OBVIOUS
  <2>1. In(v, queue) /\ v = queue[1]
    BY DEF Locked
  <2>2. queue # <<>>
    BY <2>1, EmptySeq DEF In
  <2>3. QED BY <2>1, <2>2 DEF Holder
<1>3. \A v \in Voice : at'[v] \in Locked <=> at[v] \in Locked /\ v \notin gone
  BY DEF Locked, Registered
<1>4. \A v \in Voice : at'[v] \in Playing <=> at[v] \in Playing /\ v \notin gone
  BY DEF Playing, Registered
<1>5. StreamTypes'
  BY <1>0, <1>1
<1>6. QueueTrue'
  BY <1>1, <1>2, <1>3, <1>4
<1>7. AiredPlays'
  <2> SUFFICES ASSUME NEW v \in aired \ gone PROVE at'[v] \in Playing /\ audio'
    BY <1>0 DEF AiredPlays
  <2>1. v \in Voice /\ at[v] \in Playing /\ audio
    BY DEF AiredPlays
  <2>2. QED BY <1>0, <1>2, <1>4, <2>1
<1>8. NewestGoes'
  <2> SUFFICES ASSUME NEW v \in Voice, at'[v] \in Registered, v \notin stopped' PROVE v = active'
    BY DEF NewestGoes
  <2>1. v \notin gone /\ at[v] \in Registered /\ v \notin stopped
    BY <1>0
  <2>2. v = active
    BY <2>1 DEF NewestGoes
  <2>3. QED BY <1>0, <2>1, <2>2
<1>9. QED BY <1>5, <1>6, <1>7, <1>8

\* A voice registers a stream and joins the queue of the lock (Speaks): it is the newest,
\* the one before it is stopped.
LEMMA SpeaksStreams ==
    ASSUME Streams, NEW u \in Voice, NEW gone, u \notin gone, at[u] \notin Locked,
           at' \in [Voice -> Place], at'[u] = Entered,
           \A v \in Voice \ {u} : IF v \in gone THEN at'[v] \notin Registered ELSE at'[v] = at[v],
           Speaks(u, gone)
    PROVE  Streams'
<1> USE DEF Streams, StreamTypes, QueueTrue
<1> DEFINE rest == Without(gone)
<1>0. /\ queue' = Append(rest, u) /\ stopped' = (stopped \cup Live) \ ({u} \cup gone)
      /\ aired' = aired \ ({u} \cup gone) /\ active' = u
      /\ audio' = (audio /\ queue # <<>>)
  BY DEF Speaks
<1>1. /\ rest \in Seq(Voice) /\ Distinct(rest)
      /\ \A v : In(v, rest) <=> In(v, queue) /\ v \notin gone
      /\ queue # <<>> /\ queue[1] \notin gone => rest # <<>> /\ rest[1] = queue[1]
  BY Kept
<1> HIDE DEF rest
<1>2. /\ queue' \in Seq(Voice)
      /\ Len(rest) \in Nat
      /\ DOMAIN queue' = 1 .. Len(rest) + 1 /\ DOMAIN rest = 1 .. Len(rest)
      /\ \A i \in DOMAIN rest : queue'[i] = rest[i]
      /\ queue'[Len(rest) + 1] = u
  BY <1>0, <1>1, AppendProperties, LenProperties
<1>3. ~In(u, rest)
  BY <1>1
<1>4. Distinct(queue')
  BY <1>1, <1>2, <1>3 DEF Distinct, In
<1>5. \A v : In(v, queue') <=> In(v, rest) \/ v = u
  <2> TAKE v
  <2>1. ASSUME In(v, queue') PROVE In(v, rest) \/ v = u
    <3>1. PICK i \in DOMAIN queue' : queue'[i] = v
      BY <2>1 DEF In
    <3>2. i \in DOMAIN rest \/ i = Len(rest) + 1
      BY <1>2, <3>1
    <3>3. QED BY <1>2, <3>1, <3>2, Zenon DEF In
  <2>2. ASSUME In(v, rest) PROVE In(v, queue')
    <3>1. PICK i \in DOMAIN rest : rest[i] = v
      BY <2>2 DEF In
    <3>2. i \in DOMAIN queue'
      BY <1>2, <3>1
    <3>3. QED BY <1>2, <3>1, <3>2, Zenon DEF In
  <2>3. In(u, queue')
    <3>1. Len(rest) + 1 \in DOMAIN queue'
      BY <1>2
    <3>2. QED BY <1>2, <3>1, Zenon DEF In
  <2>4. QED BY <2>1, <2>2, <2>3, Zenon
<1>6. \A v \in Voice : at[v] \in Playing => queue # <<>> /\ v = queue[1]
  <2> SUFFICES ASSUME NEW v \in Voice, at[v] \in Playing PROVE queue # <<>> /\ v = queue[1]
    OBVIOUS
  <2>1. In(v, queue) /\ v = queue[1]
    BY DEF Locked
  <2>2. QED BY <2>1, EmptySeq DEF In
<1>7. rest # <<>> => queue'[1] = rest[1]
  <2> SUFFICES ASSUME rest # <<>> PROVE queue'[1] = rest[1]
    OBVIOUS
  <2>1. rest \in Seq(Voice)
    BY <1>1
  <2>2. 1 \in DOMAIN rest
    BY <2>1, EmptySeq
  <2>3. QED BY <1>2, <2>2, Zenon
<1>8. queue = <<>> => queue'[1] = u /\ rest = <<>>
  <2> SUFFICES ASSUME queue = <<>> PROVE queue'[1] = u /\ rest = <<>>
    OBVIOUS
  <2>1. \A v : ~In(v, queue)
    BY EmptySeq DEF In
  <2>2. \A v : ~In(v, rest)
    BY <1>1, <2>1
  <2>3. rest = <<>>
    <3>1. rest # <<>> => 1 \in DOMAIN rest
      BY <1>1, <1>2, EmptySeq
    <3>2. QED BY <2>2, <3>1 DEF In
  <2>4. Len(rest) = 0
    BY <2>3, EmptySeq
  <2>5. QED BY <1>2, <2>3, <2>4
<1>9. \A v \in Voice \ {u} : at'[v] \in Registered => at'[v] = at[v] /\ v \notin gone
  OBVIOUS
<1>10. StreamTypes'
  BY <1>0, <1>2 DEF Live
<1>11. \A v \in Voice : at'[v] \in Locked <=> In(v, queue')
  <2>1. at'[u] \in Locked
    BY DEF Entered, Locked, Playing
  <2>2. ASSUME NEW v \in Voice \ {u} PROVE at'[v] \in Locked <=> In(v, queue')
    <3>1. at'[v] \in Locked => at'[v] = at[v] /\ v \notin gone
      BY <1>9 DEF Locked, Registered
    <3>2. In(v, queue') <=> at[v] \in Locked /\ v \notin gone
      BY <1>1, <1>5, <2>2
    <3>3. QED BY <2>2, <3>1, <3>2
  <2>3. QED BY <1>5, <2>1, <2>2
<1>12. \A v \in Voice : at'[v] \in Playing => v = queue'[1]
  <2>1. at'[u] \in Playing => u = queue'[1]
    BY <1>8 DEF Entered, Playing
  <2>2. ASSUME NEW v \in Voice \ {u}, at'[v] \in Playing PROVE v = queue'[1]
    BY <1>1, <1>6, <1>7, <1>9, <2>2 DEF Playing, Registered
  <2>3. QED BY <2>1, <2>2
<1>13. AiredPlays'
  <2> SUFFICES ASSUME NEW v \in aired, v # u, v \notin gone PROVE at'[v] \in Playing /\ audio'
    BY <1>0 DEF AiredPlays
  <2>1. v \in Voice /\ at[v] \in Playing /\ audio
    BY DEF AiredPlays
  <2>2. QED BY <1>0, <1>6, <2>1
<1>14. NewestGoes'
  <2> SUFFICES ASSUME NEW v \in Voice \ {u}, at'[v] \in Registered, v \notin stopped' PROVE FALSE
    BY <1>0 DEF NewestGoes
  <2>1. at[v] \in Registered /\ v \notin gone
    BY <1>9
  <2>2. v \notin stopped /\ v \notin Live
    BY <1>0, <2>1
  <2>3. QED BY <2>1, <2>2 DEF NewestGoes, Live
<1>15. QED BY <1>4, <1>10, <1>11, <1>12, <1>13, <1>14

\* A step that moves no stream may move tasks that have none.
LEMMA StreamsStay ==
    ASSUME Streams, UNCHANGED <<active, stopped, queue, audio, aired>>,
           at' \in [Voice -> Place],
           \A v \in Voice : at'[v] = at[v] \/ (at[v] \notin Registered /\ at'[v] \notin Registered)
    PROVE  Streams'
<1> USE DEF Streams, StreamTypes, QueueTrue
<1>1. \A v \in Voice : /\ at'[v] \in Registered <=> at[v] \in Registered
                       /\ at'[v] \in Locked <=> at[v] \in Locked
                       /\ at'[v] \in Playing <=> at[v] \in Playing
  BY DEF Locked, Registered
<1>2. StreamTypes'
  OBVIOUS
<1>3. QueueTrue'
  BY <1>1
<1>4. AiredPlays'
  BY <1>1 DEF AiredPlays
<1>5. NewestGoes'
  BY <1>1 DEF NewestGoes
<1>6. QED BY <1>2, <1>3, <1>4, <1>5

\* The names of the loop's own voices are those of no reply.
LEMMA NamesDiffer ==
    /\ {"greeting", "filler", "watchdog", "didntCatch", "delivery"} \subseteq Voice
    /\ \A r \in Reply : r \in Voice /\ r \notin {"greeting", "filler", "watchdog", "didntCatch", "delivery"}
    /\ Nobody \notin Voice
BY PlayoutAssumption DEF Voice

\* The steps of _play keep what is said of the streams: the lock, the flag that is reset
\* under it, the frames that are pulled and sent.
LEMMA PlayStreams ==
    ASSUME Streams, NEW v \in Voice, Acquires(v) \/ Pulls(v) \/ Sends(v) \/ GreetingPlays
    PROVE  Streams'
<1> USE DEF Streams, StreamTypes
<1>1. \A w \in Voice : at[w] \in Playing => In(w, queue) /\ queue # <<>> /\ w = queue[1]
  BY EmptySeq DEF QueueTrue, In, Locked
<1>2. CASE Acquires(v)
  <2>1. /\ at[v] = "waiting" /\ Head(queue) = v
        /\ at' = [at EXCEPT ![v] = "pulling"] /\ audio' = FALSE
        /\ UNCHANGED <<active, stopped, queue, aired>>
    BY <1>2 DEF Acquires
  <2>2. In(v, queue) /\ queue # <<>>
    BY <2>1, EmptySeq DEF QueueTrue, In, Locked
  <2>3. v = queue[1]
    BY <2>1, <2>2
  <2>4. \A w \in Voice \ {v} : at'[w] = at[w] /\ at[w] \notin Playing
    BY <1>1, <2>1, <2>3
  <2>5. at'[v] = "pulling"
    BY <2>1
  <2>6. StreamTypes'
    BY <2>1 DEF Place, Registered, Playing
  <2>7. QueueTrue'
    BY <2>1, <2>3, <2>4, <2>5 DEF QueueTrue, Locked, Playing
  <2>8. AiredPlays'
    <3>1. \A w \in aired : w \in Voice /\ at[w] \in Playing
      BY DEF AiredPlays
    <3>2. at[v] \notin Playing
      BY <2>1 DEF Playing
    <3>3. aired = {}
      BY <2>4, <3>1, <3>2
    <3>4. QED BY <2>1, <3>3 DEF AiredPlays
  <2>9. NewestGoes'
    BY <2>1, <2>4 DEF NewestGoes, Registered
  <2>10. QED BY <2>6, <2>7, <2>8, <2>9
<1>3. CASE Pulls(v)
  <2>1. /\ at[v] = "pulling" /\ at' = [at EXCEPT ![v] = "sending"]
        /\ UNCHANGED <<active, stopped, queue, audio, aired>>
    BY <1>3 DEF Pulls
  <2>2. \A w \in Voice : /\ at'[w] \in Playing <=> at[w] \in Playing
                         /\ at'[w] \in Locked <=> at[w] \in Locked
                         /\ at'[w] \in Registered <=> at[w] \in Registered
    BY <2>1 DEF Locked, Registered, Playing
  <2>3. StreamTypes'
    BY <2>1 DEF Place, Registered, Playing
  <2>4. QueueTrue' /\ AiredPlays' /\ NewestGoes'
    BY <2>1, <2>2 DEF QueueTrue, AiredPlays, NewestGoes
  <2>5. QED BY <2>3, <2>4
<1>4. CASE Sends(v)
  <2>1. /\ at[v] = "sending" /\ at' = [at EXCEPT ![v] = "pulling"]
        /\ audio' = TRUE /\ aired' = aired \cup {v}
        /\ UNCHANGED <<active, stopped, queue>>
    BY <1>4 DEF Sends
  <2>2. \A w \in Voice : /\ at'[w] \in Playing <=> at[w] \in Playing
                         /\ at'[w] \in Locked <=> at[w] \in Locked
                         /\ at'[w] \in Registered <=> at[w] \in Registered
    BY <2>1 DEF Locked, Registered, Playing
  <2>3. StreamTypes'
    <3>1. at' \in [Voice -> Place]
      BY <2>1 DEF Place, Registered, Playing
    <3>2. QED BY <2>1, <3>1
  <2>4. QueueTrue' /\ AiredPlays' /\ NewestGoes'
    <3>1. at'[v] \in Playing
      BY <2>1 DEF Playing
    <3>2. QED BY <2>1, <2>2, <3>1 DEF QueueTrue, AiredPlays, NewestGoes
  <2>5. QED BY <2>3, <2>4
<1>5. CASE GreetingPlays
  <2> DEFINE g == "greeting"
  <2>1. /\ at[g] = "ready" /\ at' = [at EXCEPT ![g] = Entered]
        /\ queue' = Append(queue, g) /\ audio' = (audio /\ queue # <<>>)
        /\ UNCHANGED <<active, stopped, aired>> /\ g \in Voice
    BY <1>5, NamesDiffer DEF GreetingPlays
  <2> HIDE DEF g
  <2>2. at[g] \notin Locked /\ at[g] \in Registered /\ ~In(g, queue)
    BY <2>1 DEF Locked, Registered, Playing, QueueTrue
  <2>3. /\ queue' \in Seq(Voice)
        /\ Len(queue) \in Nat
        /\ DOMAIN queue' = 1 .. Len(queue) + 1 /\ DOMAIN queue = 1 .. Len(queue)
        /\ \A i \in DOMAIN queue : queue'[i] = queue[i]
        /\ queue'[Len(queue) + 1] = g
    BY <2>1, AppendProperties, LenProperties
  <2>4. Distinct(queue')
    BY <2>2, <2>3 DEF QueueTrue, Distinct, In
  <2>5. \A w : In(w, queue') <=> In(w, queue) \/ w = g
    BY <2>3 DEF In
  <2>6. /\ queue # <<>> => queue'[1] = queue[1] /\ at'[g] = "waiting"
        /\ queue = <<>> => queue'[1] = g /\ at'[g] = "pulling"
    BY <2>1, <2>3, EmptySeq DEF Entered
  <2>7. \A w \in Voice \ {g} : at'[w] = at[w]
    BY <2>1
  <2>8. StreamTypes'
    <3>1. Entered \in Place
      BY DEF Entered, Place, Registered, Playing
    <3>2. at' \in [Voice -> Place]
      BY <2>1, <3>1
    <3>3. QED BY <2>1, <2>3, <3>2
  <2>9. QueueTrue'
    <3>1. \A w \in Voice : at'[w] \in Locked <=> In(w, queue')
      BY <2>5, <2>6, <2>7 DEF QueueTrue, Locked, Playing
    <3>2. \A w \in Voice : at'[w] \in Playing => w = queue'[1]
      BY <1>1, <2>6, <2>7 DEF Playing
    <3>3. QED BY <2>4, <3>1, <3>2 DEF QueueTrue
  <2>10. AiredPlays'
    <3>1. \A w \in aired : w \in Voice /\ at[w] \in Playing /\ audio
      BY DEF AiredPlays
    <3>2. g \notin aired
      BY <2>2, <3>1 DEF Locked
    <3>3. QED BY <1>1, <2>1, <2>7, <3>1, <3>2 DEF AiredPlays
  <2>11. NewestGoes'
    BY <2>1, <2>2, <2>7 DEF NewestGoes
  <2>12. QED BY <2>8, <2>9, <2>10, <2>11
<1>6. QED BY <1>2, <1>3, <1>4, <1>5

\* What Leaves does, said of the streams.
LEMMA LeavesAll ==
    ASSUME Streams, NEW gone, at' \in [Voice -> Place],
           \A v \in Voice : IF v \in gone THEN at'[v] \notin Registered
                            ELSE at'[v] = at[v] \/ (at[v] \notin Registered /\ at'[v] \notin Registered),
           Leaves(gone, active)
    PROVE  Streams'
<1>1. /\ queue' = Without(gone) /\ aired' = aired \ gone
      /\ stopped \ gone \subseteq stopped' /\ stopped' \subseteq Voice
  BY DEF Leaves, Streams, StreamTypes
<1>2. IF active = Holder /\ Holder \in gone
      THEN active' = Nobody /\ audio' = FALSE
      ELSE UNCHANGED <<active, audio>>
  BY DEF Leaves
<1>3. QED BY <1>1, <1>2, LeavesStreams

\* Where Concludes leaves the task of a goodbye.
LEMMA ConcludesAt ==
    ASSUME Streams, NEW v \in Voice, Concludes(v)
    PROVE  /\ at' \in [Voice -> Place]
           /\ at'[v] \in {"quiet", "off"} /\ (v = "delivery" => at'[v] = "off")
           /\ \A w \in Voice \ {v} : at'[w] = at[w]
BY DEF Concludes, Streams, StreamTypes, Place

\* A stream that is over leaves its voice without one.
LEMMA FinishesStreams ==
    ASSUME Streams, NEW v \in Voice, Finishes(v)
    PROVE  Streams'
<1>1. at' \in [Voice -> Place] /\ at'[v] \in {"quiet", "off"}
      /\ \A w \in Voice \ {v} : at'[w] = at[w]
  <2>1. CASE v \in farewell
    BY <2>1, ConcludesAt DEF Finishes
  <2>2. CASE v \notin farewell
    BY <2>2 DEF Finishes, Streams, StreamTypes, Place
  <2>3. QED BY <2>1, <2>2
<1>2. \A w \in Voice : IF w \in {v} THEN at'[w] \notin Registered ELSE at'[w] = at[w]
  BY <1>1 DEF Registered, Playing
<1>3. Leaves({v}, active)
  BY DEF Finishes
<1>4. QED BY <1>1, <1>2, <1>3, LeavesAll

\* Every step keeps the order of the lock, the gate of what is on the wire and the stop
\* flags of what was superseded.
LEMMA StreamsStep == PlayoutInv /\ [Next]_vars => Streams'
<1> SUFFICES ASSUME PlayoutInv, [Next]_vars PROVE Streams'
  OBVIOUS
<1>a. Streams /\ at \in [Voice -> Place]
  BY DEF PlayoutInv, Streams, StreamTypes
<1>b. Entered \in Place /\ Entered \in Locked
  BY DEF Entered, Place, Locked, Registered, Playing
<1>c. /\ {"unsaid", "off", "quiet", "screening"} \subseteq Place
      /\ {"unsaid", "off", "quiet", "screening"} \cap Registered = {}
      /\ Locked \subseteq Registered
  BY DEF Place, Registered, Locked, Playing
<1> USE NamesDiffer
<1>1. ASSUME NEW v \in Voice, Acquires(v) \/ Pulls(v) \/ Sends(v) \/ GreetingPlays PROVE Streams'
  BY <1>1, <1>a, PlayStreams
<1>2. ASSUME NEW v \in Voice, Ends(v) \/ Fails(v) PROVE Streams'
  BY <1>2, <1>a, FinishesStreams DEF Ends, Fails
<1>3. ASSUME NEW r \in Reply, Says(r) PROVE Streams'
  <2>1. /\ at[r] = "unsaid" /\ Speaks(r, {"filler"}) /\ r \in Voice /\ r # "filler"
        /\ at' = [at EXCEPT ![r] = Entered, !["filler"] = "off"]
    BY <1>3 DEF Says
  <2>2. /\ at' \in [Voice -> Place] /\ at'[r] = Entered /\ at'["filler"] = "off"
        /\ \A w \in Voice \ {r} : w # "filler" => at'[w] = at[w]
    BY <1>a, <1>b, <1>c, <2>1
  <2>3. \A w \in Voice \ {r} : IF w \in {"filler"} THEN at'[w] \notin Registered ELSE at'[w] = at[w]
    BY <1>c, <2>2
  <2>4. r \notin {"filler"} /\ at[r] \notin Locked
    BY <1>c, <2>1
  <2>5. QED BY <1>a, <2>1, <2>2, <2>3, <2>4, SpeaksStreams
<1>4. ASSUME NEW u \in Voice, at[u] \in {"unsaid", "off", "quiet", "screening"},
             Speaks(u, {}), at' = [at EXCEPT ![u] = Entered]
      PROVE  Streams'
  <2>1. /\ at' \in [Voice -> Place] /\ at'[u] = Entered
        /\ \A w \in Voice \ {u} : IF w \in {} THEN at'[w] \notin Registered ELSE at'[w] = at[w]
    BY <1>a, <1>b, <1>4
  <2>2. u \notin {} /\ at[u] \notin Locked
    BY <1>c, <1>4
  <2>3. QED BY <1>4, <1>a, <2>1, <2>2, SpeaksStreams
<1>5. ASSUME NEW u \in Voice, at[u] \in {"unsaid", "off", "quiet", "screening"},
             NEW there \in {"off", "quiet", "screening"}, at' = [at EXCEPT ![u] = there],
             UNCHANGED <<active, stopped, queue, audio, aired>>
      PROVE  Streams'
  <2>1. at' \in [Voice -> Place] /\ at'[u] = there /\ \A w \in Voice \ {u} : at'[w] = at[w]
    BY <1>5, <1>a, <1>c
  <2>2. \A w \in Voice : at'[w] = at[w] \/ (at[w] \notin Registered /\ at'[w] \notin Registered)
    BY <1>5, <1>c, <2>1
  <2>3. QED BY <1>5, <1>a, <2>1, <2>2, StreamsStay
<1>6. ASSUME UNCHANGED <<at, active, stopped, queue, audio, aired>> PROVE Streams'
  BY <1>6, <1>a, StreamsStay
<1>7. CASE FillerWakes
  BY <1>4, <1>7 DEF FillerWakes
<1>8. CASE WindowExcused
  BY <1>6, <1>8 DEF WindowExcused
<1>9. CASE Reprompts
  BY <1>4, <1>9 DEF Reprompts, WindowSilent
<1>10. CASE GivesUp
  <2>1. WindowSilent /\ WindsUp("watchdog")
    BY <1>10 DEF GivesUp
  <2>2. CASE "goodbye" \in Feature
    BY <1>4, <2>1, <2>2 DEF WindsUp, StartsGoodbye, WindowSilent
  <2>3. CASE "goodbye" \notin Feature
    <3>1. Concludes("watchdog") /\ UNCHANGED <<active, stopped, queue, audio, aired>>
      BY <2>1, <2>3 DEF WindsUp
    <3>2. QED BY <1>5, <2>1, <3>1 DEF Concludes, WindowSilent
  <2>4. QED BY <2>2, <2>3
<1>11. CASE BargesIn
  <2>1. /\ at' = [at EXCEPT !["filler"] = "off"] /\ queue' = Without({"filler"})
        /\ stopped' = (stopped \cup Live) \ {"filler"} /\ aired' = aired \ {"filler"}
        /\ IF active = Holder /\ Holder \in {"filler"}
           THEN active' = Nobody /\ audio' = FALSE
           ELSE UNCHANGED <<active, audio>>
    BY <1>11 DEF BargesIn
  <2>2. stopped' \subseteq Voice /\ stopped \ {"filler"} \subseteq stopped'
    BY <1>a, <2>1 DEF Live, Streams, StreamTypes
  <2>3. at' \in [Voice -> Place] /\ at'["filler"] = "off" /\ \A w \in Voice \ {"filler"} : at'[w] = at[w]
    BY <1>a, <1>c, <2>1
  <2>4. \A w \in Voice : IF w \in {"filler"} THEN at'[w] \notin Registered ELSE at'[w] = at[w]
    BY <1>c, <2>3
  <2>5. QED BY <1>a, <2>1, <2>2, <2>3, <2>4, LeavesStreams
<1>12. CASE Presses
  BY <1>6, <1>12 DEF Presses
<1>13. CASE Mumbles
  BY <1>4, <1>6, <1>13 DEF Mumbles
<1>14. CASE FinishesTurn
  <2>1. /\ at["delivery"] = "off" /\ Leaves({"didntCatch"}, active)
        /\ at' = [at EXCEPT !["delivery"] = "screening", !["didntCatch"] = "off"]
    BY <1>14 DEF FinishesTurn
  <2>2. /\ at' \in [Voice -> Place] /\ at'["delivery"] = "screening" /\ at'["didntCatch"] = "off"
        /\ \A w \in Voice \ {"delivery", "didntCatch"} : at'[w] = at[w]
    BY <1>a, <1>c, <2>1
  <2>3. \A w \in Voice : IF w \in {"didntCatch"} THEN at'[w] \notin Registered
                         ELSE at'[w] = at[w] \/ (at[w] \notin Registered /\ at'[w] \notin Registered)
    BY <1>c, <2>1, <2>2
  <2>4. QED BY <1>a, <2>1, <2>2, <2>3, LeavesAll
<1>15. CASE Delivers
  <2>1. PICK there \in {"off", "quiet"} :
        /\ at["delivery"] = "screening" /\ Leaves({"filler"}, active)
        /\ at' = [at EXCEPT !["delivery"] = "off", !["filler"] = there]
    BY <1>15 DEF Delivers
  <2>2. /\ at' \in [Voice -> Place] /\ at'["delivery"] = "off" /\ at'["filler"] = there
        /\ \A w \in Voice \ {"delivery", "filler"} : at'[w] = at[w]
    BY <1>a, <1>c, <2>1
  <2>3. \A w \in Voice : IF w \in {"filler"} THEN at'[w] \notin Registered
                         ELSE at'[w] = at[w] \/ (at[w] \notin Registered /\ at'[w] \notin Registered)
    BY <1>c, <2>1, <2>2
  <2>4. QED BY <1>a, <2>1, <2>2, <2>3, LeavesAll
<1>16. CASE Declines
  BY <1>4, <1>5, <1>16 DEF Declines
<1>17. CASE TurnsAway
  BY <1>4, <1>5, <1>17 DEF TurnsAway
<1>18. CASE Holds \/ StopsListening
  BY <1>6, <1>18 DEF Holds, StopsListening
<1>19. ASSUME NEW gone, Unwinds(gone) PROVE Streams'
  <2>1. Leaves(gone, active) /\ at' = [v \in Voice |-> IF v \in gone THEN "off" ELSE at[v]]
    BY <1>19 DEF Unwinds
  <2>2. at' \in [Voice -> Place] /\ \A w \in Voice : at'[w] = IF w \in gone THEN "off" ELSE at[w]
    BY <1>a, <1>c, <2>1
  <2>3. \A w \in Voice : IF w \in gone THEN at'[w] \notin Registered ELSE at'[w] = at[w]
    BY <1>c, <2>2
  <2>4. QED BY <1>a, <2>1, <2>2, <2>3, LeavesAll
<1>20. CASE Drained \/ GreetingFails
  BY <1>19, <1>20 DEF Drained, GreetingFails
<1>21. CASE Returns
  <2>1. Leaves({"filler"}, active) /\ at' = [at EXCEPT !["filler"] = "off"]
    BY <1>21 DEF Returns
  <2>2. at' \in [Voice -> Place] /\ at'["filler"] = "off" /\ \A w \in Voice \ {"filler"} : at'[w] = at[w]
    BY <1>a, <1>c, <2>1
  <2>3. \A w \in Voice : IF w \in {"filler"} THEN at'[w] \notin Registered ELSE at'[w] = at[w]
    BY <1>c, <2>2
  <2>4. QED BY <1>a, <2>1, <2>2, <2>3, LeavesAll
<1>22. CASE UNCHANGED vars
  BY <1>6, <1>22 DEF vars
<1>23. QED
  BY <1>1, <1>2, <1>3, <1>7, <1>8, <1>9, <1>10, <1>11, <1>12, <1>13, <1>14, <1>15, <1>16,
     <1>17, <1>18, <1>20, <1>21, <1>22 DEF Next

----
(* The goodbyes *)

\* The end of a goodbye, of whoever it was (_end_call_gracefully).
LEMMA ConcludesGoodbyes ==
    ASSUME PlayoutInv, NEW v \in {"watchdog", "delivery"}, Concludes(v),
           v = "delivery" => "delivery" \in farewell, UNCHANGED <<held, phase>>
    PROVE  CallTypes' /\ GoodbyeTrue'
<1> USE DEF PlayoutInv
<1>1. at \in [Voice -> Place] /\ v \in Voice /\ {"watchdog", "delivery"} \subseteq Voice
  BY NamesDiffer DEF Streams, StreamTypes
<1>2. /\ caller' = FALSE
      /\ ending' = (ending \/ Commits)
      /\ at' = [at EXCEPT ![v] = IF v = "watchdog" /\ ~Commits THEN "quiet" ELSE "off"]
      /\ count' = IF v = "watchdog" /\ ~Commits THEN [count EXCEPT !.reprompts = 0] ELSE count
      /\ farewell' = farewell \ {v} /\ answered' = answered \ {v}
  BY DEF Concludes
<1>3. Commits \in BOOLEAN
  BY DEF Commits
<1>4. 0 \in 0 .. MaxReprompts
  BY PlayoutAssumption
<1>5. /\ count' \in [reprompts : 0..MaxReprompts, refusals : 0..MaxRefusals, turns : 0..MaxTurns]
      /\ count'.refusals = count.refusals
  BY <1>2, <1>4 DEF CallTypes
<1>6. AtMost' <=> AtMost
  BY <1>5 DEF AtMost
<1>7. CallTypes'
  <2>1. farewell' \subseteq {"watchdog", "delivery"} /\ answered' \subseteq farewell'
    BY <1>2 DEF CallTypes
  <2>2. {caller', held', ending'} \subseteq BOOLEAN
    BY <1>2, <1>3 DEF CallTypes
  <2>3. phase' \in {"listening", "draining", "joining", "returned"}
    BY DEF CallTypes
  <2>4. QED BY <1>5, <2>1, <2>2, <2>3 DEF CallTypes
<1>8. CASE v = "watchdog"
  <2>1. at'["delivery"] = at["delivery"]
    BY <1>1, <1>2, <1>8
  <2>2. "watchdog" \notin farewell' /\ "watchdog" \notin answered'
        /\ ("delivery" \in farewell' => "delivery" \in farewell)
    BY <1>2, <1>8
  <2>3. QED BY <1>6, <1>7, <2>1, <2>2 DEF GoodbyeTrue, Locked, Playing
<1>9. CASE v = "delivery"
  <2>1. at'["watchdog"] = at["watchdog"] /\ at'["delivery"] = "off"
    BY <1>1, <1>2, <1>9
  <2>2. AtMost
    BY <1>9 DEF GoodbyeTrue
  <2>3. "delivery" \notin farewell' /\ ("watchdog" \in farewell' => "watchdog" \in farewell)
    BY <1>2, <1>9
  <2>4. QED BY <1>6, <1>7, <2>1, <2>2, <2>3 DEF GoodbyeTrue, Locked, Playing
<1>10. QED BY <1>7, <1>8, <1>9

\* A step that is no goodbye's, and resets neither the caller's mark nor the refusals.
LEMMA GoodbyesStay ==
    ASSUME PlayoutInv, UNCHANGED ends, CallTypes',
           caller => caller', AtMost => AtMost',
           \A v \in {"watchdog", "delivery"} : at[v] \in Locked => at'[v] \in Locked,
           at'["delivery"] = "screening" => at["delivery"] = "screening"
    PROVE  GoodbyeTrue'
<1>1. farewell' = farewell /\ answered' = answered
  BY DEF ends
<1>2. QED BY <1>1 DEF PlayoutInv, GoodbyeTrue, Locked, Playing

\* The stream of a voice is over, or fails.
LEMMA FinishesGoodbyes ==
    ASSUME PlayoutInv, NEW v \in Voice, Finishes(v), at[v] \in Playing
    PROVE  CallTypes' /\ GoodbyeTrue'
<1>1. CASE v \in farewell
  <2>1. v \in {"watchdog", "delivery"} /\ Concludes(v) /\ UNCHANGED <<held, phase>>
    BY <1>1 DEF Finishes, PlayoutInv, CallTypes
  <2>2. QED BY <1>1, <2>1, ConcludesGoodbyes
<1>2. CASE v \notin farewell
  <2>1. /\ at' = [at EXCEPT ![v] = IF v \in {"filler", "watchdog"} THEN "quiet" ELSE "off"]
        /\ UNCHANGED <<caller, ends, count, held, ending, phase>>
    BY <1>2 DEF Finishes
  <2>2. at \in [Voice -> Place]
    BY DEF PlayoutInv, Streams, StreamTypes
  <2>3. CallTypes'
    BY <2>1 DEF PlayoutInv, CallTypes, ends
  <2>4. /\ \A w \in farewell : at'[w] = at[w]
        /\ at'["delivery"] = "screening" => at["delivery"] = "screening"
    BY <1>2, <2>1, <2>2, NamesDiffer DEF PlayoutInv, CallTypes
  <2>5. AtMost' <=> AtMost
    BY <2>1 DEF AtMost
  <2>6. farewell \subseteq {"watchdog", "delivery"} /\ answered' = answered /\ farewell' = farewell
        /\ caller' = caller
    BY <2>1 DEF PlayoutInv, CallTypes, ends
  <2>7. QED
    BY <2>3, <2>4, <2>5, <2>6 DEF PlayoutInv, GoodbyeTrue, Locked, Playing
<1>3. QED BY <1>1, <1>2

\* Every step keeps the types of the call's own state, and what is said of the goodbyes
\* and of those that the caller has answered.
LEMMA GoodbyesStep == PlayoutInv /\ [Next]_vars => CallTypes' /\ GoodbyeTrue'
<1> SUFFICES ASSUME PlayoutInv, [Next]_vars PROVE CallTypes' /\ GoodbyeTrue'
  OBVIOUS
<1>a. at \in [Voice -> Place]
  BY DEF PlayoutInv, Streams, StreamTypes
<1>b. /\ {"unsaid", "off", "quiet", "screening", "ready"} \cap Locked = {}
      /\ Entered \in Locked /\ Entered # "screening"
      /\ "pulling" \in Locked /\ "sending" \in Locked
  BY DEF Locked, Playing, Entered
<1>c. /\ MaxReprompts \in Nat /\ MaxRefusals \in Nat /\ MaxTurns \in Nat
      /\ count \in [reprompts : 0..MaxReprompts, refusals : 0..MaxRefusals, turns : 0..MaxTurns]
      /\ CallTypes /\ GoodbyeTrue
  BY PlayoutAssumption DEF PlayoutInv, CallTypes
<1>d. /\ {"watchdog", "delivery", "filler", "didntCatch", "greeting"} \subseteq Voice
      /\ \A r \in Reply : r \in Voice /\ r \notin {"watchdog", "delivery"}
  BY NamesDiffer
<1> DEFINE Stays == /\ \A v \in {"watchdog", "delivery"} : at[v] \in Locked => at'[v] \in Locked
                    /\ at'["delivery"] = "screening" => at["delivery"] = "screening"
<1>e. ASSUME CallTypes', UNCHANGED ends, caller' = caller, count'.refusals = count.refusals, Stays
      PROVE  CallTypes' /\ GoodbyeTrue'
  <2>1. AtMost => AtMost'
    BY <1>e DEF AtMost
  <2>2. QED BY <1>e, <2>1, GoodbyesStay
<1>f. ASSUME UNCHANGED <<caller, ends, count, course>>, Stays PROVE CallTypes' /\ GoodbyeTrue'
  <2>1. CallTypes'
    BY <1>c, <1>f DEF CallTypes, course, ends
  <2>2. QED BY <1>e, <1>f, <2>1
<1>g. ASSUME CallTypes', CallerActs, count'.refusals = count.refusals,
             \A v \in {"watchdog", "delivery"} : at[v] \in Locked => at'[v] \in Locked
      PROVE  CallTypes' /\ GoodbyeTrue'
  <2>1. AtMost => AtMost'
    BY <1>g DEF AtMost
  <2>2. caller' = TRUE /\ farewell' = farewell
    BY <1>g DEF CallerActs
  <2>3. QED BY <1>c, <1>g, <2>1, <2>2 DEF GoodbyeTrue, Locked, Playing
<1>1. ASSUME NEW v \in Voice, Acquires(v) \/ Pulls(v) \/ Sends(v) \/ GreetingPlays
      PROVE  CallTypes' /\ GoodbyeTrue'
  <2>1. UNCHANGED <<caller, ends, count, course>>
    BY <1>1 DEF Acquires, Pulls, Sends, GreetingPlays
  <2>2. Stays
    BY <1>1, <1>a, <1>b, <1>d DEF Acquires, Pulls, Sends, GreetingPlays
  <2>3. QED BY <1>f, <2>1, <2>2
<1>2. ASSUME NEW v \in Voice, Ends(v) \/ Fails(v) PROVE CallTypes' /\ GoodbyeTrue'
  BY <1>2, FinishesGoodbyes DEF Ends, Fails, Playing
<1>3. ASSUME NEW r \in Reply, Says(r) PROVE CallTypes' /\ GoodbyeTrue'
  <2>1. UNCHANGED <<caller, ends, count, course>> /\ at' = [at EXCEPT ![r] = Entered, !["filler"] = "off"]
    BY <1>3 DEF Says
  <2>2. Stays
    BY <1>a, <1>b, <1>d, <2>1
  <2>3. QED BY <1>f, <2>1, <2>2
<1>4. CASE FillerWakes
  <2>1. UNCHANGED <<caller, ends, count, course>> /\ at' = [at EXCEPT !["filler"] = Entered]
    BY <1>4 DEF FillerWakes
  <2>2. Stays
    BY <1>a, <1>b, <1>d, <2>1
  <2>3. QED BY <1>f, <2>1, <2>2
<1>5. CASE WindowExcused
  <2>1. /\ at["watchdog"] = "quiet" /\ caller' = (caller /\ held)
        /\ count' = [count EXCEPT !.reprompts = 0]
        /\ UNCHANGED <<at, ends, course>>
    BY <1>5 DEF WindowExcused
  <2>2. CallTypes'
    <3>1. caller' \in BOOLEAN
      BY <2>1
    <3>2. 0 \in 0 .. MaxReprompts
      BY <1>c
    <3>3. count' \in [reprompts : 0..MaxReprompts, refusals : 0..MaxRefusals, turns : 0..MaxTurns]
      BY <1>c, <2>1, <3>2
    <3>4. QED BY <1>c, <2>1, <3>1, <3>3 DEF CallTypes, course, ends
  <2>3. "watchdog" \notin answered
    BY <1>b, <1>c, <2>1 DEF GoodbyeTrue, CallTypes
  <2>4. AtMost => AtMost'
    BY <1>c, <2>1 DEF AtMost
  <2>5. QED BY <1>c, <2>1, <2>2, <2>3, <2>4 DEF GoodbyeTrue, ends, Locked, Playing
<1>6. CASE Reprompts
  <2>1. /\ count.reprompts < MaxReprompts /\ at["watchdog"] = "quiet"
        /\ at' = [at EXCEPT !["watchdog"] = Entered]
        /\ count' = [count EXCEPT !.reprompts = @ + 1]
        /\ UNCHANGED <<caller, ends, course>>
    BY <1>6 DEF Reprompts, WindowSilent
  <2>2. CallTypes'
    <3>1. count.reprompts + 1 \in 0 .. MaxReprompts
      BY <1>c, <2>1
    <3>2. count' \in [reprompts : 0..MaxReprompts, refusals : 0..MaxRefusals, turns : 0..MaxTurns]
      BY <1>c, <2>1, <3>1
    <3>3. QED BY <1>c, <2>1, <3>2 DEF CallTypes, course, ends
  <2>3. Stays
    BY <1>a, <1>b, <1>d, <2>1
  <2>4. QED BY <1>c, <1>e, <2>1, <2>2, <2>3
<1>7. CASE GivesUp
  <2>1. /\ at["watchdog"] = "quiet" /\ WindsUp("watchdog") /\ UNCHANGED <<held, phase>>
        /\ IF "goodbye" \in Feature THEN UNCHANGED caller ELSE TRUE
    BY <1>7 DEF GivesUp, WindowSilent
  <2>2. CASE "goodbye" \in Feature
    <3>1. /\ at' = [at EXCEPT !["watchdog"] = Entered]
          /\ farewell' = farewell \cup {"watchdog"} /\ answered' = answered \ {"watchdog"}
          /\ UNCHANGED <<count, ending, caller, held, phase>>
      BY <2>1, <2>2 DEF WindsUp, StartsGoodbye
    <3>2. CallTypes'
      BY <1>c, <3>1 DEF CallTypes
    <3>3. at'["watchdog"] \in Locked /\ at'["delivery"] = at["delivery"]
      BY <1>a, <1>b, <1>d, <3>1
    <3>4. AtMost' <=> AtMost
      BY <3>1 DEF AtMost
    <3>5. /\ "watchdog" \notin answered'
          /\ "delivery" \in farewell' => "delivery" \in farewell
      BY <3>1
    <3>6. QED BY <1>c, <3>2, <3>3, <3>4, <3>5 DEF GoodbyeTrue, Locked, Playing
  <2>3. CASE "goodbye" \notin Feature
    <3>1. Concludes("watchdog")
      BY <2>1, <2>3 DEF WindsUp
    <3>2. QED BY <2>1, <3>1, ConcludesGoodbyes
  <2>4. QED BY <2>2, <2>3
<1>8. CASE BargesIn
  <2>1. CallerActs /\ at' = [at EXCEPT !["filler"] = "off"] /\ UNCHANGED <<count, course>>
    BY <1>8 DEF BargesIn
  <2>2. CallTypes'
    BY <1>c, <2>1 DEF CallTypes, CallerActs, course
  <2>3. \A v \in {"watchdog", "delivery"} : at[v] \in Locked => at'[v] \in Locked
    BY <1>a, <1>d, <2>1
  <2>4. QED BY <1>g, <2>1, <2>2, <2>3
<1>9. CASE Presses
  <2>1. CallerActs /\ UNCHANGED <<at, count, course>>
    BY <1>9 DEF Presses
  <2>2. CallTypes'
    BY <1>c, <2>1 DEF CallTypes, CallerActs, course
  <2>3. QED BY <1>g, <2>1, <2>2
<1>10. CASE Mumbles \/ FinishesTurn
  <2>1. /\ count.turns < MaxTurns /\ CallerActs
        /\ count' = [count EXCEPT !.turns = @ + 1] /\ UNCHANGED course
    BY <1>10 DEF Mumbles, FinishesTurn
  <2>2. CallTypes'
    <3>1. count.turns + 1 \in 0 .. MaxTurns
      BY <1>c, <2>1
    <3>2. count' \in [reprompts : 0..MaxReprompts, refusals : 0..MaxRefusals, turns : 0..MaxTurns]
      BY <1>c, <2>1, <3>1
    <3>3. QED BY <1>c, <2>1, <3>2 DEF CallTypes, CallerActs, course
  <2>3. CASE Mumbles
    <3>1. at' = at \/ at' = [at EXCEPT !["didntCatch"] = Entered]
      BY <2>3 DEF Mumbles
    <3>2. \A v \in {"watchdog", "delivery"} : at[v] \in Locked => at'[v] \in Locked
      BY <1>a, <1>d, <3>1
    <3>3. QED BY <1>c, <1>g, <2>1, <2>2, <3>2
  <2>4. CASE FinishesTurn
    <3>1. at["delivery"] = "off" /\ at' = [at EXCEPT !["delivery"] = "screening", !["didntCatch"] = "off"]
      BY <2>4 DEF FinishesTurn
    <3>2. \A v \in {"watchdog", "delivery"} : at[v] \in Locked => at'[v] \in Locked
      BY <1>a, <1>b, <1>d, <3>1
    <3>3. QED BY <1>c, <1>g, <2>1, <2>2, <3>2
  <2>5. QED BY <1>10, <2>3, <2>4
<1>11. CASE Delivers
  <2>1. PICK there \in {"off", "quiet"} :
        /\ at["delivery"] = "screening"
        /\ at' = [at EXCEPT !["delivery"] = "off", !["filler"] = there]
        /\ count' = [count EXCEPT !.refusals = 0]
        /\ UNCHANGED <<caller, ends, course>>
    BY <1>11 DEF Delivers
  <2>2. CallTypes'
    <3>1. 0 \in 0 .. MaxRefusals
      BY <1>c
    <3>2. count' \in [reprompts : 0..MaxReprompts, refusals : 0..MaxRefusals, turns : 0..MaxTurns]
      BY <1>c, <2>1, <3>1
    <3>3. QED BY <1>c, <2>1, <3>2 DEF CallTypes, course, ends
  <2>3. "delivery" \notin farewell /\ ("watchdog" \in answered => caller)
    BY <1>b, <1>c, <2>1 DEF GoodbyeTrue
  <2>4. at'["watchdog"] = at["watchdog"]
    BY <1>a, <1>d, <2>1
  <2>5. QED BY <1>c, <2>1, <2>2, <2>3, <2>4 DEF GoodbyeTrue, ends, Locked, Playing
<1>h. /\ Refused \in [reprompts : 0..MaxReprompts, refusals : 0..MaxRefusals, turns : 0..MaxTurns]
      /\ Refused.refusals >= count.refusals
      /\ AtLimit => MaxRefusals > 0 /\ Refused.refusals >= MaxRefusals
  <2> DEFINE more == IF count.refusals < MaxRefusals THEN count.refusals + 1 ELSE count.refusals
  <2>1. more \in 0 .. MaxRefusals /\ more >= count.refusals
    BY <1>c
  <2>2. AtLimit => MaxRefusals > 0 /\ more >= MaxRefusals
    BY <1>c DEF AtLimit
  <2>3. Refused = [count EXCEPT !.refusals = more]
    BY DEF Refused
  <2> HIDE DEF more
  <2>4. Refused.refusals = more
    BY <1>c, <2>3
  <2>5. QED BY <1>c, <2>1, <2>2, <2>3, <2>4
<1>12. CASE Declines
  <2>1. /\ at["delivery"] = "screening" /\ count' = Refused
        /\ UNCHANGED <<caller, ends, course>>
        /\ \/ at' = [at EXCEPT !["delivery"] = Entered]
           \/ at' = [at EXCEPT !["delivery"] = "off"]
    BY <1>12 DEF Declines
  <2>2. CallTypes'
    BY <1>c, <1>h, <2>1 DEF CallTypes, course, ends
  <2>3. Stays
    BY <1>a, <1>b, <1>d, <2>1
  <2>4. AtMost => AtMost'
    BY <1>c, <1>h, <2>1 DEF AtMost
  <2>5. QED BY <2>1, <2>2, <2>3, <2>4, GoodbyesStay
<1>13. CASE TurnsAway
  <2>1. /\ at["delivery"] = "screening" /\ count' = Refused /\ caller' = FALSE
        /\ UNCHANGED <<held, phase>> /\ AtLimit
    BY <1>13 DEF TurnsAway
  <2>2. AtMost'
    BY <1>h, <2>1 DEF AtMost
  <2>3. CASE "goodbye" \in Feature
    <3>1. /\ at' = [at EXCEPT !["delivery"] = Entered]
          /\ farewell' = farewell \cup {"delivery"} /\ answered' = answered \ {"delivery"}
          /\ UNCHANGED ending
      BY <1>13, <2>3 DEF TurnsAway
    <3>2. CallTypes'
      BY <1>c, <1>h, <2>1, <3>1 DEF CallTypes
    <3>3. at'["delivery"] \in Locked /\ at'["delivery"] # "screening" /\ at'["watchdog"] = at["watchdog"]
      BY <1>a, <1>b, <1>d, <3>1
    <3>4. "watchdog" \in farewell' => "watchdog" \in farewell
      BY <3>1
    <3>5. QED BY <1>c, <2>2, <3>2, <3>3, <3>4 DEF GoodbyeTrue, Locked, Playing
  <2>4. CASE "goodbye" \notin Feature
    <3>1. /\ at' = [at EXCEPT !["delivery"] = "off"]
          /\ ending' = (ending \/ ~held) /\ UNCHANGED ends
      BY <1>13, <2>4 DEF TurnsAway
    <3>2. ending' \in BOOLEAN
      BY <3>1
    <3>3. CallTypes'
      BY <1>c, <1>h, <2>1, <3>1, <3>2 DEF CallTypes, ends
    <3>4. at'["delivery"] = "off" /\ at'["watchdog"] = at["watchdog"]
      BY <1>a, <1>d, <3>1
    <3>5. "delivery" \notin farewell
      BY <1>b, <1>c, <2>1 DEF GoodbyeTrue
    <3>6. QED BY <1>c, <2>2, <3>1, <3>3, <3>4, <3>5 DEF GoodbyeTrue, ends, Locked, Playing
  <2>5. QED BY <2>3, <2>4
<1>14. CASE Holds \/ StopsListening
  <2>1. UNCHANGED <<at, caller, ends, count, ending>>
    BY <1>14 DEF Holds, StopsListening
  <2>2. held' \in BOOLEAN /\ phase' \in {"listening", "draining", "joining", "returned"}
    BY <1>14, <1>c DEF Holds, StopsListening, CallTypes
  <2>3. CallTypes'
    BY <1>c, <2>1, <2>2 DEF CallTypes, ends
  <2>4. QED BY <1>e, <2>1, <2>3
<1>15. ASSUME NEW gone, Unwinds(gone), "watchdog" \in gone,
              "delivery" \in gone \/ at["delivery"] = "off"
       PROVE  CallTypes' /\ GoodbyeTrue'
  <2>1. /\ at' = [v \in Voice |-> IF v \in gone THEN "off" ELSE at[v]]
        /\ farewell' = farewell \ gone /\ answered' = answered \ gone
        /\ UNCHANGED <<caller, count, held, ending>> /\ phase' = "joining"
    BY <1>15 DEF Unwinds
  <2>2. CallTypes'
    BY <1>c, <2>1 DEF CallTypes
  <2>3. "delivery" \notin farewell'
    BY <1>15, <1>b, <1>c, <2>1 DEF GoodbyeTrue
  <2>4. "watchdog" \notin farewell' /\ "watchdog" \notin answered'
    BY <1>15, <2>1
  <2>5. QED BY <2>2, <2>3, <2>4 DEF GoodbyeTrue
<1>16. CASE Drained \/ GreetingFails
  BY <1>15, <1>16 DEF Drained, GreetingFails
<1>17. CASE Returns
  <2>1. at' = [at EXCEPT !["filler"] = "off"] /\ phase' = "returned"
        /\ UNCHANGED <<caller, ends, count, held, ending>>
    BY <1>17 DEF Returns
  <2>2. CallTypes'
    BY <1>c, <2>1 DEF CallTypes, ends
  <2>3. Stays
    BY <1>a, <1>d, <2>1
  <2>4. QED BY <1>e, <2>1, <2>2, <2>3
<1>18. CASE UNCHANGED vars
  BY <1>f, <1>18 DEF vars
<1>19. QED
  BY <1>d, <1>1, <1>2, <1>3, <1>4, <1>5, <1>6, <1>7, <1>8, <1>9, <1>10, <1>11, <1>12, <1>13, <1>14,
     <1>16, <1>17, <1>18 DEF Next

----
(* What follows *)

\* Nothing has been said yet, but for a greeting that is ready.
LEMMA InitPlayoutInv == Init => PlayoutInv
<1> SUFFICES ASSUME Init PROVE PlayoutInv
  OBVIOUS
<1> USE DEF Init
<1>0. /\ queue = <<>> /\ <<>> \in Seq(Voice) /\ DOMAIN <<>> = {}
      /\ aired = {} /\ stopped = {} /\ audio = FALSE
      /\ active = IF "greeting" \in Feature THEN "greeting" ELSE Nobody
  BY EmptySeq, LenProperties
<1>1. \A v \in Voice : /\ at[v] \in {"unsaid", "ready", "quiet", "off"}
                       /\ at[v] = "ready" => v = "greeting" /\ "greeting" \in Feature
  <2> SUFFICES ASSUME NEW v \in Voice
               PROVE  /\ at[v] \in {"unsaid", "ready", "quiet", "off"}
                      /\ at[v] = "ready" => v = "greeting" /\ "greeting" \in Feature
    OBVIOUS
  <2>1. at[v] = CASE v \in Reply -> "unsaid"
                  [] v = "greeting" /\ v \in Feature -> "ready"
                  [] v = "watchdog" /\ v \in Feature -> "quiet"
                  [] OTHER -> "off"
    OBVIOUS
  <2>2. QED BY <2>1
<1>2. at \in [Voice -> Place]
  BY <1>1 DEF Place, Registered
<1>3. \A v \in Voice : at[v] \notin Locked
  BY <1>1 DEF Locked, Playing
<1>4. StreamTypes
  BY <1>0, <1>2, NamesDiffer DEF StreamTypes
<1>5. QueueTrue
  BY <1>0, <1>3 DEF QueueTrue, Distinct, In, Locked
<1>6. AiredPlays
  BY <1>0 DEF AiredPlays
<1>7. NewestGoes
  BY <1>0, <1>1 DEF NewestGoes, Registered, Playing
<1>8. CallTypes
  <2>1. count \in [reprompts : 0..MaxReprompts, refusals : 0..MaxRefusals, turns : 0..MaxTurns]
    BY PlayoutAssumption DEF Zero
  <2>2. {caller, held, ending} \subseteq BOOLEAN
    OBVIOUS
  <2>3. QED BY <2>1, <2>2 DEF CallTypes
<1>9. GoodbyeTrue
  BY DEF GoodbyeTrue
<1>10. QED BY <1>4, <1>5, <1>6, <1>7, <1>8, <1>9 DEF PlayoutInv, Streams

\* The invariant holds throughout every call.
THEOREM PlayoutInvariance == Spec => []PlayoutInv
<1>1. PlayoutInv /\ [Next]_vars => PlayoutInv'
  BY StreamsStep, GoodbyesStep DEF PlayoutInv
<1>2. QED BY <1>1, InitPlayoutInv, PTL DEF Spec

\* A stream that is on the wire plays behind an armed echo gate, whichever streams
\* supersede it and whichever tasks are cancelled (_play, _speak_text).
THEOREM GateHolds == Spec => []EchoGated
<1>1. PlayoutInv => EchoGated
  <2>1. PlayoutInv => TypeOK
    BY QueueBounded DEF PlayoutInv, Streams, StreamTypes, QueueTrue, CallTypes, TypeOK
  <2>2. PlayoutInv => \A v \in aired : at[v] \in Playing => audio
    BY DEF PlayoutInv, Streams, AiredPlays
  <2>3. QED BY <2>1, <2>2 DEF EchoGated
<1>2. QED BY <1>1, PlayoutInvariance, PTL

\* Of the steps only Pulls takes a frame from a synthesiser, and of the newest stream.
LEMMA PullStep ==
    ASSUME PlayoutInv, [Next]_vars, NEW v \in Voice, at[v] = "pulling", at'[v] = "sending"
    PROVE  v = active
<1>1. at \in [Voice -> Place]
  BY DEF PlayoutInv, Streams, StreamTypes
<1>2. ASSUME NEW u \in Voice, Pulls(u) PROVE v = active
  <2>1. u = v /\ v \notin stopped
    BY <1>1, <1>2 DEF Pulls
  <2>2. QED BY <2>1 DEF PlayoutInv, Streams, NewestGoes, Registered, Playing
<1>3. ASSUME NEW u \in Voice, Concludes(u) PROVE FALSE
  BY <1>1, <1>3 DEF Concludes
<1>4. ASSUME NEW u \in Voice, at' = [at EXCEPT ![u] = Entered], at[u] # "pulling" PROVE FALSE
  BY <1>1, <1>4 DEF Entered
<1>5. ASSUME NEW u \in Voice, Acquires(u) \/ Sends(u) \/ Ends(u) \/ Fails(u) PROVE FALSE
  BY <1>1, <1>3, <1>5 DEF Acquires, Sends, Ends, Fails, Finishes
<1>6. ASSUME NEW r \in Reply, Says(r) PROVE FALSE
  BY <1>1, <1>6 DEF Says, Entered
<1>7. CASE GreetingPlays \/ FillerWakes \/ Reprompts \/ Mumbles \/ Declines \/ TurnsAway
  BY <1>1, <1>4, <1>7, NamesDiffer DEF GreetingPlays, FillerWakes, Reprompts, WindowSilent, Mumbles,
     Declines, TurnsAway
<1>8. CASE GivesUp
  BY <1>3, <1>4, <1>8, NamesDiffer DEF GivesUp, WindsUp, StartsGoodbye, WindowSilent
<1>9. CASE WindowExcused \/ Presses \/ Holds \/ StopsListening \/ UNCHANGED vars
  BY <1>9 DEF WindowExcused, Presses, Holds, StopsListening, vars
<1>10. CASE BargesIn \/ FinishesTurn \/ Delivers \/ Returns
  BY <1>1, <1>10 DEF BargesIn, FinishesTurn, Delivers, Returns
<1>11. CASE Drained \/ GreetingFails
  BY <1>1, <1>11 DEF Drained, GreetingFails, Unwinds
<1>12. QED
  BY <1>2, <1>5, <1>6, <1>7, <1>8, <1>9, <1>10, <1>11 DEF Next

\* Whatever supersedes what, a stream that is no longer the active one takes no further
\* frame from its synthesiser (speak, _speak_text).
THEOREM SupersededAreSilent == Spec => SupersededIsSilent
<1>1. PlayoutInv /\ [Next]_vars
        => [\A v \in Voice : at[v] = "pulling" /\ at'[v] = "sending" => v = active]_vars
  BY PullStep
<1>2. QED BY <1>1, PlayoutInvariance, PTL DEF Spec, SupersededIsSilent

\* Of the steps only the end of a goodbye decides to end the call, and of a caller who has
\* not answered the watchdog's, or whose refusals have reached the limit.
LEMMA EndStep ==
    ASSUME PlayoutInv, [Next]_vars, ending', ~ending
    PROVE  "watchdog" \notin answered \/ (MaxRefusals > 0 /\ count'.refusals >= MaxRefusals)
<1> DEFINE Goal == "watchdog" \notin answered \/ (MaxRefusals > 0 /\ count'.refusals >= MaxRefusals)
<1>0. /\ MaxRefusals \in Nat /\ GoodbyeTrue /\ CallTypes
      /\ count \in [reprompts : 0..MaxReprompts, refusals : 0..MaxRefusals, turns : 0..MaxTurns]
  BY PlayoutAssumption DEF PlayoutInv, CallTypes
<1>1. ASSUME NEW v \in {"watchdog", "delivery"}, Concludes(v) PROVE Goal
  <2>1. ~caller /\ (count'.refusals = count.refusals)
    BY <1>0, <1>1 DEF Concludes, Commits
  <2>2. "watchdog" \in answered => AtMost
    BY <1>0, <2>1 DEF GoodbyeTrue
  <2>3. QED BY <2>1, <2>2 DEF AtMost
<1>2. ASSUME NEW v \in Voice, Ends(v) \/ Fails(v) PROVE Goal
  <2>1. Finishes(v)
    BY <1>2 DEF Ends, Fails
  <2>2. v \in farewell
    BY <2>1 DEF Finishes
  <2>3. QED BY <1>0, <1>1, <2>1, <2>2 DEF Finishes, CallTypes
<1>3. CASE GivesUp
  BY <1>1, <1>3 DEF GivesUp, WindsUp, StartsGoodbye
<1>4. CASE TurnsAway
  <2>1. AtLimit /\ count' = Refused
    BY <1>4 DEF TurnsAway
  <2> DEFINE more == IF count.refusals < MaxRefusals THEN count.refusals + 1 ELSE count.refusals
  <2>2. MaxRefusals > 0 /\ more >= MaxRefusals
    BY <1>0, <2>1 DEF AtLimit
  <2>3. count'.refusals = more
    BY <1>0, <2>1 DEF Refused
  <2>4. QED BY <2>2, <2>3
<1>5. ASSUME NEW v \in Voice, Acquires(v) \/ Pulls(v) \/ Sends(v) PROVE FALSE
  BY <1>5 DEF Acquires, Pulls, Sends, course
<1>6. ASSUME NEW r \in Reply, Says(r) PROVE FALSE
  BY <1>6 DEF Says, course
<1>7. CASE GreetingPlays \/ FillerWakes \/ WindowExcused \/ Reprompts \/ BargesIn \/ Presses
           \/ Mumbles \/ FinishesTurn \/ Delivers \/ Declines
  BY <1>7 DEF GreetingPlays, FillerWakes, WindowExcused, Reprompts, BargesIn, Presses, Mumbles,
     FinishesTurn, Delivers, Declines, course
<1>8. CASE Holds \/ StopsListening \/ Drained \/ GreetingFails \/ Returns \/ UNCHANGED vars
  BY <1>8 DEF Holds, StopsListening, Drained, GreetingFails, Unwinds, Returns, course, vars
<1>9. QED
  BY <1>2, <1>3, <1>4, <1>5, <1>6, <1>7, <1>8 DEF Next

\* The no-input watchdog never hangs up on a caller who has answered its goodbye
\* (_end_call_gracefully).
THEOREM AnsweredGoOn == Spec => EndsUnanswered
<1>1. PlayoutInv /\ [Next]_vars
        => [ending' /\ ~ending =>
             \/ "watchdog" \notin answered
             \/ MaxRefusals > 0 /\ count'.refusals >= MaxRefusals]_vars
  BY EndStep
<1>2. QED BY <1>1, PlayoutInvariance, PTL DEF Spec, EndsUnanswered

----
(* Transfers *)

\* One tool asks at a time.
OneAsks == \A t, u \in Asking : t = u

\* What the window says is what the first key of the task that asks said.
WindowTrue ==
    \A t \in Asking :
        /\ window = "wait" => press[t] = "none"
        /\ window = "yes" => \/ press[t] = "clean"
                             \/ press[t] = "degraded" /\ clamp = "degraded"

\* A task that is about to send its REFER had a clean confirmation.
ReferClean == \A t \in Task : task[t] = "refer" => press[t] = "clean"

\* A task that asks for nothing and sends nothing has no key of an earlier window.
PressOwned ==
    \A t \in Task : task[t] \notin {"prompt", "window", "refer"} => press[t] = "none"

TransfersInv ==
    /\ TransfersTypeOK /\ WindowIsAsked /\ ConsultReserved
    /\ OneAsks /\ WindowTrue /\ ReferClean /\ PressOwned

----
(* The invariant is inductive *)

\* No tool has run yet.
LEMMA InitTransfersInv == TransfersInit => TransfersInv
BY DEF TransfersInit, TransfersInv, TransfersTypeOK, WindowIsAsked, ConsultReserved, OneAsks, WindowTrue, ReferClean,
       PressOwned, Asking

\* Every step of the caller, of the call and of the tools keeps the invariant.
LEMMA TransfersStep == TransfersInv /\ [TransfersNext]_transferVars => TransfersInv'
<1> SUFFICES ASSUME TransfersInv, [TransfersNext]_transferVars PROVE TransfersInv'
  OBVIOUS
<1> USE DEF TransfersInv, TransfersTypeOK, WindowIsAsked, ConsultReserved, OneAsks, WindowTrue, ReferClean,
            PressOwned, Asking, privilege, life, At, Forgets
<1>1. CASE Screen
  BY <1>1 DEF Screen
<1>2. CASE HangsUp
  BY <1>2 DEF HangsUp
<1>3. CASE Winds
  BY <1>3 DEF Winds
<1>4. CASE Expire
  BY <1>4 DEF Expire
<1>5. CASE LegEnds
  BY <1>5 DEF LegEnds
<1>6. ASSUME NEW digit \in {"1", "2"}, Press(digit) PROVE TransfersInv'
  BY <1>6 DEF Press, Feed, Heard, Decided
<1>7. ASSUME NEW t \in Task, AskBlind(t) PROVE TransfersInv'
  BY <1>7 DEF AskBlind, Unarmed
<1>8. ASSUME NEW t \in Task, Prompted(t) PROVE TransfersInv'
  BY <1>8 DEF Prompted
<1>9. ASSUME NEW t \in Task, Decide(t) PROVE TransfersInv'
  BY <1>9 DEF Decide, Revalidates, Gate
<1>10. ASSUME NEW t \in Task, SendRefer(t) PROVE TransfersInv'
  BY <1>10 DEF SendRefer, RefusesRefer
<1>11. ASSUME NEW t \in Task, Referred(t) PROVE TransfersInv'
  BY <1>11 DEF Referred
<1>12. ASSUME NEW t \in Task, Consult(t) PROVE TransfersInv'
  BY <1>12 DEF Consult
<1>13. ASSUME NEW t \in Task, DialUp(t) PROVE TransfersInv'
  BY <1>13 DEF DialUp
<1>14. ASSUME NEW t \in Task, DialFails(t) PROVE TransfersInv'
  BY <1>14 DEF DialFails
<1>15. ASSUME NEW t \in Task, Complete(t) PROVE TransfersInv'
  BY <1>15 DEF Complete
<1>16. ASSUME NEW t \in Task, CompleteNothing(t) PROVE TransfersInv'
  BY <1>16 DEF CompleteNothing
<1>17. ASSUME NEW t \in Task, SendReplaces(t) PROVE TransfersInv'
  BY <1>17 DEF SendReplaces, RefusesRefer
<1>18. ASSUME NEW t \in Task, Bridged(t) PROVE TransfersInv'
  BY <1>18 DEF Bridged
<1>19. ASSUME NEW t \in Task, CancelConsult(t) PROVE TransfersInv'
  BY <1>19 DEF CancelConsult
<1>20. ASSUME NEW t \in Task, Interrupt(t) PROVE TransfersInv'
  BY <1>20 DEF Interrupt, Disarms, DropsReservation
<1>21. CASE UNCHANGED transferVars
  BY <1>21 DEF transferVars
<1>22. QED
  BY <1>1, <1>2, <1>3, <1>4, <1>5, <1>6, <1>7, <1>8, <1>9, <1>10, <1>11, <1>12, <1>13, <1>14, <1>15, <1>16, <1>17, <1>18, <1>19, <1>20, <1>21 DEF TransfersNext, Asks, Goes

----
(* What follows *)

\* The invariant holds throughout every call.
THEOREM TransfersInvariance == TransfersSpec => []TransfersInv
<1>1. QED BY InitTransfersInv, TransfersStep, PTL DEF TransfersSpec

\* No confirmation window and no reserved consultation is orphaned, however many tools
\* run and wherever they fail or are cancelled (transfer_blind_on_call,
\* start_attended_consult).
THEOREM OrphansNothing == TransfersSpec => []NothingOrphaned
<1>1. TransfersInv => NothingOrphaned
  BY DEF TransfersInv, NothingOrphaned
<1>2. QED BY <1>1, TransfersInvariance, PTL

\* Of the steps only SendRefer sends a REFER, and it does so of a task whose
\* confirmation was clean.
LEMMA ReferStep ==
    ASSUME TransfersInv, [TransfersNext]_transferVars, NEW t \in Task, task[t] = "refer", task'[t] = "sent"
    PROVE  press[t] = "clean" /\ ~ended
<1>1. press[t] = "clean"
  BY DEF TransfersInv, ReferClean
<1>2. ~ended
  <2> USE DEF TransfersInv, TransfersTypeOK, At
  <2>1. CASE task' = task
    BY <2>1
  <2>2. ASSUME NEW u \in Task, Asks(u) PROVE FALSE
    BY <2>2 DEF Asks, AskBlind, Consult, Complete, CompleteNothing, CancelConsult
  <2>3. ASSUME NEW u \in Task, Interrupt(u) PROVE FALSE
    BY <2>3 DEF Interrupt
  <2>4. ASSUME NEW u \in Task, Goes(u) PROVE ~ended
    BY <2>4 DEF Goes, Prompted, Decide, SendRefer, Referred, DialUp, DialFails, SendReplaces,
                Bridged, RefusesRefer
  <2>5. QED
    BY <2>1, <2>2, <2>3, <2>4
       DEF TransfersNext, transferVars, Screen, Press, HangsUp, Winds, Expire, LegEnds
<1>3. QED BY <1>1, <1>2

\* A blind transfer's REFER follows a clean confirmation of its own, whatever keys were
\* pressed and whichever windows were cancelled before it (dtmf_confirm).
THEOREM ReferIsConfirmed == TransfersSpec => ReferConfirmed
<1>1. TransfersInv /\ [TransfersNext]_transferVars
        => [\A t \in Task : task[t] = "refer" /\ task'[t] = "sent"
              => press[t] = "clean" /\ ~ended]_transferVars
  BY ReferStep
<1>2. QED BY <1>1, TransfersInvariance, PTL DEF TransfersSpec, ReferConfirmed

----
(* Admission *)

\* The phases of a call that is known and not over.
Ongoing == {"classified", "answered", "declining", "up"}

\* What was found of a caller stays with the call.
CallTrue ==
    \/ call = NoCall /\ doc \in Documents /\ Loads(doc)
    \/ call = Over
    \/ /\ DOMAIN call = {"phase", "level", "tools", "decline", "intercom", "listed", "denied"}
       /\ call = [call EXCEPT !.phase = call.phase]
       /\ call.phase \in Ongoing

\* The lists decide who is above level 0 and who never comes to the agent.
LevelTrue ==
    call.phase \in Ongoing =>
        /\ call.level \in {0, 2, 3} /\ (call.level > 0 => call.listed)
        /\ call.denied => call.decline
        /\ Up => ~ call.decline

\* The guard of a call is that of its caller, moved by what was heard since.
GuardTrue ==
    /\ heard \in [failed : BOOLEAN, unclean : BOOLEAN]
    /\ call.phase \in {"none", "classified", "answered", "declining"} => heard = Unheard
    /\ guard = IF call.phase \in {"declining", "up"}
               THEN [level |-> call.level, tools |-> call.tools,
                     degraded |-> heard.failed, restricted |-> heard.unclean]
               ELSE NoGuard

\* What the hook let through was its caller's to ask, and it is this call's or no call's.
Granted(t) ==
    /\ DOMAIN t = {"name", "session", "arg", "heard", "call"}
    /\ t = [t EXCEPT !.arg = t.arg]
    /\ t.name \in Tools /\ t.arg \in ArgsOf(t.name)
    /\ t.call = NoCall \/ (t.call.phase = "up" /\ call \in {t.call, Over})
    /\ t.name \notin Safe =>
        IF t.call = NoCall
        THEN t.name = "place_call" /\ t.session \in Proactive \ {OwnSession}
        ELSE /\ t.call.listed /\ t.call.level >= MinLevel(t.name)
             /\ ~ t.heard.failed /\ ~ t.heard.unclean
             /\ t.name = "open_entry" => "open_entry" \in t.call.tools

AdmissionInv ==
    /\ CallTrue /\ LevelTrue /\ GuardTrue
    /\ tool = NoTool \/ Granted(tool)
    /\ EffectsAuthorised

----
(* The caller *)

\* A group is found by its name where one has it; what is found is one of those that do.
LEMMA Finds ==
    ASSUME NEW d \in Documents, NEW name
    PROVE  /\ IsNamed(d, name) <=> \E i \in DOMAIN d.groups : d.groups[i].name = name
           /\ IsNamed(d, name) =>
                /\ \E i \in DOMAIN d.groups :
                    d.groups[i].name = name /\ FirstNamed(d, name) = d.groups[i]
                /\ \E i \in DOMAIN d.groups :
                    d.groups[i].name = name /\ LastNamed(d, name) = d.groups[i]
<1> DEFINE places == {i \in DOMAIN d.groups : d.groups[i].name = name}
           found == Those(d.groups, places)
<1>1. d.groups \in Seq(ToSet(d.groups)) /\ places \in SUBSET DOMAIN d.groups
  BY AdmissionAssumption
<1>2. /\ found \in Seq(ToSet(d.groups)) /\ (found = <<>> <=> places = {})
      /\ \A n \in DOMAIN found : \E i \in places : found[n] = d.groups[i]
  <2> HIDE DEF places
  <2>1. QED BY <1>1, Keeps
<1>3. Named(d, name) = found
  BY DEF Named
<1>4. ASSUME found # <<>>
      PROVE  /\ 1 \in DOMAIN found /\ Len(found) \in DOMAIN found
             /\ Head(found) = found[1] /\ Last(found) = found[Len(found)]
  <2> HIDE DEF found
  <2>1. QED BY <1>2, <1>4, LenProperties, EmptySeq DEF Last
<1>5. QED
  <2> HIDE DEF found
  <2>1. QED BY <1>2, <1>3, <1>4 DEF IsNamed, FirstNamed, LastNamed

\* The levels are those of the gate.
LEMMA LevelsOfGate ==
    ASSUME NEW d \in Documents, Loads(d), NEW i \in DOMAIN d.groups
    PROVE  d.groups[i].level \in {0, 2, 3}
<1>1. CASE d.file
  BY <1>1 DEF Loads, Parses, ToSet
<1>2. CASE ~ d.file
  <2>1. d.groups = <<Operator, Receptionist, Blocked>>
    BY <1>2, AdmissionAssumption DEF FromLists
  <2>2. QED BY <2>1 DEF Operator, Receptionist, Blocked
<1>3. QED BY <1>1, <1>2, AdmissionAssumption

\* Who is of the default group has no privilege.
LEMMA DefaultIsLow == ASSUME NEW d \in Documents, Loads(d) PROVE DefaultGroup(d).level = 0
<1>1. CASE IsNamed(d, d.default)
  <2>1. PICK i \in DOMAIN d.groups :
            d.groups[i].name = d.default /\ FirstNamed(d, d.default) = d.groups[i]
    BY <1>1, Finds
  <2>2. PICK j \in DOMAIN d.groups :
            d.groups[j].name = d.default /\ LastNamed(d, d.default) = d.groups[j]
    BY <1>1, Finds
  <2>3. i = j
    BY <2>1, <2>2 DEF Loads, WellFormed, UniqueNames
  <2>4. QED BY <1>1, <2>1, <2>2, <2>3 DEF Loads, WellFormed, DefaultUnprivileged, DefaultGroup
<1>2. CASE ~ IsNamed(d, d.default)
  BY <1>2 DEF DefaultGroup, Receptionist
<1>3. QED BY <1>1, <1>2

\* A group that takes a caller above level 0 has the digits of its number.
LEMMA TakenIsListed ==
    ASSUME NEW d \in Documents, Loads(d), NEW from, from # Unresolved, NEW name,
           Takes(from, d, name), LastNamed(d, name).level > 0
    PROVE  ListedIn(from, d, name)
<1>1. PICK i \in DOMAIN d.groups :
          d.groups[i].name = name /\ LastNamed(d, name) = d.groups[i]
  BY Finds DEF Takes
<1>2. d.groups[i] \in PrivilegedIn(d)
  BY <1>1, LevelsOfGate DEF PrivilegedIn, ToSet, ElevatedLevel
<1>3. PICK p \in PatternsOf(d, name) : Matches(Normalize(from, d.norm), from, p)
  BY DEF Takes, MatchesOneOf
<1>4. p.digits # <<>>
  BY <1>1, <1>2 DEF Loads, WellFormed, NoBlanketPrivilege, IsBlanket
<1>5. \A form \in {Normalize(from, d.norm), from} : form.digits = from.digits
  BY DEF Normalize, E164, CallerId
<1>6. PICK form \in {Normalize(from, d.norm), from} :
          IF p.star THEN StartsWith(form, p) ELSE IsExactly(form, p)
  BY <1>3 DEF Matches
<1>7. IF p.star THEN IsPrefix(p.digits, from.digits) ELSE p.digits = from.digits
  BY <1>5, <1>6 DEF StartsWith, IsExactly, CallerId
<1>8. QED BY <1>4, <1>7 DEF ListedIn

\* A number on the deny list is taken by the first group of the three lists.
LEMMA DeniedIsTaken ==
    ASSUME NEW d \in Documents, Loads(d), NEW from \in Callers, DeniedIn(from, d)
    PROVE  /\ d.order = LegacyOrder /\ Takes(from, d, "blocked")
           /\ LastNamed(d, "blocked").declined
<1>1. /\ ~ d.file /\ d.groups = <<Operator, Receptionist, Blocked>>
      /\ d.order = LegacyOrder
  BY AdmissionAssumption DEF DeniedIn, FromLists
<1>2. IsNamed(d, "blocked")
  <2>1. 3 \in DOMAIN d.groups /\ d.groups[3].name = "blocked"
    BY <1>1 DEF Blocked
  <2>2. QED BY <2>1, Finds
<1>3. LastNamed(d, "blocked").declined
  <2>1. PICK i \in DOMAIN d.groups :
            d.groups[i].name = "blocked" /\ LastNamed(d, "blocked") = d.groups[i]
    BY <1>2, Finds
  <2>2. d.groups[i] \in {Operator, Receptionist, Blocked}
    BY <1>1, <2>1
  <2>3. QED BY <2>1, <2>2 DEF Operator, Receptionist, Blocked
<1>4. PICK p \in PatternsOf(d, "blocked") :
          from = CallerId(p.plus, p.digits, FALSE) \/ p = Pattern(FALSE, <<>>, TRUE)
  BY DEF DeniedIn
<1>5. Matches(Normalize(from, d.norm), from, p)
  <2>1. from.digits \in Seq(0..9) /\ Len(from.digits) \in Nat
    BY AdmissionAssumption, LenProperties
  <2>2. CASE p = Pattern(FALSE, <<>>, TRUE)
    <3>1. ~ p.plus /\ p.digits = <<>> /\ p.star
      BY <2>2 DEF Pattern
    <3>2. IsPrefix(<<>>, from.digits)
      BY <2>1, EmptySeq, SubSeqEmpty DEF IsPrefix
    <3>3. QED BY <3>1, <3>2 DEF Matches, StartsWith
  <2>3. CASE from = CallerId(p.plus, p.digits, FALSE)
    <3>1. from.digits = p.digits /\ from.plus = p.plus
      BY <2>3 DEF CallerId
    <3>2. IsPrefix(p.digits, from.digits)
      BY <2>1, <3>1 DEF IsPrefix
    <3>3. QED BY <2>3, <3>1, <3>2 DEF Matches, StartsWith, IsExactly
  <2>4. QED BY <1>4, <2>2, <2>3
<1>6. QED BY <1>1, <1>2, <1>3, <1>5 DEF Takes, MatchesOneOf

\* Whoever is put above level 0 is on the list of that group, and whoever is denied is
\* declined (classify_caller_group, caller_mode_config_to_groups).
LEMMA Classified ==
    ASSUME NEW d \in Documents, Loads(d), NEW from \in Callers \cup {Unresolved}
    PROVE  /\ Classify(from, d).level \in {0, 2, 3}
           /\ Classify(from, d).level > 0 => ListedIn(from, d, Classify(from, d).name)
           /\ DeniedIn(from, d) => Classify(from, d).declined
<1> DEFINE places == {i \in DOMAIN d.order : Takes(from, d, d.order[i])}
           taken == Those(d.order, places)
<1>1. /\ taken \in Seq(ToSet(d.order)) /\ (taken = <<>> <=> places = {})
      /\ \A n \in DOMAIN taken : \E i \in places : taken[n] = d.order[i]
      /\ 1 \in places => 1 \in DOMAIN taken /\ taken[1] = d.order[1]
  <2>1. d.order \in Seq(ToSet(d.order)) /\ places \in SUBSET DOMAIN d.order
    BY AdmissionAssumption
  <2> HIDE DEF places
  <2>2. QED BY <2>1, Keeps
<1>2. ClassifyCallerGroup(from, d) =
        IF taken = <<>> THEN DefaultGroup(d) ELSE LastNamed(d, Head(taken))
  BY DEF ClassifyCallerGroup
<1>3. CASE from = Unresolved \/ taken = <<>>
  <2>1. Classify(from, d) = DefaultGroup(d)
    BY <1>2, <1>3 DEF Classify
  <2>2. ASSUME DeniedIn(from, d) PROVE FALSE
    <3>1. from # Unresolved /\ from \in Callers
      BY <2>2 DEF DeniedIn
    <3>2. d.order = LegacyOrder /\ Takes(from, d, "blocked")
      BY <2>2, <3>1, DeniedIsTaken
    <3>3. 1 \in DOMAIN d.order /\ d.order[1] = "blocked"
      BY <3>2 DEF LegacyOrder
    <3>4. QED BY <1>1, <1>3, <3>1, <3>2, <3>3
  <2>3. QED BY <2>1, <2>2, DefaultIsLow
<1>4. CASE from # Unresolved /\ taken # <<>>
  <2>1. 1 \in DOMAIN taken /\ Head(taken) = taken[1]
    <3> HIDE DEF taken, places
    <3>1. QED BY <1>1, <1>4, LenProperties, EmptySeq
  <2>2. PICK i \in places : taken[1] = d.order[i]
    BY <1>1, <2>1
  <2> DEFINE name == taken[1]
  <2>3. Takes(from, d, name)
    BY <2>2
  <2>4. Classify(from, d) = LastNamed(d, name)
    BY <1>2, <1>4, <2>1 DEF Classify
  <2>5. PICK j \in DOMAIN d.groups : d.groups[j].name = name /\ LastNamed(d, name) = d.groups[j]
    <3>1. IsNamed(d, name)
      BY <2>3 DEF Takes
    <3> HIDE DEF name
    <3>2. QED BY <3>1, Finds
  <2>6. Classify(from, d).level \in {0, 2, 3} /\ Classify(from, d).name = name
    BY <2>4, <2>5, LevelsOfGate
  <2>7. Classify(from, d).level > 0 => ListedIn(from, d, name)
    BY <1>4, <2>3, <2>4, TakenIsListed
  <2>8. ASSUME DeniedIn(from, d) PROVE Classify(from, d).declined
    <3>1. /\ d.order = LegacyOrder /\ Takes(from, d, "blocked")
          /\ LastNamed(d, "blocked").declined
      BY <1>4, <2>8, DeniedIsTaken
    <3>2. 1 \in places /\ d.order[1] = "blocked"
      BY <3>1 DEF LegacyOrder
    <3>3. name = "blocked"
      BY <1>1, <3>2
    <3>4. QED BY <2>4, <3>1, <3>3
  <2>9. QED BY <2>6, <2>7, <2>8
<1>5. QED BY <1>3, <1>4

----
(* The gate *)

\* Without a call the hook lets through what is safe, and place_call from a listed session
\* that is no call; with one, what its guard allows (gate_voip_tool).
LEMMA Gated ==
    ASSUME NEW name \in Tools \ Safe, NEW g, NEW session, PreToolCall(name, g, session, Proactive)
    PROVE  IF g = NoGuard THEN name = "place_call" /\ session \in Proactive \ {OwnSession}
           ELSE /\ ~ g.degraded /\ ~ g.restricted /\ g.level >= MinLevel(name)
                /\ name = "open_entry" => "open_entry" \in g.tools
<1> DEFINE unknown == IF ProactivePlaceCallAllowed(name, session, Proactive)
                      THEN IrreversibleLevel ELSE 0
           judged == IF g = NoGuard THEN Guard(unknown, NoTools) ELSE g
<1>1. GateVoipTool(name, judged, name \in ConfirmedAtChokepoint)
  BY DEF PreToolCall
<1>2. /\ ~ judged.degraded /\ ~ judged.restricted /\ judged.level >= MinLevel(name)
      /\ name = "open_entry" => "open_entry" \in judged.tools
  BY <1>1 DEF GateVoipTool, GateToolCall, WithinGrant, GrantOnly
<1>3. CASE g # NoGuard
  BY <1>2, <1>3
<1>4. CASE g = NoGuard
  <2>1. judged.level = unknown /\ judged.tools = {}
    BY <1>4 DEF Guard, NoTools
  <2>2. ProactivePlaceCallAllowed(name, session, Proactive)
    BY <1>2, <2>1 DEF MinLevel, ElevatedLevel, IrreversibleLevel
  <2>3. name = "place_call" /\ session \in Proactive /\ session # OwnSession
    BY <2>2 DEF ProactivePlaceCallAllowed, OwnSession
  <2>4. QED BY <1>4, <2>3
<1>5. QED BY <1>3, <1>4

\* A call that has a guard is above NoGuard.
LEMMA HasGuard ==
    ASSUME CallTrue, LevelTrue, GuardTrue, Up
    PROVE  guard # NoGuard /\ call # NoCall /\ call # Over
<1>1. guard.level = call.level /\ call.level \in {0, 2, 3}
  BY DEF GuardTrue, LevelTrue, Up, Ongoing
<1>2. NoGuard.level = -1
  BY DEF NoGuard, Guard
<1>3. QED BY <1>1, <1>2 DEF Up, NoCall, Over

----
(* The steps of a call *)

\* A caller is classified.
LEMMA InviteInv ==
    ASSUME AdmissionInv, NEW from \in Callers \cup {Unresolved}, NEW mode,
           InboundInvite(from, mode)
    PROVE  AdmissionInv'
<1> DEFINE group == Classify(from, doc)
<1>1. call = NoCall /\ doc \in Documents /\ Loads(doc)
  BY DEF InboundInvite, AdmissionInv, CallTrue, NoCall, Over, Ongoing
<1>2. /\ group.level \in {0, 2, 3}
      /\ group.level > 0 => ListedIn(from, doc, group.name)
      /\ DeniedIn(from, doc) => group.declined
  BY <1>1, Classified
<1>3. \/ call' = Over
      \/ call' = [phase |-> "classified", level |-> group.level, tools |-> group.tools,
                  decline |-> group.declined, intercom |-> IntercomOf(from),
                  listed |-> ListedIn(from, doc, group.name), denied |-> DeniedIn(from, doc)]
  BY DEF InboundInvite
<1>4. UNCHANGED <<guard, tool, heard>> /\ did' = NoTool
  BY DEF InboundInvite, Quiet
<1> HIDE DEF group
<1>5. call'.phase \in {"over", "classified"}
  BY <1>3 DEF Over
<1>6. CallTrue' /\ LevelTrue'
  BY <1>2, <1>3, <1>5 DEF CallTrue, LevelTrue, Ongoing, Over, Up
<1>7. GuardTrue'
  BY <1>1, <1>4, <1>5 DEF AdmissionInv, GuardTrue, NoCall
<1>8. tool' = NoTool \/ Granted(tool)'
  <2>1. tool = NoTool \/ tool.call = NoCall
    BY <1>1 DEF AdmissionInv, Granted, NoCall, Over
  <2>2. QED BY <1>4, <2>1 DEF AdmissionInv, Granted, ArgsOf
<1>9. EffectsAuthorised'
  BY <1>4 DEF EffectsAuthorised, NoTool
<1>10. QED BY <1>6, <1>7, <1>8, <1>9 DEF AdmissionInv

\* A call that goes on to another phase keeps what was found of its caller.
LEMMA Advance ==
    ASSUME AdmissionInv, call.phase \in Ongoing, NEW next \in Ongoing,
           call' = [call EXCEPT !.phase = next], next = "up" => ~ call.decline,
           tool = NoTool \/ tool.call = NoCall, UNCHANGED <<tool, heard>>, did' = NoTool
    PROVE  /\ CallTrue' /\ LevelTrue' /\ (tool' = NoTool \/ Granted(tool)')
           /\ EffectsAuthorised'
           /\ call'.phase = next /\ call'.level = call.level /\ call'.tools = call.tools
<1>1. /\ DOMAIN call = {"phase", "level", "tools", "decline", "intercom", "listed", "denied"}
      /\ call = [call EXCEPT !.phase = call.phase]
  BY DEF AdmissionInv, CallTrue, NoCall, Over, Ongoing
<1>2. /\ call'.phase = next /\ call'.level = call.level /\ call'.tools = call.tools
      /\ call'.decline = call.decline /\ call'.listed = call.listed
      /\ call'.denied = call.denied
  BY <1>1
<1>3. CallTrue'
  BY <1>1, <1>2 DEF CallTrue
<1>4. LevelTrue'
  BY <1>2 DEF AdmissionInv, LevelTrue, Up
<1>5. tool' = NoTool \/ Granted(tool)'
  BY DEF AdmissionInv, Granted, ArgsOf
<1>6. EffectsAuthorised'
  BY DEF EffectsAuthorised, NoTool
<1>7. QED BY <1>2, <1>3, <1>4, <1>5, <1>6

\* A call that is not up is no tool's call.
LEMMA NotYet ==
    ASSUME AdmissionInv, call.phase \in {"classified", "answered", "declining"}
    PROVE  tool = NoTool \/ tool.call = NoCall
BY DEF AdmissionInv, Granted, Over

\* The call is over.
LEMMA EndsInv ==
    ASSUME AdmissionInv, call.phase \in Ongoing, call' = Over, guard' = NoGuard,
           UNCHANGED <<tool, heard>>, did' = NoTool
    PROVE  AdmissionInv'
<1>1. CallTrue' /\ LevelTrue' /\ GuardTrue'
  BY DEF AdmissionInv, CallTrue, LevelTrue, GuardTrue, Over, Ongoing, Up
<1>2. tool' = NoTool \/ Granted(tool)'
  BY DEF AdmissionInv, Granted, ArgsOf
<1>3. EffectsAuthorised'
  BY DEF EffectsAuthorised, NoTool
<1>4. QED BY <1>1, <1>2, <1>3 DEF AdmissionInv

\* The media is refused, or agreed and the call answered, or its handshake fails.
LEMMA MediaInv ==
    ASSUME AdmissionInv, NEW sdp, NEW knobs,
           Reject(sdp, knobs) \/ Answer(sdp, knobs) \/ HandshakeFails
    PROVE  AdmissionInv'
<1>1. CASE Reject(sdp, knobs) \/ HandshakeFails
  <2>1. /\ call.phase \in {"classified", "answered"} /\ call' = Over
        /\ UNCHANGED <<guard, tool, heard>> /\ did' = NoTool
    BY <1>1 DEF Reject, HandshakeFails, Quiet
  <2>2. guard' = NoGuard
    BY <2>1 DEF AdmissionInv, GuardTrue
  <2>3. QED BY <2>1, <2>2, EndsInv DEF Ongoing
<1>2. CASE Answer(sdp, knobs)
  <2>1. /\ call.phase = "classified" /\ call' = [call EXCEPT !.phase = "answered"]
        /\ UNCHANGED <<guard, tool, heard>> /\ did' = NoTool
    BY <1>2 DEF Answer, Quiet
  <2>2. /\ CallTrue' /\ LevelTrue' /\ (tool' = NoTool \/ Granted(tool)')
        /\ EffectsAuthorised' /\ call'.phase = "answered"
    BY <2>1, NotYet, Advance DEF Ongoing
  <2>3. GuardTrue'
    BY <2>1, <2>2 DEF AdmissionInv, GuardTrue
  <2>4. QED BY <2>2, <2>3 DEF AdmissionInv
<1>3. QED BY <1>1, <1>2

\* The session is made, with its guard.
LEMMA SessionInv == ASSUME AdmissionInv, StartSession PROVE AdmissionInv'
<1> DEFINE next == IF call.decline THEN "declining" ELSE "up"
<1>1. /\ call.phase = "answered" /\ call' = [call EXCEPT !.phase = next]
      /\ guard' = Guard(call.level, call.tools)
      /\ UNCHANGED <<tool, heard>> /\ did' = NoTool
  BY DEF StartSession, Quiet
<1>2. next \in {"declining", "up"} /\ (next = "up" => ~ call.decline)
  OBVIOUS
<1> HIDE DEF next
<1>3. /\ CallTrue' /\ LevelTrue' /\ (tool' = NoTool \/ Granted(tool)')
      /\ EffectsAuthorised'
      /\ call'.phase = next /\ call'.level = call.level /\ call'.tools = call.tools
  <2>1. PICK p \in {"declining", "up"} : p = next
    BY <1>2
  <2>2. p \in Ongoing /\ call' = [call EXCEPT !.phase = p] /\ (p = "up" => ~ call.decline)
    BY <1>1, <1>2, <2>1 DEF Ongoing
  <2>3. QED BY <1>1, <2>1, <2>2, NotYet, Advance DEF Ongoing
<1>4. heard' = Unheard
  BY <1>1 DEF AdmissionInv, GuardTrue
<1>5. GuardTrue'
  BY <1>1, <1>2, <1>3, <1>4 DEF GuardTrue, Guard, Unheard
<1>6. QED BY <1>3, <1>5 DEF AdmissionInv

\* A turn of the caller moves the guard and what was heard together.
LEMMA TurnInv ==
    ASSUME AdmissionInv, NEW verdict, NEW failedOpen \in BOOLEAN,
           ScreenTurn(verdict, failedOpen) \/ KeypadTurn
    PROVE  AdmissionInv'
<1>1. Up /\ UNCHANGED <<doc, call, media, tool>> /\ did' = NoTool
  BY DEF ScreenTurn, KeypadTurn, Quiet
<1>2. guard = [level |-> call.level, tools |-> call.tools,
               degraded |-> heard.failed, restricted |-> heard.unclean]
  BY <1>1 DEF AdmissionInv, GuardTrue, Up
<1>3. heard \in [failed : BOOLEAN, unclean : BOOLEAN]
  BY DEF AdmissionInv, GuardTrue
<1>4. /\ heard' \in [failed : BOOLEAN, unclean : BOOLEAN]
      /\ guard' = [level |-> call.level, tools |-> call.tools,
                   degraded |-> heard'.failed, restricted |-> heard'.unclean]
  <2>1. CASE ScreenTurn(verdict, failedOpen)
    <3>1. /\ guard' = Record(guard, verdict, failedOpen)
          /\ heard' = [failed |-> heard.failed \/ failedOpen, unclean |-> verdict # "allow"]
      BY <2>1 DEF ScreenTurn
    <3>2. QED BY <1>2, <1>3, <3>1 DEF Record
  <2>2. CASE KeypadTurn
    <3>1. guard' = NoteTrustedTurn(guard) /\ heard' = [heard EXCEPT !.unclean = FALSE]
      BY <2>2 DEF KeypadTurn
    <3>2. QED BY <1>2, <1>3, <3>1 DEF NoteTrustedTurn
  <2>3. QED BY <2>1, <2>2
<1>5. CallTrue' /\ LevelTrue'
  BY <1>1 DEF AdmissionInv, CallTrue, LevelTrue, Up
<1>6. GuardTrue'
  BY <1>1, <1>4 DEF GuardTrue, Up
<1>7. tool' = NoTool \/ Granted(tool)'
  BY <1>1 DEF AdmissionInv, Granted, ArgsOf
<1>8. EffectsAuthorised'
  BY <1>1 DEF EffectsAuthorised, NoTool
<1>9. QED BY <1>5, <1>6, <1>7, <1>8 DEF AdmissionInv

----
(* The steps of a tool *)

\* The hook lets a tool through.
LEMMA CallToolInv ==
    ASSUME AdmissionInv, NEW name \in Tools, NEW session, NEW arg \in ArgsOf(name),
           CallTool(name, session, arg)
    PROVE  AdmissionInv'
<1> DEFINE whose == IF GuardOf(session) = NoGuard THEN NoCall ELSE call
<1>1. /\ PreToolCall(name, GuardOf(session), session, Proactive)
      /\ tool' = [name |-> name, session |-> session, arg |-> arg, heard |-> heard, call |-> whose]
      /\ UNCHANGED <<doc, call, media, guard, heard>> /\ did' = NoTool
  BY DEF CallTool, Quiet
<1>2. CallTrue' /\ LevelTrue' /\ GuardTrue'
  BY <1>1 DEF AdmissionInv, CallTrue, LevelTrue, GuardTrue, Up
<1>3. EffectsAuthorised'
  BY <1>1 DEF EffectsAuthorised, NoTool
<1>4. GuardOf(session) # NoGuard => Up /\ GuardOf(session) = guard
  BY DEF GuardOf
<1>5. whose = NoCall \/ (call.phase = "up" /\ whose = call)
  BY <1>4 DEF Up
<1>6. ASSUME name \notin Safe
      PROVE  IF whose = NoCall
             THEN name = "place_call" /\ session \in Proactive \ {OwnSession}
             ELSE /\ call.listed /\ call.level >= MinLevel(name)
                  /\ ~ heard.failed /\ ~ heard.unclean
                  /\ name = "open_entry" => "open_entry" \in call.tools
  <2>1. IF GuardOf(session) = NoGuard
        THEN name = "place_call" /\ session \in Proactive \ {OwnSession}
        ELSE /\ ~ GuardOf(session).degraded /\ ~ GuardOf(session).restricted
             /\ GuardOf(session).level >= MinLevel(name)
             /\ name = "open_entry" => "open_entry" \in GuardOf(session).tools
    BY <1>1, <1>6, Gated
  <2>2. CASE GuardOf(session) = NoGuard
    BY <2>1, <2>2
  <2>3. CASE GuardOf(session) # NoGuard
    <3>1. Up /\ GuardOf(session) = guard
      BY <1>4, <2>3
    <3>2. call # NoCall
      BY <3>1, HasGuard DEF AdmissionInv
    <3>3. guard = [level |-> call.level, tools |-> call.tools,
                   degraded |-> heard.failed, restricted |-> heard.unclean]
      BY <3>1 DEF AdmissionInv, GuardTrue, Up
    <3>4. /\ ~ heard.failed /\ ~ heard.unclean /\ call.level >= MinLevel(name)
          /\ name = "open_entry" => "open_entry" \in call.tools
      BY <2>1, <2>3, <3>1, <3>3
    <3>5. call.listed
      BY <3>1, <3>4 DEF AdmissionInv, LevelTrue, Up, Ongoing, MinLevel, ElevatedLevel, IrreversibleLevel
    <3>6. QED BY <2>3, <3>2, <3>4, <3>5
  <2>4. QED BY <2>2, <2>3
<1> HIDE DEF whose
<1>7. /\ DOMAIN tool' = {"name", "session", "arg", "heard", "call"}
      /\ tool' = [tool' EXCEPT !.arg = tool'.arg]
  BY <1>1
<1>8. /\ tool'.name = name /\ tool'.session = session /\ tool'.arg = arg
      /\ tool'.heard = heard /\ tool'.call = whose
  BY <1>1
<1>9. Granted(tool)'
  <2>1. name \in Tools /\ arg \in ArgsOf(name)'
    BY DEF ArgsOf
  <2>2. tool'.call = NoCall \/ (tool'.call.phase = "up" /\ call' \in {tool'.call, Over})
    BY <1>1, <1>5, <1>8
  <2>3. CASE name \in Safe
    BY <1>7, <1>8, <2>1, <2>2, <2>3 DEF Granted
  <2>4. CASE name \notin Safe /\ whose = NoCall
    BY <1>6, <1>7, <1>8, <2>1, <2>2, <2>4 DEF Granted
  <2>5. CASE name \notin Safe /\ whose # NoCall
    BY <1>5, <1>6, <1>7, <1>8, <2>1, <2>2, <2>5 DEF Granted
  <2>6. QED BY <2>3, <2>4, <2>5
<1>10. QED BY <1>2, <1>3, <1>9 DEF AdmissionInv

\* A handler that refuses, or does what it was called for, leaves the call as it is.
LEMMA ReturnInv ==
    ASSUME AdmissionInv, UNCHANGED <<doc, call, media, guard, heard>>, tool' = NoTool,
           EffectsAuthorised'
    PROVE  AdmissionInv'
BY DEF AdmissionInv, CallTrue, LevelTrue, GuardTrue, Up

\* A number that the allowlist allows is spelled by it.
LEMMA AllowedIsSpelled ==
    ASSUME NEW number \in Numbers, IsOutboundAllowed(number)
    PROVE  \E entry \in AllowInline \cup AllowFile : number \in Spelled(entry)
BY DEF IsOutboundAllowed, OfMask, Spelled

\* What a granted tool does is authorised, the opening and the dial by their own words.
LEMMA EffectInv ==
    ASSUME AdmissionInv, tool # NoTool,
           did'.name = tool.name, did'.session = tool.session, did'.heard = tool.heard,
           did'.call = tool.call,
           tool.name = "open_entry" =>
               did'.arg \in IF tool.call.intercom = {} THEN {LegacyOpening}
                            ELSE tool.call.intercom,
           tool.name = "place_call" => did'.arg = tool.arg /\ IsOutboundAllowed(tool.arg)
    PROVE  EffectsAuthorised'
<1>1. Granted(tool)
  BY DEF AdmissionInv
<1>2. SUFFICES ASSUME tool.name \notin Safe
               PROVE  EffectsAuthorised'
  BY DEF EffectsAuthorised
<1>3. IF tool.call = NoCall
      THEN tool.name = "place_call" /\ tool.session \in Proactive \ {OwnSession}
      ELSE /\ tool.call.listed /\ tool.call.level >= MinLevel(tool.name)
           /\ ~ tool.heard.failed /\ ~ tool.heard.unclean
           /\ tool.name = "open_entry" => "open_entry" \in tool.call.tools
  BY <1>1, <1>2 DEF Granted
<1>4. tool.name = "open_entry" => "open_entry" \in tool.call.tools
  BY <1>3
<1>5. ASSUME tool.name = "place_call"
      PROVE  \E entry \in AllowInline \cup AllowFile : did'.arg \in Spelled(entry)
  <2>1. tool.arg \in Numbers
    BY <1>1, <1>5 DEF Granted, ArgsOf
  <2>2. QED BY <1>5, <2>1, AllowedIsSpelled
<1>6. QED
  <2>1. IF did'.call = NoCall
        THEN did'.name = "place_call" /\ did'.session \in Proactive \ {OwnSession}
        ELSE /\ did'.call.listed /\ did'.call.level >= MinLevel(did'.name)
             /\ ~ did'.heard.failed /\ ~ did'.heard.unclean
    BY <1>3
  <2>2. QED BY <1>4, <1>5, <2>1 DEF EffectsAuthorised

\* The call's own tools: the end of it, one that finds its call, the keys, an opening.
LEMMA HandlerInv ==
    ASSUME AdmissionInv,
           HangUp \/ ActOnCall \/ ListRegistrations \/ SendDtmf \/ OpenEntry \/ PlaceCall
    PROVE  AdmissionInv'
<1>1. tool # NoTool
  BY DEF HangUp, ActOnCall, ListRegistrations, SendDtmf, OpenEntry, PlaceCall, NoTool
<1>2. CASE ReturnsError
  <2>1. EffectsAuthorised'
    BY <1>2 DEF ReturnsError, Quiet, EffectsAuthorised, NoTool
  <2>2. QED BY <1>2, <2>1, ReturnInv DEF ReturnsError, Still, Done
<1>3. CASE TakesEffect /\ tool.name \notin {"open_entry", "place_call"}
  <2>1. did' = tool
    BY <1>3 DEF TakesEffect
  <2>2. EffectsAuthorised'
    BY <1>1, <1>3, <2>1, EffectInv
  <2>3. QED BY <1>3, <2>2, ReturnInv DEF TakesEffect, Still, Done
<1>4. CASE HangUp
  <2>1. ASSUME OnCall PROVE AdmissionInv'
    <3>1. /\ tool.name = "hang_up" /\ did' = tool /\ tool' = NoTool
          /\ call' = Over /\ guard' = NoGuard /\ UNCHANGED heard
      BY <1>4, <2>1 DEF HangUp, Leave, Done
    <3>2. EffectsAuthorised'
      BY <1>1, <3>1, EffectInv
    <3>3. CallTrue' /\ LevelTrue' /\ GuardTrue'
      BY <3>1 DEF AdmissionInv, CallTrue, LevelTrue, GuardTrue, Over, Ongoing, Up
    <3>4. QED BY <3>1, <3>2, <3>3 DEF AdmissionInv
  <2>2. QED BY <1>2, <1>4, <2>1 DEF HangUp
<1>5. CASE ActOnCall \/ ListRegistrations \/ SendDtmf
  BY <1>2, <1>3, <1>5 DEF ActOnCall, ListRegistrations, SendDtmf
<1>6. CASE OpenEntry
  <2>1. CASE ReturnsError
    BY <1>2, <2>1
  <2>2. CASE ~ ReturnsError
    <3>1. PICK o \in ToOpen(tool.arg) : did' = [tool EXCEPT !.arg = o]
      BY <1>6, <2>2 DEF OpenEntry
    <3>2. /\ OnCall /\ tool.name = "open_entry" /\ tool' = NoTool
          /\ UNCHANGED <<doc, call, media, guard, heard>>
      BY <1>6, <2>2 DEF OpenEntry, Still, Done
    <3>3. Granted(tool)
      BY <1>1 DEF AdmissionInv
    <3>4. tool.call = call
      BY <3>2, <3>3 DEF Granted, Safe, OnCall, Up, Over
    <3>5. /\ did'.name = tool.name /\ did'.session = tool.session
          /\ did'.heard = tool.heard /\ did'.call = tool.call /\ did'.arg = o
      BY <3>1, <3>3 DEF Granted
    <3>6. o \in IF call.intercom = {} THEN {LegacyOpening} ELSE call.intercom
      BY <3>1 DEF ToOpen, OwnOpenings, Openings
    <3>7. EffectsAuthorised'
      BY <1>1, <3>2, <3>4, <3>5, <3>6, EffectInv
    <3>8. QED BY <3>2, <3>7, ReturnInv
  <2>3. QED BY <2>1, <2>2
<1>7. CASE PlaceCall
  <2>1. ASSUME IsOutboundAllowed(tool.arg) PROVE AdmissionInv'
    <3>1. tool.name = "place_call" /\ did' = tool
      BY <1>7, <2>1 DEF PlaceCall, TakesEffect
    <3>2. EffectsAuthorised'
      BY <1>1, <2>1, <3>1, EffectInv
    <3>3. QED BY <1>7, <2>1, <3>2, ReturnInv DEF PlaceCall, TakesEffect, Still, Done
  <2>2. QED BY <1>2, <1>7, <2>1 DEF PlaceCall
<1>8. QED BY <1>4, <1>5, <1>6, <1>7

----
(* The media *)

\* A set of naturals that is not empty has a least element.
LEMMA Least == ASSUME NEW T \in SUBSET Nat, T # {} PROVE \E x \in T : \A y \in T : x <= y
<1>1. PICK x \in T : \A y \in T : ~ (<<y, x>> \in OpToRel(<, Nat))
  BY NatLessThanWellFounded, WFMin, Zenon
<1>2. \A y \in T : ~ (y < x)
  BY <1>1 DEF OpToRel
<1>3. QED BY <1>2

\* The first audio section starts where no earlier one of audio does.
LEMMA FirstAudio ==
    ASSUME NEW sdp \in Offers, FirstOf(sdp, "audio") # 0
    PROVE  /\ FirstOf(sdp, "audio") \in Starts(sdp)
           /\ sdp[FirstOf(sdp, "audio")][2].media = "audio"
           /\ \A n \in Starts(sdp) :
                n < FirstOf(sdp, "audio") => sdp[n][2].media # "audio"
<1> DEFINE of == {i \in Starts(sdp) : sdp[i][2].media = "audio"}
<1>1. of # {} /\ FirstOf(sdp, "audio") = Min(of)
  BY DEF FirstOf
<1>2. of \in SUBSET Nat /\ Starts(sdp) \in SUBSET Nat
  <2>1. sdp \in Seq(ToSet(sdp))
    BY AdmissionAssumption
  <2>2. DOMAIN sdp \in SUBSET Nat
    BY <2>1, LenProperties
  <2>3. QED BY <2>2 DEF Starts
<1>3. Min(of) \in of /\ \A i \in of : Min(of) <= i
  <2> HIDE DEF of
  <2>1. QED BY <1>1, <1>2, Least DEF Min
<1>4. PICK first \in of : first = FirstOf(sdp, "audio") /\ \A i \in of : first <= i
  BY <1>1, <1>3
<1>5. \A n \in Starts(sdp) : n < first => n \notin of
  BY <1>2, <1>4
<1>6. QED BY <1>4, <1>5

\* A section ends where the next starts, or with the description.
LEMMA SectionEnds ==
    ASSUME NEW sdp \in Offers, NEW start \in Starts(sdp)
    PROVE  /\ EndOf(sdp, start) \in Nat
           /\ start < EndOf(sdp, start) /\ EndOf(sdp, start) <= Len(sdp) + 1
           /\ \A n \in Starts(sdp) : n <= start \/ n >= EndOf(sdp, start)
<1> DEFINE later == {i \in Starts(sdp) : i > start}
<1>1. /\ Len(sdp) \in Nat /\ Starts(sdp) \in SUBSET (1 .. Len(sdp))
      /\ later \in SUBSET Nat
  <2>1. sdp \in Seq(ToSet(sdp))
    BY AdmissionAssumption
  <2>2. DOMAIN sdp = 1 .. Len(sdp) /\ Len(sdp) \in Nat
    BY <2>1, LenProperties
  <2>3. QED BY <2>2 DEF Starts
<1>2. CASE later = {}
  <2>1. EndOf(sdp, start) = Len(sdp) + 1
    BY <1>2 DEF EndOf
  <2>2. QED BY <1>1, <1>2, <2>1
<1>3. CASE later # {}
  <2>1. PICK least \in later : \A y \in later : least <= y
    BY <1>1, <1>3, Least
  <2>2. EndOf(sdp, start) =
          CHOOSE i \in Starts(sdp) : i > start /\ \A j \in Starts(sdp) : j > start => i <= j
    BY <1>3 DEF EndOf
  <2>3. /\ EndOf(sdp, start) \in Starts(sdp) /\ EndOf(sdp, start) > start
        /\ \A j \in Starts(sdp) : j > start => EndOf(sdp, start) <= j
    BY <2>1, <2>2
  <2>4. QED BY <1>1, <2>3
<1>4. QED BY <1>2, <1>3

\* What is read as audio is of the first audio section.
LEMMA OfTheSection ==
    ASSUME NEW sdp \in Offers, FirstOf(sdp, "audio") # 0
    PROVE  /\ AudioLines(sdp) \in Seq(ToSet(sdp))
           /\ \A i \in DOMAIN AudioLines(sdp) : IsOffered(AudioLines(sdp)[i], sdp)
<1> DEFINE start == FirstOf(sdp, "audio")
           end == EndOf(sdp, start)
<1>1. /\ start \in Starts(sdp) /\ sdp[start][2].media = "audio"
      /\ \A n \in Starts(sdp) : n < start => sdp[n][2].media # "audio"
  BY FirstAudio
<1>2. /\ end \in Nat /\ start < end /\ end <= Len(sdp) + 1
      /\ \A n \in Starts(sdp) : n <= start \/ n >= end
  <2> HIDE DEF start
  <2>1. QED BY <1>1, SectionEnds
<1>3. AudioLines(sdp) = SubSeq(sdp, start + 1, end - 1)
  BY DEF AudioLines, Section
<1>4. Len(sdp) \in Nat /\ DOMAIN sdp = 1 .. Len(sdp) /\ Starts(sdp) \in SUBSET (1 .. Len(sdp))
  <2>1. sdp \in Seq(ToSet(sdp))
    BY AdmissionAssumption
  <2>2. DOMAIN sdp = 1 .. Len(sdp) /\ Len(sdp) \in Nat
    BY <2>1, LenProperties
  <2>3. QED BY <2>2 DEF Starts
<1> HIDE DEF start, end
<1>5. \A i \in start + 1 .. end - 1 : i \in DOMAIN sdp /\ sdp[i] \in ToSet(sdp)
  BY <1>1, <1>2, <1>4 DEF ToSet
<1>6. start \in Nat /\ end \in Nat
  BY <1>1, <1>2, <1>4
<1>7. /\ SubSeq(sdp, start + 1, end - 1) \in Seq(ToSet(sdp))
      /\ Len(SubSeq(sdp, start + 1, end - 1)) =
            IF start + 1 <= end - 1 THEN end - 1 - (start + 1) + 1 ELSE 0
      /\ \A i \in 1 .. end - 1 - (start + 1) + 1 :
            SubSeq(sdp, start + 1, end - 1)[i] = sdp[start + 1 + i - 1]
  BY <1>5, <1>6, SubSeqProperties
<1>8. ASSUME NEW i \in DOMAIN AudioLines(sdp) PROVE IsOffered(AudioLines(sdp)[i], sdp)
  <2>1. i \in Nat /\ i >= 1 /\ start + i <= end - 1
    <3>1. i \in 1 .. Len(AudioLines(sdp))
      BY <1>3, <1>7, <1>8, LenProperties
    <3>2. QED BY <1>3, <1>6, <1>7, <3>1
  <2>2. AudioLines(sdp)[i] = sdp[start + i]
    BY <1>3, <1>6, <1>7, <2>1
  <2>3. start + i \in DOMAIN sdp
    BY <1>5, <1>6, <2>1
  <2>4. \A n \in Starts(sdp) : n <= start \/ n > start + i
    BY <1>2, <1>4, <1>6, <2>1
  <2>5. start < start + i
    BY <1>6, <2>1
  <2>6. QED BY <1>1, <2>2, <2>3, <2>4, <2>5 DEF IsOffered
<1>9. QED BY <1>3, <1>7, <1>8

\* So is what it says.
LEMMA SaidIsOffered ==
    ASSUME NEW sdp \in Offers, FirstOf(sdp, "audio") # 0, NEW tag
    PROVE  /\ Said(AudioLines(sdp), tag) \in Seq({line[2] : line \in ToSet(sdp)})
           /\ \A n \in DOMAIN Said(AudioLines(sdp), tag) :
                IsOffered(<<tag, Said(AudioLines(sdp), tag)[n]>>, sdp)
<1> DEFINE lines == AudioLines(sdp)
           places == {i \in DOMAIN lines : lines[i][1] = tag}
           of == Those(lines, places)
<1>1. /\ lines \in Seq(ToSet(sdp)) /\ places \in SUBSET DOMAIN lines
      /\ \A i \in DOMAIN lines : IsOffered(lines[i], sdp)
  BY OfTheSection
<1>2. of \in Seq(ToSet(sdp)) /\ \A n \in DOMAIN of : \E i \in places : of[n] = lines[i]
  <2> HIDE DEF lines, places
  <2>1. QED BY <1>1, Keeps
<1>3. Said(lines, tag) = [n \in DOMAIN of |-> of[n][2]]
  BY DEF Said
<1>4. Len(of) \in Nat /\ DOMAIN of = 1 .. Len(of)
  <2> HIDE DEF of
  <2>1. QED BY <1>2, LenProperties
<1>5. \A n \in DOMAIN of : of[n] \in ToSet(sdp)
  <2> HIDE DEF of
  <2>1. QED BY <1>2, <1>4, ElementOfSeq
<1>6. Said(lines, tag) \in Seq({line[2] : line \in ToSet(sdp)})
  <2> HIDE DEF of
  <2>1. \A n \in 1 .. Len(of) : of[n][2] \in {line[2] : line \in ToSet(sdp)}
    BY <1>4, <1>5
  <2>2. [n \in 1 .. Len(of) |-> of[n][2]] \in Seq({line[2] : line \in ToSet(sdp)})
    BY <1>4, <2>1, IsASeq
  <2>3. QED BY <1>3, <1>4, <2>2
<1>7. ASSUME NEW n \in DOMAIN Said(lines, tag)
      PROVE  IsOffered(<<tag, Said(lines, tag)[n]>>, sdp)
  <2>1. n \in DOMAIN of /\ Said(lines, tag)[n] = of[n][2]
    BY <1>3, <1>7
  <2>2. PICK i \in places : of[n] = lines[i]
    BY <1>2, <2>1
  <2>3. of[n] = <<of[n][1], of[n][2]>> /\ of[n][1] = tag /\ IsOffered(of[n], sdp)
    BY <1>1, <1>5, <2>1, <2>2, AdmissionAssumption
  <2>4. QED BY <2>1, <2>3
<1>8. QED BY <1>6, <1>7

\* A codec is what an rtpmap of the audio says, or one that needs none.
LEMMA CodecsAreOffered ==
    ASSUME NEW sdp \in Offers, FirstOf(sdp, "audio") # 0
    PROVE  CodecsOf(sdp) \in Seq(StaticPayloads \cup ToSet(Said(AudioLines(sdp), "rtpmap")))
<1> DEFINE mapped == ToSet(Said(AudioLines(sdp), "rtpmap"))
           static == {c \in StaticPayloads : \A m \in mapped : m.pt # c.pt}
           known == mapped \cup static
           listed == sdp[FirstOf(sdp, "audio")][2].formats
           places == {i \in DOMAIN listed : \E c \in known : c.pt = listed[i]}
           formats == Those(listed, places)
           Of(n) == CHOOSE c \in known : c.pt = formats[n]
<1>1. CodecsOf(sdp) = [n \in DOMAIN formats |-> Of(n)]
  BY DEF CodecsOf
<1>2. listed \in Seq(ToSet(listed)) /\ places \in SUBSET DOMAIN listed
  <2>1. FirstOf(sdp, "audio") \in Starts(sdp)
    BY FirstAudio
  <2>2. QED BY <2>1, AdmissionAssumption
<1>3. /\ formats \in Seq(ToSet(listed))
      /\ \A n \in DOMAIN formats : \E i \in places : formats[n] = listed[i]
  <2> HIDE DEF listed, places
  <2>1. QED BY <1>2, Keeps
<1>4. \A n \in DOMAIN formats : Of(n) \in known
  <2> SUFFICES ASSUME NEW n \in DOMAIN formats PROVE Of(n) \in known
    OBVIOUS
  <2>1. \E c \in known : c.pt = formats[n]
    <3> HIDE DEF known, formats
    <3>1. QED BY <1>3
  <2> HIDE DEF known, formats
  <2>2. QED BY <2>1
<1>5. Len(formats) \in Nat /\ DOMAIN formats = 1 .. Len(formats)
  <2> HIDE DEF formats
  <2>1. QED BY <1>3, LenProperties
<1>6. known \in SUBSET (StaticPayloads \cup mapped)
  OBVIOUS
<1> HIDE DEF Of, formats, known
<1>7. \A n \in 1 .. Len(formats) : Of(n) \in StaticPayloads \cup mapped
  BY <1>4, <1>5, <1>6
<1>8. [n \in 1 .. Len(formats) |-> Of(n)] \in Seq(StaticPayloads \cup mapped)
  BY <1>5, <1>7, IsASeq
<1>9. QED BY <1>1, <1>5, <1>8

\* What is agreed on is of what was offered.
LEMMA ChosenAreOffered ==
    ASSUME NEW S, NEW codecs \in Seq(S), NEW menu
    PROVE  InMenuOrder(codecs, menu) \in Seq(S)
<1> DEFINE Of(n) == IF n > Len(menu) THEN <<>>
                    ELSE Those(codecs, {i \in DOMAIN codecs : codecs[i].encoding = menu[n]})
<1>1. ASSUME NEW n PROVE Of(n) \in Seq(S)
  <2>1. {i \in DOMAIN codecs : codecs[i].encoding = menu[n]} \in SUBSET DOMAIN codecs
    OBVIOUS
  <2>2. Those(codecs, {i \in DOMAIN codecs : codecs[i].encoding = menu[n]}) \in Seq(S)
    BY <2>1, Keeps
  <2>3. QED BY <2>2, EmptySeq
<1>2. InMenuOrder(codecs, menu) = Of(1) \o Of(2) \o Of(3) \o Of(4) \o Of(5)
  BY DEF InMenuOrder
<1> HIDE DEF Of
<1>3. Of(1) \o Of(2) \o Of(3) \o Of(4) \o Of(5) \in Seq(S)
  BY <1>1, ConcatProperties
<1>4. QED BY <1>2, <1>3

\* The key of the first usable line is of the suite that the answer names.
LEMMA KeysAreOffered ==
    ASSUME NEW sdp \in Offers, FirstOf(sdp, "audio") # 0, CryptoAttrs(sdp) # <<>>
    PROVE  LET suite == Head(CryptoAttrs(sdp))
           IN  /\ suite = IF "sha1_80" \in ToSet(CryptoAttrs(sdp)) THEN "sha1_80" ELSE "sha1_32"
               /\ IsOffered(<<"crypto", suite>>, sdp)
<1> DEFINE said == Said(AudioLines(sdp), "crypto")
           Places(name) == {i \in DOMAIN said : said[i] = name}
           strong == Those(said, Places("sha1_80"))
           weak == Those(said, Places("sha1_32"))
           S == {line[2] : line \in ToSet(sdp)}
<1>1. said \in Seq(S) /\ \A n \in DOMAIN said : IsOffered(<<"crypto", said[n]>>, sdp)
  BY SaidIsOffered
<1>2. CryptoAttrs(sdp) = strong \o weak
  BY DEF CryptoAttrs
<1>3. ASSUME NEW name
      PROVE  /\ Those(said, Places(name)) \in Seq(S)
             /\ \A n \in DOMAIN Those(said, Places(name)) :
                    /\ Those(said, Places(name))[n] = name
                    /\ IsOffered(<<"crypto", name>>, sdp)
  <2>1. Places(name) \in SUBSET DOMAIN said
    OBVIOUS
  <2>2. \A i \in Places(name) : said[i] = name /\ IsOffered(<<"crypto", name>>, sdp)
    BY <1>1
  <2> HIDE DEF said, Places, S
  <2>3. QED BY <1>1, <2>1, <2>2, Keeps
<1>4. /\ strong \in Seq(S) /\ weak \in Seq(S)
      /\ \A n \in DOMAIN strong : strong[n] = "sha1_80" /\ IsOffered(<<"crypto", "sha1_80">>, sdp)
      /\ \A n \in DOMAIN weak : weak[n] = "sha1_32" /\ IsOffered(<<"crypto", "sha1_32">>, sdp)
  BY <1>3
<1> HIDE DEF strong, weak, S
<1>5. CASE strong = <<>>
  <2>1. CryptoAttrs(sdp) = weak
    BY <1>2, <1>4, <1>5, ConcatEmptySeq
  <2>2. 1 \in DOMAIN weak /\ Head(weak) = weak[1]
    BY <1>4, <2>1, LenProperties, EmptySeq
  <2>3. "sha1_80" \notin ToSet(weak)
    BY <1>4 DEF ToSet
  <2>4. QED BY <1>4, <2>1, <2>2, <2>3
<1>6. CASE strong # <<>>
  <2>1. 1 \in DOMAIN strong /\ Len(strong) \in Nat /\ Len(strong) >= 1 /\ Len(weak) \in Nat
    BY <1>4, <1>6, LenProperties, EmptySeq
  <2>2. /\ strong \o weak \in Seq(S) /\ Len(strong \o weak) = Len(strong) + Len(weak)
        /\ (strong \o weak)[1] = strong[1]
    BY <1>4, <2>1, ConcatProperties
  <2>3. 1 \in DOMAIN (strong \o weak) /\ Head(strong \o weak) = (strong \o weak)[1]
    BY <2>1, <2>2, LenProperties
  <2>4. "sha1_80" \in ToSet(strong \o weak)
    BY <1>4, <2>1, <2>2, <2>3 DEF ToSet
  <2>5. QED BY <1>2, <1>4, <2>1, <2>2, <2>3, <2>4
<1>7. QED BY <1>5, <1>6

\* The framing keeps within the peer's cap if one of the codec's does.
LEMMA FramingFits ==
    ASSUME NEW offer, NEW codec
    PROVE  LET ptime == NegotiatePtime(offer, Framings(codec))
           IN  \/ WithinCap(ptime, offer)
               \/ ptime = 20 /\ \A p \in Framings(codec) : ~ WithinCap(p, offer)
<1> DEFINE fitting == {p \in Framings(codec) : WithinCap(p, offer)}
<1>1. NegotiatePtime(offer, Framings(codec)) =
        IF offer.ptime \in fitting THEN offer.ptime
        ELSE IF DefaultPtime \in fitting \/ fitting = {} THEN DefaultPtime
        ELSE Max(fitting)
  BY DEF NegotiatePtime
<1>2. fitting # {} => Max(fitting) \in fitting
  <2>1. fitting \in SUBSET {10, 20, 30, 40}
    BY DEF Framings
  <2> HIDE DEF fitting
  <2>2. ASSUME fitting # {} PROVE \E x \in fitting : \A y \in fitting : x >= y
    <3>1. CASE 40 \in fitting
      BY <2>1, <3>1
    <3>2. CASE 40 \notin fitting /\ 30 \in fitting
      BY <2>1, <3>2
    <3>3. CASE 40 \notin fitting /\ 30 \notin fitting /\ 20 \in fitting
      BY <2>1, <3>3
    <3>4. CASE fitting = {10}
      BY <3>4
    <3>5. QED BY <2>1, <2>2, <3>1, <3>2, <3>3, <3>4
  <2>3. QED BY <2>2 DEF Max
<1>3. QED BY <1>1, <1>2 DEF DefaultPtime

\* Keys are events only where the events have a payload type, and sound only on G.711.
LEMMA KeysAsAgreed ==
    ASSUME NEW knob, NEW codecs, NEW encoding, NEW inband
    PROVE  LET send == DtmfSendMode(knob, EventPt(codecs), encoding)
               receive == DtmfReceiveMode(knob, EventPt(codecs), encoding, inband)
           IN  /\ "rfc4733" \in {send, receive} => Events(codecs) # <<>>
               /\ "inband" \in {send, receive} => encoding \in G711
<1>1. EventPt(codecs) # Absent => Events(codecs) # <<>>
  BY DEF EventPt
<1> DEFINE pt == EventPt(codecs)
<1> HIDE DEF pt
<1>2. ASSUME NEW mode, mode = DtmfSendMode(knob, pt, encoding)
      PROVE  /\ mode = "rfc4733" => pt # Absent
             /\ mode = "inband" => encoding \in G711
  BY <1>2 DEF DtmfSendMode
<1>3. DtmfReceiveMode(knob, pt, encoding, inband) \in
        {"disabled", DtmfSendMode(knob, pt, encoding)}
  BY DEF DtmfReceiveMode
<1>4. /\ "rfc4733" \in {DtmfSendMode(knob, pt, encoding),
                        DtmfReceiveMode(knob, pt, encoding, inband)} => pt # Absent
      /\ "inband" \in {DtmfSendMode(knob, pt, encoding),
                       DtmfReceiveMode(knob, pt, encoding, inband)} => encoding \in G711
  BY <1>2, <1>3
<1>5. QED BY <1>1, <1>4 DEF pt

\* What the negotiation agrees on: an order of what was offered, in which a voice is the
\* first that the engine carries, with a key wherever one is due.
LEMMA Negotiated ==
    ASSUME NEW sdp \in Offers, NEW knobs, FirstOf(sdp, "audio") # 0
    PROVE  LET offer == Parse(sdp)
           IN  /\ \A c \in ToSet(Codecs(offer, knobs)) \ StaticPayloads :
                    IsOffered(<<"rtpmap", c>>, sdp)
               /\ offer.crypto # <<>> =>
                    /\ Head(offer.crypto) = AnswerSuite(offer)
                    /\ IsOffered(<<"crypto", AnswerSuite(offer)>>, sdp)
<1> DEFINE offer == Parse(sdp)
           said == Said(AudioLines(sdp), "rtpmap")
           Known == StaticPayloads \cup ToSet(said)
           menu == Menu(Path(offer, knobs.dtls), knobs.opus)
           chosen == InMenuOrder(offer.codecs, menu)
<1>1. offer.codecs = CodecsOf(sdp) /\ offer.crypto = CryptoAttrs(sdp)
  BY DEF Parse
<1>2. chosen \in Seq(Known)
  <2>1. offer.codecs \in Seq(Known)
    BY <1>1, CodecsAreOffered
  <2> HIDE DEF offer, Known, menu
  <2>2. QED BY <2>1, ChosenAreOffered
<1>3. Codecs(offer, knobs) \in {chosen, <<>>}
  BY DEF Codecs, NegotiateAudio, Rejected
<1>4. \A c \in ToSet(Codecs(offer, knobs)) : c \in Known
  <2> HIDE DEF chosen, Known, offer
  <2>1. \A c \in ToSet(chosen) : c \in Known
    BY <1>2, LenProperties, ElementOfSeq DEF ToSet
  <2>2. ToSet(<<>>) = {}
    BY DEF ToSet
  <2>3. QED BY <1>3, <2>1, <2>2
<1>5. \A c \in ToSet(said) : IsOffered(<<"rtpmap", c>>, sdp)
  <2>1. \A n \in DOMAIN said : IsOffered(<<"rtpmap", said[n]>>, sdp)
    BY SaidIsOffered
  <2> HIDE DEF said
  <2>2. QED BY <2>1 DEF ToSet
<1>6. \A c \in ToSet(Codecs(offer, knobs)) \ StaticPayloads : IsOffered(<<"rtpmap", c>>, sdp)
  <2> HIDE DEF offer, said
  <2>1. QED BY <1>4, <1>5
<1>7. ASSUME offer.crypto # <<>>
      PROVE  /\ Head(offer.crypto) = AnswerSuite(offer)
             /\ IsOffered(<<"crypto", AnswerSuite(offer)>>, sdp)
  <2>1. CryptoAttrs(sdp) # <<>>
    BY <1>1, <1>7
  <2>2. /\ Head(CryptoAttrs(sdp)) =
            IF "sha1_80" \in ToSet(CryptoAttrs(sdp)) THEN "sha1_80" ELSE "sha1_32"
        /\ IsOffered(<<"crypto", Head(CryptoAttrs(sdp))>>, sdp)
    BY <2>1, KeysAreOffered
  <2> HIDE DEF offer
  <2>3. QED BY <1>1, <2>2 DEF AnswerSuite
<1>8. QED BY <1>6, <1>7

\* RTCP shares the port only where no codec is in its way.
LEMMA RtcpAsAgreed ==
    ASSUME NEW offer, NEW codecs, NEW knob
    PROVE  /\ "mux" \in {PlanRtcp(offer, codecs, knob), PlanSecuredRtcp(offer, codecs, knob)}
                => offer.mux
           /\ "mux" \in {PlanRtcp(offer, codecs, knob), PlanSecuredRtcp(offer, codecs, knob),
                         PipeRtcp(codecs, knob)}
                => \A c \in ToSet(codecs) : c.pt \notin 64..95
BY DEF PlanRtcp, PlanSecuredRtcp, PipeRtcp, OwnSocketRtcp, Conflicts, Dormant

\* The clauses that the three set-ups meet each in its own way.
AsKeyed(sdp, offer, mandate, codecs, answer, engine) ==
    /\ engine.keys = answer.keys
    /\ offer.profile # "avp" \/ mandate => engine.keys # "none"
    /\ engine.keys \in {"sha1_80", "sha1_32"} => IsOffered(<<"crypto", engine.keys>>, sdp)
    /\ engine.rtcp = "mux" => answer.mux \/ answer.keys = "dtls"
    /\ engine.rtcp = "mux" => \A c \in ToSet(codecs) : c.pt \notin 64..95
    /\ offer.profile = "webrtc" => (answer.video = "none" <=> offer.video = "none")
    /\ answer.video \notin {"sendrecv", "recvonly"}

\* Each of the three set-ups arms the engine as it answers (_setup_sdes_call,
\* _setup_sip_dtls_call, _setup_webrtc_call).
LEMMA SetUpAgrees ==
    ASSUME NEW sdp \in Offers, NEW knobs, NEW m,
           Readable(sdp), Acceptable(Parse(sdp), knobs),
           LET setup == SetUp(Parse(sdp), knobs)
           IN  m = [sdp |-> sdp, offer |-> Parse(sdp), mandate |-> knobs.mandate,
                    send |-> setup.engine.send, answer |-> setup.answer,
                    engine |-> setup.engine]
    PROVE  Agreed(m)
<1> DEFINE offer == Parse(sdp)
           codecs == Codecs(offer, knobs)
           voice == Head(VoiceCodecs(codecs))
           path == Path(offer, knobs.dtls)
           setup == SetUp(offer, knobs)
           answer == setup.answer
           engine == setup.engine
<1>1. FirstOf(sdp, "audio") # 0
  BY DEF Readable
<1>2. /\ \A c \in ToSet(codecs) \ StaticPayloads : IsOffered(<<"rtpmap", c>>, sdp)
      /\ offer.crypto # <<>> =>
            /\ Head(offer.crypto) = AnswerSuite(offer)
            /\ IsOffered(<<"crypto", AnswerSuite(offer)>>, sdp)
  BY <1>1, Negotiated
<1>3. /\ knobs.mandate => IsSrtp(offer)
      /\ Carriable(voice)
      /\ path = "sdes" /\ IsSrtp(offer) => Keyable(offer)
  BY DEF Acceptable
<1>4. path \in {"webrtc", "dtls", "sdes"} /\ (offer.profile = "webrtc" => path = "webrtc")
  BY DEF Path, IsWebrtc
<1>5. offer.video \in {"none", "h264", "other"}
  BY DEF Parse, VideoOf
<1> HIDE DEF offer, codecs, path
<1>6. /\ answer.codecs = codecs /\ engine.codec = voice
      /\ engine.ptime = NegotiatePtime(offer, Framings(voice))
      /\ engine.send = DtmfSendMode(knobs.dtmf, EventPt(codecs), voice.encoding)
      /\ engine.receive =
            DtmfReceiveMode(knobs.dtmf, EventPt(codecs), voice.encoding, knobs.inband)
  BY DEF SetUp, SdesCall, SipDtlsCall, WebrtcCall, Engine, AudioAnswer, SipDtlsAnswer,
         WebrtcAnswer, codecs
<1>7. ASSUME path = "sdes" PROVE AsKeyed(sdp, offer, knobs.mandate, codecs, answer, engine)
  <2>1. setup = SdesCall(offer, knobs)
    BY <1>7 DEF SetUp, path
  <2>2. /\ engine.keys = IF Keyable(offer) THEN Head(offer.crypto) ELSE "none"
        /\ answer.keys = IF IsSrtp(offer) THEN AnswerSuite(offer) ELSE "none"
        /\ engine.rtcp \in {PlanSecuredRtcp(offer, codecs, knobs.rtcp),
                            PlanRtcp(offer, codecs, knobs.rtcp)}
        /\ answer.mux = offer.mux /\ answer.video = "none"
    BY <2>1 DEF SdesCall, Engine, AudioAnswer, codecs
  <2>3. Keyable(offer) <=> IsSrtp(offer)
    BY <1>3, <1>7 DEF Keyable
  <2>4. Keyable(offer) => offer.crypto # <<>>
    BY DEF Keyable
  <2>5. /\ engine.keys = answer.keys
        /\ IsSrtp(offer) => engine.keys # "none"
        /\ engine.keys \in {"sha1_80", "sha1_32"} => IsOffered(<<"crypto", engine.keys>>, sdp)
    BY <1>2, <2>2, <2>3, <2>4 DEF AnswerSuite
  <2>6. /\ engine.rtcp = "mux" => answer.mux
        /\ engine.rtcp = "mux" => \A c \in ToSet(codecs) : c.pt \notin 64..95
    BY <2>2, RtcpAsAgreed
  <2> HIDE DEF setup
  <2>7. QED BY <1>3, <1>4, <1>7, <2>2, <2>5, <2>6 DEF IsSrtp, AsKeyed
<1>8. ASSUME path = "webrtc" PROVE AsKeyed(sdp, offer, knobs.mandate, codecs, answer, engine)
  <2>1. setup = WebrtcCall(offer, knobs)
    BY <1>8 DEF SetUp, path
  <2>2. /\ engine.keys = "dtls" /\ answer.keys = "dtls"
        /\ engine.rtcp = PipeRtcp(codecs, knobs.rtcp)
        /\ answer.video = VideoAnswer(offer, knobs.source)
    BY <2>1 DEF WebrtcCall, Engine, WebrtcAnswer, codecs
  <2>3. engine.rtcp = "mux" => \A c \in ToSet(codecs) : c.pt \notin 64..95
    BY <2>2, RtcpAsAgreed
  <2>4. /\ answer.video = "none" <=> offer.video = "none"
        /\ answer.video \notin {"sendrecv", "recvonly"}
    BY <1>5, <2>2 DEF VideoAnswer
  <2> HIDE DEF setup
  <2>5. QED BY <2>2, <2>3, <2>4 DEF AsKeyed
<1>9. ASSUME path = "dtls" PROVE AsKeyed(sdp, offer, knobs.mandate, codecs, answer, engine)
  <2>1. setup = SipDtlsCall(offer, knobs)
    BY <1>9 DEF SetUp, path
  <2>2. /\ engine.keys = "dtls" /\ answer.keys = "dtls"
        /\ engine.rtcp = PipeRtcp(codecs, knobs.rtcp) /\ answer.video = "none"
    BY <2>1 DEF SipDtlsCall, Engine, SipDtlsAnswer, codecs
  <2>3. engine.rtcp = "mux" => \A c \in ToSet(codecs) : c.pt \notin 64..95
    BY <2>2, RtcpAsAgreed
  <2> HIDE DEF setup
  <2>4. QED BY <1>4, <1>9, <2>2, <2>3 DEF AsKeyed
<1> HIDE DEF setup
<1>10. AsKeyed(sdp, offer, knobs.mandate, codecs, answer, engine)
  BY <1>4, <1>7, <1>8, <1>9
<1>11. \/ WithinCap(engine.ptime, offer)
       \/ engine.ptime = 20 /\ \A p \in Framings(voice) : ~ WithinCap(p, offer)
  <2> HIDE DEF voice
  <2>1. QED BY <1>6, FramingFits
<1>12. /\ "rfc4733" \in {engine.send, engine.receive} => Events(codecs) # <<>>
       /\ "inband" \in {engine.send, engine.receive} => voice.encoding \in G711
  <2> HIDE DEF voice
  <2>1. QED BY <1>6, KeysAsAgreed
<1>13. /\ m.sdp = sdp /\ m.offer = offer /\ m.mandate = knobs.mandate
       /\ m.answer = answer /\ m.engine = engine
  BY DEF setup, offer
<1> HIDE DEF voice, answer, engine
<1>14. answer.codecs = codecs /\ engine.codec = voice /\ voice = Head(VoiceCodecs(codecs))
  BY <1>6 DEF voice
<1>15. QED BY <1>2, <1>3, <1>10, <1>11, <1>12, <1>13, <1>14 DEF Agreed, AsKeyed

----
(* The theorems *)

\* The invariant of a call and its tools.
THEOREM AdmissionInvariance == AdmissionSpec => []AdmissionInv
<1>1. AdmissionInit => AdmissionInv
  <2> SUFFICES ASSUME AdmissionInit PROVE AdmissionInv
    OBVIOUS
  <2>1. CallTrue
    BY DEF AdmissionInit, CallTrue
  <2>2. LevelTrue /\ GuardTrue
    BY DEF AdmissionInit, LevelTrue, GuardTrue, NoCall, Ongoing, Unheard
  <2>3. tool = NoTool /\ EffectsAuthorised
    BY DEF AdmissionInit, EffectsAuthorised, NoTool
  <2>4. QED BY <2>1, <2>2, <2>3 DEF AdmissionInv
<1>2. AdmissionInv /\ [AdmissionNext]_admissionVars => AdmissionInv'
  <2> SUFFICES ASSUME AdmissionInv, [AdmissionNext]_admissionVars PROVE AdmissionInv'
    OBVIOUS
  <2>1. CASE \E from \in Callers \cup {Unresolved}, mode \in {"reject", "decline"} :
                InboundInvite(from, mode)
    BY <2>1, InviteInv
  <2>2. CASE \/ \E sdp \in Offers, knobs \in Knobs : Reject(sdp, knobs) \/ Answer(sdp, knobs)
             \/ HandshakeFails
    BY <2>2, MediaInv
  <2>3. CASE StartSession
    BY <2>3, SessionInv
  <2>4. CASE DeclineSpoken \/ EndCall
    <3>1. /\ call.phase \in {"declining", "up"} /\ call' = Over /\ guard' = NoGuard
          /\ UNCHANGED <<tool, heard>> /\ did' = NoTool
      BY <2>4 DEF DeclineSpoken, EndCall, Up, Leave, Quiet
    <3>2. QED BY <3>1, EndsInv DEF Ongoing
  <2>5. CASE \E verdict \in {"allow", "restrict", "refuse"}, failed \in BOOLEAN :
                ScreenTurn(verdict, failed)
    BY <2>5, TurnInv
  <2>6. CASE KeypadTurn
    <3>1. FALSE \in BOOLEAN
      OBVIOUS
    <3>2. QED BY <2>6, <3>1, TurnInv
  <2>7. CASE \E name \in Tools \ {"transfer_blind", "transfer_attended"},
                session \in Sessions \cup {OwnSession} :
                \E arg \in ArgsOf(name) : CallTool(name, session, arg)
    BY <2>7, CallToolInv
  <2>8. CASE HangUp \/ ActOnCall \/ ListRegistrations \/ SendDtmf \/ OpenEntry \/ PlaceCall
    BY <2>8, HandlerInv
  <2>9. CASE UNCHANGED admissionVars
    <3>1. UNCHANGED <<doc, call, media, guard, tool, heard, did>>
      BY <2>9 DEF admissionVars
    <3>2. CallTrue' /\ LevelTrue' /\ GuardTrue'
      BY <3>1 DEF AdmissionInv, CallTrue, LevelTrue, GuardTrue, Up
    <3>3. tool' = NoTool \/ Granted(tool)'
      BY <3>1 DEF AdmissionInv, Granted, ArgsOf
    <3>4. EffectsAuthorised'
      BY <3>1 DEF AdmissionInv, EffectsAuthorised, Spelled, OfMask
    <3>5. QED BY <3>2, <3>3, <3>4 DEF AdmissionInv
  <2>10. QED BY <2>1, <2>2, <2>3, <2>4, <2>5, <2>6, <2>7, <2>8, <2>9 DEF AdmissionNext
<1>3. QED BY <1>1, <1>2, PTL DEF AdmissionSpec

\* The operator's lists alone give privilege, and deny it: whatever the documents, the
\* callers and the order of events (classify_caller_group, caller_mode_config_to_groups).
THEOREM ListsRule == AdmissionSpec => []ListsDecide
<1>1. AdmissionInv => ListsDecide
  <2> SUFFICES ASSUME AdmissionInv PROVE ListsDecide
    OBVIOUS
  <2>1. DeniedNeverServed
    BY DEF AdmissionInv, LevelTrue, DeniedNeverServed, Up, Ongoing
  <2>2. CASE call.phase \in {"declining", "up"}
    <3>1. guard.level = call.level /\ (call.level > 0 => call.listed)
      BY <2>2 DEF AdmissionInv, GuardTrue, LevelTrue, Ongoing
    <3>2. QED BY <2>1, <3>1 DEF ListsDecide, TrustIsListed
  <2>3. CASE call.phase \notin {"declining", "up"}
    <3>1. guard.level = -1
      BY <2>3 DEF AdmissionInv, GuardTrue, NoGuard, Guard
    <3>2. QED BY <2>1, <3>1 DEF ListsDecide, TrustIsListed
  <2>4. QED BY <2>2, <2>3
<1>2. QED BY <1>1, AdmissionInvariance, PTL

\* Whatever a tool does was asked for by a caller, or in a session, that may
\* (voip_pre_tool_call, gate_voip_tool, open_entry, is_outbound_allowed).
THEOREM OnlyAuthorised == AdmissionSpec => []EffectsAuthorised
<1>1. AdmissionInv => EffectsAuthorised
  BY DEF AdmissionInv
<1>2. QED BY <1>1, AdmissionInvariance, PTL

\* The engine runs what the answer says and the offer allowed, for any offer and any
\* settings (_setup_sdes_call, _setup_sip_dtls_call, _setup_webrtc_call).
THEOREM MediaAgreed == AdmissionSpec => []MediaAsAgreed
<1>1. AdmissionInit => MediaAsAgreed
  BY DEF AdmissionInit, NoCall, MediaAsAgreed
<1>2. AdmissionInv /\ MediaAsAgreed /\ [AdmissionNext]_admissionVars => MediaAsAgreed'
  <2> SUFFICES ASSUME AdmissionInv, MediaAsAgreed, [AdmissionNext]_admissionVars,
                      call'.phase = "answered"
               PROVE  Agreed(media')
    BY DEF MediaAsAgreed
  <2>1. CASE \E sdp \in Offers, knobs \in Knobs : Answer(sdp, knobs)
    <3>1. PICK sdp \in Offers, knobs \in Knobs : Answer(sdp, knobs)
      BY <2>1
    <3>2. PICK m : m = media'
      OBVIOUS
    <3>3. /\ Readable(sdp) /\ Acceptable(Parse(sdp), knobs)
          /\ LET setup == SetUp(Parse(sdp), knobs)
             IN  m = [sdp |-> sdp, offer |-> Parse(sdp), mandate |-> knobs.mandate,
                      send |-> setup.engine.send, answer |-> setup.answer,
                      engine |-> setup.engine]
      BY <3>1, <3>2 DEF Answer
    <3>4. QED BY <3>2, <3>3, SetUpAgrees
  <2>2. CASE UNCHANGED <<call, media>>
    BY <2>2 DEF MediaAsAgreed
  <2>3. CASE call' = Over
    BY <2>3 DEF Over
  <2>4. CASE \E from \in Callers \cup {Unresolved}, mode \in {"reject", "decline"} :
                InboundInvite(from, mode)
    BY <2>4 DEF InboundInvite, Over
  <2>5. CASE StartSession
    <3>1. call.phase = "answered"
      BY <2>5 DEF StartSession
    <3>2. call'.phase = IF call.decline THEN "declining" ELSE "up"
      BY <2>5, <3>1 DEF StartSession, AdmissionInv, CallTrue, NoCall, Over
    <3>3. QED BY <3>2
  <2>6. QED
    <3>1. CASE AdmissionNext
      BY <2>1, <2>2, <2>3, <2>4, <2>5, <3>1
         DEF AdmissionNext, Reject, HandshakeFails, DeclineSpoken, EndCall, Leave,
             ScreenTurn, KeypadTurn, CallTool, HangUp, ActOnCall, ListRegistrations,
             SendDtmf, OpenEntry, PlaceCall, TakesEffect, ReturnsError, Still
    <3>2. CASE UNCHANGED admissionVars
      BY <2>2, <3>2 DEF admissionVars
    <3>3. QED BY <3>1, <3>2
<1>3. QED BY <1>1, <1>2, AdmissionInvariance, PTL DEF AdmissionSpec
====
