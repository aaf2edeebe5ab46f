---- MODULE InboundCalls_proofs ----
(***************************************************************************)
(* InboundCalls: one final response, one BYE, and balanced books, for any  *)
(* INVITEs on any Call-IDs, forks included, and any number of slots.       *)
(*                                                                         *)
(* The invariant has a layer for each thing that is kept: the types, the   *)
(* send queue (Queued), what a task holds at each stage (Held), the slots  *)
(* and sessions of the Call-IDs (Tabled), the 200 against the 487          *)
(* (Verdict), and the BYE (Ends).  Each layer is inductive given those     *)
(* before it.  Most of the argument is that a step of one INVITE is local: *)
(* it moves its own task (Moved), and touches what others share only at    *)
(* its own Call-ID (Local), so every layer has to be shown again for that  *)
(* INVITE alone.  Only the 487 moves several tasks at once.                *)
(***************************************************************************)
EXTENDS InboundCalls, FiniteSetTheorems, SequenceTheorems, TLAPS

----
(* The types, and the effects of the helpers *)

Tasks == [id: CallId, kind: Kind, pc: Place, failed: BOOLEAN, told: BOOLEAN]
Sent == [what: {"reject", "answer", "terminated", "ok", "okAgain"}, invite: Invite]

TasksOK == call \in [Invite -> Tasks]
TxnOK == txn \in [Invite -> {"none", "pending", "cancelled"}]
WireOK == wire \in [Invite -> [answers: Nat, rejects: Nat, terminated: Nat, byes: Nat]]
SendsOK == sendq \in Seq(Sent)
TablesOK ==
    /\ media \subseteq Invite /\ route \subseteq Invite /\ over \subseteq Invite
    /\ sink \in [CallId -> Invite \cup {NoInvite}]
    /\ session \in [CallId -> Invite \cup {NoInvite}]
    /\ tool \in [CallId -> Invite \cup {NoInvite}]
    /\ admitted \subseteq CallId /\ ended \subseteq CallId
Types == TasksOK /\ TxnOK /\ WireOK /\ SendsOK /\ TablesOK

\* Of the tasks only that of i moves, to p.
Moved(i, p) == \A j \in Invite :
    /\ call'[j].id = call[j].id /\ call'[j].kind = call[j].kind
    /\ call'[j].pc = IF j = i THEN p ELSE call[j].pc
    /\ j # i \/ p # "unwinding" => call'[j].failed = call[j].failed

\* A task that goes on: its stage changes, of no other task anything does (Goes).
LEMMA Moves ==
    ASSUME TasksOK, NEW i \in Invite, NEW p \in Place, Goes(i, p)
    PROVE  TasksOK' /\ Moved(i, p)
BY DEF TasksOK, Tasks, Goes, Moved

\* A loop that is over failed, or its dialog has had a BYE (LoopEnds).
LEMMA LoopLeft ==
    ASSUME TasksOK, NEW i \in Invite, LoopEnds(i)
    PROVE  TasksOK' /\ Moved(i, "unwinding") /\ (call'[i].failed \/ i \in over)
<1>1. PICK failed \in BOOLEAN :
        /\ failed \/ i \in over
        /\ call' = [call EXCEPT ![i].pc = "unwinding", ![i].failed = failed]
  BY DEF LoopEnds
<1>2. DEFINE next == [call[i] EXCEPT !.pc = "unwinding", !.failed = failed]
<1>3. call' = [call EXCEPT ![i] = next]
  BY <1>1 DEF TasksOK
<1>4. next \in Tasks /\ next.id = call[i].id /\ next.kind = call[i].kind
      /\ next.pc = "unwinding" /\ (next.failed <=> failed)
  BY DEF TasksOK, Tasks, Place
<1> HIDE DEF next
<1>5. TasksOK' /\ (call'[i].failed \/ i \in over)
  BY <1>1, <1>3, <1>4 DEF TasksOK
<1>6. Moved(i, "unwinding")
  BY <1>3, <1>4 DEF TasksOK, Moved
<1>7. QED BY <1>5, <1>6

\* The teardown is that of the current session or of a superseded one (TeardownStarts).
LEMMA TeardownBegun ==
    ASSUME TasksOK, NEW i \in Invite, TeardownStarts(i)
    PROVE  /\ TasksOK' /\ At(i, "unwinding")
           /\ Moved(i, IF session[Id(i)] = i THEN "ending" ELSE "stopping")
<1> DEFINE p == IF session[Id(i)] = i THEN "ending" ELSE "stopping"
<1> DEFINE next == [call[i] EXCEPT !.pc = p, !.told = Id(i) \in ended]
<1>0. p \in Place
  BY DEF Place, Teardown
<1>1. call' = [call EXCEPT ![i] = next]
  BY DEF TasksOK, TeardownStarts
<1> HIDE DEF p
<1>2. next \in Tasks
  <2> DEFINE told == Id(i) \in ended
  <2>1. told \in BOOLEAN
    OBVIOUS
  <2> HIDE DEF told
  <2>2. [call[i] EXCEPT !.pc = p, !.told = told] \in Tasks
    BY <1>0, <2>1 DEF TasksOK, Tasks
  <2>3. QED BY <2>2 DEF told
<1>3. /\ next.id = call[i].id /\ next.kind = call[i].kind
      /\ next.failed = call[i].failed /\ next.pc = p
  BY DEF TasksOK, Tasks
<1> HIDE DEF next
<1>4. TasksOK'
  BY <1>1, <1>2 DEF TasksOK
<1>5. Moved(i, p)
  BY <1>1, <1>3 DEF TasksOK, Moved
<1>6. At(i, "unwinding")
  BY DEF TeardownStarts
<1>7. QED BY <1>4, <1>5, <1>6 DEF p

\* A ghost count goes up.
LEMMA Counted ==
    ASSUME WireOK, NEW i \in Invite
    PROVE  /\ wire' = [wire EXCEPT ![i].answers = @ + 1] => WireOK'
           /\ wire' = [wire EXCEPT ![i].rejects = @ + 1] => WireOK'
           /\ wire' = [wire EXCEPT ![i].terminated = @ + 1] => WireOK'
           /\ wire' = [wire EXCEPT ![i].byes = @ + 1] => WireOK'
<1>1. wire[i] \in [answers: Nat, rejects: Nat, terminated: Nat, byes: Nat]
  BY DEF WireOK
<1>2. ASSUME wire' = [wire EXCEPT ![i].answers = @ + 1] PROVE WireOK'
  <2> DEFINE next == [wire[i] EXCEPT !.answers = @ + 1]
  <2>1. wire' = [wire EXCEPT ![i] = next]
    BY <1>2 DEF WireOK
  <2>2. next \in [answers: Nat, rejects: Nat, terminated: Nat, byes: Nat]
    BY <1>1
  <2> HIDE DEF next
  <2>3. QED BY <2>1, <2>2 DEF WireOK
<1>3. ASSUME wire' = [wire EXCEPT ![i].rejects = @ + 1] PROVE WireOK'
  <2> DEFINE next == [wire[i] EXCEPT !.rejects = @ + 1]
  <2>1. wire' = [wire EXCEPT ![i] = next]
    BY <1>3 DEF WireOK
  <2>2. next \in [answers: Nat, rejects: Nat, terminated: Nat, byes: Nat]
    BY <1>1
  <2> HIDE DEF next
  <2>3. QED BY <2>1, <2>2 DEF WireOK
<1>4. ASSUME wire' = [wire EXCEPT ![i].terminated = @ + 1] PROVE WireOK'
  <2> DEFINE next == [wire[i] EXCEPT !.terminated = @ + 1]
  <2>1. wire' = [wire EXCEPT ![i] = next]
    BY <1>4 DEF WireOK
  <2>2. next \in [answers: Nat, rejects: Nat, terminated: Nat, byes: Nat]
    BY <1>1
  <2> HIDE DEF next
  <2>3. QED BY <2>1, <2>2 DEF WireOK
<1>5. ASSUME wire' = [wire EXCEPT ![i].byes = @ + 1] PROVE WireOK'
  <2> DEFINE next == [wire[i] EXCEPT !.byes = @ + 1]
  <2>1. wire' = [wire EXCEPT ![i] = next]
    BY <1>5 DEF WireOK
  <2>2. next \in [answers: Nat, rejects: Nat, terminated: Nat, byes: Nat]
    BY <1>1
  <2> HIDE DEF next
  <2>3. QED BY <2>1, <2>2 DEF WireOK
<1>6. QED BY <1>2, <1>3, <1>4, <1>5

\* remove_call forgets the sink of one Call-ID, and its transactions (Forgets).
LEMMA Forgotten ==
    ASSUME Types, NEW c \in CallId, Forgets(c)
    PROVE  /\ TxnOK' /\ sink' \in [CallId -> Invite \cup {NoInvite}]
           /\ sink'[c] = NoInvite
           /\ \A d \in CallId \ {c} : sink'[d] = sink[d]
           /\ \A j \in Invite : txn'[j] = IF Id(j) = c THEN "none" ELSE txn[j]
BY DEF Types, TxnOK, TablesOK, Forgets

\* A live call has the sink and the session of its Call-ID (Registers).
LEMMA Registered ==
    ASSUME Types, NEW i \in Invite, Registers(i)
    PROVE  /\ TasksOK' /\ Moved(i, "live")
           /\ route' \subseteq Invite
           /\ sink' \in [CallId -> Invite \cup {NoInvite}]
           /\ session' \in [CallId -> Invite \cup {NoInvite}]
           /\ sink'[Id(i)] = i /\ session'[Id(i)] = i
           /\ \A d \in CallId \ {Id(i)} : sink'[d] = sink[d] /\ session'[d] = session[d]
<1>1. Id(i) \in CallId
  BY DEF Types, TasksOK, Tasks, Id
<1>2. "live" \in Place
  BY DEF Place
<1>3. TasksOK' /\ Moved(i, "live")
  BY <1>2, Moves DEF Registers, Types
<1>4. QED BY <1>1, <1>3 DEF Types, TablesOK, Registers

\* The release of a teardown takes away only what is still its own (Releases).
LEMMA Released ==
    ASSUME Types, NEW i \in Invite, NEW owner \in BOOLEAN, Releases(i, owner)
    PROVE  /\ TxnOK'
           /\ sink' \in [CallId -> Invite \cup {NoInvite}]
           /\ session' \in [CallId -> Invite \cup {NoInvite}]
           /\ admitted' = IF owner THEN admitted \ {Id(i)} ELSE admitted
           /\ route' = route \ {i}
           /\ session'[Id(i)] = IF session[Id(i)] = i THEN NoInvite ELSE session[Id(i)]
           /\ sink'[Id(i)] = IF sink[Id(i)] = i THEN NoInvite ELSE sink[Id(i)]
           /\ \A d \in CallId \ {Id(i)} : sink'[d] = sink[d] /\ session'[d] = session[d]
           /\ \A j \in Invite : txn'[j] = IF Id(j) = Id(i) /\ sink[Id(i)] = i THEN "none" ELSE txn[j]
<1>1. Id(i) \in CallId
  BY DEF Types, TasksOK, Tasks, Id
<1>2. CASE sink[Id(i)] = i
  BY <1>1, <1>2, Forgotten DEF Types, TablesOK, Releases
<1>3. CASE sink[Id(i)] # i
  BY <1>1, <1>3 DEF Types, TablesOK, TxnOK, Releases
<1>4. QED BY <1>2, <1>3

\* The end of a teardown: a BYE for a dialog that had none, or the release (Closes).
LEMMA Closed ==
    ASSUME Types, NEW i \in Invite, Closes(i)
    PROVE  \/ /\ call[i].failed /\ i \notin over
              /\ TasksOK' /\ Moved(i, "closing")
              /\ over' = over \cup {i} /\ media' = media \ {i}
              /\ wire' = [wire EXCEPT ![i].byes = @ + 1]
              /\ UNCHANGED <<route, sink, session, admitted, txn>>
           \/ /\ ~call[i].failed \/ i \in over
              /\ TasksOK' /\ Moved(i, "stopping")
              /\ Releases(i, TRUE)
              /\ UNCHANGED <<over, media, wire>>
BY Moves DEF Closes, Byes, Types, Place, Teardown

\* What is left in the queue when cut tasks leave it: the others' sends, every one of
\* them once.
LEMMA Shed ==
    ASSUME NEW cut, NEW q \in Seq(Sent), Leave(cut, q)
    PROVE  /\ sendq' \in Seq(Sent)
           /\ \E at \in [DOMAIN sendq' -> DOMAIN q] :
                /\ \A n \in DOMAIN sendq' :
                     sendq'[n] = q[at[n]] /\ Survives(sendq'[n], cut)
                /\ \A m, n \in DOMAIN sendq' : m # n => at[m] # at[n]
                /\ \A n \in DOMAIN q : Survives(q[n], cut) => \E m \in DOMAIN sendq' : at[m] = n
<1> DEFINE stay == {n \in DOMAIN q : Survives(q[n], cut)}
           places == 1 .. Cardinality(stay)
<1>1. IsFiniteSet(stay) /\ Cardinality(stay) \in Nat
  <2>1. IsFiniteSet(1 .. Len(q))
    BY FS_Interval
  <2>2. stay \in SUBSET (1 .. Len(q))
    OBVIOUS
  <2>3. QED BY <2>1, <2>2, FS_Subset, FS_CardinalityType
<1>2. IsFiniteSet(places) /\ Cardinality(places) = Cardinality(stay)
  BY <1>1, FS_Interval
<1>3. PICK at \in [places -> stay] :
        /\ \A m, n \in places : m < n => at[m] < at[n]
        /\ sendq' = [n \in places |-> q[at[n]]]
  BY DEF Leave
<1>4. \A m, n \in places : m # n => at[m] # at[n]
  <2> SUFFICES ASSUME NEW m \in places, NEW n \in places, m # n PROVE at[m] # at[n]
    OBVIOUS
  <2>1. m \in Nat /\ n \in Nat /\ at[m] \in Nat /\ at[n] \in Nat
    BY <1>1
  <2>2. CASE m < n
    BY <1>3, <2>1, <2>2
  <2>3. CASE n < m
    BY <1>3, <2>1, <2>3
  <2>4. QED BY <2>1, <2>2, <2>3
<1>5. at \in Surjection(places, stay)
  <2>1. at \in Injection(places, stay)
    <3>1. at \in [places -> stay] /\ \A m, n \in places : at[m] = at[n] => m = n
      BY <1>3, <1>4
    <3> HIDE DEF places, stay
    <3>2. QED BY <3>1 DEF Injection, IsInjective
  <2>2. QED BY <1>1, <1>2, <2>1, FS_Injection
<1>6. DOMAIN sendq' = places /\ \A n \in places : sendq'[n] = q[at[n]]
  BY <1>3
<1>7. sendq' \in Seq(Sent)
  <2>1. \A n \in places : q[at[n]] \in Sent
    OBVIOUS
  <2>2. sendq' = [n \in places |-> q[at[n]]] /\ Cardinality(stay) \in Nat
    BY <1>1, <1>3
  <2> HIDE DEF stay
  <2>3. QED BY <2>1, <2>2, IsASeq
<1>8. \A n \in stay : \E m \in places : at[m] = n
  BY <1>5 DEF Surjection
<1>9. at \in [DOMAIN sendq' -> DOMAIN q]
  BY <1>6
<1>10. /\ \A n \in DOMAIN sendq' : sendq'[n] = q[at[n]] /\ Survives(sendq'[n], cut)
       /\ \A m, n \in DOMAIN sendq' : m # n => at[m] # at[n]
       /\ \A n \in DOMAIN q : Survives(q[n], cut) => \E m \in DOMAIN sendq' : at[m] = n
  BY <1>4, <1>6, <1>8
<1> HIDE DEF places, stay
<1>11. QED BY <1>7, <1>9, <1>10

\* The tasks of the Call-ID after its 487, and the tables.
LEMMA Interrupted ==
    ASSUME Types, NEW i \in Invite, Terminated(i)
    PROVE  /\ TasksOK' /\ TxnOK' /\ TablesOK'
           /\ \A j \in Invite :
                /\ call'[j].id = call[j].id /\ call'[j].kind = call[j].kind
                /\ call'[j].pc = IF Id(j) = Id(i) THEN WhenCancelled(call[j].pc) ELSE call[j].pc
                /\ Id(j) # Id(i) => call'[j] = call[j]
                /\ call'[j].failed <=> call[j].failed
                                       \/ (Id(j) = Id(i) /\ call[j].pc \in {"live", "unwinding"})
<1> DEFINE next(j) == [call[j] EXCEPT !.pc = WhenCancelled(@),
                                      !.failed = @ \/ call[j].pc \in {"live", "unwinding"}]
<1>1. \A j \in Invite : call'[j] = IF Id(j) = Id(i) THEN next(j) ELSE call[j]
  BY DEF Terminated
<1>2. ASSUME NEW j \in Invite
      PROVE  /\ next(j) \in Tasks /\ next(j).id = call[j].id /\ next(j).kind = call[j].kind
             /\ next(j).pc = WhenCancelled(call[j].pc)
             /\ next(j).failed <=> call[j].failed \/ call[j].pc \in {"live", "unwinding"}
  <2>1. call[j] \in Tasks
    BY DEF Types, TasksOK
  <2>2. WhenCancelled(call[j].pc) \in Place
    BY <2>1 DEF WhenCancelled, Place, Tasks, Finished
  <2>3. next(j) \in Tasks
    <3> DEFINE failed == call[j].failed \/ call[j].pc \in {"live", "unwinding"}
    <3>1. failed \in BOOLEAN
      OBVIOUS
    <3> HIDE DEF failed
    <3>2. [call[j] EXCEPT !.pc = WhenCancelled(call[j].pc), !.failed = failed] \in Tasks
      BY <2>1, <2>2, <3>1 DEF Tasks
    <3>3. QED BY <3>2 DEF failed
  <2>4. QED BY <2>1, <2>3 DEF Tasks
<1>3. call' = [j \in Invite |-> call'[j]]
  BY DEF Terminated
<1> HIDE DEF next
<1>4. TasksOK'
  <2>1. \A j \in Invite : call'[j] \in Tasks
    BY <1>1, <1>2 DEF Types, TasksOK
  <2>2. QED BY <1>3, <2>1 DEF TasksOK
<1>5. Id(i) \in CallId
  BY DEF Types, TasksOK, Tasks, Id
<1>6. TxnOK' /\ sink' \in [CallId -> Invite \cup {NoInvite}]
  <2>1. Forgets(Id(i)) \/ UNCHANGED <<sink, txn>>
    BY DEF Terminated
  <2>2. QED BY <1>5, <2>1, Forgotten DEF Types, TablesOK, TxnOK
<1>7. TablesOK'
  BY <1>6 DEF Terminated, Types, TablesOK
<1>8. \A j \in Invite : Id(j) # Id(i) => call'[j] = call[j]
  BY <1>1
<1>9. ASSUME NEW j \in Invite
      PROVE  /\ call'[j].id = call[j].id /\ call'[j].kind = call[j].kind
             /\ call'[j].pc = IF Id(j) = Id(i) THEN WhenCancelled(call[j].pc) ELSE call[j].pc
             /\ call'[j].failed <=> call[j].failed
                                    \/ (Id(j) = Id(i) /\ call[j].pc \in {"live", "unwinding"})
  <2>1. CASE Id(j) = Id(i)
    BY <1>1, <1>2, <2>1
  <2>2. CASE Id(j) # Id(i)
    <3>1. call'[j] = call[j]
      BY <1>8, <2>2
    <3>2. QED BY <2>2, <3>1
  <2>3. QED BY <2>1, <2>2
<1>10. QED BY <1>4, <1>6, <1>7, <1>8, <1>9

\* Where the task of an INVITE goes in each of its steps.
LEMMA TaskMoves ==
    ASSUME Types, NEW i \in Invite
    PROVE  /\ InviteArrives(i) => At(i, "none") /\ Moved(i, "new")
           /\ Rejects(i) => At(i, "new") /\ Moved(i, "rejecting")
           /\ Admits(i) => At(i, "new") /\ Moved(i, "opening")
           /\ Opened(i) => At(i, "opening") /\ Moved(i, "answering")
           /\ OpenFails(i) => At(i, "opening") /\ Moved(i, "done")
           /\ Refuses(i) => At(i, "opening") /\ Moved(i, "refusing")
           /\ RejectWritten(i) => Moved(i, IF i \in media THEN "undoing" ELSE "done")
           /\ Undone(i) => At(i, "undoing") /\ Moved(i, "done")
           /\ Answered(i) => Moved(i, IF Secured(i) THEN "handshake" ELSE "live")
           /\ HandshakeOk(i) => At(i, "handshake") /\ Moved(i, "live")
           /\ PeerEndedSetUp(i) => At(i, "handshake") /\ Moved(i, "done")
           /\ EngineFails(i) => At(i, "handshake") /\ Moved(i, "cut")
           /\ HandshakeFails(i) => At(i, "handshake") /\ Moved(i, "aborting")
           /\ AbortEnds(i) => At(i, "aborting") /\ Moved(i, "done")
           /\ LoopEnds(i) => At(i, "live") /\ Moved(i, "unwinding")
           /\ ByeSent(i) => At(i, "closing") /\ Moved(i, "stopping")
           /\ Stopped(i) => At(i, "stopping") /\ Moved(i, "done")
<1> USE Moves DEF Types, Place, Early, SetUp, Teardown, Finished
<1>1. /\ InviteArrives(i) => At(i, "none") /\ Moved(i, "new")
      /\ Rejects(i) => At(i, "new") /\ Moved(i, "rejecting")
      /\ Admits(i) => At(i, "new") /\ Moved(i, "opening")
  BY DEF InviteArrives, Rejects, Admits
<1>2. /\ Opened(i) => At(i, "opening") /\ Moved(i, "answering")
      /\ OpenFails(i) => At(i, "opening") /\ Moved(i, "done")
      /\ Refuses(i) => At(i, "opening") /\ Moved(i, "refusing")
  BY DEF Opened, OpenFails, Refuses
<1>3. /\ RejectWritten(i) => Moved(i, IF i \in media THEN "undoing" ELSE "done")
      /\ Undone(i) => At(i, "undoing") /\ Moved(i, "done")
  BY DEF RejectWritten, Undone
<1>4. Answered(i) => Moved(i, IF Secured(i) THEN "handshake" ELSE "live")
  BY DEF Answered, Registers
<1>5. /\ HandshakeOk(i) => At(i, "handshake") /\ Moved(i, "live")
      /\ PeerEndedSetUp(i) => At(i, "handshake") /\ Moved(i, "done")
      /\ EngineFails(i) => At(i, "handshake") /\ Moved(i, "cut")
  BY DEF HandshakeOk, PeerEndedSetUp, EngineFails, Registers
<1>6. /\ HandshakeFails(i) => At(i, "handshake") /\ Moved(i, "aborting")
      /\ AbortEnds(i) => At(i, "aborting") /\ Moved(i, "done")
  BY DEF HandshakeFails, AbortEnds
<1>7. LoopEnds(i) => At(i, "live") /\ Moved(i, "unwinding")
  BY LoopLeft DEF LoopEnds
<1>8. /\ ByeSent(i) => At(i, "closing") /\ Moved(i, "stopping")
      /\ Stopped(i) => At(i, "stopping") /\ Moved(i, "done")
  BY DEF ByeSent, Stopped
<1>9. QED BY <1>1, <1>2, <1>3, <1>4, <1>5, <1>6, <1>7, <1>8

\* The teardown from the cancelled timers on goes to the agent's farewell, to the BYE, or
\* straight to the release.
LEMMA TeardownMoves ==
    ASSUME Types, NEW i \in Invite, TimersCancelled(i) \/ Signalled(i)
    PROVE  /\ call[i].pc \in {"ending", "signalling"}
           /\ UNCHANGED <<sendq, tool>>
           /\ \/ /\ Moved(i, "signalling")
                 /\ UNCHANGED <<route, sink, session, admitted, txn, over, media, wire>>
              \/ /\ call[i].failed /\ i \notin over
                 /\ Moved(i, "closing")
                 /\ over' = over \cup {i} /\ media' = media \ {i}
                 /\ wire' = [wire EXCEPT ![i].byes = @ + 1]
                 /\ UNCHANGED <<route, sink, session, admitted, txn>>
              \/ /\ ~call[i].failed \/ i \in over
                 /\ Moved(i, "stopping")
                 /\ Releases(i, TRUE)
                 /\ UNCHANGED <<over, media, wire>>
<1>1. CASE Closes(i)
  BY <1>1, Closed DEF TimersCancelled, Signalled, At
<1>2. CASE ~Closes(i)
  <2>1. Goes(i, "signalling") /\ At(i, "ending")
        /\ UNCHANGED <<sendq, tool, route, sink, session, admitted, txn, over, media, wire>>
    BY <1>2 DEF TimersCancelled, Signalled
  <2>2. Moved(i, "signalling")
    BY <2>1, Moves DEF Types, Place, Teardown
  <2>3. QED BY <2>1, <2>2 DEF At
<1>3. QED BY <1>1, <1>2

\* An INVITE keeps its Call-ID and its kind.
LEMMA Fixed ==
    ASSUME Types, [Next]_vars, NEW j \in Invite
    PROVE  call'[j].id = call[j].id /\ call'[j].kind = call[j].kind
<1>1. ASSUME NEW i \in Invite, NEW p, Moved(i, p)
      PROVE  call'[j].id = call[j].id /\ call'[j].kind = call[j].kind
  BY <1>1 DEF Moved
<1>2. ASSUME NEW i \in Invite, LoopEnds(i) \/ TaskSteps(i) \/ InviteArrives(i)
      PROVE  \E p : Moved(i, p)
  <2>1. CASE TimersCancelled(i) \/ Signalled(i)
    BY <2>1, TeardownMoves
  <2>2. CASE TeardownStarts(i)
    BY <2>2, TeardownBegun DEF Types
  <2>3. QED BY <1>2, <2>1, <2>2, TaskMoves DEF TaskSteps
<1>3. ASSUME NEW i \in Invite, RejectWritten(i) \/ AnswerWritten(i) \/ AnswerSuppressed(i)
      PROVE  \E p : Moved(i, p)
  BY <1>3, TaskMoves DEF AnswerWritten, AnswerSuppressed
<1>4. ASSUME NEW i \in Invite, Terminated(i)
      PROVE  call'[j].id = call[j].id /\ call'[j].kind = call[j].kind
  BY <1>4, Interrupted
<1>5. ASSUME NEW i \in Invite, CancelArrives(i) \/ CancelAnswered(i) \/ PeerBye(i)
      PROVE  call' = call
  BY <1>5 DEF CancelArrives, CancelAnswered, PeerBye
<1>6. ASSUME NEW c \in CallId, HangUpStarts(c) \/ HangUpByes(c) PROVE call' = call
  BY <1>6 DEF HangUpStarts, HangUpByes
<1>7. CASE UNCHANGED vars
  BY <1>7 DEF vars
<1>8. QED BY <1>1, <1>2, <1>3, <1>4, <1>5, <1>6, <1>7 DEF Next, Sends

\* Every step keeps the types.
LEMMA TypesStep == Types /\ [Next]_vars => Types'
<1> SUFFICES ASSUME Types, [Next]_vars PROVE Types'
  OBVIOUS
<1> USE DEF Types
<1>q. ASSUME NEW i \in Invite, NEW what \in {"reject", "answer", "ok", "okAgain"}, Queue(what, i)
      PROVE  SendsOK'
  BY <1>q DEF Queue, Send, Sent, SendsOK
<1>t. ASSUME sendq # <<>>, sendq' = Tail(sendq) PROVE SendsOK'
  BY <1>t DEF SendsOK
<1>1. ASSUME NEW i \in Invite, InviteArrives(i) \/ Rejects(i) \/ Admits(i) \/ Opened(i)
             \/ OpenFails(i) \/ Refuses(i) \/ Undone(i)
      PROVE  Types'
  <2>0. Id(i) \in CallId
    BY DEF TasksOK, Tasks, Id
  <2>1. TasksOK'
    BY <1>1, Moves DEF InviteArrives, Rejects, Admits, Opened, OpenFails, Refuses, Undone, Place,
                       Early, SetUp, Finished
  <2>2. SendsOK'
    BY <1>1, <1>q DEF InviteArrives, Rejects, Admits, Opened, OpenFails, Refuses, Undone, SendsOK
  <2>3. TxnOK' /\ WireOK'
    BY <1>1 DEF InviteArrives, Rejects, Admits, Opened, OpenFails, Refuses, Undone, TxnOK, WireOK
  <2>4. TablesOK'
    BY <1>1, <2>0 DEF InviteArrives, Rejects, Admits, Opened, OpenFails, Refuses, Undone,
                      TablesOK, tables
  <2>5. QED BY <2>1, <2>2, <2>3, <2>4
<1>2. ASSUME NEW i \in Invite, RejectWritten(i) PROVE Types'
  <2>1. TasksOK'
    BY <1>2, Moves DEF RejectWritten, Place, SetUp, Finished
  <2>2. SendsOK'
    BY <1>2, <1>t DEF RejectWritten, NextToWrite
  <2>3. TxnOK'
    BY <1>2 DEF RejectWritten, TxnOK
  <2>4. WireOK'
    BY <1>2, Counted DEF RejectWritten
  <2>5. admitted' \subseteq admitted
    BY <1>2 DEF RejectWritten
  <2>6. TablesOK'
    BY <1>2, <2>5 DEF RejectWritten, TablesOK
  <2>7. QED BY <2>1, <2>2, <2>3, <2>4, <2>6
<1>3. ASSUME NEW i \in Invite, AnswerWritten(i) \/ AnswerSuppressed(i) PROVE Types'
  <2>0. Id(i) \in CallId
    BY DEF TasksOK, Tasks, Id
  <2>1. TasksOK'
    BY <1>3, Moves, Registered DEF AnswerWritten, AnswerSuppressed, Answered, Place, SetUp
  <2>2. SendsOK'
    BY <1>3, <1>t DEF AnswerWritten, AnswerSuppressed, NextToWrite
  <2>3. TxnOK' /\ WireOK'
    <3>1. CASE AnswerWritten(i)
      <4>1. TxnOK'
        BY <3>1 DEF AnswerWritten, TxnOK
      <4>2. WireOK'
        BY <3>1, Counted DEF AnswerWritten
      <4>3. QED BY <4>1, <4>2
    <3>2. CASE AnswerSuppressed(i)
      BY <3>2 DEF AnswerSuppressed, TxnOK, WireOK
    <3>3. QED BY <1>3, <3>1, <3>2
  <2>4. TablesOK'
    <3>1. CASE Registers(i)
      BY <1>3, <3>1, Registered DEF AnswerWritten, AnswerSuppressed, Registers, TablesOK
    <3>2. CASE ~Registers(i)
      BY <1>3, <3>2, <2>0 DEF AnswerWritten, AnswerSuppressed, Answered, TablesOK
    <3>3. QED BY <3>1, <3>2
  <2>5. QED BY <2>1, <2>2, <2>3, <2>4
<1>4. ASSUME NEW i \in Invite, HandshakeOk(i) PROVE Types'
  BY <1>4, Registered DEF HandshakeOk, Registers, TablesOK, TxnOK, WireOK, SendsOK
<1>5. ASSUME NEW i \in Invite, PeerEndedSetUp(i) \/ EngineFails(i) \/ HandshakeFails(i) PROVE Types'
  <2>0. Id(i) \in CallId
    BY DEF TasksOK, Tasks, Id
  <2>1. TasksOK'
    BY <1>5, Moves DEF PeerEndedSetUp, EngineFails, HandshakeFails, Place, Finished
  <2>2. SendsOK' /\ WireOK'
    BY <1>5 DEF PeerEndedSetUp, EngineFails, HandshakeFails, SendsOK, WireOK
  <2>3. TxnOK' /\ TablesOK'
    BY <1>5, <2>0, Forgotten DEF PeerEndedSetUp, EngineFails, HandshakeFails, TxnOK, TablesOK
  <2>5. QED BY <2>1, <2>2, <2>3
<1>b. ASSUME NEW i \in Invite, Byes(i) PROVE WireOK' /\ over' \subseteq Invite
  BY <1>b DEF Byes, WireOK, TablesOK
<1>6. ASSUME NEW i \in Invite, AbortEnds(i) PROVE Types'
  <2>0. Id(i) \in CallId
    BY DEF TasksOK, Tasks, Id
  <2>1. TasksOK'
    BY <1>6, Moves DEF AbortEnds, Place, Finished
  <2>2. SendsOK' /\ WireOK'
    BY <1>6, <1>b DEF AbortEnds, SendsOK
  <2>3. TxnOK' /\ TablesOK'
    BY <1>6, <2>0, <1>b, Forgotten DEF AbortEnds, TablesOK
  <2>5. QED BY <2>1, <2>2, <2>3
<1>7. ASSUME NEW i \in Invite, PeerBye(i) PROVE Types'
  BY <1>7 DEF PeerBye, TasksOK, TxnOK, WireOK, SendsOK, TablesOK, tables
<1>8. ASSUME NEW c \in CallId, HangUpStarts(c) \/ HangUpByes(c) PROVE Types'
  <2>1. HangUpByes(c) => tool[c] \in Invite
    BY <1>8 DEF HangUpByes, TablesOK
  <2>2. TasksOK' /\ TxnOK' /\ SendsOK' /\ WireOK'
    BY <1>8, <1>b, <2>1 DEF HangUpStarts, HangUpByes, TasksOK, TxnOK, SendsOK, WireOK
  <2>3. TablesOK'
    BY <1>8, <1>b, <2>1 DEF HangUpStarts, HangUpByes, TablesOK, tables
  <2>4. QED BY <2>2, <2>3
<1>9. ASSUME NEW i \in Invite, LoopEnds(i) PROVE Types'
  <2>1. TasksOK'
    BY <1>9, LoopLeft
  <2>2. TxnOK' /\ WireOK' /\ SendsOK' /\ TablesOK'
    BY <1>9 DEF LoopEnds, TxnOK, WireOK, SendsOK, TablesOK, tables
  <2>3. QED BY <2>1, <2>2
<1>10. ASSUME NEW i \in Invite, TeardownStarts(i) PROVE Types'
  <2>1. TasksOK'
    BY <1>10, TeardownBegun
  <2>2. WireOK' /\ SendsOK'
    BY <1>10 DEF TeardownStarts, WireOK, SendsOK
  <2>3. TxnOK' /\ TablesOK'
    BY <1>10, Released DEF TeardownStarts, TxnOK, TablesOK
  <2>4. QED BY <2>1, <2>2, <2>3
<1>11. ASSUME NEW i \in Invite, TimersCancelled(i) \/ Signalled(i) PROVE Types'
  <2>0. Id(i) \in CallId
    BY DEF TasksOK, Tasks, Id
  <2>1. SendsOK' /\ ended' \subseteq CallId /\ UNCHANGED tool
    BY <1>11, <2>0 DEF TimersCancelled, Signalled, SendsOK, TablesOK
  <2>2. CASE Closes(i)
    <3>1. CASE Releases(i, TRUE) /\ UNCHANGED <<over, media, wire>>
      <4>1. TasksOK'
        BY <2>2, Closed
      <4>2. TxnOK' /\ sink' \in [CallId -> Invite \cup {NoInvite}]
            /\ session' \in [CallId -> Invite \cup {NoInvite}]
            /\ admitted' = admitted \ {Id(i)} /\ route' = route \ {i}
        BY <3>1, Released
      <4>3. WireOK' /\ TablesOK'
        BY <2>1, <3>1, <4>2 DEF TablesOK, WireOK
      <4>4. QED BY <2>1, <4>1, <4>2, <4>3
    <3>2. CASE /\ over' = over \cup {i} /\ media' = media \ {i}
               /\ wire' = [wire EXCEPT ![i].byes = @ + 1]
               /\ UNCHANGED <<route, sink, session, admitted, txn>>
      <4>1. TxnOK' /\ WireOK'
        BY <3>2 DEF TxnOK, WireOK
      <4>2. QED BY <2>1, <2>2, <3>2, <4>1, Closed DEF TablesOK
    <3>3. QED BY <2>2, <3>1, <3>2, Closed
  <2>3. CASE ~Closes(i)
    <3>1. Goes(i, "signalling") /\ UNCHANGED <<route, sink, session, admitted, txn, over, media, wire>>
      BY <1>11, <2>3 DEF TimersCancelled, Signalled
    <3>2. TasksOK'
      BY <3>1, Moves DEF Place, Teardown
    <3>3. QED BY <2>1, <3>1, <3>2 DEF TxnOK, TablesOK, WireOK
  <2>4. QED BY <2>2, <2>3
<1>12. ASSUME NEW i \in Invite, ByeSent(i) \/ Stopped(i) PROVE Types'
  <2>1. TasksOK'
    BY <1>12, Moves DEF ByeSent, Stopped, Place, Teardown, Finished
  <2>2. WireOK' /\ SendsOK'
    BY <1>12 DEF ByeSent, Stopped, WireOK, SendsOK
  <2>3. TxnOK' /\ TablesOK'
    BY <1>12, Released DEF ByeSent, Stopped, TxnOK, TablesOK, tables
  <2>4. QED BY <2>1, <2>2, <2>3
<1>13. ASSUME NEW i \in Invite, CancelArrives(i) PROVE Types'
  <2>1. SendsOK'
    BY <1>13, <1>q DEF CancelArrives
  <2>2. QED BY <1>13, <2>1 DEF CancelArrives, TasksOK, TxnOK, WireOK, TablesOK, tables
<1>14. ASSUME NEW i \in Invite, CancelAnswered(i) PROVE Types'
  <2>1. SendsOK'
    BY <1>14 DEF CancelAnswered, NextToWrite, SendsOK, Send, Sent
  <2>2. QED BY <1>14, <2>1 DEF CancelAnswered, TasksOK, TxnOK, WireOK, TablesOK, tables
<1>15. ASSUME NEW i \in Invite, Terminated(i) PROVE Types'
  <2>1. WireOK'
    BY <1>15, Counted DEF Terminated
  <2>2. SendsOK'
    <3>1. PICK cut : Leave(cut, Tail(sendq))
      BY <1>15 DEF Terminated
    <3>2. sendq # <<>>
      BY <1>15 DEF Terminated, NextToWrite
    <3>3. Tail(sendq) \in Seq(Sent)
      BY <3>2 DEF SendsOK
    <3>4. QED BY <3>1, <3>3, Shed DEF SendsOK
  <2>3. QED BY <1>15, <2>1, <2>2, Interrupted
<1>16. CASE UNCHANGED vars
  BY <1>16 DEF vars, tables, TasksOK, TxnOK, WireOK, SendsOK, TablesOK
<1>17. QED
  BY <1>1, <1>2, <1>3, <1>4, <1>5, <1>6, <1>7, <1>8, <1>9, <1>10, <1>11, <1>12, <1>13, <1>14,
     <1>15, <1>16 DEF Next, Sends, TaskSteps

----
(* The send queue *)

\* The stages at which a task waits for the send lock.
Waiting == {"rejecting", "refusing", "answering"}

\* A task's send waits while the task does.
SentByTasks == \A n \in DOMAIN sendq :
    /\ sendq[n].what = "answer" => At(sendq[n].invite, "answering")
    /\ sendq[n].what = "reject" => call[sendq[n].invite].pc \in {"rejecting", "refusing"}

\* No two sends are of one task, or of the reader.
OneEach == \A m, n \in DOMAIN sendq : m # n =>
    IF sendq[m].what \in ReaderSend THEN sendq[n].what \notin ReaderSend
    ELSE sendq[n].what \in ReaderSend \/ sendq[m].invite # sendq[n].invite

\* A task that waits has its send in the queue.
Awaited == \A i \in Invite : call[i].pc \in Waiting =>
    \E n \in DOMAIN sendq : sendq[n].invite = i /\ sendq[n].what \notin ReaderSend

Queued == SentByTasks /\ OneEach /\ Awaited

\* The step does not take the task of j into the queue or out of it.
WaitsAsBefore(j) ==
    \/ call'[j].pc = call[j].pc
    \/ call[j].pc \notin Waiting /\ call'[j].pc \notin Waiting

\* What an element of a queue of sends is.
LEMMA SendOf ==
    ASSUME NEW q \in Seq(Sent), NEW n \in DOMAIN q
    PROVE  /\ q[n].invite \in Invite
           /\ q[n].what \in {"reject", "answer"} \cup ReaderSend
           /\ q[n] = [what |-> q[n].what, invite |-> q[n].invite]
<1>1. q[n] \in Sent
  OBVIOUS
<1>2. QED BY <1>1 DEF Sent, ReaderSend

\* A step that leaves the queue alone, of tasks that do not wait.
LEMMA QueueKept ==
    ASSUME Types, Queued, UNCHANGED sendq,
           \A j \in Invite : WaitsAsBefore(j)
    PROVE  Queued'
<1>1. \A n \in DOMAIN sendq : sendq[n].invite \in Invite
  BY SendOf DEF Types, SendsOK
<1>2. SentByTasks'
  BY <1>1 DEF Queued, SentByTasks, Waiting, At, WaitsAsBefore
<1>3. OneEach' /\ Awaited'
  BY DEF Queued, OneEach, Awaited, WaitsAsBefore
<1>4. QED BY <1>2, <1>3 DEF Queued

\* A task begins to wait.
LEMMA TaskQueues ==
    ASSUME Types, Queued, NEW i \in Invite, call[i].pc \notin Waiting,
           \/ Queue("answer", i) /\ Moved(i, "answering")
           \/ Queue("reject", i) /\ (Moved(i, "rejecting") \/ Moved(i, "refusing"))
    PROVE  Queued'
<1> DEFINE what == IF Queue("answer", i) THEN "answer" ELSE "reject"
<1>0. \A n \in DOMAIN sendq :
        sendq[n].invite \in Invite /\ sendq[n].what \in {"reject", "answer"} \cup ReaderSend
  BY SendOf DEF Types, SendsOK
<1>1. sendq' = Append(sendq, [what |-> what, invite |-> i]) /\ what \notin ReaderSend
  BY DEF Queue, Send, ReaderSend
<1>2. sendq \in Seq(Sent)
  BY DEF Types, SendsOK
<1>3. /\ DOMAIN sendq' = 1 .. Len(sendq) + 1
      /\ \A n \in DOMAIN sendq : sendq'[n] = sendq[n]
      /\ sendq'[Len(sendq) + 1] = [what |-> what, invite |-> i]
      /\ DOMAIN sendq = 1 .. Len(sendq) /\ Len(sendq) \in Nat
  BY <1>1, <1>2
<1>4. \A n \in DOMAIN sendq : sendq[n].what \notin ReaderSend => sendq[n].invite # i
  BY <1>0 DEF Queued, SentByTasks, Waiting, At, ReaderSend
<1>5. OneEach'
  BY <1>1, <1>3, <1>4 DEF Queued, OneEach
<1>6. SentByTasks'
  <2>1. \/ what = "answer" /\ Moved(i, "answering")
        \/ what = "reject" /\ (Moved(i, "rejecting") \/ Moved(i, "refusing"))
    BY <1>3 DEF Queue, Send
  <2>2. \A n \in DOMAIN sendq : sendq[n].what \in {"answer", "reject"} =>
            sendq[n].invite # i /\ call'[sendq[n].invite].pc = call[sendq[n].invite].pc
    BY <1>0, <1>4, <2>1 DEF Moved, ReaderSend
  <2> HIDE DEF what
  <2>3. QED BY <1>3, <2>1, <2>2 DEF Queued, SentByTasks, At, Moved
<1>7. Awaited'
  <2>1. \A j \in Invite \ {i} : call'[j].pc = call[j].pc
    BY DEF Moved
  <2> HIDE DEF what
  <2>2. QED BY <1>1, <1>3, <2>1 DEF Queued, Awaited
<1>8. QED BY <1>5, <1>6, <1>7 DEF Queued

\* The head is written: its task goes on, or it was the reader's.
LEMMA HeadWritten ==
    ASSUME Types, Queued, sendq # <<>>, sendq' = Tail(sendq),
           \/ /\ Head(sendq).what \in ReaderSend
              /\ \A j \in Invite : call'[j].pc = call[j].pc
           \/ /\ Head(sendq).what \notin ReaderSend
              /\ call'[Head(sendq).invite].pc \notin Waiting
              /\ \A j \in Invite \ {Head(sendq).invite} : call'[j].pc = call[j].pc
    PROVE  Queued'
<1>1. sendq \in Seq(Sent)
  BY DEF Types, SendsOK
<1>2. /\ DOMAIN sendq' = 1 .. Len(sendq) - 1
      /\ \A n \in DOMAIN sendq' : sendq'[n] = sendq[n + 1] /\ n + 1 \in DOMAIN sendq
      /\ Len(sendq) \in Nat \ {0} /\ 1 \in DOMAIN sendq /\ Head(sendq) = sendq[1]
      /\ DOMAIN sendq = 1 .. Len(sendq)
  BY <1>1
<1>3. OneEach'
  BY <1>2 DEF Queued, OneEach
<1>4. ASSUME NEW n \in DOMAIN sendq', sendq'[n].what \notin ReaderSend
      PROVE  /\ sendq'[n].invite \in Invite
             /\ call'[sendq'[n].invite].pc = call[sendq'[n].invite].pc
  <2>1. sendq'[n].invite \in Invite
    BY <1>1, <1>2, SendOf
  <2>2. Head(sendq).what \notin ReaderSend => Head(sendq).invite # sendq'[n].invite
    BY <1>2, <1>4 DEF Queued, OneEach
  <2>3. QED BY <2>1, <2>2
<1>5. SentByTasks'
  BY <1>2, <1>4 DEF Queued, SentByTasks, At, ReaderSend
<1>6. Awaited'
  <2> SUFFICES ASSUME NEW j \in Invite, call'[j].pc \in Waiting
               PROVE  \E n \in DOMAIN sendq' : sendq'[n].invite = j /\ sendq'[n].what \notin ReaderSend
    BY DEF Awaited
  <2>1. call[j].pc \in Waiting
    OBVIOUS
  <2>2. PICK n \in DOMAIN sendq : sendq[n].invite = j /\ sendq[n].what \notin ReaderSend
    BY <2>1 DEF Queued, Awaited
  <2>3. n # 1
    BY <1>2, <2>2
  <2>4. n - 1 \in DOMAIN sendq' /\ sendq'[n - 1] = sendq[n]
    BY <1>2, <2>3
  <2>5. QED BY <2>2, <2>4
<1>7. QED BY <1>3, <1>5, <1>6 DEF Queued

\* The reader answers a CANCEL: one send of its own comes to the end of the queue, in
\* the place of one at its head if it goes on from there.
LEMMA ReaderQueues ==
    ASSUME Types, Queued, UNCHANGED call, NEW i \in Invite, NEW what \in ReaderSend,
           \/ ReaderIdle /\ Queue(what, i)
           \/ /\ sendq # <<>> /\ Head(sendq).what \in ReaderSend
              /\ sendq' = Append(Tail(sendq), Send(what, i))
    PROVE  Queued'
<1> DEFINE d == IF ReaderIdle /\ Queue(what, i) THEN 0 ELSE 1
<1>1. sendq \in Seq(Sent)
  BY DEF Types, SendsOK
<1>2. /\ Len(sendq) \in Nat /\ d \in {0, 1} /\ Len(sendq) - d \in Nat
      /\ DOMAIN sendq' = 1 .. Len(sendq) - d + 1 /\ DOMAIN sendq = 1 .. Len(sendq)
      /\ \A n \in 1 .. Len(sendq) - d : sendq'[n] = sendq[n + d]
      /\ sendq'[Len(sendq) - d + 1] = [what |-> what, invite |-> i]
      /\ d = 1 => sendq[1].what \in ReaderSend
      /\ d = 0 => ReaderIdle
  <2>1. CASE ReaderIdle /\ Queue(what, i)
    BY <1>1, <2>1 DEF Queue, Send
  <2>2. CASE ~(ReaderIdle /\ Queue(what, i))
    <3>1. /\ sendq # <<>> /\ Head(sendq).what \in ReaderSend /\ d = 1
          /\ sendq' = Append(Tail(sendq), Send(what, i))
      BY <2>2
    <3>2. /\ Len(sendq) \in Nat /\ Len(sendq) > 0 /\ Head(sendq) = sendq[1]
          /\ Tail(sendq) \in Seq(Sent) /\ Len(Tail(sendq)) = Len(sendq) - 1
          /\ \A n \in 1 .. Len(sendq) - 1 : Tail(sendq)[n] = sendq[n + 1]
      BY <1>1, <3>1
    <3>3. /\ Send(what, i) = [what |-> what, invite |-> i]
          /\ DOMAIN sendq = 1 .. Len(sendq) /\ DOMAIN sendq' = 1 .. Len(sendq)
          /\ sendq'[Len(sendq)] = Send(what, i)
          /\ \A n \in 1 .. Len(sendq) - 1 : sendq'[n] = Tail(sendq)[n]
      BY <1>1, <3>1, <3>2 DEF Send
    <3> HIDE DEF d
    <3>4. QED BY <3>1, <3>2, <3>3
  <2>3. QED BY <2>1, <2>2
<1> HIDE DEF d
<1>3. \A n \in 1 .. Len(sendq) - d : sendq[n + d].what \notin ReaderSend
  BY <1>2 DEF ReaderIdle, Queued, OneEach
<1>4. OneEach'
  <2> SUFFICES ASSUME NEW m \in DOMAIN sendq', NEW n \in DOMAIN sendq', m # n
               PROVE  IF sendq'[m].what \in ReaderSend THEN sendq'[n].what \notin ReaderSend
                      ELSE sendq'[n].what \in ReaderSend \/ sendq'[m].invite # sendq'[n].invite
    BY DEF OneEach
  <2>1. CASE m # Len(sendq) - d + 1 /\ n # Len(sendq) - d + 1
    <3>1. /\ m + d \in DOMAIN sendq /\ n + d \in DOMAIN sendq /\ m + d # n + d
          /\ sendq'[m] = sendq[m + d] /\ sendq'[n] = sendq[n + d]
      BY <1>2, <2>1
    <3>2. QED BY <3>1 DEF Queued, OneEach
  <2>2. CASE m = Len(sendq) - d + 1
    <3>1. sendq'[m].what \in ReaderSend
      BY <1>2, <2>2
    <3>2. n \in 1 .. Len(sendq) - d
      BY <1>2, <2>2
    <3>3. sendq'[n].what \notin ReaderSend
      BY <1>2, <1>3, <3>2
    <3>4. QED BY <3>1, <3>3
  <2>3. CASE n = Len(sendq) - d + 1
    <3>1. sendq'[n].what \in ReaderSend
      BY <1>2, <2>3
    <3>2. m \in 1 .. Len(sendq) - d
      BY <1>2, <2>3
    <3>3. sendq'[m].what \notin ReaderSend
      BY <1>2, <1>3, <3>2
    <3>4. QED BY <3>1, <3>3
  <2>4. QED BY <2>1, <2>2, <2>3
<1>5. SentByTasks'
  BY <1>2 DEF Queued, SentByTasks, ReaderSend, At
<1>6. Awaited'
  <2> SUFFICES ASSUME NEW j \in Invite, call'[j].pc \in Waiting
               PROVE  \E n \in DOMAIN sendq' : sendq'[n].invite = j /\ sendq'[n].what \notin ReaderSend
    BY DEF Awaited
  <2>1. PICK n \in DOMAIN sendq : sendq[n].invite = j /\ sendq[n].what \notin ReaderSend
    BY DEF Queued, Awaited
  <2>2. n - d \in DOMAIN sendq' /\ sendq'[n - d] = sendq[n]
    BY <1>2, <2>1
  <2>3. QED BY <2>1, <2>2
<1>7. QED BY <1>4, <1>5, <1>6 DEF Queued

\* The tasks that are cut leave the queue.
LEMMA TerminatedQueue ==
    ASSUME Types, Queued, NEW i \in Invite, Terminated(i)
    PROVE  /\ Queued'
           /\ \A n \in DOMAIN sendq' : sendq'[n].what \notin ReaderSend
<1> DEFINE its == {j \in Invite : Id(j) = Id(i)}
           cut == {j \in its : WhenCancelled(call[j].pc) \in {"cut", "torn"}}
           q == Tail(sendq)
<1>1. sendq \in Seq(Sent) /\ sendq # <<>> /\ Head(sendq) = Send("terminated", i)
  BY DEF Types, SendsOK, Terminated, NextToWrite
<1>2. q \in Seq(Sent) /\ Leave(cut, q)
  <2>1. Leave(cut, q)
    BY Zenon DEF Terminated
  <2>2. QED BY <1>1, <2>1
<1>3. /\ DOMAIN q = 1 .. Len(sendq) - 1 /\ Len(sendq) \in Nat \ {0}
      /\ \A n \in DOMAIN q : q[n] = sendq[n + 1] /\ n + 1 \in DOMAIN sendq
      /\ sendq[1].what = "terminated" /\ 1 \in DOMAIN sendq /\ DOMAIN sendq = 1 .. Len(sendq)
  BY <1>1 DEF Send
<1> HIDE DEF cut, q
<1>4. PICK at \in [DOMAIN sendq' -> DOMAIN q] :
        /\ \A n \in DOMAIN sendq' : sendq'[n] = q[at[n]] /\ Survives(sendq'[n], cut)
        /\ \A m, n \in DOMAIN sendq' : m # n => at[m] # at[n]
        /\ \A n \in DOMAIN q : Survives(q[n], cut) => \E m \in DOMAIN sendq' : at[m] = n
  BY <1>2, Shed
<1>5. \A n \in DOMAIN q : q[n].what \notin ReaderSend /\ q[n].invite \in Invite
  BY <1>1, <1>3, SendOf DEF Queued, OneEach, ReaderSend
<1>6. \A n \in DOMAIN sendq' :
        /\ sendq'[n].what \notin ReaderSend
        /\ sendq'[n].invite \in Invite \ cut
  BY <1>4, <1>5 DEF Survives
<1>7. OneEach'
  BY <1>3, <1>4, <1>5 DEF Queued, OneEach
<1>8. \A j \in Invite \ cut : WaitsAsBefore(j)
  BY Interrupted DEF WaitsAsBefore, WhenCancelled, Waiting, cut, Early, SetUp
<1>9. SentByTasks'
  BY <1>3, <1>4, <1>6, <1>8 DEF Queued, SentByTasks, Waiting, At, WaitsAsBefore
<1>10. Awaited'
  <2> SUFFICES ASSUME NEW j \in Invite, call'[j].pc \in Waiting
               PROVE  \E n \in DOMAIN sendq' : sendq'[n].invite = j /\ sendq'[n].what \notin ReaderSend
    BY DEF Awaited
  <2>1. j \notin cut /\ call[j].pc \in Waiting
    <3>1. j \notin cut
      BY Interrupted DEF cut, Waiting
    <3>2. QED BY <1>8, <3>1 DEF WaitsAsBefore
  <2>2. PICK n \in DOMAIN sendq : sendq[n].invite = j /\ sendq[n].what \notin ReaderSend
    BY <2>1 DEF Queued, Awaited
  <2>3. n - 1 \in DOMAIN q /\ q[n - 1] = sendq[n]
    BY <1>3, <2>2 DEF ReaderSend
  <2>4. PICK m \in DOMAIN sendq' : at[m] = n - 1
    BY <1>4, <2>1, <2>2, <2>3 DEF Survives
  <2>5. sendq'[m] = sendq[n]
    BY <1>4, <2>3, <2>4
  <2>6. QED BY <2>2, <2>5
<1>11. QED BY <1>6, <1>7, <1>9, <1>10 DEF Queued

\* Every step keeps the queue: a waiting task has one send in it, the reader at most one.
LEMMA QueueStep == Types /\ Queued /\ [Next]_vars => Queued'
<1> SUFFICES ASSUME Types, Queued, [Next]_vars PROVE Queued'
  OBVIOUS
<1>1. ASSUME NEW i \in Invite, Rejects(i) \/ Opened(i) \/ Refuses(i) PROVE Queued'
  <2>1. /\ call[i].pc \notin Waiting
        /\ \/ Queue("answer", i) /\ Moved(i, "answering")
           \/ Queue("reject", i) /\ (Moved(i, "rejecting") \/ Moved(i, "refusing"))
    BY <1>1, TaskMoves DEF Rejects, Opened, Refuses, At, Waiting
  <2>2. QED BY <2>1, TaskQueues
<1>2. ASSUME NEW i \in Invite, RejectWritten(i) \/ AnswerWritten(i) \/ AnswerSuppressed(i)
      PROVE  Queued'
  <2>1. /\ sendq # <<>> /\ sendq' = Tail(sendq)
        /\ Head(sendq).what \in {"reject", "answer"} /\ Head(sendq).invite = i
    BY <1>2 DEF RejectWritten, AnswerWritten, AnswerSuppressed, NextToWrite, Send
  <2>2. \E p : p \notin Waiting /\ Moved(i, p)
    BY <1>2, TaskMoves DEF AnswerWritten, AnswerSuppressed, Waiting
  <2>3. QED BY <2>1, <2>2, HeadWritten DEF Moved, ReaderSend
<1>3. ASSUME NEW i \in Invite, CancelArrives(i) PROVE Queued'
  <2>1. UNCHANGED call /\ ReaderIdle /\ \E what \in ReaderSend : Queue(what, i)
    BY <1>3 DEF CancelArrives, ReaderSend
  <2>2. QED BY <2>1, ReaderQueues
<1>4. ASSUME NEW i \in Invite, CancelAnswered(i) PROVE Queued'
  <2>1. UNCHANGED call /\ sendq # <<>> /\ Head(sendq).what \in ReaderSend
    BY <1>4 DEF CancelAnswered, NextToWrite, ReaderSend, Send
  <2>2. \/ sendq' = Tail(sendq)
        \/ sendq' = Append(Tail(sendq), Send("terminated", i))
    BY <1>4 DEF CancelAnswered
  <2>3. CASE sendq' = Tail(sendq)
    BY <2>1, <2>3, HeadWritten
  <2>4. CASE sendq' = Append(Tail(sendq), Send("terminated", i))
    <3>1. "terminated" \in ReaderSend
      BY DEF ReaderSend
    <3>2. QED BY <2>1, <2>4, <3>1, ReaderQueues
  <2>5. QED BY <2>2, <2>3, <2>4
<1>5. ASSUME NEW i \in Invite, Terminated(i) PROVE Queued'
  BY <1>5, TerminatedQueue
<1>6. ASSUME UNCHANGED sendq, NEW i \in Invite, NEW p, Moved(i, p),
             call[i].pc \notin Waiting, p \notin Waiting
      PROVE  Queued'
  <2>1. \A j \in Invite : WaitsAsBefore(j)
    BY <1>6 DEF Moved, WaitsAsBefore
  <2>2. QED BY <1>6, <2>1, QueueKept, Zenon
<1>7. ASSUME NEW i \in Invite,
             \/ InviteArrives(i) \/ Admits(i) \/ OpenFails(i) \/ Undone(i)
             \/ HandshakeOk(i) \/ PeerEndedSetUp(i) \/ EngineFails(i) \/ HandshakeFails(i)
             \/ AbortEnds(i) \/ LoopEnds(i) \/ ByeSent(i) \/ Stopped(i)
      PROVE  Queued'
  <2>1. UNCHANGED sendq
    BY <1>7 DEF InviteArrives, Admits, OpenFails, Undone, HandshakeOk, PeerEndedSetUp,
                EngineFails, HandshakeFails, AbortEnds, LoopEnds, ByeSent, Stopped
  <2>2. call[i].pc \notin Waiting /\ \E p : p \notin Waiting /\ Moved(i, p)
    BY <1>7, TaskMoves DEF At, Waiting
  <2>3. QED BY <1>6, <2>1, <2>2
<1>8. ASSUME NEW i \in Invite, TeardownStarts(i) PROVE Queued'
  <2>1. UNCHANGED sendq /\ TasksOK
    BY <1>8 DEF TeardownStarts, Types
  <2>2. call[i].pc \notin Waiting /\ \E p : p \notin Waiting /\ Moved(i, p)
    BY <1>8, <2>1, TeardownBegun DEF At, Waiting
  <2>3. QED BY <1>6, <2>1, <2>2
<1>9. ASSUME NEW i \in Invite, TimersCancelled(i) \/ Signalled(i) PROVE Queued'
  <2>1. UNCHANGED sendq /\ call[i].pc \notin Waiting /\ \E p : p \notin Waiting /\ Moved(i, p)
    BY <1>9, TeardownMoves DEF Waiting
  <2>2. QED BY <1>6, <2>1
<1>10. ASSUME UNCHANGED <<sendq, call>> PROVE Queued'
  <2>1. \A j \in Invite : WaitsAsBefore(j)
    BY <1>10 DEF WaitsAsBefore
  <2>2. QED BY <1>10, <2>1, QueueKept, Zenon
<1>11. ASSUME NEW i \in Invite, PeerBye(i) PROVE Queued'
  BY <1>10, <1>11 DEF PeerBye
<1>12. ASSUME NEW c \in CallId, HangUpStarts(c) \/ HangUpByes(c) PROVE Queued'
  BY <1>10, <1>12 DEF HangUpStarts, HangUpByes
<1>13. CASE UNCHANGED vars
  BY <1>10, <1>13 DEF vars
<1>14. QED
  BY <1>1, <1>2, <1>3, <1>4, <1>5, <1>7, <1>8, <1>9, <1>11, <1>12, <1>13
     DEF Next, Sends, TaskSteps

----
(* What a step does to the other INVITEs, and to other Call-IDs *)

\* It opens no media, routes nothing and writes nothing for another INVITE, and leaves the
\* tables of other Call-IDs alone; in those of its own it puts itself, or nobody.
Local(i) ==
    /\ media' \subseteq media \cup {i} /\ route' \subseteq route \cup {i}
    /\ \A c \in CallId \ {Id(i)} :
        sink'[c] = sink[c] /\ session'[c] = session[c] /\ (c \in admitted' <=> c \in admitted)
    /\ sink'[Id(i)] \in {sink[Id(i)], i, NoInvite}
    /\ session'[Id(i)] \in {session[Id(i)], i, NoInvite}
    /\ \A j \in Invite : Id(j) # Id(i) => txn'[j] = txn[j]
    /\ \A j \in Invite \ {i} : wire'[j] = wire[j] /\ (j \in over' <=> j \in over)

\* The steps of one INVITE, but for its 487.
Steps(i) ==
    \/ InviteArrives(i) \/ CancelArrives(i) \/ PeerBye(i) \/ LoopEnds(i) \/ TaskSteps(i)
    \/ RejectWritten(i) \/ AnswerWritten(i) \/ AnswerSuppressed(i) \/ CancelAnswered(i)

\* A release touches no other Call-ID (Releases).
LEMMA ReleaseIsLocal ==
    ASSUME Types, NEW i \in Invite, NEW owner \in BOOLEAN, Releases(i, owner),
           UNCHANGED <<media, over, wire>>
    PROVE  Local(i)
<1>1. Id(i) \in CallId
  BY DEF Types, TasksOK, Tasks, Id
<1>2. /\ \A c \in CallId \ {Id(i)} :
            sink'[c] = sink[c] /\ session'[c] = session[c] /\ (c \in admitted' <=> c \in admitted)
      /\ sink'[Id(i)] \in {sink[Id(i)], NoInvite}
      /\ session'[Id(i)] \in {session[Id(i)], NoInvite}
  <2>1. admitted' \in {admitted, admitted \ {Id(i)}}
    BY DEF Releases
  <2>2. QED BY <2>1, Released
<1>3. /\ route' \subseteq route
      /\ \A j \in Invite : Id(j) # Id(i) => txn'[j] = txn[j]
  BY Released
<1>4. QED BY <1>2, <1>3 DEF Local

\* A step of one INVITE is local to it, the 487 excepted (_on_cancel).
LEMMA StepIsLocal ==
    ASSUME Types, NEW i \in Invite, Steps(i)
    PROVE  Local(i)
<1>0. Id(i) \in CallId
  BY DEF Types, TasksOK, Tasks, Id
<1> USE DEF Types, TablesOK, TxnOK, WireOK, Local
<1>1. CASE InviteArrives(i) \/ CancelArrives(i) \/ PeerBye(i) \/ LoopEnds(i) \/ CancelAnswered(i)
  BY <1>1 DEF InviteArrives, CancelArrives, PeerBye, LoopEnds, CancelAnswered, tables
<1>2. CASE Rejects(i) \/ Admits(i) \/ Opened(i) \/ OpenFails(i) \/ Refuses(i) \/ Undone(i)
  BY <1>2 DEF Rejects, Admits, Opened, OpenFails, Refuses, Undone, tables
<1>3. CASE RejectWritten(i)
  <2>1. admitted' \in {admitted, admitted \ {Id(i)}}
    BY <1>3 DEF RejectWritten
  <2>2. QED BY <1>3, <2>1 DEF RejectWritten
<1>4. CASE AnswerWritten(i) \/ AnswerSuppressed(i)
  <2>1. /\ UNCHANGED <<media, over, admitted>>
        /\ \A j \in Invite \ {i} : wire'[j] = wire[j] /\ txn'[j] = txn[j]
    BY <1>4 DEF AnswerWritten, AnswerSuppressed
  <2>2. CASE Registers(i)
    BY <1>0, <2>1, <2>2, Registered DEF Registers
  <2>3. CASE ~Registers(i)
    <3>1. route' = route \cup {i} /\ sink' = [sink EXCEPT ![Id(i)] = i] /\ UNCHANGED session
      BY <1>4, <2>3 DEF AnswerWritten, AnswerSuppressed, Answered
    <3>2. QED BY <1>0, <2>1, <3>1
  <2>4. QED BY <2>2, <2>3
<1>5. CASE HandshakeOk(i)
  BY <1>0, <1>5, Registered DEF HandshakeOk, Registers
<1>6. CASE PeerEndedSetUp(i) \/ EngineFails(i) \/ HandshakeFails(i)
  BY <1>0, <1>6, Forgotten DEF PeerEndedSetUp, EngineFails, HandshakeFails
<1>7. CASE AbortEnds(i)
  BY <1>0, <1>7, Forgotten DEF AbortEnds, Byes
<1>8. CASE TeardownStarts(i) \/ ByeSent(i)
  <2>1. UNCHANGED <<media, over, wire>>
    BY <1>8 DEF TeardownStarts, ByeSent
  <2>2. \/ Releases(i, TRUE) \/ Releases(i, FALSE)
        \/ UNCHANGED <<route, sink, session, admitted, txn>>
    BY <1>8 DEF TeardownStarts, ByeSent
  <2>3. CASE Releases(i, TRUE)
    BY <2>1, <2>3, ReleaseIsLocal
  <2>4. CASE Releases(i, FALSE)
    BY <2>1, <2>4, ReleaseIsLocal
  <2>5. QED BY <2>1, <2>2, <2>3, <2>4
<1>9. CASE TimersCancelled(i) \/ Signalled(i)
  <2>1. CASE Releases(i, TRUE) /\ UNCHANGED <<over, media, wire>>
    BY <2>1, ReleaseIsLocal
  <2>2. CASE /\ over' \in {over, over \cup {i}} /\ media' \in {media, media \ {i}}
             /\ wire' \in {wire, [wire EXCEPT ![i].byes = @ + 1]}
             /\ UNCHANGED <<route, sink, session, admitted, txn>>
    BY <2>2
  <2>3. QED BY <1>9, <2>1, <2>2, TeardownMoves
<1>10. CASE Stopped(i)
  BY <1>10 DEF Stopped, tables
<1>11. QED
  BY <1>1, <1>2, <1>3, <1>4, <1>5, <1>6, <1>7, <1>8, <1>9, <1>10 DEF Steps, TaskSteps

\* A hang-up is local to the INVITE whose session it took.
LEMMA HangUpIsLocal ==
    ASSUME Types, NEW c \in CallId, HangUpByes(c)
    PROVE  tool[c] \in Invite /\ Local(tool[c]) /\ Moved(tool[c], call[tool[c]].pc)
<1>1. tool[c] \in Invite
  BY DEF HangUpByes, Types, TablesOK
<1>2. Moved(tool[c], call[tool[c]].pc)
  BY <1>1 DEF HangUpByes, Moved
<1>3. Local(tool[c])
  <2>1. /\ UNCHANGED <<txn, route, sink, session, admitted>>
        /\ media' \subseteq media /\ over' = over \cup {tool[c]}
        /\ \A j \in Invite \ {tool[c]} : wire'[j] = wire[j]
    BY <1>1 DEF HangUpByes, Byes, tables, Types, WireOK
  <2>2. QED BY <2>1 DEF Local
<1>4. QED BY <1>1, <1>2, <1>3

\* A step of i is a move of its task, or leaves every task where it is.
LEMMA StepMoves ==
    ASSUME Types, NEW i \in Invite, Steps(i)
    PROVE  \E p : Moved(i, p)
<1>1. CASE LoopEnds(i) \/ TaskSteps(i) \/ InviteArrives(i)
  <2>1. CASE TimersCancelled(i) \/ Signalled(i)
    BY <2>1, TeardownMoves
  <2>2. CASE TeardownStarts(i)
    BY <2>2, TeardownBegun DEF Types
  <2>3. QED BY <1>1, <2>1, <2>2, TaskMoves DEF TaskSteps
<1>2. CASE RejectWritten(i) \/ AnswerWritten(i) \/ AnswerSuppressed(i)
  BY <1>2, TaskMoves DEF AnswerWritten, AnswerSuppressed
<1>3. CASE CancelArrives(i) \/ CancelAnswered(i) \/ PeerBye(i)
  <2>1. call' = call
    BY <1>3 DEF CancelArrives, CancelAnswered, PeerBye
  <2>2. Moved(i, call[i].pc)
    BY <2>1 DEF Moved
  <2>3. QED BY <2>2
<1>4. QED BY <1>1, <1>2, <1>3 DEF Steps

----
(* Media, routes, sinks and sessions *)

\* The stages of a task: before its final response, without a route, and with a session.
Unanswered == {"none", "opening", "refusing", "undoing", "answering"} \cup Early
Unrouted == Unanswered \cup {"stopping", "done"}
Up == {"live", "unwinding", "ending", "signalling", "closing"}

\* What the task of an INVITE holds at each of its stages.
HeldBy(i) ==
    /\ call[i].pc \in {"none", "aborting", "done"} \cup Early => i \notin media
    /\ call[i].pc \in Unrouted => i \notin route /\ sink[Id(i)] # i
    /\ session[Id(i)] = i => call[i].pc \in Up \cup {"torn"}
    /\ call[i].pc \in {"handshake", "aborting"} => Secured(i)

Held == \A i \in Invite : HeldBy(i)

\* A local step need only be shown to keep what its own INVITE holds.
LEMMA HeldElsewhere ==
    ASSUME Types, Held, NEW i \in Invite, NEW p, Moved(i, p), Local(i), HeldBy(i)'
    PROVE  Held'
<1> SUFFICES ASSUME NEW j \in Invite \ {i} PROVE HeldBy(j)'
  BY DEF Held
<1>1. Id(j) \in CallId /\ Id(i) \in CallId /\ j # NoInvite
  BY InboundAssumption DEF Types, TasksOK, Tasks, Id
<1>2. call'[j].pc = call[j].pc /\ call'[j].kind = call[j].kind /\ call'[j].id = call[j].id
  BY DEF Moved
<1>3. HeldBy(j) /\ (j \in media' => j \in media) /\ (j \in route' => j \in route)
  BY DEF Held, Local
<1>4. (sink'[Id(j)] = j => sink[Id(j)] = j) /\ (session'[Id(j)] = j => session[Id(j)] = j)
  BY <1>1 DEF Local
<1>5. QED BY <1>2, <1>3, <1>4 DEF HeldBy, Id, Secured

\* Every step keeps what the tasks hold in order.
LEMMA HeldStep == Types /\ Queued /\ Held /\ [Next]_vars => Held'
<1> SUFFICES ASSUME Types, Queued, Held, [Next]_vars PROVE Held'
  OBVIOUS
<1> USE InboundAssumption
<1>0. ASSUME NEW i \in Invite
      PROVE  HeldBy(i) /\ Id(i) \in CallId /\ i # NoInvite
  BY DEF Held, Types, TasksOK, Tasks, Id
<1>1. ASSUME NEW i \in Invite, Steps(i), HeldBy(i)' PROVE Held'
  BY <1>1, StepIsLocal, StepMoves, HeldElsewhere
<1>2. ASSUME NEW i \in Invite,
             InviteArrives(i) \/ Rejects(i) \/ Admits(i) \/ Opened(i) \/ Refuses(i) PROVE HeldBy(i)'
  BY <1>0, <1>2, TaskMoves
     DEF InviteArrives, Rejects, Admits, Opened, Refuses, tables, Moved, HeldBy, At, Id, Unrouted,
         Unanswered, Up, Early
<1>3. ASSUME NEW i \in Invite, OpenFails(i) \/ Undone(i) PROVE HeldBy(i)'
  BY <1>0, <1>3, TaskMoves
     DEF OpenFails, Undone, Moved, HeldBy, At, Id, Unrouted, Unanswered, Up
<1>4. ASSUME NEW i \in Invite, RejectWritten(i) PROVE HeldBy(i)'
  <2>1. call[i].pc \in {"rejecting", "refusing"}
    BY <1>4 DEF RejectWritten, NextToWrite, Send, Queued, SentByTasks, Types, SendsOK
  <2>2. /\ UNCHANGED <<media, route, sink, session>>
        /\ Moved(i, IF i \in media THEN "undoing" ELSE "done")
    BY <1>4, TaskMoves DEF RejectWritten
  <2>3. QED BY <1>0, <2>1, <2>2 DEF Moved, HeldBy, Id, Unrouted, Unanswered, Up, Early
<1>5. ASSUME NEW i \in Invite, AnswerWritten(i) \/ AnswerSuppressed(i) PROVE HeldBy(i)'
  <2>1. call[i].pc = "answering" /\ Answered(i)
    BY <1>5 DEF AnswerWritten, AnswerSuppressed, NextToWrite, Send, Queued, SentByTasks, Types,
                SendsOK, At
  <2>2. Secured(i) => UNCHANGED session
    BY <2>1 DEF Answered
  <2>3. QED
    BY <1>0, <2>1, <2>2, TaskMoves DEF Moved, HeldBy, Id, Unrouted, Unanswered, Up, Early, Secured
<1>6. ASSUME NEW i \in Invite, HandshakeOk(i) PROVE HeldBy(i)'
  BY <1>0, <1>6, TaskMoves DEF Moved, HeldBy, Id, Unrouted, Unanswered, Up, Early
<1>7. ASSUME NEW i \in Invite, PeerEndedSetUp(i) \/ AbortEnds(i) PROVE HeldBy(i)'
  <2>1. /\ Moved(i, "done") /\ call[i].pc \in {"handshake", "aborting"}
        /\ route' = route \ {i} /\ session' = session /\ Forgets(Id(i))
        /\ media' = media \ {i} \/ (media' = media /\ At(i, "aborting"))
    BY <1>7, TaskMoves DEF PeerEndedSetUp, AbortEnds, At
  <2>2. sink'[Id(i)] = NoInvite
    BY <1>0, <2>1, Forgotten
  <2>3. QED BY <1>0, <2>1, <2>2 DEF Moved, HeldBy, At, Id, Up
<1>8. ASSUME NEW i \in Invite, EngineFails(i) \/ HandshakeFails(i) PROVE HeldBy(i)'
  BY <1>0, <1>8, TaskMoves
     DEF EngineFails, HandshakeFails, Moved, HeldBy, At, Id, Unrouted, Unanswered, Up, Early,
         Secured
<1>9. ASSUME NEW i \in Invite, LoopEnds(i) PROVE HeldBy(i)'
  <2>1. UNCHANGED <<route, sink, session>> /\ At(i, "live") /\ Moved(i, "unwinding")
    BY <1>9, TaskMoves DEF LoopEnds, tables
  <2>2. QED BY <1>0, <2>1 DEF Moved, HeldBy, At, Id, Unrouted, Unanswered, Up, Early
<1>10. ASSUME NEW i \in Invite, NEW owner \in BOOLEAN, Releases(i, owner), Moved(i, "stopping")
       PROVE  HeldBy(i)'
  BY <1>0, <1>10, Released DEF Moved, HeldBy, Id, Early
<1>11. ASSUME NEW i \in Invite, TeardownStarts(i) PROVE HeldBy(i)'
  <2>1. CASE session[Id(i)] = i
    <3>1. Moved(i, "ending") /\ UNCHANGED <<route, sink, session, media>>
      BY <1>11, <2>1, TeardownBegun DEF TeardownStarts, Types
    <3>2. QED BY <3>1 DEF Moved, HeldBy, Unrouted, Unanswered, Up, Early
  <2>2. CASE session[Id(i)] # i
    BY <1>10, <1>11, <2>2, TeardownBegun DEF TeardownStarts, Types
  <2>3. QED BY <2>1, <2>2
<1>12. ASSUME NEW i \in Invite, TimersCancelled(i) \/ Signalled(i) PROVE HeldBy(i)'
  <2>1. CASE Releases(i, TRUE) /\ Moved(i, "stopping")
    BY <1>10, <2>1
  <2>2. CASE UNCHANGED <<route, sink, session>> /\ (Moved(i, "signalling") \/ Moved(i, "closing"))
    BY <2>2 DEF Moved, HeldBy, Unrouted, Unanswered, Up, Early
  <2>3. QED BY <1>12, <2>1, <2>2, TeardownMoves
<1>13. ASSUME NEW i \in Invite, ByeSent(i) PROVE HeldBy(i)'
  BY <1>10, <1>13, TaskMoves DEF ByeSent
<1>14. ASSUME NEW i \in Invite, Stopped(i) PROVE HeldBy(i)'
  BY <1>0, <1>14, TaskMoves DEF Stopped, tables, Moved, HeldBy, At, Id, Unrouted, Up
<1>15. ASSUME NEW i \in Invite, CancelArrives(i) \/ CancelAnswered(i) \/ PeerBye(i) PROVE HeldBy(i)'
  BY <1>0, <1>15 DEF CancelArrives, CancelAnswered, PeerBye, tables, HeldBy, Id, Secured
<1>16. ASSUME NEW i \in Invite, Terminated(i) PROVE Held'
  <2> SUFFICES ASSUME NEW j \in Invite PROVE HeldBy(j)'
    BY DEF Held
  <2>1. /\ call'[j].pc \in {call[j].pc, WhenCancelled(call[j].pc)}
        /\ call'[j].id = call[j].id /\ call'[j].kind = call[j].kind
    BY <1>16, Interrupted
  <2>2. UNCHANGED <<media, session>> /\ route' \subseteq route
    BY <1>16 DEF Terminated
  <2>3. sink'[Id(j)] = j => sink[Id(j)] = j
    <3>1. Forgets(Id(i)) \/ UNCHANGED sink
      BY <1>16 DEF Terminated
    <3>2. QED BY <1>0, <3>1, Forgotten
  <2>4. QED
    BY <1>0, <2>1, <2>2, <2>3
       DEF HeldBy, WhenCancelled, Id, Secured, Unrouted, Unanswered, Up, Early, SetUp, Teardown
<1>17. ASSUME NEW c \in CallId, HangUpStarts(c) \/ HangUpByes(c) PROVE Held'
  <2>1. UNCHANGED <<call, route, sink, session>> /\ media' \subseteq media
    BY <1>17 DEF HangUpStarts, HangUpByes, tables
  <2>2. QED BY <2>1 DEF Held, HeldBy, Id, Secured
<1>18. CASE UNCHANGED vars
  BY <1>18 DEF vars, tables, Held, HeldBy, Id, Secured
<1>19. ASSUME NEW i \in Invite, Steps(i) PROVE HeldBy(i)'
  BY <1>2, <1>3, <1>4, <1>5, <1>6, <1>7, <1>8, <1>9, <1>11, <1>12, <1>13, <1>14, <1>15, <1>19
     DEF Steps, TaskSteps
<1>20. QED BY <1>1, <1>16, <1>17, <1>18, <1>19 DEF Next, Sends, TaskSteps, Steps

----
(* Slots *)

\* A Call-ID's slot is held by a set-up, by its session's task, or by a torn teardown.
Holds(i, c) ==
    /\ Id(i) = c
    /\ call[i].pc \in SetUp \cup {"torn"} \/ (call[i].pc \in Up /\ session[c] = i)

SlotHeld(c) == c \in admitted => \E i \in Invite : Holds(i, c)
SlotsHeld == \A c \in CallId : SlotHeld(c)

\* An INVITE that is alone has the session and the slot of its Call-ID.
OwnedBy(i) ==
    Alone(i) =>
        /\ call[i].pc \in Up => session[Id(i)] = i
        /\ call[i].pc \in SetUp \cup Up => Id(i) \in admitted
Owned == \A i \in Invite : OwnedBy(i)

\* The sink of a Call-ID whose calls are all plain is its session's.
SinkIsSession(c) ==
    session[c] # NoInvite /\ (\A i \in Invite : Id(i) = c => ~Secured(i)) => sink[c] = session[c]

\* The slots taken are no more than there are.
Capped == IsFiniteSet(admitted) /\ Cardinality(admitted) <= MaxCalls

Tabled == SlotsHeld /\ Owned /\ CurrentHasSink /\ Capped

\* Nobody else's Call-ID changes, so whoever is alone stays so.
LEMMA AloneStays ==
    ASSUME Types, [Next]_vars, NEW i \in Invite
    PROVE  /\ Alone(i)' = Alone(i)
           /\ Id(i)' = Id(i) /\ Secured(i)' = Secured(i)
BY Fixed DEF Alone, Id, Secured

\* A local step need only be shown to keep the books of its own Call-ID.
LEMMA TabledElsewhere ==
    ASSUME Types, Tabled, NEW i \in Invite, NEW p, Moved(i, p), Local(i),
           SlotHeld(Id(i))', OwnedBy(i)', SinkIsSession(Id(i))',
           admitted' \in {admitted, admitted \cup {Id(i)}, admitted \ {Id(i)}},
           Id(i) \notin admitted /\ Id(i) \in admitted' => Cardinality(admitted) < MaxCalls
    PROVE  Tabled'
<1>0. \A j \in Invite : /\ Id(j) \in CallId
                       /\ Id(j)' = Id(j) /\ Secured(j)' = Secured(j)
  BY DEF Types, TasksOK, Tasks, Moved, Id, Secured
<1>1. SlotsHeld'
  <2> SUFFICES ASSUME NEW c \in CallId \ {Id(i)}, c \in admitted'
               PROVE  \E j \in Invite : Holds(j, c)'
    BY DEF SlotsHeld, SlotHeld, Moved, Id
  <2>1. c \in admitted /\ session'[c] = session[c]
    BY DEF Local
  <2>2. PICK j \in Invite : Holds(j, c)
    BY <2>1 DEF Tabled, SlotsHeld, SlotHeld
  <2>3. j # i /\ call'[j].pc = call[j].pc
    BY <2>2 DEF Holds, Moved
  <2>4. QED BY <1>0, <2>1, <2>2, <2>3 DEF Holds
<1>2. Owned'
  <2> SUFFICES ASSUME NEW j \in Invite \ {i}, Alone(j)' PROVE OwnedBy(j)'
    BY DEF Owned, OwnedBy
  <2>1. Alone(j) /\ Id(j) # Id(i)
    BY <1>0 DEF Alone
  <2>2. /\ call'[j].pc = call[j].pc /\ session'[Id(j)] = session[Id(j)]
        /\ Id(j) \in admitted' <=> Id(j) \in admitted
    BY <1>0, <2>1 DEF Moved, Local
  <2>3. QED BY <1>0, <2>1, <2>2 DEF Tabled, Owned, OwnedBy
<1>3. CurrentHasSink'
  BY <1>0 DEF Tabled, CurrentHasSink, SinkIsSession, Local
<1>4. Capped'
  <2>1. /\ IsFiniteSet(admitted) /\ Cardinality(admitted) \in Nat
        /\ Cardinality(admitted) <= MaxCalls /\ MaxCalls \in Nat
    BY FS_CardinalityType, InboundAssumption DEF Tabled, Capped
  <2>2. /\ IsFiniteSet(admitted \ {Id(i)}) /\ IsFiniteSet(admitted \cup {Id(i)})
        /\ Cardinality(admitted \ {Id(i)})
             = IF Id(i) \in admitted THEN Cardinality(admitted) - 1 ELSE Cardinality(admitted)
        /\ Cardinality(admitted \cup {Id(i)})
             = IF Id(i) \in admitted THEN Cardinality(admitted) ELSE Cardinality(admitted) + 1
    BY <2>1, FS_RemoveElement, FS_AddElement
  <2>3. CASE admitted' \in {admitted, admitted \ {Id(i)}}
    <3>1. Cardinality(admitted \ {Id(i)}) <= MaxCalls
      BY <2>1, <2>2
    <3>2. QED BY <2>1, <2>2, <2>3, <3>1 DEF Capped
  <2>4. CASE admitted' = admitted \cup {Id(i)}
    BY <2>1, <2>2, <2>4 DEF Capped
  <2>5. QED BY <2>3, <2>4
<1>5. QED BY <1>1, <1>2, <1>3, <1>4 DEF Tabled

\* What is to show of a step of i: its own slot, session and sink.
TabledBy(i) ==
    /\ SlotHeld(Id(i)) /\ OwnedBy(i) /\ SinkIsSession(Id(i))

\* The slot after a step of i: kept by another, or by i.
LEMMA SlotKept ==
    ASSUME Types, Tabled, NEW i \in Invite, NEW p, Moved(i, p),
           Id(i) \in admitted' =>
             \/ Holds(i, Id(i))'
             \/ Id(i) \in admitted /\ ~Holds(i, Id(i)) /\ session'[Id(i)] = session[Id(i)]
    PROVE  SlotHeld(Id(i))'
<1> SUFFICES ASSUME Id(i)' \in admitted', ~Holds(i, Id(i))'
             PROVE  \E j \in Invite : Holds(j, Id(i))'
  BY DEF SlotHeld
<1>1. Id(i)' = Id(i) /\ Id(i) \in CallId
  BY DEF Types, TasksOK, Tasks, Moved, Id
<1>2. PICK j \in Invite : Holds(j, Id(i))
  BY <1>1 DEF Tabled, SlotsHeld, SlotHeld
<1>3. j # i /\ call'[j].pc = call[j].pc /\ Id(j)' = Id(j)
  BY <1>1, <1>2 DEF Moved, Id
<1>4. QED BY <1>1, <1>2, <1>3 DEF Holds

\* Every step keeps the books: slots, sessions and sinks.
LEMMA TabledStep == Types /\ Queued /\ Held /\ Tabled /\ [Next]_vars => Tabled'
<1> SUFFICES ASSUME Types, Queued, Held, Tabled, [Next]_vars PROVE Tabled'
  OBVIOUS
<1> USE InboundAssumption
<1>0. ASSUME NEW i \in Invite
      PROVE  /\ OwnedBy(i) /\ HeldBy(i) /\ SinkIsSession(Id(i)) /\ SlotHeld(Id(i))
             /\ Id(i) \in CallId /\ i # NoInvite
             /\ Alone(i)' = Alone(i) /\ Id(i)' = Id(i) /\ Secured(i)' = Secured(i)
  BY AloneStays DEF Held, Tabled, Owned, CurrentHasSink, SinkIsSession, SlotsHeld, Types,
                    TasksOK, Tasks, Id
<1>k. ASSUME NEW i \in Invite,
             UNCHANGED <<sink, session>> \/ (sink'[Id(i)] = i /\ session'[Id(i)] = i)
      PROVE  SinkIsSession(Id(i))'
  <2>1. \A j \in Invite : Id(j)' = Id(j) /\ Secured(j)' = Secured(j)
    BY AloneStays
  <2>2. QED BY <1>0, <1>k, <2>1 DEF SinkIsSession
<1>1. ASSUME NEW i \in Invite, Steps(i), SlotHeld(Id(i))', OwnedBy(i)', SinkIsSession(Id(i))',
             admitted' \in {admitted, admitted \cup {Id(i)}, admitted \ {Id(i)}},
             Id(i) \notin admitted /\ Id(i) \in admitted' => Cardinality(admitted) < MaxCalls
      PROVE  Tabled'
  BY <1>1, StepIsLocal, StepMoves, TabledElsewhere
<1>2. ASSUME NEW i \in Invite, InviteArrives(i) \/ Rejects(i) \/ Opened(i) \/ Refuses(i)
      PROVE  Tabled'
  <2>1. /\ UNCHANGED <<sink, session, admitted>>
        /\ \/ call[i].pc \in {"none", "new"} /\ (Moved(i, "new") \/ Moved(i, "rejecting"))
           \/ call[i].pc = "opening" /\ (Moved(i, "answering") \/ Moved(i, "refusing"))
    BY <1>2, TaskMoves DEF InviteArrives, Rejects, Opened, Refuses, tables, At
  <2>2. SinkIsSession(Id(i))'
    BY <1>k, <2>1
  <2>3. OwnedBy(i)'
    BY <1>0, <2>1 DEF Moved, OwnedBy, SetUp, Up
  <2>4. SlotHeld(Id(i))'
    BY <1>0, <2>1, SlotKept DEF Moved, Holds, SetUp, Up
  <2>5. QED BY <1>1, <1>2, <2>1, <2>2, <2>3, <2>4 DEF Steps, TaskSteps
<1>3. ASSUME NEW i \in Invite, Admits(i) PROVE Tabled'
  <2>1. /\ UNCHANGED <<sink, session>> /\ admitted' = admitted \cup {Id(i)} /\ Moved(i, "opening")
        /\ Id(i) \in admitted \/ Cardinality(admitted) < MaxCalls
    BY <1>3, TaskMoves DEF Admits, HasSlot
  <2>2. SinkIsSession(Id(i))'
    BY <1>k, <2>1
  <2>3. OwnedBy(i)' /\ Holds(i, Id(i))'
    BY <1>0, <2>1 DEF Moved, OwnedBy, Holds, SetUp, Up
  <2>4. SlotHeld(Id(i))'
    BY <2>1, <2>3, SlotKept
  <2>5. QED BY <1>1, <1>3, <2>1, <2>2, <2>3, <2>4 DEF Steps, TaskSteps
<1>4. ASSUME NEW i \in Invite, Secured(i) PROVE SinkIsSession(Id(i))'
  BY <1>0, <1>4 DEF SinkIsSession
<1>5. ASSUME NEW i \in Invite, OpenFails(i) \/ Undone(i) \/ EngineFails(i) \/ HandshakeFails(i)
                               \/ PeerEndedSetUp(i)
      PROVE  Tabled'
  <2>1. /\ admitted' = admitted \ {Id(i)}
        /\ \E p \in {"done", "cut", "aborting"} : Moved(i, p)
        /\ UNCHANGED <<sink, session>> \/ (UNCHANGED session /\ At(i, "handshake"))
    BY <1>5, TaskMoves DEF OpenFails, Undone, EngineFails, HandshakeFails, PeerEndedSetUp
  <2>2. SinkIsSession(Id(i))'
    BY <1>0, <1>k, <1>4, <2>1 DEF HeldBy, At
  <2>3. OwnedBy(i)' /\ SlotHeld(Id(i))'
    BY <1>0, <2>1 DEF Moved, OwnedBy, SlotHeld, SetUp, Up
  <2>4. QED BY <1>1, <1>5, <2>1, <2>2, <2>3 DEF Steps, TaskSteps
<1>6. ASSUME NEW i \in Invite, RejectWritten(i) PROVE Tabled'
  <2>1. call[i].pc \in {"rejecting", "refusing"}
    BY <1>6 DEF RejectWritten, NextToWrite, Send, Queued, SentByTasks, Types, SendsOK
  <2>2. /\ UNCHANGED <<sink, session>>
        /\ \/ i \in media /\ Moved(i, "undoing") /\ UNCHANGED admitted
           \/ /\ i \notin media /\ Moved(i, "done")
              /\ admitted' = IF At(i, "refusing") THEN admitted \ {Id(i)} ELSE admitted
    BY <1>6, TaskMoves DEF RejectWritten
  <2>3. SinkIsSession(Id(i))'
    BY <1>k, <2>2
  <2>4. OwnedBy(i)'
    BY <1>0, <2>1, <2>2 DEF Moved, OwnedBy, HeldBy, At, SetUp, Up, Early
  <2>5. SlotHeld(Id(i))'
    <3>1. CASE i \in media
      <4>1. Holds(i, Id(i))'
        BY <1>0, <2>1, <2>2, <3>1 DEF Moved, Holds, HeldBy, At, SetUp, Early
      <4>2. QED BY <2>2, <4>1, SlotKept
    <3>2. CASE i \notin media
      BY <1>0, <2>1, <2>2, <3>2, SlotKept DEF Moved, Holds, SlotHeld, At, SetUp, Up
    <3>3. QED BY <3>1, <3>2
  <2>6. QED BY <1>1, <1>6, <2>2, <2>3, <2>4, <2>5 DEF Steps
<1>7. ASSUME NEW i \in Invite, AnswerWritten(i) \/ AnswerSuppressed(i) PROVE Tabled'
  <2>1. /\ At(i, "answering") /\ UNCHANGED admitted
        /\ \/ ~Secured(i) /\ Registers(i) /\ Moved(i, "live")
           \/ Secured(i) /\ UNCHANGED session /\ Moved(i, "handshake")
    <3>1. At(i, "answering")
      BY <1>7 DEF AnswerWritten, AnswerSuppressed, NextToWrite, Send, Queued, SentByTasks, Types,
                  SendsOK
    <3>2. UNCHANGED admitted /\ Answered(i)
      BY <1>7 DEF AnswerWritten, AnswerSuppressed
    <3>3. QED BY <3>1, <3>2, TaskMoves, Registered DEF Answered
  <2>2. SinkIsSession(Id(i))'
    BY <1>k, <1>4, <2>1, Registered
  <2>3. OwnedBy(i)' /\ Holds(i, Id(i))'
    BY <1>0, <2>1, Registered DEF Moved, OwnedBy, Holds, At, SetUp, Up
  <2>4. SlotHeld(Id(i))'
    BY <2>1, <2>3, SlotKept
  <2>5. QED BY <1>1, <1>7, <2>1, <2>2, <2>3, <2>4 DEF Steps
<1>8. ASSUME NEW i \in Invite, HandshakeOk(i) PROVE Tabled'
  <2>1. At(i, "handshake") /\ UNCHANGED admitted /\ Registers(i) /\ Moved(i, "live")
    BY <1>8, TaskMoves DEF HandshakeOk
  <2>2. SinkIsSession(Id(i))'
    BY <1>k, <2>1, Registered
  <2>3. OwnedBy(i)' /\ Holds(i, Id(i))'
    BY <1>0, <2>1, Registered DEF Moved, OwnedBy, Holds, At, SetUp, Up
  <2>4. SlotHeld(Id(i))'
    BY <2>1, <2>3, SlotKept
  <2>5. QED BY <1>1, <1>8, <2>1, <2>2, <2>3, <2>4 DEF Steps, TaskSteps
<1>9. ASSUME NEW i \in Invite, AbortEnds(i) PROVE Tabled'
  <2>1. At(i, "aborting") /\ Moved(i, "done") /\ UNCHANGED <<session, admitted>>
    BY <1>9, TaskMoves DEF AbortEnds
  <2>2. SinkIsSession(Id(i))'
    BY <1>0, <1>4, <2>1 DEF HeldBy, At
  <2>3. OwnedBy(i)' /\ SlotHeld(Id(i))'
    BY <1>0, <2>1, SlotKept DEF Moved, OwnedBy, Holds, At, SetUp, Up
  <2>4. QED BY <1>1, <1>9, <2>1, <2>2, <2>3 DEF Steps, TaskSteps
<1>10. ASSUME NEW i \in Invite, NEW p \in Up, Moved(i, p), call[i].pc \in Up, Steps(i),
              UNCHANGED <<sink, session, admitted>>
       PROVE  Tabled'
  <2>1. SinkIsSession(Id(i))'
    BY <1>k, <1>10
  <2>2. OwnedBy(i)' /\ SlotHeld(Id(i))'
    BY <1>0, <1>10, SlotKept DEF Moved, OwnedBy, Holds, SetUp, Up
  <2>3. QED BY <1>1, <1>10, <2>1, <2>2
<1>11. ASSUME NEW i \in Invite, NEW owner \in BOOLEAN, Releases(i, owner), Moved(i, "stopping"),
              call[i].pc \in Up, Steps(i), owner \/ session[Id(i)] # i
       PROVE  Tabled'
  <2>1. SinkIsSession(Id(i))'
    <3>1. \A j \in Invite : Id(j)' = Id(j) /\ Secured(j)' = Secured(j)
      BY AloneStays
    <3>2. QED BY <1>0, <1>11, <3>1, Released DEF SinkIsSession
  <2>2. OwnedBy(i)'
    BY <1>0, <1>11 DEF Moved, OwnedBy, SetUp, Up
  <2>3. SlotHeld(Id(i))'
    <3>1. Id(i) \in admitted' =>
            Id(i) \in admitted /\ ~Holds(i, Id(i)) /\ session'[Id(i)] = session[Id(i)]
      BY <1>0, <1>11, Released DEF Holds, SetUp, Up
    <3>2. QED BY <1>11, <3>1, SlotKept
  <2>4. admitted' \in {admitted, admitted \ {Id(i)}}
    BY <1>11 DEF Releases
  <2>5. QED BY <1>1, <1>11, <2>1, <2>2, <2>3, <2>4
<1>12. ASSUME NEW i \in Invite, LoopEnds(i) PROVE Tabled'
  BY <1>10, <1>12, TaskMoves DEF LoopEnds, tables, At, Up, Steps
<1>13. ASSUME NEW i \in Invite, TeardownStarts(i) PROVE Tabled'
  <2>1. CASE session[Id(i)] = i
    <3>1. Moved(i, "ending") /\ At(i, "unwinding") /\ UNCHANGED <<sink, session, admitted>>
      BY <1>13, <2>1, TeardownBegun DEF TeardownStarts, Types
    <3>2. QED BY <1>10, <1>13, <3>1 DEF At, Up, Steps, TaskSteps
  <2>2. CASE session[Id(i)] # i
    <3>1. Moved(i, "stopping") /\ At(i, "unwinding") /\ Releases(i, FALSE)
      BY <1>13, <2>2, TeardownBegun DEF TeardownStarts, Types
    <3>2. QED BY <1>11, <1>13, <2>2, <3>1 DEF At, Up, Steps, TaskSteps
  <2>3. QED BY <2>1, <2>2
<1>14. ASSUME NEW i \in Invite, TimersCancelled(i) \/ Signalled(i) PROVE Tabled'
  <2>1. Steps(i) /\ call[i].pc \in Up
    BY <1>14, TeardownMoves DEF Steps, TaskSteps, Up
  <2>2. CASE Releases(i, TRUE) /\ Moved(i, "stopping")
    BY <1>11, <2>1, <2>2
  <2>3. CASE UNCHANGED <<sink, session, admitted>> /\ (Moved(i, "signalling") \/ Moved(i, "closing"))
    BY <1>10, <2>1, <2>3 DEF Up
  <2>4. QED BY <1>14, <2>2, <2>3, TeardownMoves
<1>15. ASSUME NEW i \in Invite, ByeSent(i) PROVE Tabled'
  BY <1>11, <1>15, TaskMoves DEF ByeSent, At, Up, Steps, TaskSteps
<1>16. ASSUME NEW i \in Invite, Stopped(i) PROVE Tabled'
  <2>1. At(i, "stopping") /\ Moved(i, "done") /\ UNCHANGED <<sink, session, admitted>>
    BY <1>16, TaskMoves DEF Stopped, tables
  <2>2. SinkIsSession(Id(i))'
    BY <1>k, <2>1
  <2>3. OwnedBy(i)' /\ SlotHeld(Id(i))'
    BY <1>0, <2>1, SlotKept DEF Moved, OwnedBy, Holds, At, SetUp, Up
  <2>4. QED BY <1>1, <1>16, <2>1, <2>2, <2>3 DEF Steps, TaskSteps
<1>17. ASSUME UNCHANGED <<call, sink, session, admitted>> PROVE Tabled'
  BY <1>17 DEF Tabled, SlotsHeld, SlotHeld, Holds, Owned, OwnedBy, Alone, CurrentHasSink, Capped,
               Id, Secured
<1>18. ASSUME NEW i \in Invite, CancelArrives(i) \/ CancelAnswered(i) \/ PeerBye(i) PROVE Tabled'
  BY <1>17, <1>18 DEF CancelArrives, CancelAnswered, PeerBye, tables
<1>19. ASSUME NEW c \in CallId, HangUpStarts(c) \/ HangUpByes(c) PROVE Tabled'
  BY <1>17, <1>19 DEF HangUpStarts, HangUpByes, tables
<1>20. CASE UNCHANGED vars
  BY <1>17, <1>20 DEF vars, tables
<1>21. ASSUME NEW i \in Invite, Terminated(i) PROVE Tabled'
  <2> DEFINE setUp == \E j \in Invite : Id(j) = Id(i) /\ call[j].pc \in SetUp
  <2>1. /\ UNCHANGED session
        /\ admitted' = IF setUp THEN admitted \ {Id(i)} ELSE admitted
    BY <1>21 DEF Terminated
  <2> HIDE DEF setUp
  <2>2. \A j \in Invite : call'[j].pc = IF Id(j) = Id(i) THEN WhenCancelled(call[j].pc) ELSE call[j].pc
    BY <1>21, Interrupted
  <2>3. SlotsHeld'
    <3> SUFFICES ASSUME NEW c \in CallId, c \in admitted' PROVE \E j \in Invite : Holds(j, c)'
      BY DEF SlotsHeld, SlotHeld
    <3>1. c \in admitted /\ (c = Id(i) => ~setUp)
      BY <2>1
    <3>2. PICK j \in Invite : Holds(j, c)
      BY <3>1 DEF Tabled, SlotsHeld, SlotHeld
    <3>3. CASE c # Id(i)
      BY <1>0, <2>1, <2>2, <3>2, <3>3 DEF Holds
    <3>4. CASE c = Id(i)
      <4>1. call[j].pc \notin SetUp /\ Id(j) = Id(i)
        BY <3>1, <3>2, <3>4 DEF setUp, Holds
      <4>2. Holds(j, c)'
        BY <1>0, <2>1, <2>2, <3>2, <3>4, <4>1
           DEF Holds, WhenCancelled, SetUp, Up, Early, Teardown
      <4>3. QED BY <4>2
    <3>5. QED BY <3>3, <3>4
  <2>4. Owned'
    <3> SUFFICES ASSUME NEW j \in Invite, Alone(j) PROVE OwnedBy(j)'
      BY <1>0 DEF Owned, OwnedBy
    <3>1. CASE j # i
      BY <1>0, <2>1, <2>2, <3>1 DEF OwnedBy, Alone
    <3>2. CASE j = i
      <4>1. setUp <=> call[i].pc \in SetUp
        BY <3>2 DEF setUp, Alone
      <4>2. QED
        BY <1>0, <2>1, <2>2, <3>2, <4>1
           DEF OwnedBy, WhenCancelled, SetUp, Up, Early, Teardown
    <3>3. QED BY <3>1, <3>2
  <2>5. CurrentHasSink'
    <3> SUFFICES ASSUME NEW c \in CallId, \A j \in Invite : Id(j) = c => ~Secured(j),
                        session[c] # NoInvite
                 PROVE  sink'[c] = session[c]
      BY <1>0, <2>1 DEF CurrentHasSink
    <3>1. sink[c] = session[c]
      BY DEF Tabled, CurrentHasSink
    <3>2. \/ sink' = sink
          \/ (\E j \in Invite : Id(j) = Id(i) /\ At(j, "aborting")) /\ Forgets(Id(i))
      BY <1>21 DEF Terminated
    <3>3. CASE sink' = sink
      BY <3>1, <3>3
    <3>4. CASE (\E j \in Invite : Id(j) = Id(i) /\ At(j, "aborting")) /\ Forgets(Id(i))
      <4>1. c # Id(i)
        BY <1>0, <3>4 DEF HeldBy, At
      <4>2. QED BY <1>0, <3>1, <3>4, <4>1, Forgotten
    <3>5. QED BY <3>2, <3>3, <3>4
  <2>6. Capped'
    <3>1. admitted' \in {admitted, admitted \ {Id(i)}}
      BY <2>1
    <3>2. /\ IsFiniteSet(admitted) /\ Cardinality(admitted) \in Nat
          /\ Cardinality(admitted) <= MaxCalls /\ MaxCalls \in Nat
      BY FS_CardinalityType DEF Tabled, Capped
    <3>3. /\ IsFiniteSet(admitted \ {Id(i)})
          /\ Cardinality(admitted \ {Id(i)})
               = IF Id(i) \in admitted THEN Cardinality(admitted) - 1 ELSE Cardinality(admitted)
      BY <3>2, FS_RemoveElement
    <3>4. Cardinality(admitted \ {Id(i)}) <= MaxCalls
      BY <3>2, <3>3
    <3>5. QED BY <3>1, <3>2, <3>3, <3>4 DEF Capped
  <2>7. QED BY <2>3, <2>4, <2>5, <2>6 DEF Tabled
<1>22. QED
  BY <1>2, <1>3, <1>5, <1>6, <1>7, <1>8, <1>9, <1>12, <1>13, <1>14, <1>15, <1>16, <1>18, <1>19,
     <1>20, <1>21 DEF Next, Sends, TaskSteps

----
(* The verdict: 200 or 487 *)

\* A CANCEL of the INVITE is on its way to a 487.
Cancelling(i) == \E n \in DOMAIN sendq :
    sendq[n].invite = i /\ sendq[n].what \in {"ok", "terminated"}

\* The answer waits for a lock under which a CANCEL suppresses it; a CANCEL finds nothing
\* pending once the answer is out.
VerdictOn(i) ==
    Alone(i) =>
        /\ wire[i].answers \in {0, 1} /\ wire[i].terminated \in {0, 1}
        /\ Cancelling(i) => wire[i].terminated = 0
        /\ Cancelling(i) \/ wire[i].terminated = 1 =>
             /\ wire[i].answers = 0 /\ txn[i] # "pending" /\ ~At(i, "none")
             /\ txn[i] = "cancelled" \/ call[i].pc \notin Unanswered
        /\ call[i].pc \in Unanswered \/ txn[i] = "pending" => wire[i].answers = 0
        /\ At(i, "none") => txn[i] = "none"

Verdict == \A i \in Invite : VerdictOn(i)

\* Only a CANCEL of a pending INVITE begins one.
LEMMA NothingNewCancelled ==
    ASSUME Types, NEW i \in Invite, Steps(i), NEW j \in Invite, Cancelling(j)',
           j = i => txn'[i] \in {txn[i], "none"}
    PROVE  Cancelling(j)
<1>1. sendq \in Seq(Sent)
  BY DEF Types, SendsOK
<1>2. PICK n \in DOMAIN sendq' : sendq'[n].invite = j /\ sendq'[n].what \in {"ok", "terminated"}
  BY DEF Cancelling
<1>3. ASSUME UNCHANGED sendq PROVE Cancelling(j)
  BY <1>2, <1>3 DEF Cancelling
<1>4. ASSUME sendq # <<>>, sendq' = Tail(sendq) PROVE Cancelling(j)
  <2>1. n + 1 \in DOMAIN sendq /\ sendq[n + 1] = sendq'[n]
    BY <1>1, <1>2, <1>4
  <2>2. QED BY <1>2, <2>1 DEF Cancelling
<1>5. ASSUME NEW what \in {"reject", "answer", "okAgain"}, Queue(what, i) PROVE Cancelling(j)
  <2>1. n \in DOMAIN sendq /\ sendq[n] = sendq'[n]
    BY <1>1, <1>2, <1>5 DEF Queue, Send
  <2>2. QED BY <1>2, <2>1 DEF Cancelling
<1>6. CASE CancelArrives(i)
  <2>1. CASE j = i
    <3>1. txn'[i] = "cancelled"
      BY <1>6 DEF CancelArrives, Types, TxnOK
    <3>2. txn[i] = "cancelled"
      BY <2>1, <3>1
    <3>3. QED BY <1>5, <1>6, <3>2 DEF CancelArrives
  <2>2. CASE j # i
    <3>1. \E what : Queue(what, i)
      BY <1>6 DEF CancelArrives
    <3>2. n \in DOMAIN sendq /\ sendq[n] = sendq'[n]
      BY <1>1, <1>2, <2>2, <3>1 DEF Queue, Send
    <3>3. QED BY <1>2, <3>2 DEF Cancelling
  <2>3. QED BY <1>6, <2>1, <2>2
<1>7. CASE CancelAnswered(i)
  <2>1. CASE NextToWrite("ok", i) /\ sendq' = Append(Tail(sendq), Send("terminated", i))
    <3>1. CASE j = i
      <4>1. 1 \in DOMAIN sendq /\ sendq[1] = Send("ok", i)
        BY <1>1, <2>1 DEF NextToWrite
      <4>2. QED BY <3>1, <4>1 DEF Cancelling, Send
    <3>2. CASE j # i
      <4>1. n + 1 \in DOMAIN sendq /\ sendq[n + 1] = sendq'[n]
        BY <1>1, <1>2, <2>1, <3>2 DEF NextToWrite, Send
      <4>2. QED BY <1>2, <4>1 DEF Cancelling
    <3>3. QED BY <3>1, <3>2
  <2>2. CASE NextToWrite("okAgain", i) /\ sendq' = Tail(sendq)
    BY <1>4, <2>2 DEF NextToWrite
  <2>3. QED BY <1>7, <2>1, <2>2 DEF CancelAnswered
<1>8. CASE RejectWritten(i) \/ AnswerWritten(i) \/ AnswerSuppressed(i)
  BY <1>4, <1>8 DEF RejectWritten, AnswerWritten, AnswerSuppressed, NextToWrite
<1>9. CASE Rejects(i) \/ Opened(i) \/ Refuses(i)
  BY <1>5, <1>9 DEF Rejects, Opened, Refuses
<1>10. CASE InviteArrives(i) \/ PeerBye(i) \/ LoopEnds(i) \/ Admits(i) \/ OpenFails(i) \/ Undone(i)
  BY <1>3, <1>10 DEF InviteArrives, PeerBye, LoopEnds, Admits, OpenFails, Undone
<1>11. CASE HandshakeOk(i) \/ PeerEndedSetUp(i) \/ EngineFails(i) \/ HandshakeFails(i) \/ AbortEnds(i)
  BY <1>3, <1>11 DEF HandshakeOk, PeerEndedSetUp, EngineFails, HandshakeFails, AbortEnds
<1>12. CASE TeardownStarts(i) \/ TimersCancelled(i) \/ Signalled(i) \/ ByeSent(i) \/ Stopped(i)
  BY <1>3, <1>12 DEF TeardownStarts, TimersCancelled, Signalled, ByeSent, Stopped
<1>13. QED
  BY <1>6, <1>7, <1>8, <1>9, <1>10, <1>11, <1>12 DEF Steps, TaskSteps

\* A step that writes neither and tracks nothing new leaves the verdict open or closed.
LEMMA VerdictKept ==
    ASSUME Types, [Next]_vars, NEW i \in Invite, VerdictOn(i), NEW p, Moved(i, p),
           Cancelling(i)' => Cancelling(i),
           wire'[i].answers = wire[i].answers, wire'[i].terminated = wire[i].terminated,
           txn'[i] \in {txn[i], "none"},
           p = "none" => At(i, "none"),
           p \in Unanswered =>
             call[i].pc \in Unanswered /\ (txn'[i] = txn[i] \/ txn[i] # "cancelled")
    PROVE  VerdictOn(i)'
<1>1. Alone(i)' = Alone(i) /\ call'[i].pc = p
  BY AloneStays DEF Moved
<1>2. QED BY <1>1 DEF VerdictOn, At

\* A local step need only be shown to keep the verdict on its own INVITE.
LEMMA VerdictElsewhere ==
    ASSUME Types, Verdict, [Next]_vars, NEW i \in Invite, NEW p, Moved(i, p), Local(i),
           VerdictOn(i)', \A j \in Invite \ {i} : Cancelling(j)' => Cancelling(j)
    PROVE  Verdict'
<1> SUFFICES ASSUME NEW j \in Invite \ {i}, Alone(j)' PROVE VerdictOn(j)'
  BY DEF Verdict, VerdictOn
<1>1. Alone(j) /\ Id(i) # Id(j)
  BY AloneStays DEF Alone
<1>2. call'[j].pc = call[j].pc /\ txn'[j] = txn[j] /\ wire'[j] = wire[j]
  BY <1>1 DEF Moved, Local
<1>3. QED BY <1>1, <1>2 DEF Verdict, VerdictOn, At

\* Every step keeps the verdict: a CANCEL that is answered has held the 200 back.
LEMMA VerdictStep == Types /\ Queued /\ Held /\ Verdict /\ [Next]_vars => Verdict'
<1> SUFFICES ASSUME Types, Queued, Held, Verdict, [Next]_vars PROVE Verdict'
  OBVIOUS
<1>0. ASSUME NEW i \in Invite
      PROVE  /\ VerdictOn(i) /\ HeldBy(i) /\ Id(i) \in CallId /\ Alone(i)' = Alone(i)
             /\ txn[i] \in {"none", "pending", "cancelled"}
             /\ wire[i] \in [answers: Nat, rejects: Nat, terminated: Nat, byes: Nat]
  BY AloneStays DEF Verdict, Held, Types, TasksOK, Tasks, TxnOK, WireOK, Id
<1>1. ASSUME NEW i \in Invite, Steps(i), VerdictOn(i)' PROVE Verdict'
  <2>1. \A j \in Invite \ {i} : Cancelling(j)' => Cancelling(j)
    BY <1>1, NothingNewCancelled
  <2>2. QED BY <1>1, <2>1, StepIsLocal, StepMoves, VerdictElsewhere
<1>2. ASSUME NEW i \in Invite, InviteArrives(i) PROVE Verdict'
  <2>1. /\ At(i, "none") /\ Moved(i, "new") /\ UNCHANGED <<sendq, wire>> /\ txn'[i] = "pending"
    BY <1>2, TaskMoves DEF InviteArrives, Types, TxnOK
  <2>2. Cancelling(i)' = Cancelling(i)
    BY <2>1 DEF Cancelling
  <2>3. VerdictOn(i)'
    BY <1>0, <2>1, <2>2 DEF VerdictOn, At, Moved, Unanswered
  <2>4. QED BY <1>1, <1>2, <2>3 DEF Steps
<1>3. ASSUME NEW i \in Invite, CancelArrives(i) PROVE Verdict'
  <2>1. UNCHANGED <<call, wire>> /\ txn[i] # "none" /\ txn'[i] = "cancelled"
    BY <1>3 DEF CancelArrives, Types, TxnOK
  <2>2. txn[i] = "cancelled" => (Cancelling(i)' => Cancelling(i))
    BY <1>3, <2>1, NothingNewCancelled DEF Steps
  <2>3. VerdictOn(i)'
    BY <1>0, <2>1, <2>2 DEF VerdictOn, At
  <2>4. QED BY <1>1, <1>3, <2>3 DEF Steps
<1>4. ASSUME NEW i \in Invite, AnswerWritten(i) PROVE Verdict'
  <2>1. /\ At(i, "answering") /\ txn[i] # "cancelled" /\ txn'[i] = "none"
        /\ wire' = [wire EXCEPT ![i].answers = @ + 1] /\ Answered(i)
    BY <1>4 DEF AnswerWritten, NextToWrite, Send, Queued, SentByTasks, Types, SendsOK, TxnOK,
                Suppressed
  <2>2. Cancelling(i)' => Cancelling(i)
    BY <1>4, <2>1, NothingNewCancelled DEF Steps
  <2>3. wire'[i].answers = wire[i].answers + 1 /\ wire'[i].terminated = wire[i].terminated
    BY <1>0, <2>1 DEF Types, WireOK
  <2>4. VerdictOn(i)'
    BY <1>0, <2>1, <2>2, <2>3, TaskMoves DEF VerdictOn, At, Moved, Unanswered, Early
  <2>5. QED BY <1>1, <1>4, <2>4 DEF Steps
<1>5. ASSUME NEW i \in Invite, Steps(i), NEW p, Moved(i, p),
             wire'[i].answers = wire[i].answers, wire'[i].terminated = wire[i].terminated,
             txn'[i] \in {txn[i], "none"},
             p = "none" => At(i, "none"),
             p \in Unanswered =>
               call[i].pc \in Unanswered /\ (txn'[i] = txn[i] \/ txn[i] # "cancelled")
      PROVE  Verdict'
  <2>1. Cancelling(i)' => Cancelling(i)
    BY <1>5, NothingNewCancelled
  <2>2. VerdictOn(i)'
    BY <1>0, <1>5, <2>1, VerdictKept
  <2>3. QED BY <1>1, <1>5, <2>2
<1>6. ASSUME NEW i \in Invite, AnswerSuppressed(i) PROVE Verdict'
  <2>1. UNCHANGED <<txn, wire>> /\ \E p \in {"handshake", "live"} : Moved(i, p)
    BY <1>6, TaskMoves DEF AnswerSuppressed
  <2>2. QED BY <1>5, <1>6, <2>1 DEF Unanswered, Early, Steps
<1>7. ASSUME NEW i \in Invite, RejectWritten(i) PROVE Verdict'
  <2>1. call[i].pc \in Unanswered
    BY <1>7 DEF RejectWritten, NextToWrite, Send, Queued, SentByTasks, Types, SendsOK, Unanswered,
                Early
  <2>2. /\ wire' = [wire EXCEPT ![i].rejects = @ + 1] /\ \E p \in {"undoing", "done"} : Moved(i, p)
        /\ txn'[i] = IF txn[i] = "cancelled" THEN txn[i] ELSE "none"
    BY <1>7, TaskMoves DEF RejectWritten, Types, TxnOK
  <2>3. wire'[i].answers = wire[i].answers /\ wire'[i].terminated = wire[i].terminated
    BY <1>0, <2>2 DEF Types, WireOK
  <2>4. QED BY <1>5, <1>7, <2>1, <2>2, <2>3 DEF Steps
<1>8. ASSUME NEW i \in Invite, Rejects(i) \/ Admits(i) \/ Opened(i) \/ OpenFails(i) \/ Refuses(i)
                               \/ Undone(i)
      PROVE  Verdict'
  <2>1. /\ UNCHANGED <<txn, wire>> /\ call[i].pc \in Unanswered
        /\ \E p \in Place \ {"none"} : Moved(i, p)
    BY <1>8, TaskMoves DEF Rejects, Admits, Opened, OpenFails, Refuses, Undone, At, Unanswered,
                           Early,
                           Place, SetUp, Finished
  <2>2. QED BY <1>5, <1>8, <2>1 DEF Steps, TaskSteps
<1>9. ASSUME NEW i \in Invite, HandshakeOk(i) \/ PeerEndedSetUp(i) \/ EngineFails(i)
                               \/ HandshakeFails(i) \/ AbortEnds(i)
      PROVE  Verdict'
  <2>1. \E p \in {"live", "done", "cut", "aborting"} : Moved(i, p)
    BY <1>9, TaskMoves
  <2>2. txn'[i] \in {txn[i], "none"}
    BY <1>0, <1>9, Forgotten DEF HandshakeOk, PeerEndedSetUp, EngineFails, HandshakeFails, AbortEnds
  <2>3. wire'[i].answers = wire[i].answers /\ wire'[i].terminated = wire[i].terminated
    BY <1>0, <1>9 DEF HandshakeOk, PeerEndedSetUp, EngineFails, HandshakeFails, AbortEnds, Byes,
                      Types, WireOK
  <2>4. QED BY <1>5, <1>9, <2>1, <2>2, <2>3 DEF Unanswered, Early, Steps, TaskSteps
<1>10. ASSUME NEW i \in Invite, LoopEnds(i) \/ TeardownStarts(i) \/ TimersCancelled(i) \/ Signalled(i)
                                \/ ByeSent(i) \/ Stopped(i)
       PROVE  Verdict'
  <2>1. \E p \in Teardown \cup {"unwinding", "done"} : Moved(i, p)
    <3>1. CASE LoopEnds(i) \/ ByeSent(i) \/ Stopped(i)
      BY <3>1, TaskMoves DEF Teardown
    <3>2. CASE TeardownStarts(i)
      BY <3>2, TeardownBegun DEF Types, Teardown
    <3>3. CASE TimersCancelled(i) \/ Signalled(i)
      BY <3>3, TeardownMoves DEF Teardown
    <3>4. QED BY <1>10, <3>1, <3>2, <3>3
  <2>2. \/ Releases(i, TRUE) /\ UNCHANGED wire
        \/ Releases(i, FALSE) /\ UNCHANGED wire
        \/ UNCHANGED txn /\ wire' \in {wire, [wire EXCEPT ![i].byes = @ + 1]}
    <3>1. CASE LoopEnds(i) \/ ByeSent(i) \/ Stopped(i) \/ TeardownStarts(i)
      BY <3>1 DEF LoopEnds, ByeSent, Stopped, TeardownStarts
    <3>2. CASE TimersCancelled(i) \/ Signalled(i)
      BY <3>2, TeardownMoves
    <3>3. QED BY <1>10, <3>1, <3>2
  <2>3. txn'[i] \in {txn[i], "none"}
    BY <1>0, <2>2, Released
  <2>4. wire'[i].answers = wire[i].answers /\ wire'[i].terminated = wire[i].terminated
    <3>1. CASE UNCHANGED wire
      BY <3>1
    <3>2. CASE wire' = [wire EXCEPT ![i].byes = @ + 1]
      BY <1>0, <3>2 DEF Types, WireOK
    <3>3. QED BY <2>2, <3>1, <3>2
  <2>5. QED BY <1>5, <1>10, <2>1, <2>3, <2>4 DEF Unanswered, Early, Teardown, Steps, TaskSteps
<1>11. ASSUME NEW i \in Invite, PeerBye(i) \/ CancelAnswered(i) PROVE Verdict'
  <2>1. UNCHANGED <<call, txn, wire>> /\ Moved(i, call[i].pc)
    BY <1>11 DEF PeerBye, CancelAnswered, Moved
  <2>2. QED BY <1>5, <1>11, <2>1 DEF At, Steps
<1>12. ASSUME NEW c \in CallId, HangUpStarts(c) \/ HangUpByes(c) PROVE Verdict'
  <2>1. UNCHANGED <<call, txn, sendq>>
    BY <1>12 DEF HangUpStarts, HangUpByes
  <2>2. \A j \in Invite : wire'[j].answers = wire[j].answers /\ wire'[j].terminated = wire[j].terminated
    BY <1>0, <1>12 DEF HangUpStarts, HangUpByes, Byes, Types, WireOK
  <2>3. QED BY <1>0, <2>1, <2>2 DEF Verdict, VerdictOn, Cancelling, At
<1>13. CASE UNCHANGED vars
  BY <1>13 DEF vars, Verdict, VerdictOn, Cancelling, Alone, At, Id
<1>14. ASSUME NEW i \in Invite, Terminated(i) PROVE Verdict'
  <2> SUFFICES ASSUME NEW j \in Invite, Alone(j) PROVE VerdictOn(j)'
    BY <1>0 DEF Verdict, VerdictOn
  <2>1. ~Cancelling(j)' /\ Cancelling(i)
    <3>1. sendq \in Seq(Sent) /\ sendq # <<>> /\ Head(sendq) = Send("terminated", i)
      BY <1>14 DEF Types, SendsOK, Terminated, NextToWrite
    <3>2. 1 \in DOMAIN sendq /\ sendq[1] = Send("terminated", i)
      BY <3>1
    <3>3. Cancelling(i)
      BY <3>2 DEF Cancelling, Send
    <3>4. QED BY <1>14, <3>3, TerminatedQueue DEF Cancelling, ReaderSend
  <2>2. call'[j].pc = IF Id(j) = Id(i) THEN WhenCancelled(call[j].pc) ELSE call[j].pc
    BY <1>14, Interrupted
  <2>3. txn'[j] = txn[j] \/ (txn'[j] = "none" /\ \E k \in Invite : Id(k) = Id(i) /\ At(k, "aborting")
                                             /\ Id(j) = Id(i))
    <3>1. \/ Forgets(Id(i)) /\ \E k \in Invite : Id(k) = Id(i) /\ At(k, "aborting")
          \/ UNCHANGED txn
      BY <1>14 DEF Terminated
    <3>2. QED BY <1>0, <3>1, Forgotten
  <2>4. CASE j # i
    <3>1. Id(j) # Id(i)
      BY <2>4 DEF Alone
    <3>2. wire'[j] = wire[j]
      BY <1>14, <2>4 DEF Terminated, Types, WireOK
    <3>3. QED BY <1>0, <2>1, <2>2, <2>3, <3>1, <3>2 DEF VerdictOn, At
  <2>5. CASE j = i
    <3>1. /\ wire'[i].answers = wire[i].answers
          /\ wire'[i].terminated = wire[i].terminated + 1
      BY <1>0, <1>14 DEF Terminated, Types, WireOK
    <3>2. /\ wire[i].terminated = 0 /\ wire[i].answers = 0 /\ txn[i] # "pending"
          /\ ~At(i, "none") /\ (txn[i] = "cancelled" \/ call[i].pc \notin Unanswered)
      BY <1>0, <2>1, <2>5 DEF VerdictOn
    <3>3. txn'[i] # "pending"
      BY <2>3, <2>5, <3>2
    <3>4. call'[i].pc \notin Unanswered
      BY <1>0, <2>2, <2>5, <3>2 DEF WhenCancelled, Unanswered, Early, SetUp, Teardown, At
    <3>5. QED BY <1>0, <2>1, <2>5, <3>1, <3>2, <3>3, <3>4 DEF VerdictOn, At, Unanswered
  <2>6. QED BY <2>4, <2>5
<1>15. QED
  BY <1>2, <1>3, <1>4, <1>6, <1>7, <1>8, <1>9, <1>10, <1>11, <1>12, <1>13, <1>14
     DEF Next, Sends, TaskSteps

----
(* The end of an answered call *)

\* One BYE of ours, of a dialog that has had none; a teardown has one to send or is past it.
EndedBy(i) ==
    /\ wire[i].byes \in {0, 1} /\ (wire[i].byes = 1 => i \in over)
    /\ call[i].pc \in {"unwinding", "ending", "signalling"} => call[i].failed \/ i \in over
    /\ call[i].pc = "closing" => i \in over
    /\ Alone(i) /\ call[i].pc = "stopping" => i \in over
    /\ /\ Alone(i) /\ call[i].kind # "webrtc"
       /\ call[i].pc \in Finished /\ wire[i].answers > 0
       => i \in over

Ends == \A i \in Invite : EndedBy(i)

\* A local step need only be shown to end its own dialog rightly.
LEMMA EndsElsewhere ==
    ASSUME Types, Ends, [Next]_vars, NEW i \in Invite, NEW p, Moved(i, p), Local(i), EndedBy(i)'
    PROVE  Ends'
<1> SUFFICES ASSUME NEW j \in Invite \ {i} PROVE EndedBy(j)'
  BY DEF Ends
<1>1. /\ call'[j].pc = call[j].pc /\ call'[j].kind = call[j].kind /\ call'[j].failed = call[j].failed
      /\ wire'[j] = wire[j] /\ (j \in over' <=> j \in over) /\ Alone(j)' = Alone(j)
  BY AloneStays DEF Moved, Local
<1>2. QED BY <1>1 DEF Ends, EndedBy

\* A BYE is sent only to a dialog that has had none (Byes).
LEMMA ByesOnce ==
    ASSUME Types, NEW i \in Invite, EndedBy(i), Byes(i)
    PROVE  i \in over' /\ wire'[i].byes \in {0, 1} /\ wire'[i].answers = wire[i].answers
<1>1. wire[i] \in [answers: Nat, rejects: Nat, terminated: Nat, byes: Nat]
  BY DEF Types, WireOK
<1>2. QED BY <1>1 DEF Byes, EndedBy, Types, WireOK

\* Every step keeps the ends: one BYE, and no teardown past it with the dialog up.
LEMMA EndsStep ==
    Types /\ Queued /\ Held /\ Tabled /\ Verdict /\ Ends /\ [Next]_vars => Ends'
<1> SUFFICES ASSUME Types, Queued, Held, Tabled, Verdict, Ends, [Next]_vars PROVE Ends'
  OBVIOUS
<1>0. ASSUME NEW i \in Invite
      PROVE  /\ EndedBy(i) /\ VerdictOn(i) /\ OwnedBy(i) /\ HeldBy(i) /\ Alone(i)' = Alone(i)
             /\ wire[i] \in [answers: Nat, rejects: Nat, terminated: Nat, byes: Nat]
  BY AloneStays DEF Ends, Verdict, Held, Tabled, Owned, Types, WireOK
<1>1. ASSUME NEW i \in Invite, Steps(i), EndedBy(i)' PROVE Ends'
  BY <1>1, StepIsLocal, StepMoves, EndsElsewhere
<1>2. ASSUME NEW i \in Invite, Steps(i), NEW p, Moved(i, p),
             wire'[i].byes = wire[i].byes, wire'[i].answers = wire[i].answers, UNCHANGED over,
             p \notin {"unwinding", "ending", "signalling", "closing", "stopping"},
             Alone(i) /\ call[i].kind # "webrtc" /\ p \in Finished /\ wire[i].answers > 0 => i \in over
      PROVE  Ends'
  <2>1. EndedBy(i)'
    BY <1>0, <1>2 DEF EndedBy, Moved
  <2>2. QED BY <1>1, <1>2, <2>1
<1>3. ASSUME NEW i \in Invite,
             \/ InviteArrives(i) \/ Rejects(i) \/ Admits(i) \/ Opened(i) \/ Refuses(i)
             \/ OpenFails(i) \/ Undone(i)
      PROVE  Ends'
  <2>1. UNCHANGED <<wire, over>>
    BY <1>3 DEF InviteArrives, Rejects, Admits, Opened, Refuses, OpenFails, Undone
  <2>2. \E p \in {"new", "rejecting", "opening", "answering", "refusing", "done"} : Moved(i, p)
    BY <1>3, TaskMoves
  <2>3. Alone(i) => wire[i].answers = 0
    BY <1>0, <1>3, TaskMoves DEF VerdictOn, At, Unanswered, Early
  <2>4. QED BY <1>2, <1>3, <2>1, <2>2, <2>3 DEF Finished, Steps, TaskSteps
<1>4. ASSUME NEW i \in Invite, RejectWritten(i) PROVE Ends'
  <2>1. call[i].pc \in Unanswered
    BY <1>4 DEF RejectWritten, NextToWrite, Send, Queued, SentByTasks, Types, SendsOK, Unanswered,
                Early
  <2>2. /\ wire' = [wire EXCEPT ![i].rejects = @ + 1] /\ UNCHANGED over
        /\ \E p \in {"undoing", "done"} : Moved(i, p)
    BY <1>4, TaskMoves DEF RejectWritten
  <2>3. wire'[i].answers = wire[i].answers /\ wire'[i].byes = wire[i].byes
    BY <1>0, <2>2 DEF Types, WireOK
  <2>4. Alone(i) => wire[i].answers = 0
    BY <1>0, <2>1 DEF VerdictOn
  <2>5. QED BY <1>2, <1>4, <2>2, <2>3, <2>4 DEF Steps
<1>5. ASSUME NEW i \in Invite, AnswerWritten(i) \/ AnswerSuppressed(i) PROVE Ends'
  <2>1. UNCHANGED over /\ \E p \in {"handshake", "live"} : Moved(i, p)
    BY <1>5, TaskMoves DEF AnswerWritten, AnswerSuppressed
  <2>2. wire'[i].byes = wire[i].byes
    BY <1>0, <1>5 DEF AnswerWritten, AnswerSuppressed, Types, WireOK
  <2>3. EndedBy(i)'
    BY <1>0, <2>1, <2>2 DEF EndedBy, Moved, Finished
  <2>4. QED BY <1>1, <1>5, <2>3 DEF Steps
<1>6. ASSUME NEW i \in Invite, HandshakeOk(i) \/ HandshakeFails(i) \/ PeerEndedSetUp(i) \/ EngineFails(i)
      PROVE  Ends'
  <2>1. UNCHANGED <<wire, over>>
    BY <1>6 DEF HandshakeOk, HandshakeFails, PeerEndedSetUp, EngineFails
  <2>2. \/ Moved(i, "live") \/ Moved(i, "aborting")
        \/ Moved(i, "done") /\ i \in over
        \/ Moved(i, "cut") /\ call[i].kind = "webrtc"
    BY <1>6, TaskMoves DEF PeerEndedSetUp, EngineFails
  <2>3. QED BY <1>2, <1>6, <2>1, <2>2 DEF Finished, Steps, TaskSteps
<1>7. ASSUME NEW i \in Invite, AbortEnds(i) PROVE Ends'
  <2>1. Moved(i, "done") /\ Byes(i)
    BY <1>7, TaskMoves DEF AbortEnds
  <2>2. EndedBy(i)'
    BY <1>0, <2>1, ByesOnce DEF EndedBy, Moved
  <2>3. QED BY <1>1, <1>7, <2>2 DEF Steps, TaskSteps
<1>8. ASSUME NEW i \in Invite, LoopEnds(i) PROVE Ends'
  <2>1. Moved(i, "unwinding") /\ (call'[i].failed \/ i \in over) /\ UNCHANGED <<wire, over>>
    BY <1>8, LoopLeft DEF Types, LoopEnds
  <2>2. EndedBy(i)'
    BY <1>0, <2>1 DEF EndedBy, Moved, Finished
  <2>3. QED BY <1>1, <1>8, <2>2 DEF Steps
<1>9. ASSUME NEW i \in Invite, TeardownStarts(i) PROVE Ends'
  <2>1. /\ At(i, "unwinding") /\ UNCHANGED <<wire, over>>
        /\ \/ Moved(i, "ending")
           \/ Moved(i, "stopping") /\ session[Id(i)] # i
    BY <1>9, TeardownBegun DEF Types, TeardownStarts
  <2>2. EndedBy(i)'
    BY <1>0, <2>1 DEF EndedBy, Moved, OwnedBy, At, Finished, Up
  <2>3. QED BY <1>1, <1>9, <2>2 DEF Steps, TaskSteps
<1>10. ASSUME NEW i \in Invite, TimersCancelled(i) \/ Signalled(i) PROVE Ends'
  <2>1. CASE Moved(i, "signalling") /\ UNCHANGED <<over, wire>>
    <3>1. call[i].pc \in {"ending", "signalling"}
      BY <1>10, TeardownMoves
    <3>2. EndedBy(i)'
      BY <1>0, <2>1, <3>1 DEF EndedBy, Moved, Finished
    <3>3. QED BY <1>1, <1>10, <3>2 DEF Steps, TaskSteps
  <2>2. CASE /\ i \notin over /\ Moved(i, "closing") /\ over' = over \cup {i}
             /\ wire' = [wire EXCEPT ![i].byes = @ + 1]
    <3>1. wire'[i].byes = wire[i].byes + 1
      BY <1>0, <2>2 DEF Types, WireOK
    <3>2. EndedBy(i)'
      BY <1>0, <2>2, <3>1 DEF EndedBy, Moved, Finished
    <3>3. QED BY <1>1, <1>10, <3>2 DEF Steps, TaskSteps
  <2>3. CASE (~call[i].failed \/ i \in over) /\ Moved(i, "stopping") /\ UNCHANGED <<over, wire>>
    <3>1. call[i].pc \in {"ending", "signalling"}
      BY <1>10, TeardownMoves
    <3>2. EndedBy(i)'
      BY <1>0, <2>3, <3>1 DEF EndedBy, Moved, Finished
    <3>3. QED BY <1>1, <1>10, <3>2 DEF Steps, TaskSteps
  <2>4. QED BY <1>10, <2>1, <2>2, <2>3, TeardownMoves
<1>11. ASSUME NEW i \in Invite, ByeSent(i) \/ Stopped(i) PROVE Ends'
  <2>1. /\ UNCHANGED <<wire, over>>
        /\ \/ At(i, "closing") /\ Moved(i, "stopping")
           \/ At(i, "stopping") /\ Moved(i, "done")
    BY <1>11, TaskMoves DEF ByeSent, Stopped
  <2>2. EndedBy(i)'
    BY <1>0, <2>1 DEF EndedBy, Moved, At, Finished
  <2>3. QED BY <1>1, <1>11, <2>2 DEF Steps, TaskSteps
<1>12. ASSUME NEW i \in Invite, PeerBye(i) \/ CancelArrives(i) \/ CancelAnswered(i) PROVE Ends'
  <2>1. UNCHANGED <<call, wire>> /\ over \subseteq over'
    BY <1>12 DEF PeerBye, CancelArrives, CancelAnswered
  <2>2. EndedBy(i)'
    BY <1>0, <2>1 DEF EndedBy
  <2>3. QED BY <1>1, <1>12, <2>2 DEF Steps
<1>13. ASSUME NEW c \in CallId, HangUpStarts(c) \/ HangUpByes(c) PROVE Ends'
  <2>1. CASE HangUpStarts(c)
    <3>1. UNCHANGED <<call, wire, over>>
      BY <2>1 DEF HangUpStarts
    <3>2. QED BY <1>0, <3>1 DEF Ends, EndedBy
  <2>2. CASE HangUpByes(c)
    <3>1. PICK i \in Invite :
            Local(i) /\ Moved(i, call[i].pc) /\ Byes(i) /\ UNCHANGED call
      BY <2>2, HangUpIsLocal DEF HangUpByes
    <3>2. EndedBy(i)'
      BY <1>0, <3>1, ByesOnce DEF EndedBy
    <3>3. QED BY <3>1, <3>2, EndsElsewhere
  <2>3. QED BY <1>13, <2>1, <2>2
<1>14. CASE UNCHANGED vars
  BY <1>14 DEF vars, Ends, EndedBy, Alone, Id
<1>15. ASSUME NEW i \in Invite, Terminated(i) PROVE Ends'
  <2> SUFFICES ASSUME NEW j \in Invite PROVE EndedBy(j)'
    BY DEF Ends
  <2>1. /\ call'[j].kind = call[j].kind
        /\ call'[j].pc = IF Id(j) = Id(i) THEN WhenCancelled(call[j].pc) ELSE call[j].pc
        /\ Id(j) # Id(i) => call'[j] = call[j]
        /\ call'[j].failed <=> call[j].failed
                               \/ (Id(j) = Id(i) /\ call[j].pc \in {"live", "unwinding"})
    BY <1>15, Interrupted
  <2>2. UNCHANGED over /\ wire'[j].byes = wire[j].byes /\ wire'[j].answers = wire[j].answers
    BY <1>0, <1>15 DEF Terminated, Types, WireOK
  <2>3. CASE Id(j) # Id(i)
    BY <1>0, <2>1, <2>2, <2>3 DEF EndedBy
  <2>4. CASE Id(j) = Id(i)
    <3>1. Alone(j) => wire[j].answers = 0
      <4>1. sendq \in Seq(Sent) /\ sendq # <<>> /\ Head(sendq) = Send("terminated", i)
        BY <1>15 DEF Types, SendsOK, Terminated, NextToWrite
      <4>2. 1 \in DOMAIN sendq /\ sendq[1] = Send("terminated", i)
        BY <4>1
      <4>3. Cancelling(i)
        BY <4>2 DEF Cancelling, Send
      <4>4. QED BY <1>0, <2>4, <4>3 DEF VerdictOn, Alone
    <3>2. QED
      BY <1>0, <2>1, <2>2, <2>4, <3>1
         DEF EndedBy, WhenCancelled, Early, SetUp, Teardown, Finished
  <2>5. QED BY <2>3, <2>4
<1>16. QED
  BY <1>3, <1>4, <1>5, <1>6, <1>7, <1>8, <1>9, <1>10, <1>11, <1>12, <1>13, <1>14, <1>15
     DEF Next, Sends, TaskSteps

----
(* The inductive invariant *)

IInv == Types /\ Queued /\ Held /\ Tabled /\ Verdict /\ Ends

\* No INVITE has arrived.
LEMMA InitIInv == Init => IInv
<1> SUFFICES ASSUME Init PROVE IInv
  OBVIOUS
<1> USE InboundAssumption
<1>1. call \in [Invite -> [id: CallId, kind: Kind, pc: {"none"}, failed: {FALSE}, told: {FALSE}]]
  BY DEF Init
<1>2. \A i \in Invite : call[i].pc = "none" /\ Id(i) \in CallId /\ i # NoInvite
  BY <1>1 DEF Id
<1>3. Types
  <2>1. TasksOK
    BY <1>1 DEF TasksOK, Tasks, Place
  <2>2. TxnOK /\ WireOK /\ SendsOK /\ TablesOK
    BY DEF Init, TxnOK, WireOK, SendsOK, TablesOK
  <2>3. QED BY <2>1, <2>2 DEF Types
<1>4. sendq = <<>> /\ DOMAIN sendq = {}
  BY DEF Init
<1>5. Queued
  BY <1>2, <1>4 DEF Queued, SentByTasks, OneEach, Awaited, Waiting
<1>6. Held
  BY <1>2 DEF Init, Held, HeldBy
<1>7. Tabled
  <2>1. SlotsHeld /\ Owned /\ CurrentHasSink
    BY <1>2 DEF Init, SlotsHeld, SlotHeld, Owned, OwnedBy, CurrentHasSink, SetUp, Up
  <2>2. Capped
    BY FS_EmptySet DEF Init, Capped
  <2>3. QED BY <2>1, <2>2 DEF Tabled
<1>8. Verdict
  BY <1>2, <1>4 DEF Init, Verdict, VerdictOn, Cancelling
<1>9. Ends
  BY <1>2 DEF Init, Ends, EndedBy, Finished
<1>10. QED BY <1>3, <1>5, <1>6, <1>7, <1>8, <1>9 DEF IInv

\* Every step keeps the invariant.
LEMMA IInvStep == IInv /\ [Next]_vars => IInv'
BY TypesStep, QueueStep, HeldStep, TabledStep, VerdictStep, EndsStep DEF IInv

----
(* Theorems *)

\* The inductive invariant of the inbound calls.
THEOREM Invariance == Spec => []IInv
BY InitIInv, IInvStep, PTL DEF Spec

\* An INVITE alone on its Call-ID gets a 200 or a 487, once, however the answer, its CANCEL and
\* the retransmissions race for the send lock (_suppress_or_track_response, _handle_cancel).
THEOREM OneVerdict == Spec => []AnswerOrTerminated
<1>1. IInv => AnswerOrTerminated
  BY DEF IInv, Verdict, VerdictOn, AnswerOrTerminated
<1>2. QED BY <1>1, Invariance, PTL

\* At most one BYE of ours leaves, and an answered call whose task has ended is not left up on
\* the gateway (hang_up_call, _teardown_call, _finish_answered_abort).
THEOREM EndsOnce == Spec => []ClosedOnce
<1>1. IInv => OneBye
  BY DEF IInv, Ends, EndedBy, OneBye
<1>2. IInv => NoZombie
  BY DEF IInv, Ends, EndedBy, NoZombie
<1>3. IInv => ClosedOnce
  BY <1>1, <1>2 DEF ClosedOnce
<1>4. QED BY <1>3, Invariance, PTL

\* The type invariant that the run checks, which counts the sends that wait.
LEMMA TypesAreOK == IInv => TypeOK
<1> SUFFICES ASSUME IInv PROVE TypeOK
  OBVIOUS
<1>1. ASSUME NEW i \in Invite
      PROVE  Cardinality({n \in DOMAIN sendq :
                            sendq[n].invite = i /\ sendq[n].what \notin ReaderSend})
                = IF call[i].pc \in {"rejecting", "refusing", "answering"} THEN 1 ELSE 0
  <2> DEFINE its == {n \in DOMAIN sendq : sendq[n].invite = i /\ sendq[n].what \notin ReaderSend}
  <2>1. CASE call[i].pc \in Waiting
    <3>1. PICK n \in its : TRUE
      BY <2>1 DEF IInv, Queued, Awaited
    <3>2. its = {n}
      BY <3>1 DEF IInv, Queued, OneEach
    <3>3. Cardinality(its) = 1
      BY <3>2, FS_Singleton
    <3>4. QED BY <2>1, <3>3 DEF Waiting
  <2>2. CASE call[i].pc \notin Waiting
    <3>1. \A n \in DOMAIN sendq : sendq[n].what \in {"reject", "answer"} \cup ReaderSend
      BY SendOf DEF IInv, Types, SendsOK
    <3>2. its = {}
      BY <2>2, <3>1 DEF IInv, Queued, SentByTasks, Waiting, At
    <3>3. Cardinality(its) = 0
      BY <3>2, FS_EmptySet
    <3>4. QED BY <2>2, <3>3 DEF Waiting
  <2>3. QED BY <2>1, <2>2
<1>2. Cardinality({n \in DOMAIN sendq : sendq[n].what \in ReaderSend}) <= 1
  <2> DEFINE its == {n \in DOMAIN sendq : sendq[n].what \in ReaderSend}
  <2>1. CASE its = {}
    BY <2>1, FS_EmptySet
  <2>2. CASE its # {}
    <3>1. PICK n \in its : TRUE
      BY <2>2
    <3>2. its = {n}
      BY <3>1 DEF IInv, Queued, OneEach
    <3>3. Cardinality(its) = 1
      BY <3>2, FS_Singleton
    <3>4. QED BY <3>3
  <2>3. QED BY <2>1, <2>2
<1>3. QED BY <1>1, <1>2 DEF IInv, Types, TasksOK, Tasks, TxnOK, TablesOK, TypeOK

\* INVITEs that are alone have a slot each, so there are no more of them than slots.
LEMMA CapIsRespected == IInv => CapRespected
<1> SUFFICES ASSUME IInv PROVE CapRespected
  OBVIOUS
<1> DEFINE counted == {i \in Invite : Alone(i) /\
              call[i].pc \in SetUp \cup {"live", "unwinding", "ending", "signalling", "closing"}}
           id == [i \in counted |-> Id(i)]
<1>1. \A i \in counted : Id(i) \in admitted
  BY DEF IInv, Tabled, Owned, OwnedBy, Up
<1>2. id \in Injection(counted, admitted)
  <2>1. id \in [counted -> admitted]
    BY <1>1
  <2>2. \A i, j \in counted : id[i] = id[j] => i = j
    BY DEF Alone
  <2> HIDE DEF id, counted
  <2>3. QED BY <2>1, <2>2 DEF Injection, IsInjective
<1>3. IsFiniteSet(admitted) /\ Cardinality(admitted) <= MaxCalls /\ MaxCalls \in Nat
  BY InboundAssumption DEF IInv, Tabled, Capped
<1> HIDE DEF id, counted
<1>4. /\ IsFiniteSet(counted) /\ Cardinality(counted) <= Cardinality(admitted)
  BY <1>2, <1>3, FS_Injection
<1>5. Cardinality(counted) \in Nat /\ Cardinality(admitted) \in Nat
  BY <1>3, <1>4, FS_CardinalityType
<1>6. Cardinality(counted) <= MaxCalls
  BY <1>3, <1>4, <1>5
<1>7. QED BY <1>6 DEF counted, CapRespected

\* No more calls than max_calls, no slot without a task that will release it, nothing left by a
\* task that ran to its end, and the responses of a Call-ID go to its session (_admit_inbound,
\* _release_admission, _teardown_call).
THEOREM BooksBalance == Spec => []Balanced
<1>1. IInv => NothingLeft
  <2> SUFFICES ASSUME IInv PROVE NothingLeft
    OBVIOUS
  <2>1. ASSUME NEW c \in admitted
        PROVE  \E i \in Invite :
                 Id(i) = c /\ call[i].pc \notin Early \cup {"none", "done", "cut"}
    <3>1. PICK i \in Invite : Holds(i, c)
      BY DEF IInv, Types, TablesOK, Tabled, SlotsHeld, SlotHeld
    <3>2. QED BY <3>1 DEF Holds, SetUp, Up, Early
  <2>2. ASSUME NEW i \in Invite, At(i, "done")
        PROVE  i \notin media \cup route /\ sink[Id(i)] # i /\ session[Id(i)] # i
    BY <2>2 DEF IInv, Held, HeldBy, At, Unrouted, Up
  <2>3. QED BY <2>1, <2>2 DEF NothingLeft
<1>2. IInv => CurrentHasSink
  BY DEF IInv, Tabled
<1>3. IInv => Balanced
  BY <1>1, <1>2, TypesAreOK, CapIsRespected DEF Balanced
<1>4. QED BY <1>3, Invariance, PTL
====
