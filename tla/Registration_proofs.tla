---- MODULE Registration_proofs ----
(***************************************************************************)
(* Registration: every flow is tended, and the manager's registered is     *)
(* true to the registrar, for any set of extensions.                       *)
(*                                                                         *)
(* What carries the second is that a flow's REGISTERs stand in one line    *)
(* (Pipeline): the responses on the way back, the requests on the way out  *)
(* and the senders at the lock, in CSeq order, so that the response that   *)
(* correlates is that of the last of them and nothing is behind it.  The   *)
(* rest is what each flow's tasks owe it (Tended), which no step of        *)
(* another flow touches.                                                   *)
(***************************************************************************)
EXTENDS Registration, FiniteSetTheorems, Functions, TLAPS

Sent == [who : Sender, ext : Extension, cseq : Nat, binds : BOOLEAN]
Request == [cseq : Nat, binds : BOOLEAN]
Response == [cseq : Nat, kind : Answer]
Txn == [cseq : Nat, binds : BOOLEAN, challenged : BOOLEAN]
Status == [registered : BOOLEAN, established : BOOLEAN, deregistering : BOOLEAN]
Timer == {"refresh", "recovery", "timeout"}

TasksOK ==
    /\ phase \in {"starting", "up", "draining", "deregistering", "closed"}
    /\ todo \subseteq Extension /\ unbound \subseteq Extension
    /\ refresh \in [Extension -> {"none", "armed", "sending"}]
    /\ recovery \in [Extension -> {"none", "armed"}]
    /\ timeout \in [Extension -> BOOLEAN]
    /\ loose \subseteq Extension \X Timer
    /\ reader \in Extension \cup {NoExtension}

FlowsOK ==
    /\ flow \in [Extension -> FlowState]
    /\ status \in [Extension -> Status]
    /\ tries \in [Extension -> Nat]

WiresOK ==
    /\ sendq \in Seq(Sent)
    /\ requests \in [Extension -> Seq(Request)]
    /\ answers \in [Extension -> Seq(Response)]
    /\ binding \in [Extension -> BOOLEAN]

Types == TasksOK /\ FlowsOK /\ WiresOK

\* The three parts are the type invariant that the run checks.
LEMMA TypesAreOK == Types <=> TypeOK
BY DEF Types, TypeOK, TasksOK, FlowsOK, WiresOK, Sent, Request, Response, Status, Timer

----
(* The queue of the send lock *)

\* What a step that adds no sender leaves of the queue: senders that waited before, in their
\* order, a cancelled refresh perhaps as a loose one.
Thins ==
    \E at \in [DOMAIN sendq' -> DOMAIN sendq] :
        /\ \A m, n \in DOMAIN sendq' : m < n => at[m] < at[n]
        /\ \A n \in DOMAIN sendq' :
             /\ sendq'[n].who \in {sendq[at[n]].who, "recovery"}
             /\ sendq'[n].ext = sendq[at[n]].ext
             /\ sendq'[n].cseq = sendq[at[n]].cseq
             /\ sendq'[n].binds = sendq[at[n]].binds

\* The sender at place i goes on waiting.
Survives(i) == \E n \in DOMAIN sendq' : sendq'[n] = sendq[i]

\* Remain keeps those at the places of stay, each of them once and nobody else: an increasing
\* map from as many places is onto (asyncio.Lock.acquire, cancelled).
LEMMA Remaining ==
    ASSUME sendq \in Seq(Sent), NEW stay \in SUBSET DOMAIN sendq, Remain(stay)
    PROVE  /\ sendq' \in Seq(Sent)
           /\ Thins
           /\ \A i \in stay : Survives(i)
           /\ \A n \in DOMAIN sendq' : \E i \in stay : sendq'[n] = sendq[i]
<1> DEFINE places == 1 .. Cardinality(stay)
<1>1. IsFiniteSet(stay) /\ Cardinality(stay) \in Nat
  <2>1. IsFiniteSet(1 .. Len(sendq))
    BY FS_Interval
  <2>2. stay \in SUBSET (1 .. Len(sendq))
    OBVIOUS
  <2>3. QED BY <2>1, <2>2, FS_Subset, FS_CardinalityType
<1>2. IsFiniteSet(places) /\ Cardinality(places) = Cardinality(stay)
  BY <1>1, FS_Interval
<1>3. PICK at \in [places -> stay] :
        /\ \A m, n \in places : m < n => at[m] < at[n]
        /\ sendq' = [n \in places |-> sendq[at[n]]]
  BY DEF Remain
<1>4. \A m, n \in places : m # n => at[m] # at[n]
  <2> SUFFICES ASSUME NEW m \in places, NEW n \in places, m # n PROVE at[m] # at[n]
    OBVIOUS
  <2>1. m \in Nat /\ n \in Nat /\ at[m] \in Nat /\ at[n] \in Nat
    BY <1>1
  <2>2. CASE m < n
    BY <1>3, <2>1, <2>2
  <2>3. CASE n < m
    BY <1>3, <2>1, <2>3
  <2>4. QED BY <2>1, <2>2, <2>3
<1>5. at \in Surjection(places, stay)
  <2>1. at \in Injection(places, stay)
    <3>1. at \in [places -> stay] /\ \A m, n \in places : at[m] = at[n] => m = n
      BY <1>3, <1>4
    <3> HIDE DEF places
    <3>2. QED BY <3>1 DEF Injection, IsInjective
  <2>2. QED BY <1>1, <1>2, <2>1, FS_Injection
<1>6. DOMAIN sendq' = places /\ \A n \in places : sendq'[n] = sendq[at[n]]
  BY <1>3
<1>7. sendq' \in Seq(Sent)
  <2>1. \A n \in places : sendq[at[n]] \in Sent
    OBVIOUS
  <2>2. sendq' = [n \in places |-> sendq[at[n]]] /\ Cardinality(stay) \in Nat
    BY <1>1, <1>3
  <2>3. QED BY <2>1, <2>2
<1>8. \A i \in stay : \E m \in places : at[m] = i
  BY <1>5 DEF Surjection
<1>9. at \in [DOMAIN sendq' -> DOMAIN sendq]
  BY <1>6
<1> HIDE DEF places
<1>10. Thins
  BY <1>3, <1>6, <1>9 DEF Thins
<1>11. \A i \in stay : Survives(i)
  BY <1>6, <1>8 DEF Survives
<1>12. \A n \in DOMAIN sendq' : \E i \in stay : sendq'[n] = sendq[i]
  BY <1>6
<1>13. QED BY <1>7, <1>10, <1>11, <1>12

\* The head of the queue has the lock and goes; the others move up.
LEMMA HeadLeaves ==
    ASSUME sendq \in Seq(Sent), sendq # <<>>, sendq' = Tail(sendq)
    PROVE  /\ sendq' \in Seq(Sent) /\ Thins
           /\ \A i \in DOMAIN sendq : i # 1 => Survives(i)
           /\ \A n \in DOMAIN sendq' : \E i \in DOMAIN sendq : i # 1 /\ sendq'[n] = sendq[i]
           /\ Head(sendq) = sendq[1] /\ 1 \in DOMAIN sendq
<1>1. /\ sendq' \in Seq(Sent) /\ Len(sendq) \in Nat /\ Len(sendq) > 0
      /\ DOMAIN sendq = 1 .. Len(sendq) /\ DOMAIN sendq' = 1 .. Len(sendq) - 1
      /\ \A n \in DOMAIN sendq' : sendq'[n] = sendq[n + 1] /\ n + 1 \in DOMAIN sendq
  OBVIOUS
<1>2. Thins
  <2> DEFINE at == [n \in DOMAIN sendq' |-> n + 1]
  <2>1. at \in [DOMAIN sendq' -> DOMAIN sendq]
    BY <1>1
  <2>2. \A m, n \in DOMAIN sendq' : m < n => at[m] < at[n]
    BY <1>1
  <2>3. \A n \in DOMAIN sendq' : sendq'[n] = sendq[at[n]]
    BY <1>1
  <2> HIDE DEF at
  <2>4. QED BY <2>1, <2>2, <2>3 DEF Thins
<1>3. ASSUME NEW i \in DOMAIN sendq, i # 1 PROVE Survives(i)
  <2>1. i - 1 \in DOMAIN sendq' /\ sendq'[i - 1] = sendq[i]
    BY <1>1, <1>3
  <2>2. QED BY <2>1 DEF Survives
<1>4. \A n \in DOMAIN sendq' : \E i \in DOMAIN sendq : i # 1 /\ sendq'[n] = sendq[i]
  BY <1>1
<1>5. Head(sendq) = sendq[1] /\ 1 \in DOMAIN sendq
  BY <1>1
<1>6. QED BY <1>1, <1>2, <1>3, <1>4, <1>5

\* A queue that is left alone.
LEMMA QueueKept ==
    ASSUME sendq \in Seq(Sent), UNCHANGED sendq
    PROVE  sendq' \in Seq(Sent) /\ Thins /\ \A i \in DOMAIN sendq : Survives(i)
<1> DEFINE at == [n \in DOMAIN sendq |-> n]
<1>1. at \in [DOMAIN sendq' -> DOMAIN sendq] /\ \A n \in DOMAIN sendq : at[n] = n
  OBVIOUS
<1> HIDE DEF at
<1>2. QED BY <1>1 DEF Thins, Survives

----
(* What the handlers do to a flow *)

\* start() and deregister(), field by field.
LEMMA Beginning ==
    ASSUME Types, NEW e \in Extension, NEW who \in Sender, NEW b \in BOOLEAN,
           Begins(e, who, b)
    PROVE  /\ flow' \in [Extension -> FlowState] /\ tries' \in [Extension -> Nat]
           /\ \A f \in Extension : f # e => flow'[f] = flow[f] /\ tries'[f] = tries[f]
           /\ flow'[e].cseq = flow[e].cseq + 1
           /\ flow'[e].txn.cseq = flow[e].cseq + 1 /\ flow'[e].txn.binds = b
           /\ flow'[e].txn.challenged = FALSE
           /\ tries'[e] = 1
           /\ sendq' = Append(sendq, [who |-> who, ext |-> e, cseq |-> flow[e].cseq + 1,
                                      binds |-> b])
<1> DEFINE txn == [cseq |-> flow[e].cseq + 1, binds |-> b, challenged |-> FALSE]
           next == [flow[e] EXCEPT !.cseq = @ + 1, !.retried = FALSE, !.txn = txn]
<1>1. flow[e] \in FlowState /\ flow[e].cseq \in Nat
  BY DEF Types, FlowsOK, FlowState
<1>2. txn \in Txn /\ txn.cseq = flow[e].cseq + 1 /\ txn.binds = b /\ txn.challenged = FALSE
  BY <1>1 DEF Txn
<1>3. flow' = [flow EXCEPT ![e] = next]
  BY <1>1 DEF Begins, Types, FlowsOK
<1> HIDE DEF txn
<1>4. next \in FlowState /\ next.cseq = flow[e].cseq + 1 /\ next.txn = txn
  BY <1>1, <1>2 DEF FlowState, Txn
<1> HIDE DEF next
<1>5. flow' \in [Extension -> FlowState] /\ flow'[e] = next
      /\ \A f \in Extension : f # e => flow'[f] = flow[f]
  BY <1>3, <1>4 DEF Types, FlowsOK
<1>6. /\ tries' \in [Extension -> Nat] /\ tries'[e] = 1
      /\ \A f \in Extension : f # e => tries'[f] = tries[f]
  BY DEF Begins, Types, FlowsOK
<1>7. sendq' = Append(sendq, [who |-> who, ext |-> e, cseq |-> flow[e].cseq + 1, binds |-> b])
  BY DEF Begins, Queues
<1>8. QED BY <1>2, <1>4, <1>5, <1>6, <1>7

\* One flow moves to next, the others stay.
Moves(e, next) ==
    /\ flow' \in [Extension -> FlowState] /\ flow'[e] = next
    /\ \A f \in Extension : f # e => flow'[f] = flow[f]

\* The delivery of a response (on_response).
LEMMA Delivering ==
    ASSUME Types, NEW e \in Extension, NEW kinds, Delivers(e, kinds)
    PROVE  /\ answers' \in [Extension -> Seq(Response)] /\ timeout' \in [Extension -> BOOLEAN]
           /\ phase # "closed" /\ reader = NoExtension
           /\ answers[e] # <<>> /\ answers'[e] = Tail(answers[e])
           /\ Head(answers[e]).cseq = flow[e].txn.cseq /\ Head(answers[e]).kind \in kinds
           /\ timeout'[e] = FALSE
           /\ \A f \in Extension : f # e => answers'[f] = answers[f] /\ timeout'[f] = timeout[f]
<1>1. answers[e] \in Seq(Response) /\ answers[e] # <<>>
  BY DEF Types, WiresOK, Delivers
<1>2. Tail(answers[e]) \in Seq(Response)
  BY <1>1
<1>3. QED BY <1>1, <1>2 DEF Delivers, Correlates, Types, WiresOK, TasksOK

\* The follow-up of a 401 or 407 keeps the transaction and spends its one challenge.
LEMMA Challenging ==
    ASSUME Types, NEW e \in Extension, Challenged(e)
    PROVE  /\ Moves(e, flow'[e]) /\ tries' \in [Extension -> Nat]
           /\ flow'[e].cseq = flow[e].cseq + 1
           /\ flow'[e].txn.cseq = flow[e].cseq + 1 /\ flow'[e].txn.binds = flow[e].txn.binds
           /\ flow[e].txn.challenged = FALSE /\ flow'[e].txn.challenged = TRUE
           /\ flow'[e].retried = flow[e].retried
           /\ tries'[e] = tries[e] + 1
           /\ \A f \in Extension : f # e => tries'[f] = tries[f]
           /\ sendq' = Append(sendq, [who |-> "reader", ext |-> e, cseq |-> flow[e].cseq + 1,
                                      binds |-> flow[e].txn.binds])
<1> DEFINE sent == [flow[e].txn EXCEPT !.cseq = flow[e].cseq + 1]
           txn == [sent EXCEPT !.challenged = TRUE]
           next == [flow[e] EXCEPT !.cseq = @ + 1, !.txn = txn]
<1>1. flow[e] \in FlowState /\ flow[e].cseq \in Nat /\ flow[e].txn \in Txn
  BY DEF Types, FlowsOK, FlowState, Txn
<1>2. /\ txn \in Txn /\ txn.cseq = flow[e].cseq + 1 /\ txn.binds = flow[e].txn.binds
      /\ txn.challenged = TRUE
  <2>1. sent \in Txn /\ sent.cseq = flow[e].cseq + 1 /\ sent.binds = flow[e].txn.binds
    BY <1>1 DEF Txn
  <2> HIDE DEF sent
  <2>2. txn \in Txn /\ txn.cseq = sent.cseq /\ txn.binds = sent.binds /\ txn.challenged = TRUE
    BY <2>1 DEF Txn
  <2>3. QED BY <2>1, <2>2
<1>3. flow' = [flow EXCEPT ![e] = next]
  BY <1>1 DEF Challenged, Types, FlowsOK, FlowState
<1> HIDE DEF txn
<1>4. /\ next \in FlowState /\ next.cseq = flow[e].cseq + 1 /\ next.txn = txn
      /\ next.retried = flow[e].retried
  BY <1>1, <1>2 DEF FlowState, Txn
<1> HIDE DEF next
<1>5. Moves(e, next)
  BY <1>3, <1>4 DEF Types, FlowsOK, Moves
<1>6. /\ tries' \in [Extension -> Nat] /\ tries'[e] = tries[e] + 1
      /\ \A f \in Extension : f # e => tries'[f] = tries[f]
  BY DEF Challenged, Types, FlowsOK
<1>7. sendq' = Append(sendq, [who |-> "reader", ext |-> e, cseq |-> flow[e].cseq + 1,
                              binds |-> flow[e].txn.binds])
  BY DEF Challenged, Queues
<1>8. flow[e].txn.challenged = FALSE
  BY <1>1 DEF Challenged, Txn
<1>9. QED BY <1>2, <1>4, <1>5, <1>6, <1>7, <1>8 DEF Moves

\* The follow-up of a 423 starts over and spends the one retry (_retry_interval).
LEMMA Retrying ==
    ASSUME Types, NEW e \in Extension, RetryInterval(e)
    PROVE  /\ Moves(e, flow'[e]) /\ tries' \in [Extension -> Nat]
           /\ flow'[e].cseq = flow[e].cseq + 1
           /\ flow'[e].txn.cseq = flow[e].cseq + 1
           /\ flow[e].txn.binds = TRUE /\ flow'[e].txn.binds = TRUE
           /\ flow'[e].txn.challenged = FALSE
           /\ flow[e].retried = FALSE /\ flow'[e].retried = TRUE
           /\ tries'[e] = tries[e] + 1
           /\ \A f \in Extension : f # e => tries'[f] = tries[f]
           /\ sendq' = Append(sendq, [who |-> "reader", ext |-> e, cseq |-> flow[e].cseq + 1,
                                      binds |-> TRUE])
<1> DEFINE txn == [cseq |-> flow[e].cseq + 1, binds |-> TRUE, challenged |-> FALSE]
           next == [flow[e] EXCEPT !.cseq = @ + 1, !.retried = TRUE, !.txn = txn]
<1>1. flow[e] \in FlowState /\ flow[e].cseq \in Nat /\ flow[e].txn \in Txn
  BY DEF Types, FlowsOK, FlowState, Txn
<1>2. txn \in Txn /\ txn.cseq = flow[e].cseq + 1 /\ txn.binds = TRUE /\ txn.challenged = FALSE
  BY <1>1 DEF Txn
<1>3. flow' = [flow EXCEPT ![e] = next]
  BY <1>1 DEF RetryInterval, Types, FlowsOK, FlowState
<1> HIDE DEF txn
<1>4. /\ next \in FlowState /\ next.cseq = flow[e].cseq + 1 /\ next.txn = txn
      /\ next.retried = TRUE
  BY <1>1, <1>2 DEF FlowState, Txn
<1> HIDE DEF next
<1>5. Moves(e, next)
  BY <1>3, <1>4 DEF Types, FlowsOK, Moves
<1>6. /\ tries' \in [Extension -> Nat] /\ tries'[e] = tries[e] + 1
      /\ \A f \in Extension : f # e => tries'[f] = tries[f]
  BY DEF RetryInterval, Types, FlowsOK
<1>7. sendq' = Append(sendq, [who |-> "reader", ext |-> e, cseq |-> flow[e].cseq + 1,
                              binds |-> TRUE])
  BY DEF RetryInterval, Queues
<1>8. flow[e].txn.binds = TRUE /\ flow[e].retried = FALSE
  BY <1>1 DEF RetryInterval, Complies, Txn, FlowState
<1>9. QED BY <1>2, <1>4, <1>5, <1>6, <1>7, <1>8 DEF Moves

\* A final response ends the transaction and leaves the CSeq alone.
LEMMA Settling ==
    ASSUME Types, NEW e \in Extension, Registered(e) \/ BindingRemoved(e) \/ Rejected(e)
    PROVE  /\ Moves(e, flow'[e]) /\ flow'[e].cseq = flow[e].cseq /\ flow'[e].txn = NoTxn
           /\ \E kinds : Delivers(e, kinds)
<1>1. flow[e] \in FlowState /\ NoTxn \in Txn /\ flow[e].txn.binds \in BOOLEAN
  BY DEF Types, FlowsOK, FlowState, Txn, NoTxn
<1>2. ASSUME NEW b \in BOOLEAN, flow' = [flow EXCEPT ![e] = [flow[e] EXCEPT !.txn = NoTxn, !.bound = b]]
      PROVE  Moves(e, flow'[e]) /\ flow'[e].cseq = flow[e].cseq /\ flow'[e].txn = NoTxn
  <2> DEFINE next == [flow[e] EXCEPT !.txn = NoTxn, !.bound = b]
  <2>1. next \in FlowState /\ next.cseq = flow[e].cseq /\ next.txn = NoTxn
    BY <1>1 DEF FlowState, Txn
  <2> HIDE DEF next
  <2>2. flow' = [flow EXCEPT ![e] = next]
    BY <1>2 DEF next
  <2>3. QED BY <2>1, <2>2 DEF Moves, Types, FlowsOK
<1>3. CASE Registered(e)
  <2>1. flow' = [flow EXCEPT ![e] = [flow[e] EXCEPT !.txn = NoTxn, !.bound = flow[e].txn.binds]]
    BY <1>3 DEF Registered, Types, FlowsOK
  <2>2. QED BY <1>1, <1>2, <1>3, <2>1 DEF Registered
<1>4. CASE BindingRemoved(e)
  <2>1. flow' = [flow EXCEPT ![e] = [flow[e] EXCEPT !.txn = NoTxn, !.bound = FALSE]]
    BY <1>4 DEF BindingRemoved, Types, FlowsOK
  <2>2. QED BY <1>1, <1>2, <1>4, <2>1 DEF BindingRemoved
<1>5. CASE Rejected(e)
  <2> DEFINE next == [flow[e] EXCEPT !.txn = NoTxn]
  <2>1. next \in FlowState /\ next.cseq = flow[e].cseq /\ next.txn = NoTxn
    BY <1>1 DEF FlowState, Txn
  <2>2. flow' = [flow EXCEPT ![e] = next]
    BY <1>5 DEF Rejected, Types, FlowsOK
  <2> HIDE DEF next
  <2>3. QED BY <1>5, <2>1, <2>2 DEF Moves, Types, FlowsOK, Rejected
<1>6. QED BY <1>3, <1>4, <1>5

\* _on_registration_failed: down, and recovering if the flow may.
LEMMA Failing ==
    ASSUME Types, NEW e \in Extension, Fails(e)
    PROVE  /\ status' \in [Extension -> Status]
           /\ recovery' \in [Extension -> {"none", "armed"}]
           /\ \A f \in Extension : f # e => status'[f] = status[f] /\ recovery'[f] = recovery[f]
           /\ status'[e].registered = FALSE
           /\ status'[e].established = status[e].established
           /\ status'[e].deregistering = status[e].deregistering
           /\ Recovers(e) => recovery'[e] = "armed"
           /\ ~Recovers(e) => recovery'[e] = recovery[e]
<1> DEFINE next == [status[e] EXCEPT !.registered = FALSE]
<1>1. status[e] \in Status
  BY DEF Types, FlowsOK
<1>2. /\ next \in Status /\ next.registered = FALSE
      /\ next.established = status[e].established
      /\ next.deregistering = status[e].deregistering
  BY <1>1 DEF Status
<1>3. status' = [status EXCEPT ![e] = next]
  BY DEF Fails
<1> HIDE DEF next
<1>4. /\ status' \in [Extension -> Status] /\ status'[e] = next
      /\ \A f \in Extension : f # e => status'[f] = status[f]
  BY <1>2, <1>3 DEF Types, FlowsOK
<1>5. /\ recovery' \in [Extension -> {"none", "armed"}]
      /\ recovery'[e] = IF Recovers(e) THEN "armed" ELSE recovery[e]
      /\ \A f \in Extension : f # e => recovery'[f] = recovery[f]
  BY DEF Fails, Types, TasksOK
<1>6. QED BY <1>2, <1>4, <1>5

----
(* Types *)

\* A sender joins the queue at its end, and nobody leaves it.
LEMMA Queueing ==
    ASSUME sendq \in Seq(Sent), NEW s \in Sent, sendq' = Append(sendq, s)
    PROVE  /\ sendq' \in Seq(Sent)
           /\ \A i \in DOMAIN sendq : sendq'[i] = sendq[i] /\ i \in DOMAIN sendq'
           /\ Len(sendq') \in DOMAIN sendq' /\ sendq'[Len(sendq')] = s
           /\ \A n \in DOMAIN sendq' : n \in DOMAIN sendq \/ n = Len(sendq')
           /\ \A i \in DOMAIN sendq : i < Len(sendq')
           /\ \A i \in DOMAIN sendq : Survives(i)
<1>1. /\ sendq' \in Seq(Sent)
      /\ \A i \in DOMAIN sendq : sendq'[i] = sendq[i] /\ i \in DOMAIN sendq'
      /\ Len(sendq') \in DOMAIN sendq' /\ sendq'[Len(sendq')] = s
      /\ \A n \in DOMAIN sendq' : n \in DOMAIN sendq \/ n = Len(sendq')
      /\ \A i \in DOMAIN sendq : i < Len(sendq')
  OBVIOUS
<1>2. QED BY <1>1 DEF Survives

\* The write of the head of the queue, flow by flow (_send_register).
LEMMA Writing ==
    ASSUME Types, Written
    PROVE  LET s == Head(sendq) IN
           /\ WiresOK' /\ TasksOK'
           /\ s \in Sent /\ s = sendq[1] /\ 1 \in DOMAIN sendq
           /\ requests'[s.ext] = Append(requests[s.ext], [cseq |-> s.cseq, binds |-> s.binds])
           /\ \A f \in Extension : f # s.ext => requests'[f] = requests[f]
           /\ \A f \in Extension : f # s.ext => timeout'[f] = timeout[f] /\ refresh'[f] = refresh[f]
           /\ timeout'[s.ext] = (timeout[s.ext] \/ ArmsTimeout(s))
           /\ s.who # "refresh" => refresh' = refresh
<1> DEFINE s == Head(sendq)
<1>1. s \in Sent /\ s = sendq[1] /\ 1 \in DOMAIN sendq /\ sendq' \in Seq(Sent)
  BY DEF Types, WiresOK, Written
<1>2. s.ext \in Extension /\ [cseq |-> s.cseq, binds |-> s.binds] \in Request
  BY <1>1 DEF Sent, Request
<1>3. requests' = [requests EXCEPT ![s.ext] = Append(@, [cseq |-> s.cseq, binds |-> s.binds])]
  BY DEF Written
<1>4. timeout' = [timeout EXCEPT ![s.ext] = @ \/ ArmsTimeout(s)]
  BY DEF Written
<1>5. refresh' = [refresh EXCEPT ![s.ext] = IF s.who = "refresh" THEN "none" ELSE @]
  BY DEF Written
<1>6. reader' \in Extension \cup {NoExtension} /\ todo' \subseteq Extension /\ unbound' \subseteq Extension
  BY <1>1, <1>2 DEF Written, Types, TasksOK
<1>7. UNCHANGED <<phase, flow, status, recovery, loose, answers, binding, tries>>
  BY DEF Written
<1>8. ArmsTimeout(s) \in BOOLEAN
  BY DEF ArmsTimeout
<1> DEFINE arms == ArmsTimeout(s)
<1> HIDE DEF s
<1>9. /\ requests' \in [Extension -> Seq(Request)]
      /\ requests'[s.ext] = Append(requests[s.ext], [cseq |-> s.cseq, binds |-> s.binds])
      /\ \A f \in Extension : f # s.ext => requests'[f] = requests[f]
  <2> DEFINE r == [cseq |-> s.cseq, binds |-> s.binds]
  <2>1. r \in Request /\ requests \in [Extension -> Seq(Request)]
    BY <1>2 DEF Types, WiresOK
  <2> HIDE DEF r
  <2>2. requests' = [requests EXCEPT ![s.ext] = Append(@, r)]
    BY <1>3 DEF r
  <2>3. Append(requests[s.ext], r) \in Seq(Request)
    BY <1>2, <2>1
  <2>4. QED BY <1>2, <2>1, <2>2, <2>3 DEF r
<1>10. /\ timeout' \in [Extension -> BOOLEAN] /\ timeout'[s.ext] = (timeout[s.ext] \/ arms)
       /\ \A f \in Extension : f # s.ext => timeout'[f] = timeout[f]
  <2> HIDE DEF arms
  <2>1. timeout' = [timeout EXCEPT ![s.ext] = @ \/ arms]
    BY <1>4 DEF arms
  <2> DEFINE either == timeout[s.ext] \/ arms
  <2>2. either \in BOOLEAN
    OBVIOUS
  <2>3. timeout' = [timeout EXCEPT ![s.ext] = either]
    BY <2>1
  <2> HIDE DEF either
  <2>4. timeout' \in [Extension -> BOOLEAN] /\ timeout'[s.ext] = either
        /\ \A f \in Extension : f # s.ext => timeout'[f] = timeout[f]
    BY <1>2, <2>2, <2>3 DEF Types, TasksOK
  <2>5. QED BY <2>4 DEF either
<1>11. /\ refresh' \in [Extension -> {"none", "armed", "sending"}]
       /\ \A f \in Extension : f # s.ext => refresh'[f] = refresh[f]
       /\ s.who # "refresh" => refresh' = refresh
  BY <1>2, <1>5 DEF Types, TasksOK
<1>12. TasksOK' /\ WiresOK'
  BY <1>1, <1>6, <1>7, <1>9, <1>10, <1>11 DEF Types, TasksOK, WiresOK
<1>13. QED BY <1>1, <1>9, <1>10, <1>11, <1>12 DEF s, arms

\* The registrar's processing of one REGISTER, flow by flow.
LEMMA Answering ==
    ASSUME Types, NEW e \in Extension, NEW kind \in Answer, NEW silent \in BOOLEAN,
           Registrar(e, kind, silent)
    PROVE  LET r == Head(requests[e]) IN
           /\ WiresOK' /\ requests[e] # <<>> /\ r \in Request
           /\ requests'[e] = Tail(requests[e])
           /\ answers'[e] = answers[e]
                \/ answers'[e] = Append(answers[e], [cseq |-> r.cseq, kind |-> kind])
           /\ binding'[e] = CASE kind = "ok" -> r.binds [] kind = "removed" -> FALSE
                               [] OTHER -> binding[e]
           /\ \A f \in Extension : f # e => /\ requests'[f] = requests[f]
                                            /\ answers'[f] = answers[f]
                                            /\ binding'[f] = binding[f]
<1> DEFINE r == Head(requests[e])
           a == [cseq |-> r.cseq, kind |-> kind]
           now == CASE kind = "ok" -> r.binds [] kind = "removed" -> FALSE
                    [] OTHER -> binding[e]
<1>1. /\ requests[e] \in Seq(Request) /\ answers[e] \in Seq(Response) /\ requests[e] # <<>>
      /\ binding[e] \in BOOLEAN
  BY DEF Types, WiresOK, Registrar
<1>2. r \in Request /\ Tail(requests[e]) \in Seq(Request)
  BY <1>1
<1>3. a \in Response /\ r.binds \in BOOLEAN
  BY <1>2 DEF Request, Response
<1>4. now \in BOOLEAN
  BY <1>1, <1>3
<1>5. /\ requests' = [requests EXCEPT ![e] = Tail(@)]
      /\ binding' = [binding EXCEPT ![e] = now]
      /\ answers' = answers \/ answers' = [answers EXCEPT ![e] = Append(@, a)]
      /\ UNCHANGED sendq
  BY DEF Registrar, Types, WiresOK
<1> HIDE DEF now, a, r
<1>6. Append(answers[e], a) \in Seq(Response)
  BY <1>1, <1>3
<1>7. /\ requests' \in [Extension -> Seq(Request)] /\ requests'[e] = Tail(requests[e])
      /\ \A f \in Extension : f # e => requests'[f] = requests[f]
  BY <1>2, <1>5 DEF Types, WiresOK
<1>8. /\ binding' \in [Extension -> BOOLEAN] /\ binding'[e] = now
      /\ \A f \in Extension : f # e => binding'[f] = binding[f]
  BY <1>4, <1>5 DEF Types, WiresOK
<1>9. /\ answers' \in [Extension -> Seq(Response)]
      /\ answers'[e] = answers[e] \/ answers'[e] = Append(answers[e], a)
      /\ \A f \in Extension : f # e => answers'[f] = answers[f]
  BY <1>5, <1>6 DEF Types, WiresOK
<1>10. QED BY <1>1, <1>2, <1>5, <1>7, <1>8, <1>9 DEF Types, WiresOK, now, a, r

\* aclose() loses the handle of a refresh that waits to send: it waits on as a loose one.
LEMMA Draining ==
    ASSUME Types, Drained
    PROVE  /\ sendq' \in Seq(Sent) /\ Thins /\ DOMAIN sendq' = DOMAIN sendq
           /\ \A i \in DOMAIN sendq :
                /\ sendq[i].who # "refresh" => sendq'[i] = sendq[i]
                /\ sendq'[i].who \in {sendq[i].who, "recovery"}
                /\ sendq'[i].ext = sendq[i].ext
<1> DEFINE loosened(s) == IF s.who = "refresh" THEN [s EXCEPT !.who = "recovery"] ELSE s
           at == [i \in DOMAIN sendq |-> i]
<1>1. sendq \in Seq(Sent) /\ sendq' = [i \in DOMAIN sendq |-> loosened(sendq[i])]
  BY DEF Types, WiresOK, Drained
<1>2. ASSUME NEW s \in Sent
      PROVE  /\ loosened(s) \in Sent /\ loosened(s).who \in {s.who, "recovery"}
             /\ s.who # "refresh" => loosened(s) = s
             /\ loosened(s).ext = s.ext /\ loosened(s).cseq = s.cseq /\ loosened(s).binds = s.binds
  <2>1. CASE s.who = "refresh"
    <3> DEFINE t == [s EXCEPT !.who = "recovery"]
    <3>1. t \in Sent /\ t.who = "recovery" /\ t.ext = s.ext /\ t.cseq = s.cseq
      BY DEF Sent, Sender
    <3>2. t.binds = s.binds
      BY DEF Sent
    <3> HIDE DEF t
    <3>3. loosened(s) = t
      BY <2>1 DEF t
    <3> HIDE DEF loosened
    <3>4. QED BY <2>1, <3>1, <3>2, <3>3
  <2>2. CASE s.who # "refresh"
    <3>1. loosened(s) = s
      BY <2>2
    <3> HIDE DEF loosened
    <3>2. QED BY <2>2, <3>1
  <2>3. QED BY <2>1, <2>2
<1>3. \A i \in DOMAIN sendq : sendq[i] \in Sent
  BY <1>1
<1> HIDE DEF loosened
<1>4. DOMAIN sendq' = DOMAIN sendq /\ \A i \in DOMAIN sendq : sendq'[i] = loosened(sendq[i])
  BY <1>1
<1>5. sendq' \in Seq(Sent)
  <2>1. DOMAIN sendq = 1 .. Len(sendq) /\ Len(sendq) \in Nat
    BY <1>1
  <2>2. \A i \in 1 .. Len(sendq) : loosened(sendq[i]) \in Sent
    BY <1>2, <1>3, <2>1
  <2>3. QED BY <1>1, <2>1, <2>2
<1>6. at \in [DOMAIN sendq' -> DOMAIN sendq] /\ \A i \in DOMAIN sendq : at[i] = i
  BY <1>4
<1> HIDE DEF at
<1>7. Thins
  BY <1>2, <1>3, <1>4, <1>6 DEF Thins
<1>8. QED BY <1>2, <1>3, <1>4, <1>5, <1>7

\* The initial state is well typed.
LEMMA InitTypes == Init => Types
<1> SUFFICES ASSUME Init PROVE Types
  OBVIOUS
<1>1. TasksOK
  BY DEF Init, TasksOK
<1>2. FlowsOK
  <2> DEFINE fresh == [cseq |-> 0, txn |-> NoTxn, bound |-> FALSE, retried |-> FALSE]
             new == [registered |-> FALSE, established |-> FALSE, deregistering |-> FALSE]
  <2>1. fresh \in FlowState /\ new \in Status
    BY DEF FlowState, NoTxn, Status
  <2>2. flow = [e \in Extension |-> fresh] /\ status = [e \in Extension |-> new]
    BY DEF Init
  <2> HIDE DEF fresh, new
  <2>3. QED BY <2>1, <2>2 DEF Init, FlowsOK
<1>3. WiresOK
  BY DEF Init, WiresOK
<1>4. QED BY <1>1, <1>2, <1>3 DEF Types

\* What a flow queues is a sender.
LEMMA SenderSent ==
    ASSUME Types, NEW e \in Extension, NEW who \in Sender, NEW b \in BOOLEAN
    PROVE  [who |-> who, ext |-> e, cseq |-> flow[e].cseq + 1, binds |-> b] \in Sent
<1>1. flow[e].cseq + 1 \in Nat
  BY DEF Types, FlowsOK, FlowState
<1> DEFINE c == flow[e].cseq + 1
<1> HIDE DEF c
<1>2. c \in Nat
  BY <1>1 DEF c
<1>3. [who |-> who, ext |-> e, cseq |-> c, binds |-> b] \in Sent
  BY <1>2 DEF Sent
<1>4. QED BY <1>3 DEF c

\* A new transaction is well typed.
LEMMA BeginKeepsTypes ==
    ASSUME Types, NEW e \in Extension, NEW who \in Sender, NEW b \in BOOLEAN,
           Begins(e, who, b), UNCHANGED <<status, requests, answers, binding>>, TasksOK'
    PROVE  Types'
<1>1. sendq' \in Seq(Sent)
  <2> DEFINE s == [who |-> who, ext |-> e, cseq |-> flow[e].cseq + 1, binds |-> b]
  <2>1. s \in Sent /\ sendq \in Seq(Sent)
    BY SenderSent DEF Types, WiresOK
  <2>2. sendq' = Append(sendq, s)
    BY Beginning
  <2> HIDE DEF s
  <2>3. QED BY <2>1, <2>2
<1>2. flow' \in [Extension -> FlowState] /\ tries' \in [Extension -> Nat]
  BY Beginning
<1>3. QED BY <1>1, <1>2 DEF Types, FlowsOK, WiresOK

\* Every step keeps the types.
LEMMA TypesStep == Types /\ [Next]_vars => Types'
<1> SUFFICES ASSUME Types, [Next]_vars PROVE Types'
  OBVIOUS
<1> USE DEF Types
<1>1. ASSUME NEW e \in Extension, StartFlow(e) PROVE Types'
  <2>1. Begins(e, "start", TRUE) /\ TasksOK' /\ UNCHANGED <<status, requests, answers, binding>>
    BY <1>1 DEF StartFlow, TasksOK, timers, network
  <2>2. QED BY <2>1, BeginKeepsTypes DEF Sender
<1>2. ASSUME NEW e \in Extension, TimeoutFires(e) PROVE Types'
  <2>1. Fails(e) /\ loose' \subseteq loose /\ timeout' = [timeout EXCEPT ![e] = FALSE]
    BY <1>2 DEF TimeoutFires, Wakes
  <2>2. TasksOK'
    BY <1>2, <2>1, Failing DEF TimeoutFires, TasksOK
  <2>3. QED BY <1>2, <2>1, <2>2, Failing DEF TimeoutFires, FlowsOK, WiresOK, network
<1>3. ASSUME NEW e \in Extension, RefreshFires(e) PROVE Types'
  <2>1. Begins(e, "refresh", TRUE) /\ TasksOK' /\ UNCHANGED <<status, requests, answers, binding>>
    BY <1>3 DEF RefreshFires, TasksOK, network
  <2>2. QED BY <2>1, BeginKeepsTypes DEF Sender
<1>4. ASSUME NEW e \in Extension, LooseRefreshFires(e) PROVE Types'
  <2>1. Begins(e, "recovery", TRUE) /\ TasksOK' /\ UNCHANGED <<status, requests, answers, binding>>
    BY <1>4 DEF LooseRefreshFires, TasksOK, network
  <2>2. QED BY <2>1, BeginKeepsTypes DEF Sender
<1>5. ASSUME NEW e \in Extension, RecoveryFires(e) PROVE Types'
  <2>1. Begins(e, "recovery", TRUE) /\ TasksOK' /\ UNCHANGED <<status, requests, answers, binding>>
    BY <1>5 DEF RecoveryFires, Wakes, TasksOK, network
  <2>2. QED BY <2>1, BeginKeepsTypes DEF Sender
<1>6. ASSUME NEW e \in Extension, Uncorrelated(e) PROVE Types'
  <2>1. Tail(answers[e]) \in Seq(Response)
    BY <1>6 DEF Uncorrelated, WiresOK
  <2>2. answers' \in [Extension -> Seq(Response)]
    BY <1>6, <2>1 DEF Uncorrelated, WiresOK
  <2>3. QED BY <1>6, <2>2 DEF Uncorrelated, WiresOK, FlowsOK, TasksOK, timers
<1>7. ASSUME NEW e \in Extension, Registered(e) PROVE Types'
  <2>1. status' \in [Extension -> Status]
    <3> DEFINE up == [status[e] EXCEPT !.registered = TRUE]
               next == [up EXCEPT !.established = TRUE]
    <3>1. up \in Status
      BY DEF FlowsOK, Status
    <3> HIDE DEF up
    <3>2. next \in Status
      BY <3>1 DEF Status
    <3>3. status' = [status EXCEPT ![e] = next]
      BY <1>7 DEF Registered, up, FlowsOK, Status
    <3> HIDE DEF next
    <3>4. QED BY <3>2, <3>3 DEF FlowsOK
  <2>2. Leaves(e, "refresh") /\ Moves(e, flow'[e])
    BY <1>7, Settling DEF Registered
  <2>3. sendq' \in Seq(Sent)
    BY <2>2, Remaining DEF Leaves, WiresOK
  <2>4. refresh' \in [Extension -> {"none", "armed", "sending"}]
    BY <1>7 DEF Registered, TasksOK
  <2>5. answers' \in [Extension -> Seq(Response)] /\ timeout' \in [Extension -> BOOLEAN]
    BY <1>7, Delivering DEF Registered
  <2>6. UNCHANGED <<phase, todo, recovery, loose, reader, requests, binding, tries, unbound>>
    BY <1>7 DEF Registered
  <2>7. QED BY <2>1, <2>2, <2>3, <2>4, <2>5, <2>6 DEF WiresOK, FlowsOK, TasksOK, Moves
<1>8. ASSUME NEW e \in Extension, BindingRemoved(e) \/ Rejected(e) PROVE Types'
  <2>1. Fails(e) /\ Moves(e, flow'[e]) /\ (\E kinds : Delivers(e, kinds))
    BY <1>8, Settling DEF BindingRemoved, Rejected
  <2>2. /\ answers' \in [Extension -> Seq(Response)] /\ timeout' \in [Extension -> BOOLEAN]
        /\ status' \in [Extension -> Status] /\ recovery' \in [Extension -> {"none", "armed"}]
    BY <2>1, Delivering, Failing
  <2>3. UNCHANGED <<phase, todo, refresh, loose, sendq, reader, requests, binding, tries, unbound>>
    BY <1>8 DEF BindingRemoved, Rejected
  <2>4. QED BY <2>1, <2>2, <2>3 DEF WiresOK, FlowsOK, TasksOK, Moves
<1>9. ASSUME NEW e \in Extension, Challenged(e) \/ RetryInterval(e) PROVE Types'
  <2>1. /\ \E kinds : Delivers(e, kinds)
        /\ reader' = e
        /\ UNCHANGED <<phase, todo, status, refresh, recovery, loose, requests, binding, unbound>>
    BY <1>9 DEF Challenged, RetryInterval
  <2>2. answers' \in [Extension -> Seq(Response)] /\ timeout' \in [Extension -> BOOLEAN]
    BY <2>1, Delivering
  <2>3. flow[e].txn.binds \in BOOLEAN /\ "reader" \in Sender
    BY DEF FlowsOK, FlowState, Sender
  <2>4. Moves(e, flow'[e]) /\ tries' \in [Extension -> Nat]
    BY <1>9, Challenging, Retrying
  <2>5. \E b \in BOOLEAN : sendq' = Append(sendq, [who |-> "reader", ext |-> e,
                                                   cseq |-> flow[e].cseq + 1, binds |-> b])
    BY <1>9, <2>3, Challenging, Retrying
  <2>6. sendq' \in Seq(Sent)
    BY <2>3, <2>5, SenderSent, Queueing DEF WiresOK
  <2>7. QED BY <2>1, <2>2, <2>4, <2>6 DEF WiresOK, FlowsOK, TasksOK, Moves
<1>10. ASSUME NEW e \in Extension, NEW kind \in Answer, NEW silent \in BOOLEAN,
              Registrar(e, kind, silent)
       PROVE  Types'
  <2>1. WiresOK'
    BY <1>10, Answering
  <2>2. UNCHANGED <<phase, todo, flow, status, timers, sendq, reader, tries, unbound>>
    BY <1>10 DEF Registrar
  <2>3. QED BY <2>1, <2>2 DEF FlowsOK, TasksOK, timers
<1>11. CASE Written
  BY <1>11, Writing DEF Written, FlowsOK
<1>12. CASE SendFails
  <2> DEFINE s == Head(sendq)
  <2>1. s \in Sent /\ s.ext \in Extension /\ sendq' \in Seq(Sent)
    <3>1. s \in Sent /\ sendq' \in Seq(Sent)
      BY <1>12 DEF SendFails, WiresOK
    <3>2. QED BY <3>1 DEF Sent
  <2>2. UNCHANGED <<phase, flow, timeout, loose, reader, requests, answers, binding, tries, unbound>>
    BY <1>12 DEF SendFails, network
  <2>3. CASE s.who = "close"
    BY <1>12, <2>1, <2>2, <2>3 DEF SendFails, WiresOK, FlowsOK, TasksOK
  <2>4. CASE s.who # "close"
    <3>1. Fails(s.ext) /\ todo' = todo
          /\ refresh' = [refresh EXCEPT ![s.ext] = IF s.who = "refresh" THEN "none" ELSE @]
      BY <1>12, <2>4 DEF SendFails
    <3> HIDE DEF s
    <3>2. /\ status' \in [Extension -> Status] /\ recovery' \in [Extension -> {"none", "armed"}]
          /\ refresh' \in [Extension -> {"none", "armed", "sending"}]
      BY <2>1, <3>1, Failing DEF TasksOK
    <3>3. QED BY <2>1, <2>2, <3>1, <3>2 DEF WiresOK, FlowsOK, TasksOK
  <2>5. QED BY <2>3, <2>4
<1>13. CASE Started
  BY <1>13 DEF Started, WiresOK, FlowsOK, TasksOK, timers, network
<1>14. CASE Close
  <2> DEFINE stay == {i \in DOMAIN sendq : sendq[i].who # "refresh"}
  <2>1. sendq' \in Seq(Sent)
    <3>1. Remain(stay) /\ stay \in SUBSET DOMAIN sendq
      BY <1>14 DEF Close
    <3> HIDE DEF stay
    <3>2. QED BY <3>1, Remaining DEF WiresOK
  <2>2. status' \in [Extension -> Status]
    <3> DEFINE marked(e) == [status[e] EXCEPT !.deregistering = @ \/ status[e].registered]
    <3>1. ASSUME NEW e \in Extension PROVE marked(e) \in Status
      <4> DEFINE mark == status[e].deregistering \/ status[e].registered
      <4>1. mark \in BOOLEAN
        OBVIOUS
      <4> HIDE DEF mark
      <4>2. marked(e) = [status[e] EXCEPT !.deregistering = mark]
        BY DEF mark, FlowsOK, Status
      <4>3. QED BY <4>1, <4>2 DEF FlowsOK, Status
    <3>2. status' = [e \in Extension |-> marked(e)]
      BY <1>14 DEF Close
    <3> HIDE DEF marked
    <3>3. QED BY <3>1, <3>2
  <2>3. QED BY <1>14, <2>1, <2>2 DEF Close, WiresOK, FlowsOK, TasksOK, network
<1>15. CASE Drained
  <2>1. sendq' \in Seq(Sent)
    BY <1>15, Draining
  <2>2. loose' \subseteq Extension \X Timer
    BY <1>15 DEF Drained, Timer
  <2>3. QED BY <1>15, <2>1, <2>2 DEF Drained, WiresOK, FlowsOK, TasksOK, network
<1>16. CASE Closed
  BY <1>16 DEF Closed, WiresOK, FlowsOK, TasksOK, timers, network
<1>17. ASSUME NEW e \in Extension, Deregister(e) PROVE Types'
  <2>1. Begins(e, "close", FALSE) /\ TasksOK' /\ UNCHANGED <<status, requests, answers, binding>>
    BY <1>17 DEF Deregister, TasksOK, timers, network
  <2>2. QED BY <2>1, BeginKeepsTypes DEF Sender
<1>18. ASSUME NEW e \in Extension, SkipDeregister(e) PROVE Types'
  BY <1>18 DEF SkipDeregister, WiresOK, FlowsOK, TasksOK, timers, network
<1>19. ASSUME NEW e \in Extension, DeregisterTimesOut(e) PROVE Types'
  <2>1. sendq' \in Seq(Sent)
    BY <1>19, Remaining DEF DeregisterTimesOut, Leaves, WiresOK
  <2>2. QED BY <1>19, <2>1 DEF DeregisterTimesOut, WiresOK, FlowsOK, TasksOK, timers, network
<1>20. CASE UNCHANGED vars
  BY <1>20 DEF vars, timers, network, WiresOK, FlowsOK, TasksOK
<1>21. QED
  BY <1>1, <1>2, <1>3, <1>4, <1>5, <1>6, <1>7, <1>8, <1>9, <1>10, <1>11, <1>12, <1>13, <1>14,
     <1>15, <1>16, <1>17, <1>18, <1>19, <1>20
     DEF Next, Responds, Closes

----
(* The pipeline of a flow's REGISTERs *)

Running == {"starting", "up"}

\* CSeqs go up to the flow's, which is that of its open transaction.
Numbered(e) ==
    /\ flow[e].txn # NoTxn => flow[e].txn.cseq = flow[e].cseq
    /\ \A i \in DOMAIN answers[e] : answers[e][i].cseq \in 1 .. flow[e].cseq
    /\ \A i \in DOMAIN requests[e] : requests[e][i].cseq \in 1 .. flow[e].cseq
    /\ \A i \in DOMAIN sendq : sendq[i].ext = e => sendq[i].cseq \in 1 .. flow[e].cseq

\* A flow's REGISTERs are in a line: their responses on the way back, the requests on the
\* way out, the senders that wait, in the order in which they were built.
Piped(e) ==
    /\ \A i, j \in DOMAIN answers[e] : i < j => answers[e][i].cseq < answers[e][j].cseq
    /\ \A i, j \in DOMAIN requests[e] : i < j => requests[e][i].cseq < requests[e][j].cseq
    /\ \A i, j \in DOMAIN sendq :
         i < j /\ sendq[i].ext = e /\ sendq[j].ext = e => sendq[i].cseq < sendq[j].cseq
    /\ \A i \in DOMAIN answers[e], j \in DOMAIN requests[e] :
         answers[e][i].cseq < requests[e][j].cseq
    /\ \A i \in DOMAIN answers[e], j \in DOMAIN sendq :
         sendq[j].ext = e => answers[e][i].cseq < sendq[j].cseq
    /\ \A i \in DOMAIN requests[e], j \in DOMAIN sendq :
         sendq[j].ext = e => requests[e][i].cseq < sendq[j].cseq

\* Until aclose() every REGISTER asks for the binding, and if the latest was granted the
\* registrar has it: nothing that it processed since can have removed it.
Binds(e) ==
    phase \in Running =>
        /\ flow[e].txn # NoTxn => flow[e].txn.binds
        /\ \A i \in DOMAIN sendq : sendq[i].ext = e => sendq[i].binds
        /\ \A i \in DOMAIN requests[e] : requests[e][i].binds
        /\ \A i \in DOMAIN answers[e] :
             answers[e][i].cseq = flow[e].cseq /\ answers[e][i].kind = "ok" => binding[e]

Pipeline == \A e \in Extension : Numbered(e) /\ Piped(e) /\ Binds(e)

\* The steps of the line: a response is read,
Pops(e) ==
    /\ answers[e] # <<>> /\ answers'[e] = Tail(answers[e])
    /\ \A f \in Extension : f # e => answers'[f] = answers[f]

\* a REGISTER is built, at the end of the line, with the next CSeq,
Opens(e) ==
    /\ Moves(e, flow'[e])
    /\ flow'[e].cseq = flow[e].cseq + 1 /\ flow'[e].txn.cseq = flow[e].cseq + 1
    /\ flow'[e].txn.binds \in BOOLEAN
    /\ phase \in Running => flow'[e].txn.binds
    /\ \E who \in Sender :
         sendq' = Append(sendq, [who |-> who, ext |-> e, cseq |-> flow[e].cseq + 1,
                                 binds |-> flow'[e].txn.binds])
    /\ UNCHANGED answers \/ Pops(e)
    /\ UNCHANGED <<phase, requests, binding>>

\* a response is read and nothing is built,
Settles(e) ==
    /\ Pops(e) /\ Thins
    /\ Moves(e, flow'[e]) /\ flow'[e].cseq = flow[e].cseq /\ flow'[e].txn \in {flow[e].txn, NoTxn}
    /\ UNCHANGED <<phase, requests, binding>>

\* or no response is read and nothing is built.
Quiet ==
    /\ Thins /\ UNCHANGED <<flow, requests, answers, binding>>
    /\ phase' \in Running => phase \in Running

\* A response that correlates is that of the latest REGISTER (_check_cseq).
LEMMA Correlating ==
    ASSUME Types, Pipeline, NEW e \in Extension, NEW kinds, Delivers(e, kinds)
    PROVE  /\ Pops(e) /\ flow[e].txn # NoTxn
           /\ answers[e][1] = Head(answers[e]) /\ 1 \in DOMAIN answers[e]
           /\ answers[e][1].cseq = flow[e].cseq
<1>1. answers[e] # <<>> /\ answers[e] \in Seq(Response) /\ Head(answers[e]).cseq = flow[e].txn.cseq
  BY Delivering DEF Types, WiresOK
<1>2. answers[e][1] = Head(answers[e]) /\ 1 \in DOMAIN answers[e]
  BY <1>1
<1>3. answers[e][1].cseq \in 1 .. flow[e].cseq /\ flow[e].cseq \in Nat
  BY <1>2 DEF Pipeline, Numbered, Types, FlowsOK, FlowState
<1>4. flow[e].txn # NoTxn
  BY <1>1, <1>2, <1>3 DEF NoTxn
<1>5. flow[e].txn.cseq = flow[e].cseq
  BY <1>4 DEF Pipeline, Numbered
<1>6. Pops(e)
  BY Delivering DEF Pops
<1>7. QED BY <1>1, <1>2, <1>4, <1>5, <1>6

\* start(), deregister() and the timers open a transaction.
LEMMA BeginOpens ==
    ASSUME Types, NEW e \in Extension, NEW who \in Sender, NEW b \in BOOLEAN,
           Begins(e, who, b), phase \in Running => b,
           UNCHANGED <<phase, requests, answers, binding>>
    PROVE  Opens(e)
BY Beginning DEF Opens, Moves

\* What any step does to the lines of the flows.
LEMMA PipelineMoves ==
    ASSUME Types, Pipeline, [Next]_vars
    PROVE  \/ \E e \in Extension : Opens(e) \/ Settles(e)
           \/ Written \/ Quiet
           \/ \E e \in Extension, kind \in Answer, silent \in BOOLEAN : Registrar(e, kind, silent)
<1>0. sendq \in Seq(Sent)
  BY DEF Types, WiresOK
<1>1. ASSUME NEW e \in Extension, StartFlow(e) \/ RefreshFires(e) \/ LooseRefreshFires(e)
                                  \/ RecoveryFires(e)
      PROVE  Opens(e)
  BY <1>1, BeginOpens DEF StartFlow, RefreshFires, LooseRefreshFires, RecoveryFires, Sender,
                          network, timers
<1>2. ASSUME NEW e \in Extension, Deregister(e) PROVE Opens(e)
  <2>1. Begins(e, "close", FALSE) /\ phase \notin Running
        /\ UNCHANGED <<phase, requests, answers, binding>>
    BY <1>2 DEF Deregister, Running, network
  <2>2. QED BY <2>1, BeginOpens DEF Sender
<1>3. ASSUME NEW e \in Extension, Challenged(e) \/ RetryInterval(e) PROVE Opens(e)
  <2>1. \E kinds : Delivers(e, kinds)
    BY <1>3 DEF Challenged, RetryInterval
  <2>2. Pops(e) /\ flow[e].txn # NoTxn
    BY <2>1, Correlating
  <2>3. phase \in Running => flow[e].txn.binds
    BY <2>2 DEF Pipeline, Binds
  <2>4. UNCHANGED <<phase, requests, binding>>
    BY <1>3 DEF Challenged, RetryInterval
  <2>5. flow'[e].txn.binds = flow[e].txn.binds /\ flow[e].txn.binds \in BOOLEAN
    BY <1>3, Challenging, Retrying DEF Types, FlowsOK, FlowState
  <2>6. /\ Moves(e, flow'[e])
        /\ flow'[e].cseq = flow[e].cseq + 1 /\ flow'[e].txn.cseq = flow[e].cseq + 1
        /\ sendq' = Append(sendq, [who |-> "reader", ext |-> e, cseq |-> flow[e].cseq + 1,
                                   binds |-> flow'[e].txn.binds])
    BY <1>3, <2>5, Challenging, Retrying
  <2>7. "reader" \in Sender
    BY DEF Sender
  <2>8. phase \in Running => flow'[e].txn.binds
    BY <2>3, <2>5
  <2>9. QED BY <2>2, <2>4, <2>5, <2>6, <2>7, <2>8 DEF Opens
<1>4. ASSUME NEW e \in Extension, Registered(e) \/ BindingRemoved(e) \/ Rejected(e)
      PROVE  Settles(e)
  <2>1. Pops(e)
    BY <1>4, Settling, Correlating
  <2>2. Thins
    <3>1. CASE Registered(e)
      BY <1>0, <3>1, Remaining DEF Registered, Leaves
    <3>2. CASE BindingRemoved(e) \/ Rejected(e)
      BY <1>0, <3>2, QueueKept DEF BindingRemoved, Rejected
    <3>3. QED BY <1>4, <3>1, <3>2
  <2>3. UNCHANGED <<phase, requests, binding>>
    BY <1>4 DEF Registered, BindingRemoved, Rejected
  <2>4. QED BY <1>4, <2>1, <2>2, <2>3, Settling DEF Settles
<1>5. ASSUME NEW e \in Extension, Uncorrelated(e) PROVE Settles(e)
  <2>1. Pops(e)
    BY <1>5 DEF Uncorrelated, Pops, Types, WiresOK
  <2>2. UNCHANGED <<phase, flow, sendq, requests, binding>>
    BY <1>5 DEF Uncorrelated
  <2>3. QED BY <1>0, <2>1, <2>2, QueueKept DEF Settles, Moves, Types, FlowsOK
<1>6. ASSUME NEW e \in Extension, TimeoutFires(e) \/ SkipDeregister(e) PROVE Quiet
  BY <1>0, <1>6, QueueKept DEF TimeoutFires, SkipDeregister, Quiet, network
<1>7. ASSUME NEW e \in Extension, DeregisterTimesOut(e) PROVE Quiet
  BY <1>0, <1>7, Remaining DEF DeregisterTimesOut, Leaves, Quiet, network
<1>8. CASE Started \/ Closed \/ UNCHANGED vars
  BY <1>0, <1>8, QueueKept DEF Started, Closed, vars, Quiet, network, Running
<1>9. CASE SendFails
  BY <1>0, <1>9, HeadLeaves DEF SendFails, Quiet, network
<1>10. CASE Close
  <2> DEFINE stay == {i \in DOMAIN sendq : sendq[i].who # "refresh"}
  <2>1. Remain(stay) /\ stay \in SUBSET DOMAIN sendq
    BY <1>10 DEF Close
  <2> HIDE DEF stay
  <2>2. Thins
    BY <1>0, <2>1, Remaining
  <2>3. QED BY <1>10, <2>2 DEF Close, Quiet, network, Running
<1>11. CASE Drained
  BY <1>11, Draining DEF Drained, Quiet, network, Running
<1>12. QED
  BY <1>1, <1>2, <1>3, <1>4, <1>5, <1>6, <1>7, <1>8, <1>9, <1>10, <1>11
     DEF Next, Responds, Closes

\* Thins, as far as one flow is concerned.
ThinsFor(f) ==
    \E at \in [DOMAIN sendq' -> Int] :
        /\ \A n \in DOMAIN sendq' : sendq'[n].ext = f =>
             /\ at[n] \in DOMAIN sendq /\ sendq[at[n]].ext = f
             /\ sendq'[n].cseq = sendq[at[n]].cseq
             /\ sendq'[n].binds = sendq[at[n]].binds
        /\ \A m, n \in DOMAIN sendq' :
             m < n /\ sendq'[m].ext = f /\ sendq'[n].ext = f => at[m] < at[n]

\* The responses that are left of a flow's, in their order.
Fewer(f) ==
    \E at \in [DOMAIN answers'[f] -> DOMAIN answers[f]] :
        /\ \A m, n \in DOMAIN answers'[f] : m < n => at[m] < at[n]
        /\ \A n \in DOMAIN answers'[f] : answers'[f][n] = answers[f][at[n]]

\* Thins concerns every flow.
LEMMA ThinsForAll ==
    ASSUME sendq \in Seq(Sent), Thins, NEW f \in Extension
    PROVE  ThinsFor(f)
<1>1. PICK at \in [DOMAIN sendq' -> DOMAIN sendq] :
        /\ \A m, n \in DOMAIN sendq' : m < n => at[m] < at[n]
        /\ \A n \in DOMAIN sendq' :
             /\ sendq'[n].ext = sendq[at[n]].ext
             /\ sendq'[n].cseq = sendq[at[n]].cseq
             /\ sendq'[n].binds = sendq[at[n]].binds
  BY DEF Thins
<1>2. at \in [DOMAIN sendq' -> Int]
  OBVIOUS
<1>3. QED BY <1>1, <1>2 DEF ThinsFor

\* Reading one response, or none, leaves fewer.
LEMMA FewerAnswers ==
    ASSUME Types, NEW f \in Extension,
           answers'[f] = answers[f] \/ (answers[f] # <<>> /\ answers'[f] = Tail(answers[f]))
    PROVE  Fewer(f)
<1>1. answers[f] \in Seq(Response)
  BY DEF Types, WiresOK
<1>2. CASE answers'[f] = answers[f]
  <2> DEFINE at == [n \in DOMAIN answers[f] |-> n]
  <2>1. at \in [DOMAIN answers'[f] -> DOMAIN answers[f]] /\ \A n \in DOMAIN answers[f] : at[n] = n
    BY <1>2
  <2> HIDE DEF at
  <2>2. QED BY <1>2, <2>1 DEF Fewer
<1>3. CASE answers[f] # <<>> /\ answers'[f] = Tail(answers[f])
  <2> DEFINE q == answers[f]
             at == [n \in DOMAIN Tail(q) |-> n + 1]
  <2>1. at \in [DOMAIN Tail(q) -> DOMAIN q] /\ \A n \in DOMAIN Tail(q) : at[n] = n + 1
    BY <1>1, <1>3
  <2>2. \A n \in DOMAIN Tail(q) : Tail(q)[n] = q[n + 1] /\ n \in Nat
    BY <1>1, <1>3
  <2> HIDE DEF at, q
  <2>3. answers'[f] = Tail(q) /\ answers[f] = q
    BY <1>3 DEF q
  <2>4. \A m, n \in DOMAIN Tail(q) : m < n => at[m] < at[n]
    BY <2>1, <2>2
  <2>5. \A n \in DOMAIN Tail(q) : Tail(q)[n] = q[at[n]]
    BY <2>1, <2>2
  <2>6. QED BY <2>1, <2>3, <2>4, <2>5 DEF Fewer
<1>4. QED BY <1>2, <1>3

\* A line that only gets shorter stays one.
LEMMA Shrinking ==
    ASSUME Types, Types', NEW f \in Extension, Numbered(f), Piped(f), Binds(f),
           ThinsFor(f), Fewer(f), requests'[f] = requests[f], binding'[f] = binding[f],
           flow'[f].cseq = flow[f].cseq, flow'[f].txn \in {flow[f].txn, NoTxn},
           phase' \in Running => phase \in Running
    PROVE  Numbered(f)' /\ Piped(f)' /\ Binds(f)'
<1>1. PICK at \in [DOMAIN sendq' -> Int] :
        /\ \A n \in DOMAIN sendq' : sendq'[n].ext = f =>
             /\ at[n] \in DOMAIN sendq /\ sendq[at[n]].ext = f
             /\ sendq'[n].cseq = sendq[at[n]].cseq
             /\ sendq'[n].binds = sendq[at[n]].binds
        /\ \A m, n \in DOMAIN sendq' :
             m < n /\ sendq'[m].ext = f /\ sendq'[n].ext = f => at[m] < at[n]
  BY DEF ThinsFor
<1>2. PICK from \in [DOMAIN answers'[f] -> DOMAIN answers[f]] :
        /\ \A m, n \in DOMAIN answers'[f] : m < n => from[m] < from[n]
        /\ \A n \in DOMAIN answers'[f] : answers'[f][n] = answers[f][from[n]]
  BY DEF Fewer
<1>3. Numbered(f)'
  BY <1>1, <1>2 DEF Numbered
<1>4. Piped(f)'
  BY <1>1, <1>2 DEF Piped
<1>5. Binds(f)'
  BY <1>1, <1>2 DEF Binds
<1>6. QED BY <1>3, <1>4, <1>5

\* A line with a new REGISTER at its end is one.
LEMMA Opening ==
    ASSUME Types, Types', NEW f \in Extension, Numbered(f), Piped(f), Binds(f), Opens(f)
    PROVE  Numbered(f)' /\ Piped(f)' /\ Binds(f)'
<1>1. Fewer(f)
  BY FewerAnswers DEF Opens, Pops
<1>2. PICK from \in [DOMAIN answers'[f] -> DOMAIN answers[f]] :
        /\ \A m, n \in DOMAIN answers'[f] : m < n => from[m] < from[n]
        /\ \A n \in DOMAIN answers'[f] : answers'[f][n] = answers[f][from[n]]
  BY <1>1 DEF Fewer
<1> DEFINE c == flow[f].cseq
           new == Len(sendq')
<1>3. /\ c \in Nat /\ flow'[f].cseq = c + 1 /\ flow'[f].txn.cseq = c + 1
      /\ requests' = requests
  BY DEF Opens, Types, FlowsOK, FlowState
<1>4. /\ sendq'[new].ext = f /\ sendq'[new].cseq = c + 1
      /\ sendq'[new].binds = flow'[f].txn.binds
      /\ new \in DOMAIN sendq'
      /\ \A n \in DOMAIN sendq' : n \in DOMAIN sendq \/ n = new
      /\ \A i \in DOMAIN sendq : sendq'[i] = sendq[i] /\ i < new
  <2>1. PICK who \in Sender :
          sendq' = Append(sendq, [who |-> who, ext |-> f, cseq |-> c + 1,
                                  binds |-> flow'[f].txn.binds])
    BY DEF Opens
  <2>2. flow'[f].txn.binds \in BOOLEAN
    BY DEF Opens
  <2> DEFINE b == flow'[f].txn.binds
             s == [who |-> who, ext |-> f, cseq |-> c + 1, binds |-> b]
  <2>3. s \in Sent /\ sendq \in Seq(Sent)
    BY <2>2, SenderSent DEF Types, WiresOK
  <2>4. s.ext = f /\ s.cseq = c + 1 /\ s.binds = b
    OBVIOUS
  <2> HIDE DEF s
  <2>5. sendq' = Append(sendq, s)
    BY <2>1 DEF s
  <2>6. QED BY <2>3, <2>4, <2>5, Queueing
<1>5. \A i, j \in DOMAIN sendq' : i \in Nat /\ j \in Nat /\ (i < j /\ j \in DOMAIN sendq => i \in DOMAIN sendq)
  <2>1. sendq \in Seq(Sent) /\ sendq' \in Seq(Sent)
    BY DEF Types, WiresOK
  <2>2. QED BY <1>4, <2>1
<1> HIDE DEF new
<1>6. Numbered(f)'
  BY <1>2, <1>3, <1>4 DEF Numbered
<1>7. Piped(f)'
  <2>1. \A i, j \in DOMAIN answers'[f] : i < j => answers'[f][i].cseq < answers'[f][j].cseq
    BY <1>2 DEF Piped
  <2>2. /\ \A i, j \in DOMAIN requests'[f] : i < j => requests'[f][i].cseq < requests'[f][j].cseq
        /\ \A i \in DOMAIN answers'[f], j \in DOMAIN requests'[f] :
             answers'[f][i].cseq < requests'[f][j].cseq
    BY <1>2, <1>3 DEF Piped
  <2>3. \A i, j \in DOMAIN sendq' :
          i < j /\ sendq'[i].ext = f /\ sendq'[j].ext = f => sendq'[i].cseq < sendq'[j].cseq
    <3> SUFFICES ASSUME NEW i \in DOMAIN sendq', NEW j \in DOMAIN sendq',
                        i < j, sendq'[i].ext = f, sendq'[j].ext = f
                 PROVE  sendq'[i].cseq < sendq'[j].cseq
      OBVIOUS
    <3>1. CASE j \in DOMAIN sendq
      BY <1>4, <1>5, <3>1 DEF Piped
    <3>2. CASE j = new
      <4>1. i \in DOMAIN sendq
        BY <1>4, <1>5, <3>2
      <4>2. sendq[i].cseq \in 1 .. c /\ sendq'[i] = sendq[i]
        BY <1>4, <4>1 DEF Numbered
      <4>3. QED BY <1>3, <1>4, <3>2, <4>2
    <3>3. QED BY <1>4, <3>1, <3>2
  <2>4. \A i \in DOMAIN answers'[f], j \in DOMAIN sendq' :
          sendq'[j].ext = f => answers'[f][i].cseq < sendq'[j].cseq
    <3> SUFFICES ASSUME NEW i \in DOMAIN answers'[f], NEW j \in DOMAIN sendq', sendq'[j].ext = f
                 PROVE  answers'[f][i].cseq < sendq'[j].cseq
      OBVIOUS
    <3>1. answers'[f][i].cseq \in 1 .. c
      BY <1>2 DEF Numbered
    <3>2. CASE j \in DOMAIN sendq
      BY <1>2, <1>4, <3>2 DEF Piped
    <3>3. CASE j = new
      BY <1>3, <1>4, <3>1, <3>3
    <3>4. QED BY <1>4, <3>2, <3>3
  <2>5. \A i \in DOMAIN requests'[f], j \in DOMAIN sendq' :
          sendq'[j].ext = f => requests'[f][i].cseq < sendq'[j].cseq
    <3> SUFFICES ASSUME NEW i \in DOMAIN requests[f], NEW j \in DOMAIN sendq', sendq'[j].ext = f
                 PROVE  requests[f][i].cseq < sendq'[j].cseq
      BY <1>3
    <3>1. requests[f][i].cseq \in 1 .. c
      BY DEF Numbered
    <3>2. CASE j \in DOMAIN sendq
      BY <1>4, <3>2 DEF Piped
    <3>3. CASE j = new
      BY <1>3, <1>4, <3>1, <3>3
    <3>4. QED BY <1>4, <3>2, <3>3
  <2>6. QED BY <2>1, <2>2, <2>3, <2>4, <2>5 DEF Piped
<1>8. Binds(f)'
  <2> SUFFICES ASSUME phase \in Running, phase' = phase PROVE Binds(f)'
    BY DEF Binds, Opens
  <2>1. flow'[f].txn.binds
    BY DEF Opens
  <2>2. \A i \in DOMAIN sendq' : sendq'[i].ext = f => sendq'[i].binds
    BY <1>4, <2>1 DEF Binds
  <2>3. \A i \in DOMAIN requests'[f] : requests'[f][i].binds
    BY <1>3 DEF Binds
  <2>4. \A i \in DOMAIN answers'[f] : answers'[f][i].cseq # flow'[f].cseq
    BY <1>2, <1>3 DEF Numbered
  <2>5. QED BY <2>1, <2>2, <2>3, <2>4 DEF Binds
<1>9. QED BY <1>6, <1>7, <1>8

\* A REGISTER that is written goes from the head of the queue to the end of the requests.
LEMMA WritingOwn ==
    ASSUME Types, Types', Written, NEW f \in Extension, f = Head(sendq).ext,
           Numbered(f), Piped(f), Binds(f)
    PROVE  Numbered(f)' /\ Piped(f)' /\ Binds(f)'
<1> DEFINE s == sendq[1]
           r == [cseq |-> s.cseq, binds |-> s.binds]
           last == Len(requests'[f])
<1>1. /\ sendq # <<>> /\ sendq' = Tail(sendq) /\ sendq \in Seq(Sent)
      /\ UNCHANGED <<phase, flow, answers, binding>>
  BY DEF Written, Types, WiresOK
<1>2. s \in Sent /\ s = Head(sendq) /\ 1 \in DOMAIN sendq
  BY Writing
<1>3. s.ext = f /\ s.cseq \in Nat /\ s.binds \in BOOLEAN
  BY <1>2 DEF Sent
<1>4. requests'[f] = Append(requests[f], r) /\ requests[f] \in Seq(Request)
  BY <1>2, <1>3, Writing DEF Types, WiresOK
<1>5. r.cseq = s.cseq /\ r.binds = s.binds
  OBVIOUS
<1> HIDE DEF r
<1>6. /\ last \in DOMAIN requests'[f] /\ requests'[f][last] = r
      /\ \A i \in DOMAIN requests'[f] : i \in DOMAIN requests[f] \/ i = last
      /\ \A i \in DOMAIN requests[f] : requests'[f][i] = requests[f][i] /\ i < last
      /\ \A i \in DOMAIN requests'[f] : i \in Nat
      /\ last \in Nat
      /\ \A i, j \in DOMAIN requests'[f] : i < j => i \in DOMAIN requests[f]
  BY <1>4
<1>7. /\ \A n \in DOMAIN sendq' : sendq'[n] = sendq[n + 1] /\ n + 1 \in DOMAIN sendq
      /\ \A n \in DOMAIN sendq' : n \in Nat /\ 1 < n + 1
      /\ \A i, j \in DOMAIN sendq' : i < j => i + 1 < j + 1
  BY <1>1
<1> HIDE DEF last
<1>8. Numbered(f)'
  BY <1>1, <1>2, <1>3, <1>5, <1>6, <1>7 DEF Numbered
<1>9. Piped(f)'
  <2>1. \A i, j \in DOMAIN answers'[f] : i < j => answers'[f][i].cseq < answers'[f][j].cseq
    BY <1>1 DEF Piped
  <2>2. \A i, j \in DOMAIN requests'[f] : i < j => requests'[f][i].cseq < requests'[f][j].cseq
    BY <1>2, <1>3, <1>5, <1>6 DEF Piped
  <2>3. \A i, j \in DOMAIN sendq' :
          i < j /\ sendq'[i].ext = f /\ sendq'[j].ext = f => sendq'[i].cseq < sendq'[j].cseq
    BY <1>7 DEF Piped
  <2>4. \A i \in DOMAIN answers'[f], j \in DOMAIN requests'[f] :
          answers'[f][i].cseq < requests'[f][j].cseq
    BY <1>1, <1>2, <1>3, <1>5, <1>6 DEF Piped
  <2>5. \A i \in DOMAIN answers'[f], j \in DOMAIN sendq' :
          sendq'[j].ext = f => answers'[f][i].cseq < sendq'[j].cseq
    BY <1>1, <1>7 DEF Piped
  <2>6. \A i \in DOMAIN requests'[f], j \in DOMAIN sendq' :
          sendq'[j].ext = f => requests'[f][i].cseq < sendq'[j].cseq
    <3> SUFFICES ASSUME NEW i \in DOMAIN requests'[f], NEW j \in DOMAIN sendq', sendq'[j].ext = f
                 PROVE  requests'[f][i].cseq < sendq'[j].cseq
      OBVIOUS
    <3>1. sendq'[j] = sendq[j + 1] /\ j + 1 \in DOMAIN sendq /\ 1 < j + 1 /\ sendq[j + 1].ext = f
      BY <1>7
    <3>2. CASE i \in DOMAIN requests[f]
      BY <1>6, <3>1, <3>2 DEF Piped
    <3>3. CASE i = last
      BY <1>2, <1>3, <1>5, <1>6, <3>1, <3>3 DEF Piped
    <3>4. QED BY <1>6, <3>2, <3>3
  <2>7. QED BY <2>1, <2>2, <2>3, <2>4, <2>5, <2>6 DEF Piped
<1>10. Binds(f)'
  <2> SUFFICES ASSUME phase \in Running PROVE Binds(f)'
    BY <1>1 DEF Binds
  <2>1. \A i \in DOMAIN sendq' : sendq'[i].ext = f => sendq'[i].binds
    BY <1>7 DEF Binds
  <2>2. \A i \in DOMAIN requests'[f] : requests'[f][i].binds
    BY <1>2, <1>3, <1>5, <1>6 DEF Binds
  <2>3. QED BY <1>1, <2>1, <2>2 DEF Binds
<1>11. QED BY <1>8, <1>9, <1>10

\* A REGISTER that is processed goes from the head of the requests to the end of the
\* responses, or is never answered.
LEMMA AnsweringOwn ==
    ASSUME Types, Types', NEW f \in Extension, NEW kind \in Answer, NEW silent \in BOOLEAN,
           Registrar(f, kind, silent), Numbered(f), Piped(f), Binds(f)
    PROVE  Numbered(f)' /\ Piped(f)' /\ Binds(f)'
<1> DEFINE q == requests[f]
           r == q[1]
           a == [cseq |-> r.cseq, kind |-> kind]
           last == Len(answers'[f])
<1>1. q # <<>> /\ q \in Seq(Request) /\ requests'[f] = Tail(q) /\ r = Head(q)
  <2>1. q # <<>> /\ requests'[f] = Tail(q)
    BY Answering
  <2>2. q \in Seq(Request)
    BY DEF Types, WiresOK
  <2>3. QED BY <2>1, <2>2
<1>2. answers'[f] = answers[f] \/ answers'[f] = Append(answers[f], a)
  BY <1>1, Answering
<1>3. /\ UNCHANGED <<phase, flow, sendq>>
      /\ kind = "ok" => binding'[f] = r.binds
  <2>1. UNCHANGED <<phase, flow, sendq>>
    BY DEF Registrar
  <2>2. kind = "ok" => binding'[f] = Head(q).binds
    BY Answering
  <2>3. QED BY <1>1, <2>1, <2>2
<1>4. r \in Request /\ 1 \in DOMAIN q /\ r.cseq \in Nat /\ r.binds \in BOOLEAN
  <2>1. r \in Request /\ 1 \in DOMAIN q
    BY <1>1
  <2>2. QED BY <2>1 DEF Request
<1>5. a.cseq = r.cseq /\ a.kind = kind
  OBVIOUS
<1>6. /\ \A n \in DOMAIN requests'[f] :
           requests'[f][n] = q[n + 1] /\ n + 1 \in DOMAIN q /\ n \in Nat /\ 1 < n + 1
      /\ \A i, j \in DOMAIN requests'[f] : i < j => i + 1 < j + 1
  BY <1>1
<1> HIDE DEF a
<1>7. /\ \A i \in DOMAIN answers'[f] :
           \/ i \in DOMAIN answers[f] /\ answers'[f][i] = answers[f][i]
           \/ i = last /\ answers'[f][i] = a
      /\ \A i, j \in DOMAIN answers'[f] : i < j => i \in DOMAIN answers[f] /\ answers'[f][i] = answers[f][i]
  <2>1. answers[f] \in Seq(Response)
    BY DEF Types, WiresOK
  <2>2. CASE answers'[f] = answers[f]
    BY <2>1, <2>2
  <2>3. CASE answers'[f] = Append(answers[f], a)
    BY <2>1, <2>3
  <2>4. QED BY <1>2, <2>2, <2>3
<1>8. flow[f].cseq \in Nat /\ q = requests[f]
  BY DEF Types, FlowsOK, FlowState
<1> HIDE DEF last, q
<1>9. r.cseq \in 1 .. flow[f].cseq /\ \A i \in DOMAIN answers[f] : answers[f][i].cseq < r.cseq
  BY <1>4, <1>8 DEF Numbered, Piped
<1>10. Numbered(f)'
  BY <1>3, <1>5, <1>6, <1>7, <1>8, <1>9 DEF Numbered
<1>11. Piped(f)'
  <2>1. \A i, j \in DOMAIN answers'[f] : i < j => answers'[f][i].cseq < answers'[f][j].cseq
    BY <1>5, <1>7, <1>9 DEF Piped
  <2>2. \A i, j \in DOMAIN requests'[f] : i < j => requests'[f][i].cseq < requests'[f][j].cseq
    BY <1>6, <1>8 DEF Piped
  <2>3. \A i, j \in DOMAIN sendq' :
          i < j /\ sendq'[i].ext = f /\ sendq'[j].ext = f => sendq'[i].cseq < sendq'[j].cseq
    BY <1>3 DEF Piped
  <2>4. \A i \in DOMAIN answers'[f], j \in DOMAIN requests'[f] :
          answers'[f][i].cseq < requests'[f][j].cseq
    BY <1>4, <1>5, <1>6, <1>7, <1>8 DEF Piped
  <2>5. \A i \in DOMAIN answers'[f], j \in DOMAIN sendq' :
          sendq'[j].ext = f => answers'[f][i].cseq < sendq'[j].cseq
    BY <1>3, <1>4, <1>5, <1>7, <1>8 DEF Piped
  <2>6. \A i \in DOMAIN requests'[f], j \in DOMAIN sendq' :
          sendq'[j].ext = f => requests'[f][i].cseq < sendq'[j].cseq
    BY <1>3, <1>6, <1>8 DEF Piped
  <2>7. QED BY <2>1, <2>2, <2>3, <2>4, <2>5, <2>6 DEF Piped
<1>12. Binds(f)'
  <2> SUFFICES ASSUME phase \in Running PROVE Binds(f)'
    BY <1>3 DEF Binds
  <2>1. \A i \in DOMAIN requests'[f] : requests'[f][i].binds
    BY <1>6, <1>8 DEF Binds
  <2>2. ASSUME NEW i \in DOMAIN answers'[f],
               answers'[f][i].cseq = flow[f].cseq, answers'[f][i].kind = "ok"
        PROVE  binding'[f]
    <3>1. answers'[f][i] = a
      BY <1>4, <1>7, <1>8, <1>9, <2>2
    <3>2. r.binds
      BY <1>4, <1>8 DEF Binds
    <3>3. QED BY <1>3, <1>5, <2>2, <3>1, <3>2
  <2>3. QED BY <1>3, <2>1, <2>2 DEF Binds
<1>13. QED BY <1>10, <1>11, <1>12

\* Every step keeps every flow's line.
LEMMA PipelineStep ==
    ASSUME Types, Types', Pipeline, [Next]_vars
    PROVE  Pipeline'
<1> SUFFICES ASSUME NEW f \in Extension PROVE Numbered(f)' /\ Piped(f)' /\ Binds(f)'
  BY DEF Pipeline
<1>0. Numbered(f) /\ Piped(f) /\ Binds(f) /\ sendq \in Seq(Sent)
  BY DEF Pipeline, Types, WiresOK
<1>1. ASSUME NEW e \in Extension, Opens(e) PROVE Numbered(f)' /\ Piped(f)' /\ Binds(f)'
  <2>1. CASE e = f
    BY <1>0, <1>1, <2>1, Opening
  <2>2. CASE e # f
    <3>1. ThinsFor(f)
      <4>1. PICK who \in Sender :
              sendq' = Append(sendq, [who |-> who, ext |-> e, cseq |-> flow[e].cseq + 1,
                                      binds |-> flow'[e].txn.binds])
        BY <1>1 DEF Opens
      <4> DEFINE b == flow'[e].txn.binds
                 s == [who |-> who, ext |-> e, cseq |-> flow[e].cseq + 1, binds |-> b]
                 at == [n \in DOMAIN sendq' |-> n]
      <4>2. b \in BOOLEAN
        BY <1>1 DEF Opens
      <4>3. s \in Sent /\ s.ext = e /\ sendq' = Append(sendq, s)
        BY <4>1, <4>2, SenderSent
      <4> HIDE DEF s
      <4>4. /\ \A n \in DOMAIN sendq' : sendq'[n].ext = f => n \in DOMAIN sendq /\ sendq'[n] = sendq[n]
            /\ \A n \in DOMAIN sendq' : n \in Int
        BY <1>0, <2>2, <4>3
      <4>5. at \in [DOMAIN sendq' -> Int] /\ \A n \in DOMAIN sendq' : at[n] = n
        BY <4>4
      <4> HIDE DEF at
      <4>6. QED BY <4>4, <4>5 DEF ThinsFor
    <3>2. Fewer(f)
      BY <1>1, <2>2, FewerAnswers DEF Opens, Pops
    <3>3. flow'[f] = flow[f] /\ UNCHANGED <<phase, requests, binding>>
      BY <1>1, <2>2 DEF Opens, Moves
    <3>4. QED BY <1>0, <3>1, <3>2, <3>3, Shrinking
  <2>3. QED BY <2>1, <2>2
<1>2. ASSUME NEW e \in Extension, Settles(e) PROVE Numbered(f)' /\ Piped(f)' /\ Binds(f)'
  <2>1. Fewer(f) /\ ThinsFor(f)
    BY <1>0, <1>2, FewerAnswers, ThinsForAll DEF Settles, Pops
  <2>2. flow'[f].cseq = flow[f].cseq /\ flow'[f].txn \in {flow[f].txn, NoTxn}
    BY <1>2 DEF Settles, Moves
  <2>3. UNCHANGED <<phase, requests, binding>>
    BY <1>2 DEF Settles
  <2>4. QED BY <1>0, <2>1, <2>2, <2>3, Shrinking
<1>3. CASE Quiet
  <2>1. Fewer(f) /\ ThinsFor(f)
    BY <1>0, <1>3, FewerAnswers, ThinsForAll DEF Quiet
  <2>2. QED BY <1>0, <1>3, <2>1, Shrinking DEF Quiet
<1>4. CASE Written
  <2>1. CASE f = Head(sendq).ext
    BY <1>0, <1>4, <2>1, WritingOwn
  <2>2. CASE f # Head(sendq).ext
    <3>1. Fewer(f) /\ ThinsFor(f)
      BY <1>0, <1>4, FewerAnswers, ThinsForAll, HeadLeaves DEF Written
    <3>2. requests'[f] = requests[f]
      BY <1>4, <2>2, Writing
    <3>3. UNCHANGED <<phase, flow, binding>>
      BY <1>4 DEF Written
    <3>4. QED BY <1>0, <3>1, <3>2, <3>3, Shrinking
  <2>3. QED BY <2>1, <2>2
<1>5. ASSUME NEW e \in Extension, NEW kind \in Answer, NEW silent \in BOOLEAN,
             Registrar(e, kind, silent)
      PROVE  Numbered(f)' /\ Piped(f)' /\ Binds(f)'
  <2>1. CASE e = f
    BY <1>0, <1>5, <2>1, AnsweringOwn
  <2>2. CASE e # f
    <3>1. requests'[f] = requests[f] /\ answers'[f] = answers[f] /\ binding'[f] = binding[f]
      BY <1>5, <2>2, Answering
    <3>2. UNCHANGED <<phase, flow, sendq>>
      BY <1>5 DEF Registrar
    <3>3. Fewer(f) /\ ThinsFor(f)
      BY <1>0, <3>1, <3>2, FewerAnswers, ThinsForAll, QueueKept
    <3>4. QED BY <1>0, <3>1, <3>2, <3>3, Shrinking
  <2>3. QED BY <2>1, <2>2
<1>6. QED BY <1>1, <1>2, <1>3, <1>4, <1>5, PipelineMoves

----
(* A flow and its tasks *)

\* One follow-up of the reader is sent at a time, and its flow is known.
Readers ==
    /\ \A i \in DOMAIN sendq : sendq[i].who = "reader" => sendq[i].ext = reader
    /\ \A i, j \in DOMAIN sendq : sendq[i].who = "reader" /\ sendq[j].who = "reader" => i = j

\* Handles are dropped when aclose() has waited for its cancelled tasks, not before.
Drops == loose # {} => phase \notin Running \cup {"draining"}

\* Only aclose() marks a flow as one to de-register.
Marked(e) == phase \in Running => ~status[e].deregistering

\* A flow that start() has still to send for has no task and no history.
Unstarted(e) ==
    phase = "starting" /\ e \in todo =>
        /\ ~status[e].registered /\ ~status[e].established
        /\ refresh[e] = "none" /\ recovery[e] = "none"
        /\ requests[e] = <<>> /\ answers[e] = <<>>
        /\ \A i \in DOMAIN sendq : sendq[i].ext = e => sendq[i].who = "start"

\* Nothing of the flow is under way, and the registrar has its binding.
Settled(e) ==
    /\ binding[e] /\ requests[e] = <<>> /\ answers[e] = <<>>
    /\ \A i \in DOMAIN sendq : sendq[i].ext # e

\* A response deadline runs for the flow, or will.
Awaited(e) ==
    timeout[e] \/ \E i \in DOMAIN sendq : sendq[i].ext = e /\ ArmsTimeout(sendq[i])

\* A flow that is taken for registered is, or it will find out.
Truthful(e) == phase \in Running /\ status[e].registered => Settled(e) \/ Awaited(e)

\* KeptAlive, NoRecoveryOfDeregistered and AttemptsBounded of one flow; the last says how
\* far the attempt has come.
Kept(e) ==
    phase \in Running /\ status[e].established =>
        \/ refresh[e] # "none" \/ recovery[e] # "none" \/ timeout[e] \/ reader = e
        \/ Waits(e, "recovery")

Unrecovered(e) ==
    status[e].deregistering => recovery[e] = "none" /\ <<e, "recovery">> \notin loose

Retries(e) ==
    /\ tries[e] <= 4
    /\ flow[e].txn # NoTxn =>
         tries[e] <= 1 + (IF flow[e].txn.challenged THEN 1 ELSE 0)
                       + (IF flow[e].retried THEN 2 ELSE 0)

Tended(e) ==
    Marked(e) /\ Unstarted(e) /\ Truthful(e) /\ Kept(e) /\ Unrecovered(e) /\ Retries(e)

Tasks == Readers /\ Drops /\ \A e \in Extension : Tended(e)

IInv == Types /\ Pipeline /\ Tasks

\* A step of another flow, as far as f is concerned.
Same(f) ==
    /\ phase' \in Running => phase \in Running
    /\ phase' = "starting" /\ f \in todo' => phase = "starting" /\ f \in todo
    /\ flow'[f] = flow[f] /\ status'[f] = status[f] /\ tries'[f] = tries[f]
    /\ refresh'[f] = refresh[f] /\ recovery'[f] = recovery[f] /\ timeout'[f] = timeout[f]
    /\ requests'[f] = requests[f] /\ answers'[f] = answers[f] /\ binding'[f] = binding[f]
    /\ reader = f => reader' = f
    /\ <<f, "recovery">> \in loose' => <<f, "recovery">> \in loose
    /\ \A i \in DOMAIN sendq : sendq[i].ext = f => Survives(i)
    /\ \A n \in DOMAIN sendq' : sendq'[n].ext = f => \E i \in DOMAIN sendq : sendq'[n] = sendq[i]

\* What does not concern a flow leaves it tended.
LEMMA SameTended ==
    ASSUME NEW f \in Extension, Same(f), Tended(f)
    PROVE  Tended(f)'
<1>1. Marked(f)'
  BY DEF Same, Tended, Marked
<1>2. Unstarted(f)'
  BY DEF Same, Tended, Unstarted
<1>3. Truthful(f)'
  <2> SUFFICES ASSUME phase' \in Running, status'[f].registered PROVE Settled(f)' \/ Awaited(f)'
    BY DEF Truthful
  <2>1. Settled(f) \/ Awaited(f)
    BY DEF Same, Tended, Truthful
  <2>2. CASE Settled(f)
    BY <2>2 DEF Same, Settled
  <2>3. CASE Awaited(f)
    BY <2>3 DEF Same, Awaited, Survives, ArmsTimeout
  <2>4. QED BY <2>1, <2>2, <2>3
<1>4. Kept(f)'
  BY DEF Same, Tended, Kept, Waits, Survives
<1>5. Unrecovered(f)'
  BY DEF Same, Tended, Unrecovered
<1>6. Retries(f)'
  BY DEF Same, Tended, Retries
<1>7. QED BY <1>1, <1>2, <1>3, <1>4, <1>5, <1>6 DEF Tended

\* The steps of the tasks, the responses and the requests of one flow.
StepOf(e) ==
    \/ StartFlow(e) \/ TimeoutFires(e) \/ RefreshFires(e) \/ LooseRefreshFires(e)
    \/ RecoveryFires(e)
    \/ Responds(e)
    \/ \E kind \in Answer, silent \in BOOLEAN : Registrar(e, kind, silent)
    \/ Deregister(e) \/ SkipDeregister(e) \/ DeregisterTimesOut(e)
    \/ (Written \/ SendFails) /\ Head(sendq).ext = e

\* What a REGISTER's building leaves to the other flows.
LEMMA OthersQueue ==
    ASSUME sendq \in Seq(Sent), NEW s \in Sent, sendq' = Append(sendq, s),
           NEW f \in Extension, f # s.ext
    PROVE  /\ \A i \in DOMAIN sendq : sendq[i].ext = f => Survives(i)
           /\ \A n \in DOMAIN sendq' :
                sendq'[n].ext = f => \E i \in DOMAIN sendq : sendq'[n] = sendq[i]
BY Queueing

\* A new transaction of one flow does not concern the others.
LEMMA BeginOthers ==
    ASSUME Types, NEW e \in Extension, NEW who \in Sender, NEW b \in BOOLEAN, Begins(e, who, b),
           UNCHANGED <<phase, todo, status, reader, requests, answers, binding, timeout>>,
           loose' \subseteq loose,
           NEW f \in Extension, f # e, refresh'[f] = refresh[f], recovery'[f] = recovery[f]
    PROVE  Same(f)
<1> DEFINE s == [who |-> who, ext |-> e, cseq |-> flow[e].cseq + 1, binds |-> b]
<1>1. s \in Sent /\ s.ext = e /\ sendq' = Append(sendq, s) /\ sendq \in Seq(Sent)
  BY SenderSent, Beginning DEF Types, WiresOK
<1> HIDE DEF s
<1>2. flow'[f] = flow[f] /\ tries'[f] = tries[f]
  BY Beginning
<1>3. QED BY <1>1, <1>2, OthersQueue DEF Same

\* No step of one flow concerns another.
LEMMA Bystanding ==
    ASSUME Types, Readers, NEW e \in Extension, StepOf(e), NEW f \in Extension, f # e
    PROVE  Same(f)
<1>0. sendq \in Seq(Sent)
  BY DEF Types, WiresOK
<1>1. CASE StartFlow(e)
  BY <1>1, BeginOthers DEF StartFlow, Sender, timers, network
<1>2. CASE RefreshFires(e)
  BY <1>2, BeginOthers DEF RefreshFires, Sender, network, Types, TasksOK
<1>3. CASE LooseRefreshFires(e)
  BY <1>3, BeginOthers DEF LooseRefreshFires, Sender, network
<1>4. CASE RecoveryFires(e)
  <2>1. loose' \subseteq loose
    BY <1>4 DEF RecoveryFires, Wakes
  <2>2. QED BY <1>4, <2>1, BeginOthers DEF RecoveryFires, Sender, network, Types, TasksOK
<1>5. CASE Deregister(e)
  BY <1>5, BeginOthers DEF Deregister, Sender, timers, network
<1>6. CASE TimeoutFires(e)
  <2>1. Fails(e) /\ loose' \subseteq loose /\ timeout'[f] = timeout[f]
        /\ UNCHANGED <<phase, todo, flow, refresh, sendq, reader, requests, answers, binding, tries>>
    BY <1>6 DEF TimeoutFires, Wakes, network, Types, TasksOK
  <2>2. status'[f] = status[f] /\ recovery'[f] = recovery[f]
    BY <2>1, Failing
  <2>3. QED BY <1>0, <2>1, <2>2, QueueKept DEF Same
<1>7. CASE Uncorrelated(e)
  BY <1>0, <1>7, QueueKept DEF Uncorrelated, Same, timers, Types, WiresOK
<1>8. CASE Registered(e)
  <2>1. /\ answers'[f] = answers[f] /\ timeout'[f] = timeout[f] /\ flow'[f] = flow[f]
    <3>1. Delivers(e, {"ok"})
      BY <1>8 DEF Registered
    <3>2. Moves(e, flow'[e])
      BY <1>8, Settling
    <3>3. QED BY <3>1, <3>2, Delivering DEF Moves
  <2>2. status'[f] = status[f] /\ refresh'[f] = refresh[f]
    BY <1>8 DEF Registered, Types, FlowsOK, TasksOK
  <2>3. /\ \A i \in DOMAIN sendq : sendq[i].ext = f => Survives(i)
        /\ \A n \in DOMAIN sendq' : \E i \in DOMAIN sendq : sendq'[n] = sendq[i]
    BY <1>0, <1>8, Remaining DEF Registered, Leaves
  <2>4. UNCHANGED <<phase, todo, recovery, loose, reader, requests, binding, tries>>
    BY <1>8 DEF Registered
  <2>5. QED BY <2>1, <2>2, <2>3, <2>4 DEF Same
<1>9. CASE BindingRemoved(e) \/ Rejected(e)
  <2>1. /\ answers'[f] = answers[f] /\ timeout'[f] = timeout[f] /\ flow'[f] = flow[f]
    BY <1>9, Delivering, Settling DEF Moves
  <2>2. status'[f] = status[f] /\ recovery'[f] = recovery[f]
    BY <1>9, Failing DEF BindingRemoved, Rejected
  <2>3. UNCHANGED <<phase, todo, refresh, loose, sendq, reader, requests, binding, tries>>
    BY <1>9 DEF BindingRemoved, Rejected
  <2>4. QED BY <1>0, <2>1, <2>2, <2>3, QueueKept DEF Same
<1>10. CASE Challenged(e) \/ RetryInterval(e)
  <2>1. \E kinds : Delivers(e, kinds)
    BY <1>10 DEF Challenged, RetryInterval
  <2>2. answers'[f] = answers[f] /\ timeout'[f] = timeout[f] /\ reader = NoExtension
    BY <2>1, Delivering
  <2>3. flow'[f] = flow[f] /\ tries'[f] = tries[f]
    BY <1>10, Challenging, Retrying DEF Moves
  <2>4. UNCHANGED <<phase, todo, status, refresh, recovery, loose, requests, binding>>
    BY <1>10 DEF Challenged, RetryInterval
  <2>5. \E b \in BOOLEAN : sendq' = Append(sendq, [who |-> "reader", ext |-> e,
                                                   cseq |-> flow[e].cseq + 1, binds |-> b])
    <3>1. flow[e].txn.binds \in BOOLEAN
      BY DEF Types, FlowsOK, FlowState
    <3>2. QED BY <1>10, <3>1, Challenging, Retrying
  <2>6. PICK b \in BOOLEAN : sendq' = Append(sendq, [who |-> "reader", ext |-> e,
                                                     cseq |-> flow[e].cseq + 1, binds |-> b])
    BY <2>5
  <2> DEFINE s == [who |-> "reader", ext |-> e, cseq |-> flow[e].cseq + 1, binds |-> b]
  <2>7. s \in Sent /\ s.ext = e
    BY SenderSent DEF Sender
  <2>8. sendq' = Append(sendq, s)
    BY <2>6
  <2> HIDE DEF s
  <2>9. reader # f
    BY <2>2, ExtensionAssumption
  <2>10. QED BY <1>0, <2>2, <2>3, <2>4, <2>7, <2>8, <2>9, OthersQueue DEF Same
<1>11. ASSUME NEW kind \in Answer, NEW silent \in BOOLEAN, Registrar(e, kind, silent)
       PROVE  Same(f)
  <2>1. requests'[f] = requests[f] /\ answers'[f] = answers[f] /\ binding'[f] = binding[f]
    BY <1>11, Answering
  <2>2. UNCHANGED <<phase, todo, flow, status, timers, sendq, reader, tries>>
    BY <1>11 DEF Registrar
  <2>3. QED BY <1>0, <2>1, <2>2, QueueKept DEF Same, timers
<1>12. CASE SkipDeregister(e)
  BY <1>0, <1>12, QueueKept DEF SkipDeregister, Same, timers, network
<1>13. CASE DeregisterTimesOut(e)
  <2>1. /\ \A i \in DOMAIN sendq : sendq[i].ext = f => Survives(i)
        /\ \A n \in DOMAIN sendq' : \E i \in DOMAIN sendq : sendq'[n] = sendq[i]
    BY <1>0, <1>13, Remaining DEF DeregisterTimesOut, Leaves
  <2>2. QED BY <1>13, <2>1 DEF DeregisterTimesOut, Same, timers, network
<1>14. CASE Written /\ Head(sendq).ext = e
  <2>1. requests'[f] = requests[f] /\ timeout'[f] = timeout[f] /\ refresh'[f] = refresh[f]
    BY <1>14, Writing
  <2>2. Head(sendq) = sendq[1] /\ 1 \in DOMAIN sendq
    BY <1>14, Writing
  <2>3. reader = f => reader' = f
    BY <1>14, <2>2 DEF Written, Readers
  <2>4. UNCHANGED <<phase, flow, status, recovery, loose, answers, binding, tries>>
    BY <1>14 DEF Written
  <2>5. f \in todo' => f \in todo
    BY <1>14 DEF Written
  <2>6. /\ \A i \in DOMAIN sendq : sendq[i].ext = f => Survives(i)
        /\ \A n \in DOMAIN sendq' : \E i \in DOMAIN sendq : sendq'[n] = sendq[i]
    BY <1>0, <1>14, <2>2, HeadLeaves DEF Written
  <2>7. QED BY <2>1, <2>3, <2>4, <2>5, <2>6 DEF Same
<1>15. CASE SendFails /\ Head(sendq).ext = e
  <2>1. Head(sendq) = sendq[1] /\ 1 \in DOMAIN sendq
    BY <1>0, <1>15, HeadLeaves DEF SendFails
  <2>2. /\ \A i \in DOMAIN sendq : sendq[i].ext = f => Survives(i)
        /\ \A n \in DOMAIN sendq' : \E i \in DOMAIN sendq : sendq'[n] = sendq[i]
    BY <1>0, <1>15, <2>1, HeadLeaves DEF SendFails
  <2>3. UNCHANGED <<phase, flow, timeout, loose, reader, requests, answers, binding, tries>>
    BY <1>15 DEF SendFails, network
  <2>4. f \in todo' => f \in todo
    BY <1>15 DEF SendFails
  <2>5. status'[f] = status[f] /\ recovery'[f] = recovery[f] /\ refresh'[f] = refresh[f]
    <3>1. CASE Head(sendq).who = "close"
      BY <1>15, <3>1 DEF SendFails
    <3>2. CASE Head(sendq).who # "close"
      BY <1>15, <3>2, Failing DEF SendFails, Types, TasksOK
    <3>3. QED BY <3>1, <3>2
  <2>6. QED BY <2>2, <2>3, <2>4, <2>5 DEF Same
<1>16. QED
  BY <1>1, <1>2, <1>3, <1>4, <1>5, <1>6, <1>7, <1>8, <1>9, <1>10, <1>11, <1>12, <1>13, <1>14,
     <1>15 DEF StepOf, Responds

\* What a flow's own building of a REGISTER leaves it with.
LEMMA BeginOwn ==
    ASSUME Types, NEW e \in Extension, NEW who \in Sender, NEW b \in BOOLEAN, Begins(e, who, b)
    PROVE  /\ Retries(e)'
           /\ \E n \in DOMAIN sendq' : sendq'[n].ext = e /\ sendq'[n].who = who
           /\ \A n \in DOMAIN sendq' : sendq'[n].who = who \/ \E i \in DOMAIN sendq : sendq'[n] = sendq[i]
           /\ \A i \in DOMAIN sendq : Survives(i)
<1> DEFINE s == [who |-> who, ext |-> e, cseq |-> flow[e].cseq + 1, binds |-> b]
<1>1. s \in Sent /\ s.ext = e /\ s.who = who /\ sendq' = Append(sendq, s) /\ sendq \in Seq(Sent)
  BY SenderSent, Beginning DEF Types, WiresOK
<1> HIDE DEF s
<1>2. Retries(e)'
  <2> DEFINE once == IF flow'[e].txn.challenged THEN 1 ELSE 0
             twice == IF flow'[e].retried THEN 2 ELSE 0
  <2>1. once \in Nat /\ twice \in Nat /\ tries'[e] = 1
    BY Beginning
  <2> HIDE DEF once, twice
  <2>2. tries'[e] <= 4 /\ tries'[e] <= 1 + once + twice
    BY <2>1
  <2>3. QED BY <2>2 DEF Retries, once, twice
<1>3. QED BY <1>1, <1>2, Queueing

\* A flow that fails recovers unless it is being de-registered (_on_registration_failed).
LEMMA Failed ==
    ASSUME Types, NEW e \in Extension, Fails(e), Tended(e), UNCHANGED phase,
           loose' \subseteq loose, refresh'[e] \in {refresh[e], "none"},
           e \in todo' => e \in todo,
           phase = "starting" /\ e \in todo => UNCHANGED <<requests, answers>>,
           \A n \in DOMAIN sendq' : \E i \in DOMAIN sendq : sendq'[n] = sendq[i],
           Retries(e)'
    PROVE  Tended(e)'
<1>1. /\ status'[e].registered = FALSE
      /\ status'[e].established = status[e].established
      /\ status'[e].deregistering = status[e].deregistering
      /\ Recovers(e) => recovery'[e] = "armed"
      /\ ~Recovers(e) => recovery'[e] = recovery[e]
  BY Failing
<1>2. Marked(e)'
  BY <1>1 DEF Tended, Marked
<1>3. Unstarted(e)'
  BY <1>1 DEF Tended, Unstarted, Recovers
<1>4. Truthful(e)'
  BY <1>1 DEF Truthful
<1>5. Kept(e)'
  BY <1>1 DEF Kept, Tended, Marked, Recovers
<1>6. Unrecovered(e)'
  BY <1>1 DEF Tended, Unrecovered, Recovers
<1>7. QED BY <1>2, <1>3, <1>4, <1>5, <1>6 DEF Tended

\* Every step of a flow leaves it tended: the next deadline, refresh or recovery is armed by
\* the step that spends the last.
LEMMA Tending ==
    ASSUME IInv, NEW e \in Extension, StepOf(e)
    PROVE  Tended(e)'
<1>0. /\ Types /\ Pipeline /\ Tended(e) /\ Readers /\ Drops
      /\ sendq \in Seq(Sent)
  BY DEF IInv, Tasks, Types, WiresOK
<1>1. CASE StartFlow(e)
  <2>1. /\ Begins(e, "start", TRUE) /\ phase = "starting" /\ e \in todo
        /\ UNCHANGED <<phase, todo, status, refresh, recovery, timeout, loose, reader, requests,
                       answers, binding>>
    BY <1>1 DEF StartFlow, timers, network
  <2>2. /\ Retries(e)'
        /\ \A n \in DOMAIN sendq' :
             sendq'[n].who = "start" \/ \E i \in DOMAIN sendq : sendq'[n] = sendq[i]
    BY <1>0, <2>1, BeginOwn DEF Sender
  <2>3. ~status[e].registered /\ ~status[e].established
    BY <1>0, <2>1 DEF Tended, Unstarted
  <2>4. Unstarted(e)'
    BY <1>0, <2>1, <2>2 DEF Tended, Unstarted
  <2>5. QED BY <1>0, <2>1, <2>2, <2>3, <2>4 DEF Tended, Marked, Truthful, Kept, Unrecovered
<1>2. CASE RefreshFires(e)
  <2>1. /\ Begins(e, "refresh", TRUE) /\ refresh[e] = "armed" /\ refresh'[e] = "sending"
        /\ UNCHANGED <<phase, todo, status, recovery, timeout, loose, reader, requests,
                       answers, binding>>
    BY <1>0, <1>2 DEF RefreshFires, network, Types, TasksOK
  <2>2. Retries(e)' /\ Awaited(e)'
    <3>1. "refresh" \in Sender /\ TRUE \in BOOLEAN
      BY DEF Sender
    <3>2. Retries(e)' /\ \E n \in DOMAIN sendq' : sendq'[n].ext = e /\ sendq'[n].who = "refresh"
      <4>1. Begins(e, "refresh", TRUE)
        BY <2>1
      <4>2. QED BY <1>0, <3>1, <4>1, BeginOwn
    <3>3. QED BY <3>2 DEF Awaited, ArmsTimeout
  <2>3. QED BY <1>0, <2>1, <2>2 DEF Tended, Marked, Unstarted, Truthful, Kept, Unrecovered
<1>3. CASE LooseRefreshFires(e)
  <2>1. /\ Begins(e, "recovery", TRUE) /\ loose # {} /\ loose' \subseteq loose
        /\ UNCHANGED <<phase, status, recovery>>
    BY <1>3 DEF LooseRefreshFires
  <2>2. Retries(e)' /\ phase \notin Running /\ phase # "starting"
    BY <1>0, <2>1, BeginOwn DEF Sender, Drops, Running
  <2>3. QED BY <1>0, <2>1, <2>2 DEF Tended, Marked, Unstarted, Truthful, Kept, Unrecovered
<1>4. CASE RecoveryFires(e)
  <2>1. /\ Begins(e, "recovery", TRUE) /\ loose' \subseteq loose /\ recovery'[e] = "none"
        /\ recovery[e] = "armed" \/ loose # {}
        /\ UNCHANGED <<phase, todo, status, refresh, timeout, reader, requests, answers, binding>>
    BY <1>0, <1>4 DEF RecoveryFires, Wakes, network, Types, TasksOK
  <2>2. Retries(e)' /\ Awaited(e)' /\ Waits(e, "recovery")'
    <3>1. "recovery" \in Sender /\ TRUE \in BOOLEAN
      BY DEF Sender
    <3>2. Retries(e)' /\ \E n \in DOMAIN sendq' : sendq'[n].ext = e /\ sendq'[n].who = "recovery"
      BY <1>0, <2>1, <3>1, BeginOwn
    <3>3. QED BY <3>2 DEF Awaited, ArmsTimeout, Waits
  <2>3. ~(phase = "starting" /\ e \in todo)
    BY <1>0, <2>1 DEF Tended, Unstarted, Drops, Running
  <2>4. QED BY <1>0, <2>1, <2>2, <2>3 DEF Tended, Marked, Unstarted, Truthful, Kept, Unrecovered
<1>5. CASE TimeoutFires(e)
  <2>1. /\ Fails(e) /\ loose' \subseteq loose
        /\ UNCHANGED <<phase, todo, flow, refresh, sendq, requests, answers, tries>>
    BY <1>5 DEF TimeoutFires, Wakes, network
  <2>2. Retries(e)'
    BY <1>0, <2>1 DEF Tended, Retries
  <2>3. QED BY <1>0, <2>1, <2>2, Failed
<1>6. CASE Uncorrelated(e)
  <2>1. answers[e] # <<>>
        /\ UNCHANGED <<phase, todo, flow, status, refresh, recovery, timeout, loose, sendq, reader,
                       requests, binding, tries>>
    BY <1>6 DEF Uncorrelated, timers
  <2>2. QED BY <1>0, <2>1 DEF Tended, Marked, Unstarted, Truthful, Settled, Awaited, Kept, Waits,
                              Unrecovered, Retries
<1>7. CASE Registered(e)
  <2>1. /\ Delivers(e, {"ok"})
        /\ UNCHANGED <<phase, todo, recovery, loose, reader, requests, binding, tries>>
    BY <1>7 DEF Registered
  <2>2. /\ answers[e] # <<>> /\ answers'[e] = Tail(answers[e]) /\ answers[e] \in Seq(Response)
        /\ 1 \in DOMAIN answers[e] /\ answers[e][1].cseq = flow[e].cseq
        /\ answers[e][1].kind = "ok"
    <3>1. answers[e] \in Seq(Response)
      BY <1>0 DEF Types, WiresOK
    <3>2. answers[e] # <<>> /\ answers'[e] = Tail(answers[e]) /\ Head(answers[e]).kind \in {"ok"}
      BY <1>0, <2>1, Delivering
    <3>3. /\ 1 \in DOMAIN answers[e] /\ answers[e][1] = Head(answers[e])
          /\ answers[e][1].cseq = flow[e].cseq
      BY <1>0, <2>1, Correlating
    <3>4. QED BY <3>1, <3>2, <3>3
  <2>3. /\ status'[e].deregistering = status[e].deregistering
        /\ refresh'[e] = "armed"
    BY <1>0, <1>7 DEF Registered, Types, FlowsOK, TasksOK, Status
  <2>4. Settled(e)' \/ phase \notin Running
    <3> SUFFICES ASSUME phase \in Running PROVE Settled(e)'
      OBVIOUS
    <3>1. flow[e].cseq \in Nat /\ Numbered(e) /\ Piped(e) /\ Binds(e)
      BY <1>0 DEF Types, FlowsOK, FlowState, Pipeline
    <3>2. binding[e]
      BY <2>2, <3>1 DEF Binds
    <3>3. \A i \in DOMAIN answers[e] : i = 1
      <4> SUFFICES ASSUME NEW i \in DOMAIN answers[e], i # 1 PROVE FALSE
        OBVIOUS
      <4>1. 1 < i
        BY <2>2
      <4>2. answers[e][1].cseq < answers[e][i].cseq /\ answers[e][i].cseq \in 1 .. flow[e].cseq
        BY <2>2, <3>1, <4>1 DEF Numbered, Piped
      <4>3. QED BY <2>2, <3>1, <4>2
    <3>4. answers'[e] = <<>>
      <4> DEFINE q == answers[e]
      <4>1. q \in Seq(Response) /\ q # <<>> /\ answers'[e] = Tail(q) /\ \A i \in DOMAIN q : i = 1
        BY <2>2, <3>3
      <4> HIDE DEF q
      <4>2. Len(q) \in DOMAIN q
        BY <4>1
      <4>3. Len(q) = 1
        BY <4>1, <4>2
      <4>4. Tail(q) = <<>>
        BY <4>1, <4>3
      <4>5. QED BY <4>1, <4>4
    <3>5. requests[e] = <<>>
      <4> SUFFICES ASSUME requests[e] # <<>> PROVE FALSE
        OBVIOUS
      <4>1. 1 \in DOMAIN requests[e]
        BY <1>0 DEF Types, WiresOK
      <4>2. answers[e][1].cseq < requests[e][1].cseq /\ requests[e][1].cseq \in 1 .. flow[e].cseq
        BY <2>2, <3>1, <4>1 DEF Numbered, Piped
      <4>3. QED BY <2>2, <3>1, <4>2
    <3>6. \A i \in DOMAIN sendq : sendq[i].ext # e
      <4> SUFFICES ASSUME NEW i \in DOMAIN sendq, sendq[i].ext = e PROVE FALSE
        OBVIOUS
      <4>1. answers[e][1].cseq < sendq[i].cseq /\ sendq[i].cseq \in 1 .. flow[e].cseq
        BY <2>2, <3>1 DEF Numbered, Piped
      <4>2. QED BY <2>2, <3>1, <4>1
    <3>7. \A n \in DOMAIN sendq' : sendq'[n].ext # e
      BY <1>0, <1>7, <3>6, Remaining DEF Registered, Leaves
    <3>8. QED BY <2>1, <3>2, <3>4, <3>5, <3>7 DEF Settled
  <2>5. Retries(e)'
    BY <1>0, <1>7, <2>1, Settling DEF Tended, Retries
  <2>6. ~(phase = "starting" /\ e \in todo)
    BY <1>0, <2>2 DEF Tended, Unstarted
  <2>7. QED BY <1>0, <2>1, <2>3, <2>4, <2>5, <2>6 DEF Tended, Marked, Unstarted, Truthful, Kept,
                                                      Unrecovered
<1>8. CASE BindingRemoved(e) \/ Rejected(e)
  <2>1. /\ Fails(e) /\ (\E kinds : Delivers(e, kinds))
        /\ UNCHANGED <<phase, todo, refresh, loose, sendq, reader, requests, binding, tries>>
    BY <1>8 DEF BindingRemoved, Rejected
  <2>2. Retries(e)'
    BY <1>0, <1>8, <2>1, Settling DEF Tended, Retries
  <2>3. ~(phase = "starting" /\ e \in todo)
    BY <1>0, <2>1, Delivering DEF Tended, Unstarted
  <2>4. QED BY <1>0, <2>1, <2>2, <2>3, Failed
<1>9. CASE Challenged(e) \/ RetryInterval(e)
  <2>1. /\ \E kinds : Delivers(e, kinds)
        /\ reader' = e
        /\ UNCHANGED <<phase, todo, status, refresh, recovery, loose, requests, binding>>
    BY <1>9 DEF Challenged, RetryInterval
  <2>2. ~(phase = "starting" /\ e \in todo) /\ flow[e].txn # NoTxn
    BY <1>0, <2>1, Delivering, Correlating DEF Tended, Unstarted
  <2>3. Awaited(e)'
    <3>1. flow[e].txn.binds \in BOOLEAN
      BY <1>0 DEF Types, FlowsOK, FlowState
    <3>2. PICK b \in BOOLEAN : sendq' = Append(sendq, [who |-> "reader", ext |-> e,
                                                      cseq |-> flow[e].cseq + 1, binds |-> b])
      BY <1>0, <1>9, <3>1, Challenging, Retrying
    <3> DEFINE s == [who |-> "reader", ext |-> e, cseq |-> flow[e].cseq + 1, binds |-> b]
    <3>3. s \in Sent /\ s.ext = e /\ s.who = "reader" /\ sendq' = Append(sendq, s)
      BY <1>0, <3>2, SenderSent DEF Sender
    <3> HIDE DEF s
    <3>4. QED BY <1>0, <3>3, Queueing DEF Awaited, ArmsTimeout
  <2>4. Retries(e)'
    <3>1. tries[e] \in Nat
      BY <1>0 DEF Types, FlowsOK
    <3>2. CASE Challenged(e)
      <4> DEFINE before == IF flow[e].retried THEN 2 ELSE 0
                 after == IF flow'[e].retried THEN 2 ELSE 0
      <4>1. tries[e] <= 1 + before
        <5>1. tries[e] <= 1 + 0 + before
          BY <1>0, <2>2, <3>2, Challenging DEF Tended, Retries
        <5>2. before \in Nat
          OBVIOUS
        <5> HIDE DEF before
        <5>3. QED BY <3>1, <5>1, <5>2
      <4>2. before = after /\ after \in {0, 2} /\ tries'[e] = tries[e] + 1
        BY <1>0, <3>2, Challenging
      <4>3. flow'[e].txn.challenged = TRUE
        BY <1>0, <3>2, Challenging
      <4> HIDE DEF before, after
      <4>4. tries'[e] <= 4 /\ tries'[e] <= 1 + 1 + after
        BY <3>1, <4>1, <4>2
      <4>5. QED BY <4>3, <4>4 DEF Retries, after
    <3>3. CASE RetryInterval(e)
      <4> DEFINE before == IF flow[e].txn.challenged THEN 1 ELSE 0
                 after == IF flow'[e].txn.challenged THEN 1 ELSE 0
      <4>1. tries[e] <= 1 + before
        <5>1. tries[e] <= 1 + before + 0
          BY <1>0, <2>2, <3>3, Retrying DEF Tended, Retries
        <5>2. before \in Nat
          OBVIOUS
        <5> HIDE DEF before
        <5>3. QED BY <3>1, <5>1, <5>2
      <4>2. before \in {0, 1} /\ after \in {0, 1} /\ tries'[e] = tries[e] + 1
        BY <1>0, <3>3, Retrying
      <4>3. flow'[e].retried = TRUE
        BY <1>0, <3>3, Retrying
      <4> HIDE DEF before, after
      <4>4. tries'[e] <= 4 /\ tries'[e] <= 1 + after + 2
        BY <3>1, <4>1, <4>2
      <4>5. QED BY <4>3, <4>4 DEF Retries, after
    <3>4. QED BY <1>9, <3>2, <3>3
  <2>5. QED BY <1>0, <2>1, <2>2, <2>3, <2>4 DEF Tended, Marked, Unstarted, Truthful, Kept,
                                                Unrecovered
<1>10. ASSUME NEW kind \in Answer, NEW silent \in BOOLEAN, Registrar(e, kind, silent)
       PROVE  Tended(e)'
  <2>1. requests[e] # <<>>
        /\ UNCHANGED <<phase, todo, flow, status, refresh, recovery, timeout, loose, sendq, reader, tries>>
    BY <1>10 DEF Registrar, timers
  <2>2. QED BY <1>0, <2>1 DEF Tended, Marked, Unstarted, Truthful, Settled, Awaited, Kept, Waits,
                              Unrecovered, Retries
<1>11. CASE Deregister(e)
  <2>1. /\ Begins(e, "close", FALSE) /\ phase = "deregistering"
        /\ UNCHANGED <<phase, status, recovery, loose>>
    BY <1>11 DEF Deregister, timers
  <2>2. Retries(e)'
    BY <1>0, <2>1, BeginOwn DEF Sender
  <2>3. QED BY <1>0, <2>1, <2>2 DEF Tended, Marked, Unstarted, Truthful, Kept, Unrecovered, Running
<1>12. CASE SkipDeregister(e)
  <2>1. /\ phase = "deregistering"
        /\ UNCHANGED <<phase, status, recovery, loose, flow, tries>>
    BY <1>12 DEF SkipDeregister, timers
  <2>2. QED BY <1>0, <2>1 DEF Tended, Marked, Unstarted, Truthful, Kept, Unrecovered, Retries,
                              Running
<1>13. CASE DeregisterTimesOut(e)
  <2>1. /\ \A i \in DOMAIN sendq : sendq[i].who # "close" => Survives(i)
        /\ \A n \in DOMAIN sendq' : \E i \in DOMAIN sendq : sendq'[n] = sendq[i]
    BY <1>0, <1>13, Remaining DEF DeregisterTimesOut, Leaves
  <2>2. /\ UNCHANGED <<phase, flow, status, refresh, recovery, timeout, loose, reader, requests,
                       answers, binding, tries>>
        /\ todo' \subseteq todo
    BY <1>13 DEF DeregisterTimesOut, timers, network
  <2>3. Unstarted(e)' /\ Marked(e)' /\ Unrecovered(e)' /\ Retries(e)'
    BY <1>0, <2>1, <2>2 DEF Tended, Unstarted, Marked, Unrecovered, Retries
  <2>4. Settled(e) => Settled(e)'
    BY <2>1, <2>2 DEF Settled
  <2>5. Awaited(e) => Awaited(e)'
    BY <2>1, <2>2 DEF Awaited, ArmsTimeout, Survives
  <2>6. Waits(e, "recovery") => Waits(e, "recovery")'
    BY <2>1 DEF Waits, Survives
  <2>7. Truthful(e)' /\ Kept(e)'
    BY <1>0, <2>2, <2>4, <2>5, <2>6 DEF Tended, Truthful, Kept
  <2>8. QED BY <2>3, <2>7 DEF Tended
<1>14. CASE Written /\ Head(sendq).ext = e
  <2> DEFINE s == sendq[1]
  <2>1. s = Head(sendq) /\ 1 \in DOMAIN sendq /\ s.ext = e
    BY <1>0, <1>14, Writing
  <2>2. /\ \A i \in DOMAIN sendq : i # 1 => Survives(i)
        /\ \A n \in DOMAIN sendq' : \E i \in DOMAIN sendq : sendq'[n] = sendq[i]
    BY <1>0, <1>14, HeadLeaves DEF Written
  <2>3. /\ timeout'[e] = (timeout[e] \/ ArmsTimeout(s))
        /\ s.who # "refresh" => refresh' = refresh
    BY <1>0, <1>14, <2>1, Writing
  <2>4. /\ UNCHANGED <<phase, flow, status, recovery, loose, answers, binding, tries>>
        /\ todo' \subseteq todo
        /\ s.who = "start" => e \notin todo'
        /\ s.who # "reader" => reader' = reader
    BY <1>14, <2>1 DEF Written
  <2>5. Unstarted(e)'
    <3>1. ~(phase' = "starting" /\ e \in todo')
      BY <1>0, <2>1, <2>4 DEF Tended, Unstarted
    <3>2. QED BY <3>1 DEF Unstarted
  <2>6. Awaited(e) => Awaited(e)'
    BY <2>1, <2>2, <2>3 DEF Awaited, Survives, ArmsTimeout
  <2>7. ~Settled(e)
    BY <2>1 DEF Settled
  <2>8. Truthful(e)'
    BY <1>0, <2>4, <2>6, <2>7 DEF Tended, Truthful
  <2>9. Kept(e)'
    <3>1. CASE ArmsTimeout(s)
      BY <2>3, <3>1 DEF Kept
    <3>2. CASE ~ArmsTimeout(s)
      <4>1. s.who \notin {"refresh", "recovery", "reader"}
        BY <3>2 DEF ArmsTimeout
      <4>2. refresh' = refresh /\ reader' = reader /\ (timeout[e] => timeout'[e])
        BY <2>3, <2>4, <4>1
      <4>3. Waits(e, "recovery") => Waits(e, "recovery")'
        BY <2>1, <2>2, <4>1 DEF Waits, Survives
      <4>4. QED BY <1>0, <2>4, <4>2, <4>3 DEF Tended, Kept
    <3>3. QED BY <3>1, <3>2
  <2>10. Marked(e)' /\ Unrecovered(e)' /\ Retries(e)'
    BY <1>0, <2>4 DEF Tended, Marked, Unrecovered, Retries
  <2>11. QED BY <2>5, <2>8, <2>9, <2>10 DEF Tended
<1>15. CASE SendFails /\ Head(sendq).ext = e
  <2> DEFINE s == sendq[1]
  <2>1. /\ s = Head(sendq) /\ 1 \in DOMAIN sendq /\ s.ext = e
        /\ \A i \in DOMAIN sendq : i # 1 => Survives(i)
        /\ \A n \in DOMAIN sendq' : \E i \in DOMAIN sendq : sendq'[n] = sendq[i]
    BY <1>0, <1>15, HeadLeaves DEF SendFails
  <2>2. /\ UNCHANGED <<phase, flow, timeout, loose, reader, requests, answers, binding, tries>>
        /\ todo' \subseteq todo
    BY <1>15 DEF SendFails, network
  <2>3. Retries(e)'
    BY <1>0, <2>2 DEF Tended, Retries
  <2>4. CASE s.who = "close"
    <3>1. UNCHANGED <<status, recovery, refresh>>
      BY <1>15, <2>1, <2>4 DEF SendFails
    <3>2. ~Settled(e) /\ (Awaited(e) => Awaited(e)')
      BY <2>1, <2>2, <2>4 DEF Settled, Awaited, ArmsTimeout, Survives
    <3>3. Waits(e, "recovery") => Waits(e, "recovery")'
      BY <2>1, <2>4 DEF Waits, Survives
    <3>4. Truthful(e)' /\ Kept(e)'
      BY <1>0, <2>2, <3>1, <3>2, <3>3 DEF Tended, Truthful, Kept
    <3>5. Unstarted(e)' /\ Marked(e)' /\ Unrecovered(e)'
      BY <1>0, <2>1, <2>2, <3>1 DEF Tended, Unstarted, Marked, Unrecovered
    <3>6. QED BY <2>3, <3>4, <3>5 DEF Tended
  <2>5. CASE s.who # "close"
    <3>1. /\ Fails(e)
          /\ refresh' = [refresh EXCEPT ![e] = IF s.who = "refresh" THEN "none" ELSE @]
      BY <1>15, <2>1, <2>5 DEF SendFails
    <3>2. refresh'[e] \in {refresh[e], "none"}
      BY <1>0, <3>1 DEF Types, TasksOK
    <3>3. QED BY <1>0, <2>1, <2>2, <2>3, <3>1, <3>2, Failed
  <2>6. QED BY <2>4, <2>5
<1>16. QED
  BY <1>1, <1>2, <1>3, <1>4, <1>5, <1>6, <1>7, <1>8, <1>9, <1>10, <1>11, <1>12, <1>13, <1>14,
     <1>15 DEF StepOf, Responds

----
(* The invariant *)

\* The initial state satisfies the invariant.
LEMMA InitIInv == Init => IInv
<1> SUFFICES ASSUME Init PROVE IInv
  OBVIOUS
<1>1. Types
  BY InitTypes
<1>2. /\ phase = "starting" /\ loose = {} /\ sendq = <<>> /\ DOMAIN sendq = {}
      /\ \A e \in Extension :
           /\ flow[e].txn = NoTxn /\ requests[e] = <<>> /\ answers[e] = <<>>
           /\ ~status[e].registered /\ ~status[e].established /\ ~status[e].deregistering
           /\ refresh[e] = "none" /\ recovery[e] = "none" /\ tries[e] = 0
  BY DEF Init
<1>3. Pipeline
  <2> SUFFICES ASSUME NEW e \in Extension PROVE Numbered(e) /\ Piped(e) /\ Binds(e)
    BY DEF Pipeline
  <2>1. DOMAIN requests[e] = {} /\ DOMAIN answers[e] = {}
    BY <1>2
  <2>2. QED BY <1>2, <2>1 DEF Numbered, Piped, Binds
<1>4. Readers /\ Drops
  BY <1>2 DEF Readers, Drops
<1>5. ASSUME NEW e \in Extension PROVE Tended(e)
  BY <1>2 DEF Tended, Marked, Unstarted, Truthful, Kept, Unrecovered, Retries
<1>6. QED BY <1>1, <1>3, <1>4, <1>5 DEF IInv, Tasks

\* Every step keeps Drops.
LEMMA DropsStep == Types /\ Drops /\ [Next]_vars => Drops'
<1> SUFFICES ASSUME Types, Drops, [Next]_vars, loose' # {}
             PROVE  phase' \notin Running \cup {"draining"}
  BY DEF Drops
<1>1. CASE Drained
  BY <1>1 DEF Drained, Running
<1>2. CASE Close
  BY <1>2 DEF Close, Drops, Running
<1>3. CASE Started \/ Closed
  BY <1>3 DEF Started, Closed, Drops, Running, timers
<1>4. ASSUME NEW e \in Extension, TimeoutFires(e) \/ RecoveryFires(e)
      PROVE  loose' \subseteq loose /\ phase' = phase
  BY <1>4 DEF TimeoutFires, RecoveryFires, Wakes
<1>5. ASSUME NEW e \in Extension,
             \/ StartFlow(e) \/ RefreshFires(e) \/ LooseRefreshFires(e) \/ Deregister(e)
             \/ SkipDeregister(e) \/ DeregisterTimesOut(e)
      PROVE  loose' \subseteq loose /\ phase' = phase
  BY <1>5 DEF StartFlow, RefreshFires, LooseRefreshFires, Deregister, SkipDeregister,
              DeregisterTimesOut, timers
<1>6. ASSUME NEW e \in Extension, Responds(e)
      PROVE  loose' \subseteq loose /\ phase' = phase
  BY <1>6 DEF Responds, Uncorrelated, Registered, BindingRemoved, Challenged, RetryInterval,
              Rejected, timers
<1>7. ASSUME NEW e \in Extension, NEW kind \in Answer, NEW silent \in BOOLEAN,
             Registrar(e, kind, silent)
      PROVE  loose' \subseteq loose /\ phase' = phase
  BY <1>7 DEF Registrar, timers
<1>8. CASE Written \/ SendFails
  BY <1>8 DEF Written, SendFails, Drops
<1>9. CASE UNCHANGED vars
  BY <1>9 DEF vars, timers, Drops
<1>10. QED
  BY <1>1, <1>2, <1>3, <1>4, <1>5, <1>6, <1>7, <1>8, <1>9 DEF Next, Closes, Drops

\* Fewer senders are no second follow-up.
LEMMA ThinsReaders ==
    ASSUME sendq \in Seq(Sent), sendq' \in Seq(Sent), Readers, Thins, UNCHANGED reader
    PROVE  Readers'
<1>1. PICK at \in [DOMAIN sendq' -> DOMAIN sendq] :
        /\ \A m, n \in DOMAIN sendq' : m < n => at[m] < at[n]
        /\ \A n \in DOMAIN sendq' :
             /\ sendq'[n].who \in {sendq[at[n]].who, "recovery"}
             /\ sendq'[n].ext = sendq[at[n]].ext
  BY DEF Thins
<1>2. \A n \in DOMAIN sendq' : sendq'[n].who = "reader" => sendq[at[n]].who = "reader"
  BY <1>1
<1>3. ASSUME NEW m \in DOMAIN sendq', NEW n \in DOMAIN sendq',
             sendq'[m].who = "reader", sendq'[n].who = "reader"
      PROVE  m = n
  <2>1. at[m] = at[n]
    BY <1>2, <1>3 DEF Readers
  <2>2. at[m] \in Nat /\ at[n] \in Nat /\ m \in Nat /\ n \in Nat
    OBVIOUS
  <2>3. ~(m < n) /\ ~(n < m)
    BY <1>1, <2>1, <2>2
  <2>4. QED BY <2>2, <2>3
<1>4. QED BY <1>1, <1>2, <1>3 DEF Readers

\* The timers' own REGISTERs are no follow-ups.
LEMMA BeginReaders ==
    ASSUME Types, Readers, NEW e \in Extension, NEW who \in Sender, who # "reader",
           NEW b \in BOOLEAN, Begins(e, who, b), UNCHANGED reader
    PROVE  Readers'
<1> DEFINE s == [who |-> who, ext |-> e, cseq |-> flow[e].cseq + 1, binds |-> b]
<1>1. s \in Sent /\ s.who = who /\ sendq' = Append(sendq, s) /\ sendq \in Seq(Sent)
  BY SenderSent, Beginning DEF Types, WiresOK
<1> HIDE DEF s
<1>2. \A n \in DOMAIN sendq' :
        sendq'[n].who = "reader" => n \in DOMAIN sendq /\ sendq'[n] = sendq[n]
  BY <1>1
<1>3. QED BY <1>2 DEF Readers

\* Every step keeps Readers: a follow-up is built only while the reader sends none.
LEMMA ReadersStep ==
    ASSUME Types, Types', Readers, [Next]_vars
    PROVE  Readers'
<1>0. sendq \in Seq(Sent) /\ sendq' \in Seq(Sent)
  BY DEF Types, WiresOK
<1>1. ASSUME NEW e \in Extension,
             StartFlow(e) \/ RefreshFires(e) \/ LooseRefreshFires(e) \/ RecoveryFires(e)
             \/ Deregister(e)
      PROVE  Readers'
  BY <1>1, BeginReaders DEF StartFlow, RefreshFires, LooseRefreshFires, RecoveryFires, Deregister,
                            Sender
<1>2. ASSUME NEW e \in Extension, Challenged(e) \/ RetryInterval(e) PROVE Readers'
  <2>1. \E kinds : Delivers(e, kinds)
    BY <1>2 DEF Challenged, RetryInterval
  <2>2. reader = NoExtension /\ reader' = e
    BY <1>2, <2>1, Delivering DEF Challenged, RetryInterval
  <2>3. flow[e].txn.binds \in BOOLEAN /\ "reader" \in Sender
    BY DEF Types, FlowsOK, FlowState, Sender
  <2>4. PICK b \in BOOLEAN : sendq' = Append(sendq, [who |-> "reader", ext |-> e,
                                                    cseq |-> flow[e].cseq + 1, binds |-> b])
    BY <1>2, <2>3, Challenging, Retrying
  <2> DEFINE s == [who |-> "reader", ext |-> e, cseq |-> flow[e].cseq + 1, binds |-> b]
  <2>5. s \in Sent /\ s.ext = e /\ sendq' = Append(sendq, s)
    BY <2>3, <2>4, SenderSent
  <2> HIDE DEF s
  <2>6. \A i \in DOMAIN sendq : sendq[i].who # "reader"
    <3>1. \A i \in DOMAIN sendq : sendq[i].ext \in Extension
      <4>1. \A i \in DOMAIN sendq : sendq[i] \in Sent
        BY <1>0
      <4>2. QED BY <4>1 DEF Sent
    <3>2. QED BY <2>2, <3>1, ExtensionAssumption DEF Readers
  <2>7. \A n \in DOMAIN sendq' : sendq'[n].who = "reader" => n = Len(sendq') /\ sendq'[n] = s
    BY <1>0, <2>5, <2>6
  <2>8. QED BY <2>2, <2>5, <2>7 DEF Readers
<1>3. CASE Written
  <2>1. /\ Thins /\ Head(sendq) = sendq[1] /\ 1 \in DOMAIN sendq
        /\ \A n \in DOMAIN sendq' : \E i \in DOMAIN sendq : i # 1 /\ sendq'[n] = sendq[i]
    BY <1>0, <1>3, HeadLeaves DEF Written
  <2>2. CASE sendq[1].who = "reader"
    <3>1. \A n \in DOMAIN sendq' : sendq'[n].who # "reader"
      BY <2>1, <2>2 DEF Readers
    <3>2. QED BY <3>1 DEF Readers
  <2>3. CASE sendq[1].who # "reader"
    <3>1. reader' = reader
      BY <1>3, <2>1, <2>3 DEF Written
    <3>2. QED BY <1>0, <2>1, <3>1, ThinsReaders
  <2>4. QED BY <2>2, <2>3
<1>4. ASSUME NEW e \in Extension, TimeoutFires(e) \/ SkipDeregister(e) \/ Uncorrelated(e)
                                  \/ BindingRemoved(e) \/ Rejected(e)
                                  \/ \E kind \in Answer, silent \in BOOLEAN : Registrar(e, kind, silent)
      PROVE  Readers'
  BY <1>4 DEF TimeoutFires, SkipDeregister, Uncorrelated, BindingRemoved, Rejected, Registrar,
              Readers
<1>5. ASSUME NEW e \in Extension, Registered(e) \/ DeregisterTimesOut(e) PROVE Readers'
  <2>1. Thins /\ UNCHANGED reader
    BY <1>0, <1>5, Remaining DEF Registered, DeregisterTimesOut, Leaves
  <2>2. QED BY <1>0, <2>1, ThinsReaders
<1>6. CASE SendFails
  <2>1. Thins /\ UNCHANGED reader
    BY <1>0, <1>6, HeadLeaves DEF SendFails
  <2>2. QED BY <1>0, <2>1, ThinsReaders
<1>7. CASE Started \/ Closed \/ UNCHANGED vars
  BY <1>7 DEF Started, Closed, vars, Readers
<1>8. CASE Close
  <2> DEFINE stay == {i \in DOMAIN sendq : sendq[i].who # "refresh"}
  <2>1. Remain(stay) /\ stay \in SUBSET DOMAIN sendq /\ UNCHANGED reader
    BY <1>8 DEF Close
  <2> HIDE DEF stay
  <2>2. QED BY <1>0, <2>1, Remaining, ThinsReaders
<1>9. CASE Drained
  BY <1>0, <1>9, Draining, ThinsReaders DEF Drained
<1>10. QED
  BY <1>1, <1>2, <1>3, <1>4, <1>5, <1>6, <1>7, <1>8, <1>9 DEF Next, Responds, Closes

\* Every step keeps the flows tended.
LEMMA TasksStep ==
    ASSUME IInv, Types', [Next]_vars
    PROVE  Tasks'
<1>0. Types /\ Readers /\ Drops /\ sendq \in Seq(Sent)
  BY DEF IInv, Tasks, Types, WiresOK
<1>1. Readers' /\ Drops'
  BY <1>0, ReadersStep, DropsStep
<1>2. ASSUME NEW f \in Extension PROVE Tended(f)'
  <2>0. Tended(f)
    BY DEF IInv, Tasks
  <2>1. ASSUME NEW e \in Extension, StepOf(e) PROVE Tended(f)'
    <3>1. CASE e = f
      BY <2>1, <3>1, Tending
    <3>2. CASE e # f
      BY <1>0, <2>0, <2>1, <3>2, Bystanding, SameTended
    <3>3. QED BY <3>1, <3>2
  <2>2. CASE Started \/ Closed \/ UNCHANGED vars
    <3>1. Same(f)
      BY <1>0, <2>2, QueueKept DEF Started, Closed, vars, timers, network, Same, Running
    <3>2. QED BY <2>0, <3>1, SameTended
  <2>3. CASE Close
    <3>1. /\ phase' = "draining" /\ recovery'[f] = "none" /\ UNCHANGED <<loose, flow, tries>>
          /\ loose = {}
      BY <1>0, <2>3 DEF Close, Drops, Running
    <3>2. QED BY <2>0, <3>1 DEF Tended, Marked, Unstarted, Truthful, Kept, Unrecovered, Retries,
                                Running
  <2>4. CASE Drained
    <3>1. /\ phase' = "deregistering" /\ recovery'[f] = "none" /\ UNCHANGED <<status, flow, tries>>
          /\ <<f, "recovery">> \in loose' => recovery[f] = "armed"
      BY <2>4 DEF Drained
    <3>2. QED BY <2>0, <3>1 DEF Tended, Marked, Unstarted, Truthful, Kept, Unrecovered, Retries,
                                Running
  <2>5. CASE Written \/ SendFails
    <3>1. Head(sendq).ext \in Extension
      <4>1. Head(sendq) \in Sent
        BY <1>0, <2>5 DEF Written, SendFails
      <4>2. QED BY <4>1 DEF Sent
    <3>2. QED BY <2>1, <2>5, <3>1 DEF StepOf
  <2>6. QED BY <2>1, <2>2, <2>3, <2>4, <2>5 DEF Next, Closes, StepOf
<1>3. QED BY <1>1, <1>2 DEF Tasks

\* Every step keeps the invariant.
LEMMA IInvStep == IInv /\ [Next]_vars => IInv'
<1> SUFFICES ASSUME IInv, [Next]_vars PROVE IInv'
  OBVIOUS
<1>1. Types'
  BY TypesStep DEF IInv
<1>2. Pipeline'
  BY <1>1, PipelineStep DEF IInv
<1>3. Tasks'
  BY <1>1, TasksStep
<1>4. QED BY <1>1, <1>2, <1>3 DEF IInv

\* The invariant holds in every reachable state, for any extensions and any registrar.
THEOREM Invariance == Spec => []IInv
BY InitIInv, IInvStep, PTL DEF Spec

\* A flow that has registered is never left without a timer or a send, one that aclose()
\* de-registers is never recovered, and an attempt is at most four REGISTERs
\* (RegistrationManager, RegistrationFlow).
THEOREM FlowsAreTended == Spec => []FlowsTended
<1>1. IInv => FlowsTended
  <2> SUFFICES ASSUME IInv PROVE FlowsTended
    OBVIOUS
  <2>1. TypeOK
    BY TypesAreOK DEF IInv
  <2>2. KeptAlive
    BY DEF IInv, Tasks, Tended, Kept, KeptAlive, Running
  <2>3. NoRecoveryOfDeregistered
    BY DEF IInv, Tasks, Tended, Unrecovered, NoRecoveryOfDeregistered
  <2>4. AttemptsBounded
    BY DEF IInv, Tasks, Tended, Retries, AttemptsBounded
  <2>5. QED BY <2>1, <2>2, <2>3, <2>4 DEF FlowsTended
<1>2. QED BY <1>1, Invariance, PTL

\* With no REGISTER outstanding, the registrar holds the binding of every flow that the manager
\* reports as registered, whatever was lost, late or superseded (_check_cseq, registered).
THEOREM RegisteredIsTrue == Spec => []TrueToRegistrar
<1>1. IInv => TrueToRegistrar
  <2> SUFFICES ASSUME IInv, NEW e \in Extension, phase = "up", status[e].registered,
                      ~timeout[e], \A i \in DOMAIN sendq : sendq[i].ext # e
               PROVE  binding[e]
    BY DEF TrueToRegistrar
  <2>1. Truthful(e)
    BY DEF IInv, Tasks, Tended
  <2>2. QED BY <2>1 DEF Truthful, Settled, Awaited, Running
<1>2. QED BY <1>1, Invariance, PTL
====
