---- MODULE Handshake_proofs ----
(***************************************************************************)
(* Handshake: keys exist only on an authenticated handshake, each end has  *)
(* the other's, and the pipe is frozen on the peer, for any bound on the   *)
(* rounds, the queue, the losses, the strays and the peer's moves.         *)
(*                                                                         *)
(* What carries the third is that the pump completes on a flight of the   *)
(* peer, and that one which is queued has moved the destination (Heard,    *)
(* Latched).                                                               *)
(***************************************************************************)
EXTENDS Handshake, TLAPS

\* Where the peer has been, what it sends, and what others send.
Places == {"sdp", "nat", "moved"}
Dtls == [kind : {"flight", "alert"}, n : 0 .. 4, at : Places]
Foreign == [kind : {"media", "dtls"}, n : {0}, at : {"stranger"}]

\* A DTLS endpoint, and where our pipe sends.
End == [role : Role, got : 0 .. 4, out : 0 .. 4]
Pipe == [peer : Places \cup {"stranger"}, frozen : BOOLEAN, closed : BOOLEAN]

\* Types of the two endpoints and what the SDP agreed for them.
EndsOK ==
    /\ deal \in [leg : {"sip", "ice"}, wrong : {"nothing", "cert", "profile", "cipher"}]
    /\ us \in End /\ peer \in [end : End, at : Places]

\* Types of the queue and the wires: only the peer sends flights.
WiresOK ==
    /\ inq \in Seq(Dtls \cup Foreign)
    /\ toUs \subseteq Dtls
    /\ \A d \in toPeer : d.n \in 0 .. 4

\* Types of the pipe and of what the last records said of the destination.
PipeOK == pipe \in Pipe /\ src \in Places \cup {"none"} /\ swept \in BOOLEAN

\* The SDP settles complementary roles, and nothing changes them.
Roles == peer.end.role = Other(us.role)

\* Nothing is derived and nothing frozen before the pump is through.
Unkeyed == pc \in {"connect", "pump"} => keys.out = "none" /\ ~pipe.frozen

\* Keys are those of our role, and of a handshake that was whole and right.
Keyed ==
    keys.out # "none" => Done(us) /\ deal.wrong = "nothing" /\ keys = WriteKeys(us.role)

\* A flight that the pump will read has been seen by the pipe.
Heard ==
    ~pipe.frozen /\ (\E i \in DOMAIN inq : inq[i].kind = "flight") => src # "none"

\* On the plain pipe the destination follows the peer's records.
Latched == deal.leg = "sip" /\ ~pipe.frozen /\ src # "none" => pipe.peer = src \/ swept

\* The inductive invariant.
IInv ==
    EndsOK /\ WiresOK /\ PipeOK /\ Roles /\ Unkeyed /\ Keyed /\ Heard /\ Latched /\ SettledOnPeer

----
(* The endpoints and the wires *)

\* An endpoint that reads a flight goes on to the next.
LEMMA Reading ==
    ASSUME NEW e \in End, NEW n, Reads(e, n)
    PROVE  After(e, n) \in End /\ After(e, n).role = e.role /\ n \in 1 .. 4
<1>1. e.role \in Role /\ e.got \in 0 .. 4 /\ e.out \in 0 .. 4
  BY DEF End
<1>2. n \in 1 .. 4
  BY DEF Reads, Awaited
<1> DEFINE read == [e EXCEPT !.got = n]
           out == IF n < 4 THEN n + 1 ELSE read.out
<1>3. read \in End /\ read.role = e.role
  BY <1>2 DEF End
<1>4. After(e, n) = [read EXCEPT !.out = out]
  BY <1>1, <1>2 DEF After, End
<1> HIDE DEF read
<1>5. out \in 0 .. 4
  BY <1>2, <1>3 DEF End
<1> HIDE DEF out
<1>6. QED BY <1>2, <1>3, <1>4, <1>5 DEF End

\* What is written to a wire: a flight of the peer, or its alert.
LEMMA PeerFlight ==
    ASSUME peer \in [end : End, at : Places], NEW n \in 0 .. 4
    PROVE  Flight(n, peer.at) \in Dtls /\ [Flight(0, peer.at) EXCEPT !.kind = "alert"] \in Dtls
BY DEF Flight, Dtls

\* The first datagram of the queue, and what is left.
LEMMA Received ==
    ASSUME WiresOK, Receives
    PROVE  /\ inq' \in Seq(Dtls \cup Foreign)
           /\ Head(inq) \in Dtls \cup Foreign /\ Head(inq) = inq[1] /\ 1 \in DOMAIN inq
           /\ \A n \in DOMAIN inq' : \E i \in DOMAIN inq : inq'[n] = inq[i]
BY DEF WiresOK, Receives

\* The pipe takes a datagram: a record of DTLS moves an unfrozen destination, and the queue
\* has it or drops it (datagram_received).
LEMMA Arriving ==
    ASSUME IInv, NEW d \in Dtls \cup Foreign, Arrive(d)
    PROVE  /\ inq' \in Seq(Dtls \cup Foreign) /\ PipeOK'
           /\ pipe'.frozen = pipe.frozen
           /\ \A n \in DOMAIN inq' : inq'[n] = d \/ \E i \in DOMAIN inq : inq'[n] = inq[i]
           /\ pipe.frozen => UNCHANGED <<pipe, src, swept>>
           /\ ~pipe.frozen /\ d.kind = "media" => UNCHANGED <<pipe, src, swept>>
           /\ ~pipe.frozen /\ d.kind # "media" =>
                /\ deal.leg = "sip" => pipe'.peer = d.at
                /\ IF d.at = "stranger" THEN swept' /\ src' = src ELSE ~swept' /\ src' = d.at
<1>1. /\ inq \in Seq(Dtls \cup Foreign) /\ pipe \in Pipe /\ swept \in BOOLEAN
      /\ src \in Places \cup {"none"} /\ deal.leg \in {"sip", "ice"}
  BY DEF IInv, WiresOK, PipeOK, EndsOK
<1>2. d.at \in Places \cup {"stranger"}
  BY DEF Dtls, Foreign
<1>3. /\ inq' \in Seq(Dtls \cup Foreign)
      /\ \A n \in DOMAIN inq' : inq'[n] = d \/ \E i \in DOMAIN inq : inq'[n] = inq[i]
  <2>1. CASE Len(inq) < QueueMax
    BY <1>1, <2>1 DEF Arrive
  <2>2. CASE ~(Len(inq) < QueueMax)
    BY <1>1, <2>2 DEF Arrive
  <2>3. QED BY <2>1, <2>2
<1> DEFINE moved == [pipe EXCEPT !.peer = d.at]
<1>4. moved \in Pipe /\ moved.peer = d.at /\ moved.frozen = pipe.frozen
  BY <1>1, <1>2 DEF Pipe
<1>5. pipe' = IF deal.leg = "sip" /\ ~pipe.frozen /\ d.kind # "media" THEN moved ELSE pipe
  BY DEF Arrive, Latches
<1> HIDE DEF moved
<1>6. IF d.kind # "media" /\ ~pipe.frozen
      THEN IF d.at = "stranger" THEN swept' = TRUE /\ src' = src ELSE swept' = FALSE /\ src' = d.at
      ELSE UNCHANGED <<swept, src>>
  BY DEF Arrive
<1>7. pipe' \in Pipe /\ pipe'.frozen = pipe.frozen
  BY <1>1, <1>4, <1>5
<1>8. src' \in Places \cup {"none"} /\ swept' \in BOOLEAN
  BY <1>1, <1>2, <1>6
<1>9. PipeOK'
  BY <1>7, <1>8 DEF PipeOK
<1>10. pipe.frozen => UNCHANGED <<pipe, src, swept>>
  BY <1>5, <1>6
<1>11. ~pipe.frozen /\ d.kind = "media" => UNCHANGED <<pipe, src, swept>>
  BY <1>5, <1>6
<1>12. ~pipe.frozen /\ d.kind # "media" =>
         /\ deal.leg = "sip" => pipe'.peer = d.at
         /\ IF d.at = "stranger" THEN swept' /\ src' = src ELSE ~swept' /\ src' = d.at
  BY <1>4, <1>5, <1>6
<1>13. QED BY <1>3, <1>7, <1>9, <1>10, <1>11, <1>12

\* What arrives leaves the destination on the peer.
LEMMA ArriveKeeps ==
    ASSUME IInv, NEW d \in Dtls \cup Foreign, Arrive(d),
           UNCHANGED <<deal, pc, us, peer, keys>>, toUs' \subseteq toUs, UNCHANGED toPeer
    PROVE  IInv'
<1>1. EndsOK' /\ Roles' /\ WiresOK' /\ PipeOK'
  BY Arriving DEF IInv, EndsOK, Roles, WiresOK
<1>2. Unkeyed' /\ Keyed'
  BY Arriving DEF IInv, Unkeyed, Keyed
<1>3. d \in Dtls => d.at # "stranger" /\ d.at # "none" /\ d.kind # "media"
  BY DEF Dtls, Places
<1>4. d \in Foreign => d.at = "stranger" /\ d.kind # "flight"
  BY DEF Foreign
<1>5. Heard'
  <2> SUFFICES ASSUME ~pipe'.frozen, NEW n \in DOMAIN inq', inq'[n].kind = "flight"
               PROVE  src' # "none"
    BY DEF Heard
  <2>1. ~pipe.frozen
    BY Arriving
  <2>2. CASE inq'[n] = d
    <3>1. d \in Dtls
      BY <1>4, <2>2
    <3>2. QED BY <1>3, <2>1, <3>1, Arriving
  <2>3. CASE \E i \in DOMAIN inq : inq'[n] = inq[i]
    <3>1. src # "none"
      BY <2>1, <2>3 DEF IInv, Heard
    <3>2. CASE d \in Dtls
      BY <1>3, <2>1, <3>2, Arriving
    <3>3. CASE d \in Foreign
      BY <1>4, <2>1, <3>1, <3>3, Arriving
    <3>4. QED BY <3>2, <3>3
  <2>4. QED BY <2>2, <2>3, Arriving
<1>6. Latched'
  <2> SUFFICES ASSUME deal.leg = "sip", ~pipe'.frozen, src' # "none"
               PROVE  pipe'.peer = src' \/ swept'
    BY DEF Latched
  <2>1. ~pipe.frozen
    BY Arriving
  <2>2. CASE d.kind = "media"
    BY <2>1, <2>2, Arriving DEF IInv, Latched
  <2>3. CASE d.kind # "media"
    BY <2>1, <2>3, Arriving
  <2>4. QED BY <2>2, <2>3
<1>7. SettledOnPeer'
  BY Arriving DEF IInv, SettledOnPeer
<1>8. QED BY <1>1, <1>2, <1>5, <1>6, <1>7 DEF IInv

----
(* The pump *)

\* A round that does not complete the handshake leaves the keys and the pipe alone.
LEMMA PumpKeeps ==
    ASSUME IInv, pc = "pump", us' \in End, us'.role = us.role,
           UNCHANGED <<deal, peer, pipe, keys, src, swept, toUs>>,
           \A d \in toPeer' : d.n \in 0 .. 4,
           inq' \in Seq(Dtls \cup Foreign),
           \A n \in DOMAIN inq' : \E i \in DOMAIN inq : inq'[n] = inq[i]
    PROVE  IInv'
<1>1. EndsOK' /\ Roles' /\ WiresOK' /\ PipeOK'
  BY DEF IInv, EndsOK, Roles, WiresOK, PipeOK
<1>2. Unkeyed' /\ Keyed'
  BY DEF IInv, Unkeyed, Keyed
<1>3. Heard' /\ Latched' /\ SettledOnPeer'
  BY DEF IInv, Heard, Latched, SettledOnPeer
<1>4. QED BY <1>1, <1>2, <1>3 DEF IInv

\* The round that completes it: on a flight of the peer, so that the destination is the
\* peer's, and only with the certificate that the SDP named are there keys.
LEMMA Concluding ==
    ASSUME IInv, pc = "pump", us' \in End, us'.role = us.role, Done(us'),
           deal.wrong # "cipher", Conclude,
           \E i \in DOMAIN inq : inq[i].kind = "flight",
           UNCHANGED <<deal, peer, src, swept, toUs>>,
           \A d \in toPeer' : d.n \in 0 .. 4,
           inq' \in Seq(Dtls \cup Foreign),
           \A n \in DOMAIN inq' : \E i \in DOMAIN inq : inq'[n] = inq[i]
    PROVE  IInv'
<1> DEFINE freezes == deal.leg = "sip" /\ deal.wrong # "cert"
           next == [pipe EXCEPT !.frozen = freezes]
<1>1. pipe \in Pipe /\ freezes \in BOOLEAN
  BY DEF IInv, PipeOK
<1>2. freezes => deal.leg = "sip"
  OBVIOUS
<1>3. pipe' = next
  BY DEF Conclude
<1> HIDE DEF freezes
<1>4. next \in Pipe /\ next.frozen = freezes /\ next.peer = pipe.peer
  BY <1>1 DEF Pipe
<1> HIDE DEF next
<1>5. pipe' \in Pipe /\ pipe'.frozen = freezes /\ pipe'.peer = pipe.peer
  BY <1>3, <1>4
<1>6. EndsOK' /\ Roles' /\ WiresOK' /\ PipeOK'
  BY <1>5 DEF IInv, EndsOK, Roles, WiresOK, PipeOK
<1>7. pc' \in {"keyed", "failed"} /\ keys.out = "none" /\ ~pipe.frozen
  BY DEF Conclude, IInv, Unkeyed
<1>8. Unkeyed'
  BY <1>7 DEF Unkeyed
<1>9. Keyed'
  <2>1. CASE Verified
    <3>1. deal.wrong = "nothing"
      BY <2>1 DEF Verified, Profiled, IInv, EndsOK
    <3>2. keys' = WriteKeys(us'.role)
      BY <2>1 DEF Conclude
    <3>3. QED BY <3>1, <3>2 DEF Keyed
  <2>2. CASE ~Verified
    BY <1>7, <2>2 DEF Conclude, Keyed
  <2>3. QED BY <2>1, <2>2
<1>10. src # "none"
  BY <1>7 DEF IInv, Heard
<1>11. freezes => pipe.peer = src \/ swept
  BY <1>2, <1>7, <1>10 DEF IInv, Latched
<1>12. Heard' /\ SettledOnPeer'
  BY <1>5, <1>10, <1>11 DEF Heard, SettledOnPeer
<1>13. Latched'
  BY <1>5, <1>7, <1>10 DEF IInv, Latched
<1>14. QED BY <1>6, <1>8, <1>9, <1>12, <1>13 DEF IInv

\* A round of the pump keeps the invariant, whatever it reads (drive_handshake).
LEMMA RoundStep == IInv /\ Round => IInv'
<1> SUFFICES ASSUME IInv, Round PROVE IInv'
  OBVIOUS
<1> DEFINE d == Head(inq)
<1>1. /\ pc = "pump" /\ UNCHANGED <<deal, peer, toUs, src, swept>>
      /\ RoundFails(d) \/ RoundAdvances(d) \/ RoundIdle(d)
  BY DEF Round, ghosts
<1>2. /\ inq' \in Seq(Dtls \cup Foreign)
      /\ d \in Dtls \cup Foreign /\ d = inq[1] /\ 1 \in DOMAIN inq
      /\ \A n \in DOMAIN inq' : \E i \in DOMAIN inq : inq'[n] = inq[i]
  BY Received DEF IInv, Round
<1>3. us \in End /\ \A x \in toPeer : x.n \in 0 .. 4
  BY DEF IInv, EndsOK, WiresOK
<1> HIDE DEF d
<1>4. ASSUME NEW n \in 0 .. 4, Sends(n) PROVE \A x \in toPeer' : x.n \in 0 .. 4
  BY <1>3, <1>4 DEF Sends, Flight
<1>5. CASE RoundFails(d)
  <2>1. us' \in End /\ us'.role = us.role
    BY <1>3, <1>5, Reading DEF RoundFails
  <2>2. UNCHANGED <<pipe, toPeer, keys>>
    BY <1>5 DEF RoundFails
  <2>3. QED BY <1>1, <1>2, <1>3, <2>1, <2>2, PumpKeeps
<1>6. CASE RoundAdvances(d)
  <2>1. /\ us' \in End /\ us'.role = us.role /\ d.n \in 1 .. 4
    BY <1>3, <1>6, Reading DEF RoundAdvances
  <2>2. \A x \in toPeer' : x.n \in 0 .. 4
    <3>1. CASE d.n < 4
      BY <1>4, <1>6, <2>1, <3>1 DEF RoundAdvances
    <3>2. CASE ~(d.n < 4)
      BY <1>3, <1>6, <3>2 DEF RoundAdvances
    <3>3. QED BY <3>1, <3>2
  <2>3. CASE Done(us')
    <3>1. Conclude /\ deal.wrong # "cipher" /\ d.kind = "flight"
      BY <1>6, <2>3 DEF RoundAdvances, Fatal
    <3>2. QED BY <1>1, <1>2, <2>1, <2>2, <2>3, <3>1, Concluding
  <2>4. CASE ~Done(us')
    <3>1. UNCHANGED <<pc, pipe, keys>>
      BY <1>6, <2>4 DEF RoundAdvances
    <3>2. QED BY <1>1, <1>2, <2>1, <2>2, <3>1, PumpKeeps
  <2>5. QED BY <2>3, <2>4
<1>7. CASE RoundIdle(d)
  <2>1. UNCHANGED <<pc, us, pipe, keys>> /\ (UNCHANGED toPeer \/ Sends(us.out))
    BY <1>7 DEF RoundIdle
  <2>2. us.out \in 0 .. 4
    BY <1>3 DEF End
  <2>3. \A x \in toPeer' : x.n \in 0 .. 4
    BY <1>3, <1>4, <2>1, <2>2
  <2>4. QED BY <1>1, <1>2, <1>3, <2>1, <2>3, PumpKeeps
<1>8. QED BY <1>1, <1>5, <1>6, <1>7

----
(* The invariant *)

\* The invariant holds of a call that has its SDP, for every offer, override, leg and fault.
LEMMA InitIInv == Init => IInv
<1> SUFFICES ASSUME Init PROVE IInv
  OBVIOUS
<1>0. PICK offer \in Role \cup {"actpass", "none"}, forced \in Role \cup {"auto"},
           leg \in {"sip", "ice"}, wrong \in {"nothing", "cert", "profile", "cipher"},
           nat \in BOOLEAN :
        /\ deal = [leg |-> leg, wrong |-> wrong]
        /\ pc = IF leg = "ice" THEN "connect" ELSE "pump"
        /\ us = OurEndpoint(offer, forced)
        /\ peer = [end |-> Endpoint(IF offer \in Role THEN offer ELSE Other(us.role)),
                   at |-> IF nat THEN "nat" ELSE "sdp"]
  BY DEF Init
<1> DEFINE theirs == IF offer \in Role THEN offer ELSE Other(us.role)
           end == Endpoint(theirs)
           at == IF nat THEN "nat" ELSE "sdp"
<1>init. /\ pipe = FreshPipe /\ inq = <<>> /\ toUs = {} /\ toPeer = {}
      /\ keys = [in |-> "none", out |-> "none"] /\ src = "none" /\ swept = FALSE
  BY DEF Init
<1>1. AnswerSetup(offer, forced) \in Role
  BY DEF AnswerSetup, Role, Other
<1>2. \A role \in Role : Endpoint(role) \in End /\ Endpoint(role).role = role /\ Other(role) \in Role
  BY DEF Endpoint, End, Role, Other
<1>3. us \in End /\ us.role = AnswerSetup(offer, forced)
  BY <1>0, <1>1, <1>2 DEF OurEndpoint
<1>4. theirs \in Role /\ theirs = Other(us.role)
  <2>1. CASE offer \in Role
    BY <1>3, <2>1 DEF AnswerSetup, Other, Role
  <2>2. CASE offer \notin Role
    BY <1>1, <1>2, <1>3, <2>2
  <2>3. QED BY <2>1, <2>2
<1>5. end \in End /\ end.role = theirs /\ at \in Places
  BY <1>2, <1>4 DEF Places
<1>6. peer = [end |-> end, at |-> at]
  BY <1>0
<1> HIDE DEF theirs, end, at
<1>7. EndsOK /\ Roles
  BY <1>0, <1>3, <1>4, <1>5, <1>6 DEF EndsOK, Roles
<1>8. WiresOK /\ DOMAIN inq = {}
  BY <1>init DEF WiresOK
<1>9. PipeOK /\ ~pipe.frozen
  BY <1>init DEF PipeOK, Pipe, FreshPipe, Places
<1>10. Unkeyed /\ Keyed /\ Heard /\ Latched /\ SettledOnPeer
  BY <1>init, <1>8, <1>9 DEF Unkeyed, Keyed, Heard, Latched, SettledOnPeer
<1>11. QED BY <1>7, <1>8, <1>9, <1>10 DEF IInv

\* A step of the wires, the peer or the set-up that concerns neither our endpoint nor the keys.
LEMMA Elsewhere ==
    ASSUME IInv, UNCHANGED <<deal, us, keys, inq, src, swept>>,
           peer' \in [end : End, at : Places], peer'.end.role = peer.end.role,
           pc' \in {"connect", "pump"} => pc \in {"connect", "pump"},
           pipe' \in Pipe, pipe'.frozen = pipe.frozen, pipe'.peer = pipe.peer,
           toUs' \subseteq Dtls, \A d \in toPeer' : d.n \in 0 .. 4
    PROVE  IInv'
<1>1. EndsOK' /\ Roles' /\ WiresOK' /\ PipeOK'
  BY DEF IInv, EndsOK, Roles, WiresOK, PipeOK
<1>2. Unkeyed' /\ Keyed' /\ Heard' /\ Latched' /\ SettledOnPeer'
  BY DEF IInv, Unkeyed, Keyed, Heard, Latched, SettledOnPeer
<1>3. QED BY <1>1, <1>2 DEF IInv

\* Every step keeps the invariant.
LEMMA IInvStep == IInv /\ [Next]_vars => IInv'
<1> SUFFICES ASSUME IInv, [Next]_vars PROVE IInv'
  OBVIOUS
<1>0. /\ peer \in [end : End, at : Places] /\ us \in End /\ pipe \in Pipe
      /\ toUs \subseteq Dtls /\ \A d \in toPeer : d.n \in 0 .. 4
      /\ peer.end \in End /\ peer.end.out \in 0 .. 4 /\ us.out \in 0 .. 4
  BY DEF IInv, EndsOK, WiresOK, PipeOK, End
<1>1. CASE IceConnect \/ Stall \/ Cancel \/ PeerBye
  BY <1>0, <1>1, Elsewhere DEF IceConnect, Stall, Cancel, PeerBye, net, ghosts
<1>2. CASE Hello
  <2>1. us' \in End /\ us'.role = us.role /\ pc = "pump"
    BY <1>0, <1>2 DEF Hello, End
  <2>2. \A d \in toPeer' : d.n \in 0 .. 4
    BY <1>0, <1>2 DEF Hello, Sends, Flight
  <2>3. UNCHANGED <<deal, peer, pipe, keys, src, swept, toUs, inq>>
    BY <1>2 DEF Hello, ghosts
  <2>4. inq \in Seq(Dtls \cup Foreign)
    BY DEF IInv, WiresOK
  <2>5. QED BY <2>1, <2>2, <2>3, <2>4, PumpKeeps
<1>3. CASE Round
  BY <1>3, RoundStep
<1>4. CASE HandOver \/ Abort
  <2> DEFINE shut == [pipe EXCEPT !.closed = TRUE]
  <2>1. shut \in Pipe /\ shut.frozen = pipe.frozen /\ shut.peer = pipe.peer
    BY <1>0 DEF Pipe
  <2>2. /\ pipe' = pipe \/ pipe' = shut
        /\ pc' \notin {"connect", "pump"}
        /\ UNCHANGED <<deal, us, keys, inq, src, swept, peer, toUs, toPeer>>
    BY <1>4 DEF HandOver, Abort, net, ghosts
  <2> HIDE DEF shut
  <2>3. QED BY <1>0, <2>1, <2>2, Elsewhere
<1>5. ASSUME NEW d \in toUs, Deliver(d) PROVE IInv'
  <2>1. /\ toUs' \subseteq toUs /\ UNCHANGED <<deal, pc, us, peer, toPeer, keys>> /\ d \in Dtls
    BY <1>0, <1>5 DEF Deliver
  <2>2. CASE pc \in {"connect", "pump", "keyed"}
    BY <1>5, <2>1, <2>2, ArriveKeeps DEF Deliver
  <2>3. CASE pc \notin {"connect", "pump", "keyed"}
    <3>1. UNCHANGED <<pipe, src, swept, inq>>
      BY <1>5, <2>3 DEF Deliver
    <3>2. QED BY <1>0, <2>1, <3>1, Elsewhere
  <2>4. QED BY <2>2, <2>3
<1>6. ASSUME NEW kind \in {"media", "dtls"}, StrayArrives(kind) PROVE IInv'
  <2>1. Stray(kind) \in Foreign
    BY DEF Stray, Foreign
  <2>2. Arrive(Stray(kind)) /\ UNCHANGED <<deal, pc, us, peer, toUs, toPeer, keys>>
    BY <1>6 DEF StrayArrives
  <2>3. QED BY <2>1, <2>2, ArriveKeeps
<1>7. CASE PeerHello \/ PeerRetransmits
  <2>1. UNCHANGED <<deal, pc, us, pipe, inq, toPeer, keys, src, swept>>
    BY <1>7 DEF PeerHello, PeerRetransmits, ghosts
  <2>2. CASE PeerHello
    <3>1. peer' \in [end : End, at : Places] /\ peer'.end.role = peer.end.role
      BY <1>0, <2>2 DEF PeerHello, End
    <3>2. toUs' \subseteq Dtls
      BY <1>0, <2>2, PeerFlight DEF PeerHello, PeerSends
    <3>3. QED BY <1>0, <2>1, <3>1, <3>2, Elsewhere
  <2>3. CASE PeerRetransmits
    <3>1. toUs' \subseteq Dtls /\ peer' = peer
      BY <1>0, <2>3, PeerFlight DEF PeerRetransmits, PeerSends
    <3>2. QED BY <1>0, <2>1, <3>1, Elsewhere
  <2>4. QED BY <1>7, <2>2, <2>3
<1>8. ASSUME NEW d \in toPeer, PeerReads(d) PROVE IInv'
  <2>1. UNCHANGED <<deal, pc, us, pipe, inq, keys, src, swept>> /\ toPeer' \subseteq toPeer
    BY <1>8 DEF PeerReads, ghosts
  <2>2. /\ peer' \in [end : End, at : Places] /\ peer'.end.role = peer.end.role
        /\ toUs' \subseteq Dtls
    <3>1. CASE Reads(peer.end, d.n) /\ deal.wrong = "cipher"
      BY <1>0, <1>8, <3>1, PeerFlight DEF PeerReads, PeerSends
    <3>2. CASE Reads(peer.end, d.n) /\ deal.wrong # "cipher"
      <4>1. After(peer.end, d.n) \in End /\ After(peer.end, d.n).role = peer.end.role
            /\ d.n \in 1 .. 4
        BY <1>0, <3>2, Reading
      <4>2. peer' = [peer EXCEPT !.end = After(@, d.n)]
        BY <1>8, <3>2 DEF PeerReads
      <4>3. peer' \in [end : End, at : Places] /\ peer'.end.role = peer.end.role
        BY <1>0, <4>1, <4>2
      <4>4. CASE d.n < 4
        <5>1. d.n + 1 \in 0 .. 4 /\ toUs' = toUs \cup {Flight(d.n + 1, peer.at)}
          BY <1>8, <3>2, <4>1, <4>4 DEF PeerReads, PeerSends
        <5>2. QED BY <1>0, <4>3, <5>1, PeerFlight
      <4>5. CASE ~(d.n < 4)
        BY <1>0, <1>8, <3>2, <4>3, <4>5 DEF PeerReads
      <4>6. QED BY <4>4, <4>5
    <3>3. CASE ~Reads(peer.end, d.n)
      BY <1>0, <1>8, <3>3, PeerFlight DEF PeerReads, PeerSends
    <3>4. QED BY <3>1, <3>2, <3>3
  <2>3. QED BY <1>0, <2>1, <2>2, Elsewhere
<1>9. ASSUME NEW d, Astray(d) \/ Lose(d) PROVE IInv'
  BY <1>0, <1>9, Elsewhere DEF Astray, Lose
<1>10. CASE PeerMoves
  <2>1. peer' \in [end : End, at : Places] /\ peer'.end.role = peer.end.role
    BY <1>0, <1>10 DEF PeerMoves, Places
  <2>2. QED BY <1>0, <1>10, <2>1, Elsewhere DEF PeerMoves, net, ghosts
<1>11. CASE UNCHANGED vars
  BY <1>0, <1>11, Elsewhere DEF vars, net, ghosts
<1>12. QED
  BY <1>1, <1>2, <1>3, <1>4, <1>5, <1>6, <1>7, <1>8, <1>9, <1>10, <1>11
     DEF Next, Pump, SetUp, Network, Peer

\* The inductive invariant holds in every reachable state, for any bounds on the network.
THEOREM Invariance == FairSpec => []IInv
BY InitIInv, IInvStep, PTL DEF FairSpec

\* When both ends have keys they are each other's, from a handshake whose certificate was
\* the one that the SDP named.
THEOREM KeysAgree == FairSpec => []KeyedAlike
<1>1. IInv => KeyedAlike
  <2> SUFFICES ASSUME IInv, keys.out # "none" PROVE KeyedAlike
    BY DEF KeyedAlike
  <2>1. /\ Done(us) /\ deal.wrong = "nothing" /\ keys = WriteKeys(us.role)
        /\ us.role \in Role /\ peer.end.role = Other(us.role)
    BY DEF IInv, Keyed, EndsOK, End, Roles
  <2>2. QED BY <2>1 DEF KeyedAlike, WriteKeys, Other, Role
<1>2. QED BY <1>1, Invariance, PTL

\* A pipe that is frozen for media is on the peer, unless a stranger's record was the last
\* one it followed (latch, freeze).
THEOREM PipeIsOnPeer == FairSpec => []SettledOnPeer
<1>1. IInv => SettledOnPeer
  BY DEF IInv
<1>2. QED BY <1>1, Invariance, PTL
====
