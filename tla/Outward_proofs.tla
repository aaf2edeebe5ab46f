---- MODULE Outward_proofs ----
(***************************************************************************)
(* What the adapter opens to the gateway, each for any values of its       *)
(* constants: the connection it registers on (Reconnect) and the calls it  *)
(* places (OutboundDial).                                                  *)
(*                                                                         *)
(* Reconnect: where the establishing task can be at each stage of the      *)
(* adapter's life (Stages), and that it has let go of the transport it     *)
(* closes before it takes the next one (Holding).                          *)
(*                                                                         *)
(* OutboundDial: an INVITE is paid for by a remedy that is used up, so     *)
(* that three of them are the most; a final response anywhere on its way   *)
(* closes its own INVITE, so that all but the last are closed; and at      *)
(* every exit of place_call the release has gone before.                   *)
(***************************************************************************)
EXTENDS Reconnect, OutboundDial, FiniteSets, SequenceTheorems, TLAPS

\* disconnect() goes on only when the supervisor is gone; one that swallows its
\* cancellation runs to the end of the attempt it had begun.
Stages ==
    /\ phase = "connecting" => pc \in {"opening", "registering"}
    /\ phase = "stopping" => pc \in {"transport", "opening", "registering", "gone"}
    /\ phase \notin {"connecting", "up", "stopping"} => pc = "gone"

\* What the task holds: the transport it opens, or the one it closes, never both; and a
\* manager is that of a transport.
Holding ==
    /\ pc \in {"opening", "registering", "waiting", "sleeping"} => current # 0 /\ old = 0
    /\ pc \in {"manager", "transport"} => current = 0 /\ old # 0
    /\ managed => current # 0 /\ phase \notin {"closing", "closed"}

\* The bound leaves room for the transport after the one that is closed.
Room ==
    pc \in {"manager", "transport"} => old < MaxConnections \/ conn[old].link = "none"

\* A reader was started when its connection opened, and only the current connection's, or
\* that of the one being closed, is left.
Readers ==
    \A n \in Connection : conn[n].reader =>
        /\ conn[n].link # "none"
        /\ phase \in {"connecting", "up"} => n \in {current, old}

\* A call that has begun began on a transport.
CallsConnected == \A c \in Call : call[c].stage \in {"setup", "live"} => call[c].via # 0

ReconnectInv ==
    /\ TypeOK /\ Stages /\ Holding /\ Room /\ Readers /\ CallsConnected /\ DialogsRouted

----
(* Lemmas *)

\* A failed attempt leaves connect() failed, or the supervisor asleep or gone.
LEMMA AttemptOver ==
    ASSUME AttemptFails, ReconnectInv, pc \in {"opening", "registering"}
    PROVE  /\ phase' \in {"failed", phase} /\ pc' \in {"sleeping", "gone"}
           /\ phase = "connecting" => phase' = "failed" /\ pc' = "gone"
           /\ phase # "connecting" => phase' = phase
           /\ phase # "up" => pc' = "gone"
           /\ phase = "up" => pc' = "sleeping"
BY DEF AttemptFails, ReconnectInv, TypeOK

\* A transport that is let go: the supervisor holds it to close it.
LEMMA LetGo ==
    ASSUME ReconnectInv, Detach, HasRoom, phase = "up", pc \in {"waiting", "sleeping"},
           UNCHANGED <<phase, conn, calls>>, lost' \in BOOLEAN
    PROVE  ReconnectInv'
<1> USE DEF ReconnectInv, calls
<1>1. /\ current # 0 /\ old = 0 /\ old' = current /\ current' = 0
      /\ managed' = FALSE /\ pc' \in {"manager", "transport"}
  BY DEF Detach, Holding
<1>2. TypeOK'
  BY <1>1 DEF TypeOK
<1>3. Stages' /\ Holding' /\ Room' /\ CallsConnected' /\ DialogsRouted'
  BY <1>1 DEF Stages, Holding, Room, HasRoom, CallsConnected, DialogsRouted, TypeOK, Connection
<1>4. Readers'
  BY <1>1 DEF Readers
<1>5. QED BY <1>2, <1>3, <1>4

\* A step of the connections or of the loss event only: who holds what stays.
LEMMA ConnectionStep ==
    ASSUME ReconnectInv, UNCHANGED <<phase, pc, current, managed, old, calls>>,
           lost' \in BOOLEAN, NEW n \in Connection,
           NEW next \in [link : {"up", "dead", "closed"}, reader : BOOLEAN, keepalive : BOOLEAN],
           conn' = [conn EXCEPT ![n] = next],
           conn[n].link # "none", next.reader => conn[n].reader
    PROVE  ReconnectInv'
<1> USE DEF ReconnectInv, calls
<1>1. TypeOK'
  BY DEF TypeOK
<1>2. Stages' /\ Holding' /\ CallsConnected' /\ DialogsRouted'
  BY DEF Stages, Holding, CallsConnected, DialogsRouted, Live
<1>3. Room' /\ Readers'
  BY DEF Room, Readers, TypeOK
<1>4. QED BY <1>1, <1>2, <1>3

----
(* The invariant is inductive *)

\* connect() is opening its first transport.
LEMMA InitReconnectInv == Init => ReconnectInv
<1> SUFFICES ASSUME Init PROVE ReconnectInv
  OBVIOUS
<1>1. /\ phase = "connecting" /\ pc = "opening" /\ lost \in BOOLEAN /\ managed \in BOOLEAN
      /\ dialogs = {} /\ sinks = {}
  BY DEF Init
<1>2. current \in 0 .. MaxConnections /\ old \in 0 .. MaxConnections
  BY ReconnectAssumption DEF Init
<1>3. conn \in [Connection -> [link : {"none", "up", "dead", "closed"},
                              reader : BOOLEAN, keepalive : BOOLEAN]]
  BY DEF Init, Unopened
<1>4. call \in [Call -> [stage : {"none", "setup", "live", "over"}, via : 0 .. MaxConnections]]
  BY ReconnectAssumption DEF Init
<1>5. TypeOK
  BY <1>1, <1>2, <1>3, <1>4 DEF TypeOK
<1>6. Stages /\ Holding /\ Room /\ Readers /\ CallsConnected /\ DialogsRouted
  BY DEF Init, Stages, Holding, Room, Readers, CallsConnected, DialogsRouted, Live, Unopened
<1>7. QED BY <1>5, <1>6 DEF ReconnectInv

\* Every step keeps the invariant.
LEMMA ReconnectStep == ReconnectInv /\ [Next]_vars => ReconnectInv'
<1> SUFFICES ASSUME ReconnectInv, [Next]_vars PROVE ReconnectInv'
  OBVIOUS
<1> USE ReconnectAssumption DEF ReconnectInv
<1>1. CASE Opened
  <2>1. current \in Connection /\ current # 0 /\ old = 0
    BY <1>1 DEF Opened, Holding, TypeOK, Connection
  <2>2. TypeOK'
    BY <1>1, <2>1 DEF Opened, TypeOK, Live
  <2>3. Stages' /\ Holding' /\ Room' /\ CallsConnected'
    BY <1>1, <2>1 DEF Opened, Stages, Holding, Room, CallsConnected
  <2>4. Readers' /\ DialogsRouted'
    BY <1>1, <2>1 DEF Opened, Readers, DialogsRouted, Live, TypeOK
  <2>5. QED BY <2>2, <2>3, <2>4
<1>2. CASE OpenFails \/ RegisterFails
  <2>1. pc \in {"opening", "registering"} /\ AttemptFails
        /\ UNCHANGED <<lost, current, managed, old, conn, call, dialogs, sinks>>
    BY <1>2 DEF OpenFails, RegisterFails, calls
  <2>2. TypeOK' /\ CallsConnected' /\ DialogsRouted'
    BY <2>1, AttemptOver DEF TypeOK, CallsConnected, DialogsRouted, Live
  <2>3. Stages' /\ Holding' /\ Room' /\ Readers'
    BY <2>1, AttemptOver DEF Stages, Holding, Room, Readers
  <2>4. QED BY <2>2, <2>3
<1>3. CASE Established
  <2>1. TypeOK' /\ CallsConnected' /\ DialogsRouted'
    BY <1>3 DEF Established, TypeOK, CallsConnected, DialogsRouted, Live, calls
  <2>2. Stages' /\ Holding' /\ Room' /\ Readers'
    BY <1>3 DEF Established, Stages, Holding, Room, Readers, TypeOK
  <2>3. QED BY <2>1, <2>2
<1>4. CASE LossSeen
  BY <1>4, LetGo DEF LossSeen
<1>5. CASE Retry
  BY <1>5, LetGo DEF Retry, Stages, TypeOK
<1>6. CASE OldManagerClosed
  <2>1. TypeOK' /\ CallsConnected' /\ DialogsRouted'
    BY <1>6 DEF OldManagerClosed, TypeOK, CallsConnected, DialogsRouted, Live, calls
  <2>2. Stages' /\ Holding' /\ Room' /\ Readers'
    BY <1>6 DEF OldManagerClosed, Stages, Holding, Room, Readers, TypeOK
  <2>3. QED BY <2>1, <2>2
<1>7. CASE OldTransportClosed
  <2>1. current = 0 /\ old \in Connection /\ ~managed
    BY <1>7 DEF OldTransportClosed, Holding, TypeOK, Connection
  <2>2. /\ current' \in Connection /\ old' = 0 /\ pc' = "opening"
        /\ UNCHANGED <<phase, lost, managed, call, dialogs, sinks>>
    BY <1>7, <2>1 DEF OldTransportClosed, Room, Connection, calls
  <2>3. \/ conn[old].link = "none" /\ current' = old /\ conn' = conn
        \/ conn' = [conn EXCEPT ![old] = Released]
    BY <1>7 DEF OldTransportClosed
  <2>4. TypeOK'
    <3>1. conn' \in [Connection -> [link : {"none", "up", "dead", "closed"},
                                   reader : BOOLEAN, keepalive : BOOLEAN]]
      <4>1. Released \in [link : {"none", "up", "dead", "closed"},
                          reader : BOOLEAN, keepalive : BOOLEAN]
        BY DEF Released
      <4>2. QED BY <2>1, <2>3, <4>1 DEF TypeOK
    <3>2. current' \in 0 .. MaxConnections /\ old' \in 0 .. MaxConnections
      BY <2>2 DEF Connection
    <3>3. QED BY <2>2, <3>1, <3>2 DEF TypeOK
  <2>5. Stages' /\ Holding' /\ Room' /\ CallsConnected' /\ DialogsRouted'
    BY <1>7, <2>1, <2>2 DEF OldTransportClosed, Stages, Holding, Room, CallsConnected,
                            DialogsRouted, Connection
  <2>6. Readers'
    BY <2>1, <2>2, <2>3 DEF Readers, Released, TypeOK, Connection
  <2>7. QED BY <2>4, <2>5, <2>6
<1>8. ASSUME NEW n \in Connection, Drop(n) PROVE ReconnectInv'
  <2> DEFINE next == [conn[n] EXCEPT !.link = "dead"]
  <2>1. /\ next \in [link : {"up", "dead", "closed"}, reader : BOOLEAN, keepalive : BOOLEAN]
        /\ next.reader => conn[n].reader
    BY <1>8 DEF Drop, TypeOK
  <2>2. conn' = [conn EXCEPT ![n] = next] /\ conn[n].link # "none"
    BY <1>8 DEF Drop
  <2> HIDE DEF next
  <2>3. QED BY <1>8, <2>1, <2>2, ConnectionStep DEF Drop, adapter, TypeOK
<1>9. ASSUME NEW n \in Connection, ReaderEnds(n) PROVE ReconnectInv'
  <2> DEFINE next == [conn[n] EXCEPT !.reader = FALSE]
  <2>1. /\ next \in [link : {"up", "dead", "closed"}, reader : BOOLEAN, keepalive : BOOLEAN]
        /\ next.reader => conn[n].reader
    BY <1>9 DEF ReaderEnds, TypeOK, Readers
  <2>2. conn' = [conn EXCEPT ![n] = next] /\ conn[n].link # "none"
    BY <1>9 DEF ReaderEnds
  <2> HIDE DEF next
  <2>3. QED BY <1>9, <2>1, <2>2, ConnectionStep DEF ReaderEnds, Reports, TypeOK
<1>10. ASSUME NEW n \in Connection, KeepaliveFails(n) PROVE ReconnectInv'
  <2> DEFINE next == [conn[n] EXCEPT !.keepalive = FALSE, !.link = "closed"]
  <2>1. /\ next \in [link : {"up", "dead", "closed"}, reader : BOOLEAN, keepalive : BOOLEAN]
        /\ next.reader => conn[n].reader
    BY <1>10 DEF KeepaliveFails, TypeOK
  <2>2. conn' = [conn EXCEPT ![n] = next] /\ conn[n].link # "none"
    BY <1>10 DEF KeepaliveFails
  <2> HIDE DEF next
  <2>3. QED BY <1>10, <2>1, <2>2, ConnectionStep DEF KeepaliveFails, Reports, TypeOK
<1>11. ASSUME NEW c \in Call, CallArrives(c) \/ CallRegisters(c) \/ CallEnds(c) PROVE ReconnectInv'
  <2>1. UNCHANGED <<adapter, conn>>
    BY <1>11 DEF CallArrives, CallRegisters, CallEnds
  <2>2. /\ call' \in [Call -> [stage : {"none", "setup", "live", "over"},
                              via : 0 .. MaxConnections]]
        /\ CallsConnected'
    <3>1. CASE CallArrives(c)
      BY <3>1 DEF CallArrives, TypeOK, CallsConnected
    <3>2. CASE CallRegisters(c)
      BY <3>2 DEF CallRegisters, TypeOK, CallsConnected
    <3>3. CASE CallEnds(c)
      BY <3>3 DEF CallEnds, TypeOK, CallsConnected
    <3>4. QED BY <1>11, <3>1, <3>2, <3>3
  <2>3. dialogs' \subseteq Connection \X Call /\ sinks' \subseteq Connection \X Call
    <3>1. CASE CallArrives(c)
      BY <3>1 DEF CallArrives, TypeOK
    <3>2. CASE CallRegisters(c)
      <4>1. call[c].via \in Connection
        BY <3>2 DEF CallRegisters, CallsConnected, TypeOK, Connection
      <4>2. managed => current \in Connection
        BY DEF Holding, TypeOK, Connection
      <4>3. QED BY <3>2, <4>1, <4>2 DEF CallRegisters, TypeOK, Routes
    <3>3. CASE CallEnds(c)
      BY <3>3 DEF CallEnds, TypeOK
    <3>4. QED BY <1>11, <3>1, <3>2, <3>3
  <2>4. TypeOK'
    BY <2>1, <2>2, <2>3 DEF TypeOK, adapter
  <2>5. DialogsRouted'
    BY <1>11, <2>1 DEF CallArrives, CallRegisters, CallEnds, DialogsRouted, Routes, Live,
                       adapter, TypeOK
  <2>6. Stages' /\ Holding' /\ Room' /\ Readers'
    BY <2>1 DEF adapter, Stages, Holding, Room, Readers
  <2>7. QED BY <2>2, <2>4, <2>5, <2>6
<1>12. CASE Disconnect \/ SupervisorGone \/ Drained \/ Deregistered
  <2>1. UNCHANGED <<current, old, conn, calls>>
    BY <1>12 DEF Disconnect, SupervisorGone, Drained, Deregistered
  <2>2. /\ phase' \in {"stopping", "draining", "deregistering", "closing"}
        /\ pc' \in {pc, "gone"} /\ lost' \in BOOLEAN /\ managed' \in {managed, FALSE}
    BY <1>12 DEF Disconnect, SupervisorGone, Drained, Deregistered, TypeOK
  <2>3. TypeOK'
    BY <2>1, <2>2 DEF calls, TypeOK
  <2>4. CallsConnected' /\ DialogsRouted'
    <3>1. UNCHANGED <<current, call, dialogs, Live>>
      BY <2>1 DEF calls, Live
    <3>2. managed' => managed
      BY <2>2 DEF TypeOK
    <3>3. QED BY <3>1, <3>2 DEF CallsConnected, DialogsRouted
  <2>5. Stages' /\ Holding' /\ Room' /\ Readers'
    BY <1>12, <2>1 DEF Disconnect, SupervisorGone, Drained, Deregistered, Stages, Holding,
                       Room, Readers, TypeOK
  <2>6. QED BY <2>3, <2>4, <2>5
<1>13. CASE TransportClosed
  <2>1. pc = "gone" /\ ~managed
    BY <1>13 DEF TransportClosed, Stages, Holding
  <2>2. TypeOK'
    BY <1>13 DEF TransportClosed, TypeOK, Released, calls, Connection
  <2>3. CallsConnected' /\ DialogsRouted' /\ Stages' /\ Holding' /\ Room'
    BY <1>13, <2>1 DEF TransportClosed, CallsConnected, DialogsRouted, Stages, Holding, Room,
                       calls
  <2>4. Readers'
    BY <1>13 DEF TransportClosed, Readers, Released, TypeOK, Connection
  <2>5. QED BY <2>2, <2>3, <2>4
<1>14. CASE UNCHANGED vars
  BY <1>14 DEF vars, adapter, calls, TypeOK, Stages, Holding, Room, Readers, CallsConnected,
               DialogsRouted, Live
<1>15. QED
  BY <1>1, <1>2, <1>3, <1>4, <1>5, <1>6, <1>7, <1>8, <1>9, <1>10, <1>11, <1>12, <1>13, <1>14
     DEF Next, Supervises, Disconnects

----
(* Theorems *)

\* The inductive invariant of the adapter's connections.
THEOREM ReconnectInvariance == Spec => []ReconnectInv
BY InitReconnectInv, ReconnectStep, PTL DEF Spec

\* Whatever attempts fail and however disconnect() races them, no connection is read but
\* the current one and the one being closed, and a manager routes every live call.
THEOREM ConnectionsAreKept == Spec => []ConnectionsKept
<1>1. ReconnectInv => ConnectionsKept
  BY DEF ReconnectInv, ConnectionsKept, OneConnection, Readers
<1>2. QED BY <1>1, ReconnectInvariance, PTL

----
(* OutboundDial *)

\* What may travel to the gateway and back.
Finals == Answers \cup Refusals
Sent == [kind : {"INVITE", "CANCEL"}, n : Attempts] \cup [kind : {"ACK", "BYE"}, n : 0..3]
Heard == [kind : Finals \cup {"trying", "cancelok"}, n : Attempts]

StreamTypes == out \in Seq(Sent) /\ in \in Seq(Heard) /\ sink \in Seq(Heard)

\* The peer has given its last word on that INVITE.
Closed(n) == leg[n] \in {"refused", "answered"}

\* How many INVITEs a remedy has cost.
Remedied(remedy) == IF retried[remedy] THEN 1 ELSE 0

\* Every INVITE after the first was sent for a remedy of its own.
InvitesCounted ==
    /\ cseq = IF dial = "idle" THEN 0 ELSE 1 + Remedied("auth") + Remedied("interval")
    /\ dial = "idle" => ~retried["auth"] /\ ~retried["interval"]
    /\ gateway = "wss" /\ retried["auth"] => retried["read"]

\* An INVITE on its way has not arrived, and comes once.
InvitesInOrder ==
    /\ \A i \in DOMAIN out : out[i].kind = "INVITE" =>
          out[i].n \in 1..cseq /\ leg[out[i].n] = "none"
    /\ \A i, j \in DOMAIN out :
          out[i].kind = "INVITE" /\ out[j].kind = "INVITE" /\ out[i].n = out[j].n => i = j

\* A final response closes its INVITE; one that was replaced is closed, one to come is none.
FinalsClose ==
    /\ \A i \in DOMAIN in : in[i].kind \in Finals => Closed(in[i].n)
    /\ \A i \in DOMAIN sink : sink[i].kind \in Finals => Closed(sink[i].n)
    /\ \A n \in Attempts : /\ n < cseq => Closed(n)
                           /\ n > cseq => leg[n] = "none"

\* A dial that fails on a response has read that of its last INVITE.
AnsweredLast == why = "response" => dial = "failed" /\ cseq \in Attempts /\ Closed(cseq)

\* Every exit of a failed dial has released what the dial held.
NothingLeft ==
    dial = "failed" =>
        /\ ~engine /\ ~armed /\ ~pending
        /\ route = "none" /\ tracked = {} /\ ~cancelled /\ ~byed

DialInv ==
    /\ DialTypeOK /\ StreamTypes /\ InvitesCounted
    /\ InvitesInOrder /\ FinalsClose /\ AnsweredLast /\ NothingLeft

----
(* Sequences *)

\* A message put at the end of a stream.
LEMMA AtEnd ==
    ASSUME NEW S, NEW s \in Seq(S), NEW e \in S
    PROVE  /\ Append(s, e) \in Seq(S)
           /\ \A i \in DOMAIN Append(s, e) : \/ i \in DOMAIN s /\ Append(s, e)[i] = s[i]
                                             \/ i = Len(s) + 1 /\ Append(s, e)[i] = e
           /\ Len(s) + 1 \notin DOMAIN s
BY AppendProperties, LenProperties

\* The stream that is left when its first message has been read.
LEMMA AtFront ==
    ASSUME NEW S, NEW s \in Seq(S), s # <<>>
    PROVE  /\ Tail(s) \in Seq(S) /\ Head(s) \in S
           /\ Head(s) = s[1] /\ 1 \in DOMAIN s
           /\ \A i \in DOMAIN Tail(s) : i \in Nat /\ i + 1 \in DOMAIN s /\ Tail(s)[i] = s[i + 1] /\ i + 1 # 1
BY HeadTailProperties, LenProperties, EmptySeq

\* Several messages put at the end of a stream at once.
LEMMA Joined ==
    ASSUME NEW S, NEW s \in Seq(S), NEW t \in Seq(S)
    PROVE  /\ s \o t \in Seq(S)
           /\ \A i \in DOMAIN (s \o t) : \/ i \in DOMAIN s /\ (s \o t)[i] = s[i]
                                         \/ \E j \in DOMAIN t : (s \o t)[i] = t[j]
<1>1. /\ s \o t \in Seq(S) /\ Len(s \o t) = Len(s) + Len(t)
      /\ \A i \in 1 .. Len(s) + Len(t) : (s \o t)[i] = IF i <= Len(s) THEN s[i] ELSE t[i - Len(s)]
  BY ConcatProperties
<1>2. Len(s) \in Nat /\ Len(t) \in Nat /\ DOMAIN s = 1 .. Len(s) /\ DOMAIN t = 1 .. Len(t)
      /\ DOMAIN (s \o t) = 1 .. Len(s) + Len(t)
  BY <1>1, LenProperties
<1>3. ASSUME NEW i \in 1 .. Len(s) + Len(t), i > Len(s) PROVE i - Len(s) \in 1 .. Len(t)
  BY <1>2, <1>3
<1>4. QED BY <1>1, <1>2, <1>3

----
(* How the streams and the counting of the INVITEs go on *)

\* What the peer is yet to read grows by nothing that opens a leg.
LEMMA OutGrows ==
    ASSUME DialInv, UNCHANGED cseq,
           \A i \in DOMAIN out' : out'[i].kind = "INVITE" => i \in DOMAIN out /\ out'[i] = out[i],
           \A n \in Attempts : leg[n] = "none" => leg'[n] = "none"
    PROVE  InvitesInOrder'
<1>1. 1 .. cseq \subseteq Attempts
  BY DEF DialInv, DialTypeOK, Attempts
<1>2. QED BY <1>1 DEF DialInv, InvitesInOrder

\* One more INVITE is on its way, for a dial whose last one is closed.
LEMMA OutInvites ==
    ASSUME DialInv, NEW k \in Attempts, k = cseq + 1, Invites(k), UNCHANGED leg,
           cseq \in Attempts => Closed(cseq)
    PROVE  /\ InvitesInOrder' /\ out' \in Seq(Sent)
           /\ \A n \in Attempts : /\ n < cseq' => Closed(n)
                                  /\ n > cseq' => leg[n] = "none"
<1>1. /\ out \in Seq(Sent) /\ cseq \in 0 .. 3 /\ cseq' = k /\ out' = Append(out, Invite(k))
  BY DEF DialInv, StreamTypes, DialTypeOK, Invites
<1>2. Invite(k) \in Sent /\ Invite(k).kind = "INVITE" /\ Invite(k).n = k
  BY DEF Invite, Msg, Sent, Attempts
<1>3. /\ out' \in Seq(Sent)
      /\ \A i \in DOMAIN out' : \/ i \in DOMAIN out /\ out'[i] = out[i]
                                \/ i = Len(out) + 1 /\ out'[i] = Invite(k)
  BY <1>1, <1>2, AtEnd
<1>4. \A i \in DOMAIN out : out[i].kind = "INVITE" => out[i].n \in 1 .. cseq /\ leg[out[i].n] = "none"
  BY DEF DialInv, InvitesInOrder
<1>5. leg[k] = "none" /\ k \in 1 .. cseq'
  BY <1>1 DEF DialInv, FinalsClose, Attempts
<1>6. \A i \in 1 .. cseq : i \in 1 .. cseq' /\ i # k
  BY <1>1 DEF Attempts
<1>7. \A i \in DOMAIN out' : out'[i].kind = "INVITE" => out'[i].n \in 1 .. cseq' /\ leg'[out'[i].n] = "none"
  BY <1>2, <1>3, <1>4, <1>5, <1>6
<1>8. \A i, j \in DOMAIN out' :
        out'[i].kind = "INVITE" /\ out'[j].kind = "INVITE" /\ out'[i].n = out'[j].n => i = j
  BY <1>2, <1>3, <1>4, <1>6 DEF DialInv, InvitesInOrder
<1>9. \A n \in Attempts : /\ n < cseq' => Closed(n)
                          /\ n > cseq' => leg[n] = "none"
  <2> SUFFICES ASSUME NEW n \in Attempts
               PROVE  (n < cseq' => Closed(n)) /\ (n > cseq' => leg[n] = "none")
    OBVIOUS
  <2>1. n < cseq' => n < cseq \/ (n = cseq /\ cseq \in Attempts)
    BY <1>1 DEF Attempts
  <2>2. n > cseq' => n > cseq
    BY <1>1 DEF Attempts
  <2>3. QED BY <2>1, <2>2 DEF DialInv, FinalsClose
<1>10. QED BY <1>3, <1>7, <1>8, <1>9 DEF InvitesInOrder

FinalsIn(q) == \A i \in DOMAIN q : q[i].kind \in Finals => Closed(q[i].n)

\* A final response that place_call takes for its own is of its last INVITE.
LEMMA OwnFinal ==
    ASSUME DialInv, dial = "waiting", sink # <<>>, Head(sink).kind \in Finals, ~OldFinal(Head(sink))
    PROVE  cseq \in Attempts /\ Closed(cseq)
<1>1. cseq \in Attempts
  BY DEF DialInv, DialTypeOK, InvitesCounted, Remedied, Attempts
<1>2. /\ Head(sink) \in Heard /\ Closed(Head(sink).n)
  BY AtFront DEF DialInv, StreamTypes, FinalsClose
<1>3. Head(sink).n \in Attempts /\ leg[Head(sink).n] # "none"
  BY <1>2 DEF Heard, Closed
<1>4. cseq = 1 \/ Head(sink).n = cseq
  BY <1>1 DEF OldFinal, Passes, Finals, Answers, Refusals, Attempts
<1>5. Head(sink).n <= cseq
  BY <1>1, <1>3 DEF DialInv, FinalsClose, Attempts
<1>6. Head(sink).n = cseq
  BY <1>1, <1>3, <1>4, <1>5 DEF Attempts
<1>7. QED BY <1>1, <1>2, <1>6

\* A step that sends no INVITE, fails no dial and brings no INVITE to the peer.
Calm ==
    /\ UNCHANGED <<gateway, cseq, retried, why>>
    /\ dial' = "idle" <=> dial = "idle"
    /\ dial = "failed" => dial' = "failed"
    /\ \A n \in Attempts : leg[n] = "none" <=> leg'[n] = "none"
    /\ \A n \in Attempts : Closed(n) => Closed(n)'
    /\ \A i \in DOMAIN out' : out'[i].kind = "INVITE" => i \in DOMAIN out /\ out'[i] = out[i]

\* Such a step leaves the counting of the INVITEs as it was.
LEMMA CalmStep ==
    ASSUME DialInv, Calm, DialTypeOK', StreamTypes', NothingLeft', FinalsIn(in)', FinalsIn(sink)'
    PROVE  DialInv'
<1>1. InvitesInOrder'
  BY OutGrows DEF Calm
<1>2. InvitesCounted'
  <2>1. gateway' = gateway /\ cseq' = cseq /\ retried' = retried /\ (dial' = "idle" <=> dial = "idle")
    BY DEF Calm
  <2>2. QED BY <2>1 DEF DialInv, InvitesCounted, Remedied
<1>3. FinalsClose'
  <2>1. \A n \in Attempts : /\ n < cseq' => Closed(n)'
                            /\ n > cseq' => leg'[n] = "none"
    BY DEF Calm, DialInv, FinalsClose
  <2>2. QED BY <2>1 DEF FinalsClose, FinalsIn, Attempts, Finals, Answers, Refusals
<1>4. AnsweredLast'
  BY DEF Calm, DialInv, AnsweredLast, Attempts
<1>5. QED BY <1>1, <1>2, <1>3, <1>4 DEF DialInv

\* A response is taken, or none: what is queued is of closed INVITEs still.
LEMMA SinkTail ==
    ASSUME DialInv, UNCHANGED leg, sink' = sink \/ (sink # <<>> /\ sink' = Tail(sink))
    PROVE  sink' \in Seq(Heard) /\ FinalsIn(sink)'
<1>1. sink \in Seq(Heard) /\ FinalsIn(sink)
  BY DEF DialInv, StreamTypes, FinalsClose, FinalsIn
<1>2. CASE sink' = sink
  BY <1>1, <1>2 DEF FinalsIn, Closed
<1>3. CASE sink # <<>> /\ sink' = Tail(sink)
  <2>1. /\ sink' \in Seq(Heard)
        /\ \A i \in DOMAIN sink' : i + 1 \in DOMAIN sink /\ sink'[i] = sink[i + 1]
    BY <1>1, <1>3, AtFront
  <2>2. QED BY <1>1, <2>1 DEF FinalsIn, Closed
<1>4. QED BY <1>2, <1>3

\* However place_call fails, it leaves nothing (Fails, Releases).
LEMMA FailsInv ==
    ASSUME DialInv, NEW reason, Fails(reason), dial \notin {"idle", "failed"}, UNCHANGED <<in, peer>>,
           sink' = sink \/ (sink # <<>> /\ sink' = Tail(sink)),
           reason = "response" => cseq \in Attempts /\ Closed(cseq)
    PROVE  DialInv'
<1>1. /\ dial' = "failed" /\ why' = reason
      /\ UNCHANGED <<gateway, cseq, retried, answer, stale, ackSent, leg, dialog, repeats, in, aborted>>
      /\ pending' = FALSE /\ armed' = FALSE /\ engine' = FALSE
      /\ route' = "none" /\ tracked' = {} /\ cancelled' = FALSE /\ byed' = FALSE
      /\ out' = out \/ out' = Append(out, Msg("BYE", cseq))
  BY DEF Fails, Releases, task, peer
<1>2. DialTypeOK /\ out \in Seq(Sent) /\ in \in Seq(Heard)
  BY DEF DialInv, StreamTypes
<1>3. DialTypeOK'
  BY <1>1, <1>2 DEF DialTypeOK
<1>4. /\ out' \in Seq(Sent)
      /\ \A i \in DOMAIN out' : out'[i].kind = "INVITE" => i \in DOMAIN out /\ out'[i] = out[i]
  <2>1. CASE out' = out
    BY <1>2, <2>1
  <2>2. CASE out' = Append(out, Msg("BYE", cseq))
    <3>1. Msg("BYE", cseq) \in Sent /\ Msg("BYE", cseq).kind # "INVITE"
      BY <1>2 DEF Msg, Sent, DialTypeOK
    <3>2. QED BY <1>2, <2>2, <3>1, AtEnd
  <2>3. QED BY <1>1, <2>1, <2>2
<1>5. InvitesInOrder'
  BY <1>1, <1>4, OutGrows
<1>6. InvitesCounted'
  BY <1>1 DEF DialInv, InvitesCounted, Remedied
<1>7. FinalsClose'
  <2>1. FinalsIn(sink)'
    BY <1>1, SinkTail
  <2>2. FinalsIn(in)'
    BY <1>1 DEF DialInv, FinalsClose, FinalsIn, Closed
  <2>3. \A n \in Attempts : /\ n < cseq' => Closed(n)'
                            /\ n > cseq' => leg'[n] = "none"
    BY <1>1 DEF DialInv, FinalsClose, Closed
  <2>4. QED BY <2>1, <2>2, <2>3 DEF FinalsClose, FinalsIn, Attempts, Finals, Answers, Refusals
<1>8. AnsweredLast'
  BY <1>1 DEF AnsweredLast, Closed, Attempts
<1>9. NothingLeft'
  BY <1>1 DEF NothingLeft
<1>10. StreamTypes'
  BY <1>1, <1>2, <1>4, SinkTail DEF StreamTypes, Heard, Sent, Finals, Answers, Refusals, Attempts
<1>11. QED BY <1>3, <1>5, <1>6, <1>7, <1>8, <1>9, <1>10 DEF DialInv

\* One more INVITE, for a remedy that was not used yet.
LEMMA ResendsInv ==
    ASSUME DialInv, NEW remedy \in {"auth", "interval"}, Resends(remedy), dial = "waiting",
           ~retried[remedy], gateway = "wss" => remedy = "auth", UNCHANGED <<in, peer>>,
           sink # <<>> /\ sink' = Tail(sink), cseq \in Attempts /\ Closed(cseq)
    PROVE  DialInv'
<1>1. /\ Invites(cseq + 1) /\ retried' = [retried EXCEPT ![remedy] = TRUE, !["read"] = TRUE]
      /\ UNCHANGED <<gateway, dial, answer, stale, ackSent, route, cancelled, byed, pending, aborted,
                     armed, engine, why, leg, dialog, repeats, in>>
  BY DEF Resends, abort, peer
<1>2. DialTypeOK /\ StreamTypes /\ cseq \in Attempts
  BY DEF DialInv
<1>3. retried \in [{"auth", "interval", "read"} -> BOOLEAN]
  BY <1>2 DEF DialTypeOK
<1>4. /\ retried' \in [{"auth", "interval", "read"} -> BOOLEAN]
      /\ retried'[remedy] = TRUE /\ retried'["read"] = TRUE
      /\ \A x \in {"auth", "interval"} : x # remedy => retried'[x] = retried[x]
  BY <1>1, <1>3
<1>5. /\ 1 + Remedied("auth")' + Remedied("interval")' = cseq + 1 /\ cseq + 1 \in Attempts
  <2>1. cseq = 1 + Remedied("auth") + Remedied("interval")
    BY DEF DialInv, InvitesCounted
  <2>2. CASE remedy = "auth"
    BY <1>3, <1>4, <2>1, <2>2 DEF Remedied, Attempts
  <2>3. CASE remedy = "interval"
    BY <1>3, <1>4, <2>1, <2>3 DEF Remedied, Attempts
  <2>4. QED BY <2>2, <2>3
<1>6. cseq' = cseq + 1 /\ tracked' = tracked \cup {cseq + 1}
  BY <1>1 DEF Invites
<1>7. DialTypeOK'
  <2>1. cseq' \in 0 .. 3 /\ tracked' \subseteq Attempts
    BY <1>2, <1>5, <1>6 DEF DialTypeOK, Attempts
  <2>2. QED BY <1>1, <1>2, <1>4, <2>1 DEF DialTypeOK
<1>8. /\ InvitesInOrder' /\ out' \in Seq(Sent)
      /\ \A n \in Attempts : /\ n < cseq' => Closed(n)
                             /\ n > cseq' => leg[n] = "none"
  BY <1>1, <1>5, OutInvites
<1>9. sink' \in Seq(Heard) /\ FinalsIn(sink)'
  BY <1>1, SinkTail
<1>10. StreamTypes'
  <2>1. in' \in Seq(Heard)
    BY <1>1, <1>2 DEF StreamTypes
  <2>2. QED BY <1>8, <1>9, <2>1 DEF StreamTypes, Heard, Sent, Finals, Answers, Refusals, Attempts
<1>11. InvitesCounted'
  BY <1>1, <1>4, <1>5, <1>6 DEF InvitesCounted
<1>12. FinalsClose'
  <2>1. FinalsIn(in)'
    BY <1>1 DEF DialInv, FinalsClose, FinalsIn, Closed
  <2>2. \A n \in Attempts : /\ n < cseq' => Closed(n)'
                            /\ n > cseq' => leg'[n] = "none"
    BY <1>1, <1>8 DEF Closed
  <2>3. QED BY <1>9, <2>1, <2>2 DEF FinalsClose, FinalsIn, Attempts, Finals, Answers, Refusals
<1>13. AnsweredLast'
  BY <1>1 DEF DialInv, AnsweredLast
<1>14. NothingLeft'
  BY <1>1 DEF NothingLeft
<1>15. QED BY <1>7, <1>8, <1>10, <1>11, <1>12, <1>13, <1>14 DEF DialInv

\* The steps of place_call: each fails the dial, sends one more INVITE or goes on.
LEMMA DialsInv == ASSUME DialInv, Dials \/ Interrupt PROVE DialInv'
<1>a. DialTypeOK /\ StreamTypes /\ out \in Seq(Sent) /\ in \in Seq(Heard)
  BY DEF DialInv, StreamTypes
<1>b. ASSUME UNCHANGED <<in, leg>> PROVE FinalsIn(in)' /\ in' \in Seq(Heard)
  BY <1>a, <1>b DEF DialInv, FinalsClose, FinalsIn, Closed
<1>c. ASSUME Await PROVE /\ dial = "waiting" /\ sink # <<>> /\ sink' = Tail(sink) /\ Head(sink) \in Heard
                         /\ UNCHANGED <<in, peer, leg, dialog, repeats>>
                         /\ sink' \in Seq(Heard) /\ FinalsIn(sink)'
  <2>1. UNCHANGED <<in, peer, leg, dialog, repeats>> /\ sink # <<>> /\ sink' = Tail(sink) /\ dial = "waiting"
    BY <1>c DEF Await, peer
  <2>2. QED BY <1>a, <2>1, SinkTail, AtFront DEF StreamTypes
<1>d. ASSUME NEW m \in Sent, m.kind # "INVITE", out' = Append(out, m)
      PROVE  /\ out' \in Seq(Sent)
             /\ \A i \in DOMAIN out' : out'[i].kind = "INVITE" => i \in DOMAIN out /\ out'[i] = out[i]
  BY <1>a, <1>d, AtEnd
<1>e. ASSUME out' \in Seq(Sent), in' \in Seq(Heard), sink' \in Seq(Heard) PROVE StreamTypes'
  BY <1>e DEF StreamTypes, Heard, Sent, Finals, Answers, Refusals, Attempts
<1>f. Msg("ACK", cseq) \in Sent /\ Msg("ACK", cseq).kind # "INVITE"
  BY <1>a DEF Msg, Sent, DialTypeOK
<1>1. CASE Skip
  <2>1. /\ Await /\ retried' = [retried EXCEPT !["read"] = TRUE]
        /\ UNCHANGED <<gateway, dial, cseq, answer, stale, ackSent, transport, abort, out, why>>
    BY <1>1 DEF Skip
  <2>2. UNCHANGED <<route, tracked, cancelled, byed, pending, aborted, armed, engine, leg, dialog, repeats>>
    BY <1>c, <2>1 DEF transport, abort
  <2>3. retried \in [{"auth", "interval", "read"} -> BOOLEAN]
    BY <1>a DEF DialTypeOK
  <2>4. /\ retried' \in [{"auth", "interval", "read"} -> BOOLEAN]
        /\ retried'["auth"] = retried["auth"] /\ retried'["interval"] = retried["interval"]
        /\ retried'["read"] = TRUE
    BY <2>1, <2>3
  <2>5. DialTypeOK'
    BY <1>a, <2>1, <2>2, <2>4 DEF DialTypeOK
  <2>6. InvitesCounted'
    BY <2>1, <2>4 DEF DialInv, InvitesCounted, Remedied
  <2>7. InvitesInOrder'
    BY <2>1, <2>2, OutGrows
  <2>8. FinalsClose'
    <3>1. \A n \in Attempts : /\ n < cseq' => Closed(n)'
                              /\ n > cseq' => leg'[n] = "none"
      BY <2>1, <2>2 DEF DialInv, FinalsClose, Closed
    <3>2. FinalsIn(in)' /\ FinalsIn(sink)'
      BY <1>b, <1>c, <2>1
    <3>3. QED BY <3>1, <3>2 DEF FinalsClose, FinalsIn, Attempts, Finals, Answers, Refusals
  <2>9. AnsweredLast' /\ NothingLeft'
    BY <2>1, <2>2 DEF DialInv, AnsweredLast, NothingLeft, Closed, Attempts
  <2>10. StreamTypes'
    BY <1>a, <1>b, <1>c, <1>e, <2>1
  <2>11. QED BY <2>5, <2>6, <2>7, <2>8, <2>9, <2>10 DEF DialInv
<1>2. CASE SkipOld
  <2>1. Await
    BY <1>2 DEF SkipOld
  <2>2. CASE Fails("stale")
    BY <1>c, <2>1, <2>2, FailsInv
  <2>3. CASE /\ gateway = "wss" \/ stale < MaxStale
             /\ stale' = IF gateway = "sip" THEN stale + 1 ELSE stale
             /\ UNCHANGED <<gateway, dial, cseq, retried, answer, ackSent, transport,
                            abort, out, why>>
    <3>1. UNCHANGED <<route, tracked, cancelled, byed, pending, aborted, armed, engine, leg, dialog, repeats>>
      BY <1>c, <2>1, <2>3 DEF transport, abort
    <3>2. stale' \in 0 .. MaxStale + 1
      <4>1. stale \in 0 .. MaxStale + 1 /\ MaxStale \in Nat /\ gateway \in {"sip", "wss"}
        BY <1>a, OutboundDialAssumption DEF DialTypeOK
      <4>2. QED BY <2>3, <4>1
    <3>3. DialTypeOK'
      BY <1>a, <2>3, <3>1, <3>2 DEF DialTypeOK
    <3>4. Calm
      BY <2>3, <3>1 DEF Calm, Closed
    <3>5. StreamTypes' /\ NothingLeft'
      BY <1>a, <1>b, <1>c, <1>e, <2>1, <2>3, <3>1 DEF NothingLeft, DialInv
    <3>6. QED BY <1>b, <1>c, <2>1, <3>3, <3>4, <3>5, CalmStep
  <2>4. QED BY <1>2, <2>2, <2>3 DEF SkipOld
<1>3. CASE OnRefusal
  <2> DEFINE m == Head(sink)
  <2>1. Await /\ m.kind \in Refusals /\ ~OldFinal(m)
    BY <1>3 DEF OnRefusal
  <2>2. cseq \in Attempts /\ Closed(cseq)
    BY <1>c, <2>1, OwnFinal DEF Finals
  <2>3. CASE Fails("response")
    BY <1>c, <2>1, <2>2, <2>3, FailsInv
  <2>4. CASE Remedy(m) # "none" /\ Resends(Remedy(m))
    <3>1. /\ Remedy(m) \in {"auth", "interval"} /\ ~retried[Remedy(m)]
          /\ gateway = "wss" => Remedy(m) = "auth"
      <4>0. gateway \in {"sip", "wss"} /\ (gateway = "wss" /\ retried["auth"] => retried["read"])
        BY <1>a, OutboundDialAssumption DEF DialTypeOK, DialInv, InvitesCounted
      <4>1. CASE gateway = "sip"
        BY <2>4, <4>1 DEF Remedy, RemedySip
      <4>2. CASE gateway = "wss"
        BY <2>4, <4>0, <4>2 DEF Remedy, RemedyWss
      <4>3. QED BY <4>0, <4>1, <4>2
    <3>2. QED BY <1>c, <2>1, <2>2, <2>4, <3>1, ResendsInv
  <2>5. QED BY <1>3, <2>3, <2>4 DEF OnRefusal
<1>4. CASE OnAnswer
  <2> DEFINE m == Head(sink)
  <2>1. Await /\ m.kind \in Answers /\ ~OldFinal(m)
    BY <1>4 DEF OnAnswer
  <2>2. cseq \in Attempts /\ Closed(cseq)
    BY <1>c, <2>1, OwnFinal DEF Finals
  <2>3. CASE Fails("response")
    BY <1>c, <2>1, <2>2, <2>3, FailsInv
  <2>4. CASE /\ dial' = "acked" /\ answer' = m.kind /\ ackSent' = TRUE /\ armed' = FALSE
             /\ out' = Append(out, Msg("ACK", cseq))
             /\ UNCHANGED <<gateway, cseq, retried, stale, transport, pending,
                            aborted, engine, why>>
    <3>1. UNCHANGED <<route, tracked, cancelled, byed, leg, dialog, repeats>>
      BY <1>c, <2>1, <2>4 DEF transport
    <3>2. DialTypeOK'
      <4>1. answer' \in Answers \cup {"none"} /\ dial' \in {"idle", "waiting", "handshake", "acked", "up", "failed"}
        BY <2>1, <2>4
      <4>2. {ackSent', armed'} \subseteq BOOLEAN
        BY <2>4
      <4>3. QED BY <1>a, <2>4, <3>1, <4>1, <4>2 DEF DialTypeOK
    <3>3. Calm
      BY <1>c, <1>d, <1>f, <2>1, <2>4, <3>1 DEF Calm, Closed
    <3>4. StreamTypes' /\ NothingLeft'
      BY <1>b, <1>c, <1>d, <1>e, <1>f, <2>1, <2>4, <3>1 DEF NothingLeft
    <3>5. QED BY <1>b, <1>c, <2>1, <3>2, <3>3, <3>4, CalmStep
  <2>5. CASE /\ dial' = "handshake" /\ answer' = m.kind
             /\ UNCHANGED <<gateway, cseq, retried, stale, ackSent, transport, abort,
                            out, why>>
    <3>1. UNCHANGED <<route, tracked, cancelled, byed, pending, aborted, armed, engine, leg, dialog, repeats>>
      BY <1>c, <2>1, <2>5 DEF transport, abort
    <3>2. DialTypeOK'
      <4>1. answer' \in Answers \cup {"none"} /\ dial' \in {"idle", "waiting", "handshake", "acked", "up", "failed"}
        BY <2>1, <2>5
      <4>2. QED BY <1>a, <2>5, <3>1, <4>1 DEF DialTypeOK
    <3>3. Calm
      BY <1>c, <2>1, <2>5, <3>1 DEF Calm, Closed
    <3>4. StreamTypes' /\ NothingLeft'
      BY <1>a, <1>b, <1>c, <1>e, <2>1, <2>5, <3>1 DEF NothingLeft
    <3>5. QED BY <1>b, <1>c, <2>1, <3>2, <3>3, <3>4, CalmStep
  <2>6. QED BY <1>4, <2>3, <2>4, <2>5 DEF OnAnswer
<1>5. CASE Handshake
  <2>1. UNCHANGED <<sink, in, peer, leg, dialog, repeats>> /\ dial = "handshake"
    BY <1>5 DEF Handshake, peer
  <2>2. CASE Fails("handshake")
    BY <2>1, <2>2, FailsInv
  <2>3. CASE /\ dial' = "acked" /\ ackSent' = TRUE /\ out' = Append(out, Msg("ACK", cseq))
             /\ UNCHANGED <<gateway, cseq, retried, answer, stale, transport, abort, why>>
    <3>1. UNCHANGED <<route, tracked, cancelled, byed, pending, aborted, armed, engine>>
      BY <2>3 DEF transport, abort
    <3>2. DialTypeOK'
      <4>1. {ackSent'} \subseteq BOOLEAN
        BY <2>3
      <4>2. QED BY <1>a, <2>1, <2>3, <3>1, <4>1 DEF DialTypeOK
    <3>3. Calm
      BY <1>d, <1>f, <2>1, <2>3 DEF Calm, Closed
    <3>4. sink' \in Seq(Heard) /\ FinalsIn(sink)'
      BY <2>1, SinkTail
    <3>5. StreamTypes' /\ NothingLeft'
      BY <1>b, <1>d, <1>e, <1>f, <2>1, <2>3, <3>4 DEF NothingLeft
    <3>6. QED BY <1>b, <2>1, <3>2, <3>3, <3>4, <3>5, CalmStep
  <2>4. QED BY <1>5, <2>2, <2>3 DEF Handshake
<1>6. CASE Wire
  <2>1. UNCHANGED <<sink, in, peer, leg, dialog, repeats>> /\ dial = "acked"
    BY <1>6 DEF Wire, peer
  <2>2. CASE Fails("refused") \/ Fails("wiring")
    BY <2>1, <2>2, FailsInv
  <2>3. CASE /\ dial' = "up" /\ route' = "session"
             /\ tracked' = {} /\ cancelled' = FALSE /\ byed' = FALSE
             /\ pending' = FALSE /\ armed' = FALSE
             /\ UNCHANGED <<task, aborted, engine, out, why>>
    <3>1. UNCHANGED <<gateway, cseq, retried, answer, stale, ackSent>>
      BY <2>3 DEF task
    <3>2. DialTypeOK'
      <4>1. {cancelled', byed', pending', armed'} \subseteq BOOLEAN
        BY <2>3
      <4>2. QED BY <1>a, <2>1, <2>3, <3>1, <4>1 DEF DialTypeOK
    <3>3. Calm
      BY <2>1, <2>3, <3>1 DEF Calm, Closed
    <3>4. sink' \in Seq(Heard) /\ FinalsIn(sink)'
      BY <2>1, SinkTail
    <3>5. StreamTypes' /\ NothingLeft'
      BY <1>a, <1>b, <1>e, <2>1, <2>3, <3>4 DEF NothingLeft
    <3>6. QED BY <1>b, <2>1, <3>2, <3>3, <3>4, <3>5, CalmStep
  <2>4. QED BY <1>6, <2>2, <2>3 DEF Wire
<1>7. CASE Timeout \/ Interrupt
  BY <1>7, FailsInv DEF Timeout, Interrupt
<1>8. QED BY <1>1, <1>2, <1>3, <1>4, <1>5, <1>6, <1>7 DEF Dials

\* place_call starts: the first INVITE.
LEMMA StartInv == ASSUME DialInv, Start PROVE DialInv'
<1>1. /\ dial = "idle" /\ dial' = "waiting" /\ Invites(1) /\ engine' = TRUE /\ route' = "queue"
      /\ pending' \in BOOLEAN /\ armed' \in BOOLEAN
      /\ UNCHANGED <<gateway, retried, answer, stale, ackSent, sink, cancelled, byed,
                     aborted, in, leg, dialog, repeats, why>>
  <2>1. pending' \in BOOLEAN /\ armed' \in BOOLEAN
    BY DEF Start, StartsSip, StartsWss, DialInv, DialTypeOK
  <2>2. QED BY <2>1 DEF Start, peer
<1>2. DialTypeOK /\ StreamTypes /\ cseq = 0
  BY <1>1 DEF DialInv, InvitesCounted
<1>3. cseq' = 1 /\ tracked' = tracked \cup {1}
  BY <1>1 DEF Invites
<1>4. DialTypeOK'
  <2>1. cseq' \in 0 .. 3 /\ tracked' \subseteq Attempts /\ engine' \in BOOLEAN
    BY <1>1, <1>2, <1>3 DEF DialTypeOK, Attempts
  <2>2. QED BY <1>1, <1>2, <2>1 DEF DialTypeOK
<1>5. /\ InvitesInOrder' /\ out' \in Seq(Sent)
      /\ \A n \in Attempts : /\ n < cseq' => Closed(n)
                             /\ n > cseq' => leg[n] = "none"
  <2>1. 1 \in Attempts /\ 1 = cseq + 1 /\ cseq \notin Attempts
    BY <1>2 DEF Attempts
  <2>2. QED BY <1>1, <2>1, OutInvites
<1>6. StreamTypes'
  BY <1>1, <1>2, <1>5 DEF StreamTypes, Heard, Sent, Finals, Answers, Refusals, Attempts
<1>7. InvitesCounted'
  <2>1. ~retried["auth"] /\ ~retried["interval"]
    BY <1>1 DEF DialInv, InvitesCounted
  <2>2. QED BY <1>1, <1>3, <2>1 DEF InvitesCounted, Remedied
<1>8. FinalsClose'
  BY <1>1, <1>5 DEF DialInv, FinalsClose, Closed, Attempts, Finals, Answers, Refusals
<1>9. AnsweredLast' /\ NothingLeft'
  BY <1>1 DEF DialInv, AnsweredLast, NothingLeft
<1>10. QED BY <1>4, <1>5, <1>6, <1>7, <1>8, <1>9 DEF DialInv

\* abort_call, and the ring timer: nothing of it is done for a dial that has failed.
LEMMA AbortInv == ASSUME DialInv, AbortCall \/ RingExpires PROVE DialInv'
<1>a. DialTypeOK /\ StreamTypes
  BY DEF DialInv
<1>1. /\ pending /\ aborted' = TRUE /\ armed' = FALSE /\ engine' = FALSE
      /\ UNCHANGED <<dial, gateway, cseq, retried, answer, stale, ackSent, sink, route, tracked, byed,
                     pending, in, leg, dialog, repeats, why>>
      /\ \/ UNCHANGED <<cancelled, out>>
         \/ cancelled' = TRUE /\ tracked # {} /\ (out' = out \/ out' = Append(out, Msg("CANCEL", Latest)))
  BY DEF AbortCall, RingExpires, SendCancel, task, peer
<1>2. dial # "failed"
  BY <1>1 DEF DialInv, NothingLeft
<1>3. DialTypeOK'
  BY <1>1, <1>a DEF DialTypeOK
<1>4. ASSUME tracked # {} PROVE Msg("CANCEL", Latest) \in Sent /\ Msg("CANCEL", Latest).kind # "INVITE"
  <2>1. tracked \subseteq {1, 2, 3}
    BY <1>a DEF DialTypeOK, Attempts
  <2>2. \E n \in tracked : \A k \in tracked : k <= n
    <3>1. CASE 3 \in tracked
      BY <2>1, <3>1
    <3>2. CASE 3 \notin tracked /\ 2 \in tracked
      BY <2>1, <3>2
    <3>3. CASE 3 \notin tracked /\ 2 \notin tracked
      <4>1. \A k \in tracked : k = 1
        BY <2>1, <3>3
      <4>2. PICK n : n \in tracked
        BY <1>4
      <4>3. n = 1 /\ \A k \in tracked : k <= n
        BY <4>1, <4>2
      <4>4. QED BY <4>2, <4>3
    <3>4. QED BY <3>1, <3>2, <3>3
  <2>3. Latest \in tracked
    BY <2>2 DEF Latest
  <2>4. QED BY <2>1, <2>3 DEF Msg, Sent, Attempts
<1>5. /\ out' \in Seq(Sent)
      /\ \A i \in DOMAIN out' : out'[i].kind = "INVITE" => i \in DOMAIN out /\ out'[i] = out[i]
  <2>1. out \in Seq(Sent)
    BY <1>a DEF StreamTypes
  <2>2. CASE out' = out
    BY <2>1, <2>2
  <2>3. CASE tracked # {} /\ out' = Append(out, Msg("CANCEL", Latest))
    BY <1>4, <2>1, <2>3, AtEnd
  <2>4. QED BY <1>1, <2>2, <2>3
<1>6. Calm
  BY <1>1, <1>5 DEF Calm, Closed
<1>7. StreamTypes' /\ NothingLeft' /\ FinalsIn(in)' /\ FinalsIn(sink)'
  <2>1. FinalsIn(in)' /\ FinalsIn(sink)'
    BY <1>1 DEF DialInv, FinalsClose, FinalsIn, Closed
  <2>2. StreamTypes'
    BY <1>1, <1>5, <1>a DEF StreamTypes, Heard, Sent, Finals, Answers, Refusals, Attempts
  <2>3. QED BY <1>1, <1>2, <2>1, <2>2 DEF NothingLeft
<1>8. QED BY <1>3, <1>6, <1>7, CalmStep

\* The transport's reader: it answers what crosses a CANCEL, and queues the rest.
LEMMA ReadsInv == ASSUME DialInv, Reads PROVE DialInv'
<1>a. DialTypeOK /\ StreamTypes /\ out \in Seq(Sent) /\ in \in Seq(Heard) /\ sink \in Seq(Heard)
  BY DEF DialInv, StreamTypes
<1>1. /\ in # <<>> /\ in' = Tail(in)
      /\ UNCHANGED <<dial, gateway, cseq, retried, answer, stale, ackSent, pending, aborted, armed,
                     engine, leg, dialog, repeats, why, route, tracked, cancelled>>
      /\ \/ sink' = sink /\ (UNCHANGED <<out, byed>>
                              \/ (tracked # {} /\ out' = out \o GlareReplies /\ byed' = TRUE))
         \/ UNCHANGED <<out, byed>> /\ (sink' = sink \/ sink' = Append(sink, Head(in)))
  BY DEF Reads, OnGlare, Deliver, Receive, task, abort, peer
<1>2. /\ in' \in Seq(Heard) /\ Head(in) \in Heard /\ Head(in) = in[1] /\ 1 \in DOMAIN in
      /\ \A i \in DOMAIN in' : i + 1 \in DOMAIN in /\ in'[i] = in[i + 1]
  BY <1>1, <1>a, AtFront
<1>3. FinalsIn(in)'
  BY <1>1, <1>2 DEF DialInv, FinalsClose, FinalsIn, Closed
<1>4. sink' \in Seq(Heard) /\ FinalsIn(sink)'
  <2>1. CASE sink' = sink
    BY <1>1, <1>a, <2>1 DEF DialInv, FinalsClose, FinalsIn, Closed
  <2>2. CASE sink' = Append(sink, Head(in))
    <3>1. /\ sink' \in Seq(Heard)
          /\ \A i \in DOMAIN sink' : (i \in DOMAIN sink /\ sink'[i] = sink[i]) \/ sink'[i] = Head(in)
      BY <1>2, <1>a, <2>2, AtEnd
    <3>2. Head(in).kind \in Finals => Closed(Head(in).n)
      BY <1>2 DEF DialInv, FinalsClose
    <3>3. QED BY <1>1, <3>1, <3>2 DEF DialInv, FinalsClose, FinalsIn, Closed
  <2>3. QED BY <1>1, <2>1, <2>2
<1>5. /\ out' \in Seq(Sent)
      /\ \A i \in DOMAIN out' : out'[i].kind = "INVITE" => i \in DOMAIN out /\ out'[i] = out[i]
  <2>1. CASE out' = out
    BY <1>a, <2>1
  <2>2. CASE out' = out \o GlareReplies
    <3>1. /\ GlareReplies \in Seq(Sent)
          /\ \A j \in DOMAIN GlareReplies : GlareReplies[j].kind # "INVITE"
      <4>1. Msg("ACK", 0) \in Sent /\ Msg("BYE", 0) \in Sent
            /\ Msg("ACK", 0).kind # "INVITE" /\ Msg("BYE", 0).kind # "INVITE"
        BY DEF Msg, Sent
      <4>2. <<Msg("ACK", 0)>> \in Seq(Sent) /\ <<Msg("BYE", 0)>> \in Seq(Sent) /\ <<>> \in Seq(Sent)
            /\ DOMAIN <<>> = {}
        BY <4>1, EmptySeq, LenProperties
      <4>3. \A j \in DOMAIN <<Msg("ACK", 0)>> : <<Msg("ACK", 0)>>[j].kind # "INVITE"
        BY <4>1
      <4>4. \A j \in DOMAIN <<Msg("BYE", 0)>> : <<Msg("BYE", 0)>>[j].kind # "INVITE"
        BY <4>1
      <4>5. CASE byed
        <5>1. GlareReplies = <<Msg("ACK", 0)>> \o <<>>
          BY <4>5 DEF GlareReplies
        <5>2. GlareReplies = <<Msg("ACK", 0)>>
          BY <4>2, <5>1, ConcatEmptySeq
        <5>3. QED BY <4>2, <4>3, <5>2
      <4>6. CASE ~byed
        <5>1. GlareReplies = <<Msg("ACK", 0)>> \o <<Msg("BYE", 0)>>
          BY <4>6 DEF GlareReplies
        <5>2. /\ GlareReplies \in Seq(Sent)
              /\ \A i \in DOMAIN GlareReplies :
                   \/ i \in DOMAIN <<Msg("ACK", 0)>> /\ GlareReplies[i] = <<Msg("ACK", 0)>>[i]
                   \/ \E j \in DOMAIN <<Msg("BYE", 0)>> : GlareReplies[i] = <<Msg("BYE", 0)>>[j]
          BY <4>2, <5>1, Joined
        <5>3. QED BY <4>3, <4>4, <5>2
      <4>7. QED BY <4>5, <4>6
    <3>2. /\ out' \in Seq(Sent)
          /\ \A i \in DOMAIN out' : \/ i \in DOMAIN out /\ out'[i] = out[i]
                                    \/ \E j \in DOMAIN GlareReplies : out'[i] = GlareReplies[j]
      BY <1>a, <2>2, <3>1, Joined
    <3>3. QED BY <3>1, <3>2
  <2>3. QED BY <1>1, <2>1, <2>2
<1>6. DialTypeOK'
  <2>1. byed' \in BOOLEAN
    BY <1>1, <1>a DEF DialTypeOK
  <2>2. QED BY <1>1, <1>a, <2>1 DEF DialTypeOK
<1>7. Calm
  BY <1>1, <1>5 DEF Calm, Closed
<1>8. NothingLeft'
  BY <1>1 DEF DialInv, NothingLeft
<1>9. StreamTypes'
  BY <1>2, <1>4, <1>5 DEF StreamTypes, Heard, Sent, Finals, Answers, Refusals, Attempts
<1>10. QED BY <1>3, <1>4, <1>6, <1>7, <1>8, <1>9, CalmStep

\* What the peer says is added to its stream: of a closed INVITE if it is final.
LEMMA PeerAdds ==
    ASSUME DialInv, NEW m \in Heard, in' = Append(in, m), m.kind \in Finals => Closed(m.n)',
           \A n \in Attempts : Closed(n) => Closed(n)', UNCHANGED sink
    PROVE  in' \in Seq(Heard) /\ FinalsIn(in)' /\ FinalsIn(sink)'
<1>a. in \in Seq(Heard) /\ sink \in Seq(Heard) /\ \A s \in Heard : s.n \in Attempts
  BY DEF DialInv, StreamTypes, Heard
<1>b. \A i \in DOMAIN in : in[i].n \in Attempts
  BY <1>a, ElementOfSeq, LenProperties
<1>c. \A i \in DOMAIN sink : sink[i].n \in Attempts
  BY <1>a, ElementOfSeq, LenProperties
<1>1. /\ in' \in Seq(Heard)
      /\ \A i \in DOMAIN in' : (i \in DOMAIN in /\ in'[i] = in[i]) \/ in'[i] = m
  BY <1>a, AtEnd
<1>2. FinalsIn(in)'
  BY <1>1, <1>b DEF DialInv, FinalsClose, FinalsIn, Attempts, Finals, Answers, Refusals
<1>3. FinalsIn(sink)'
  BY <1>c DEF DialInv, FinalsClose, FinalsIn, Attempts, Finals, Answers, Refusals
<1>4. QED BY <1>1, <1>2, <1>3

\* A leg that goes on from where it is open: no leg opens, none that was closed opens again.
LEMMA LegGoesOn ==
    ASSUME DialTypeOK, NEW n \in Attempts, Open(n), NEW there \in {"ringing", "refused", "answered"},
           leg' = [leg EXCEPT ![n] = there]
    PROVE  /\ leg' \in [Attempts -> {"none", "trying", "ringing", "refused", "answered"}]
           /\ leg'[n] = there
           /\ \A k \in Attempts : leg[k] = "none" <=> leg'[k] = "none"
           /\ \A k \in Attempts : Closed(k) => Closed(k)'
BY DEF DialTypeOK, Open, Closed

\* The peer rings, refuses, answers, and repeats what it has said.
LEMMA PeerInv ==
    ASSUME DialInv, NEW n \in Attempts, Rings(n) \/ Refuses(n) \/ PickedUp(n) \/ Repeats(n)
    PROVE  DialInv'
<1>a. DialTypeOK /\ StreamTypes /\ out \in Seq(Sent) /\ in \in Seq(Heard) /\ sink \in Seq(Heard)
  BY DEF DialInv, StreamTypes
<1>1. /\ UNCHANGED <<dial, gateway, cseq, retried, answer, stale, ackSent, sink, route, tracked, cancelled,
                     byed, pending, aborted, armed, engine, why, out>>
  BY DEF Rings, Refuses, PickedUp, Repeats, PeerSays, ours, task, transport, abort
<1>2. \E kind \in Finals \cup {"trying"} :
        /\ in' = Append(in, Msg(kind, n))
        /\ \/ /\ Open(n) /\ UNCHANGED repeats /\ dialog' \in {dialog, "answered"}
              /\ \E there \in {"ringing", "refused", "answered"} :
                    leg' = [leg EXCEPT ![n] = there] /\ (kind \in Finals => there # "ringing")
           \/ /\ Closed(n) /\ UNCHANGED <<leg, dialog>> /\ repeats < MaxRepeats /\ repeats' = repeats + 1
  <2>1. CASE Rings(n)
    <3>1. in' = Append(in, Msg("trying", n)) /\ Open(n) /\ UNCHANGED <<repeats, dialog>>
          /\ leg' = [leg EXCEPT ![n] = "ringing"]
      BY <2>1 DEF Rings, PeerSays
    <3>2. "trying" \notin Finals
      BY DEF Finals, Answers, Refusals
    <3>3. QED BY <3>1, <3>2
  <2>2. CASE Refuses(n)
    <3>1. PICK kind \in Refusals \ {"terminated"} : PeerSays(n, kind)
      BY <2>2 DEF Refuses
    <3>2. in' = Append(in, Msg(kind, n)) /\ Open(n) /\ UNCHANGED <<repeats, dialog>>
          /\ leg' = [leg EXCEPT ![n] = "refused"]
      BY <2>2, <3>1 DEF Refuses, PeerSays
    <3>3. kind \in Finals
      BY DEF Finals
    <3>4. QED BY <3>2, <3>3
  <2>3. CASE PickedUp(n)
    <3>1. PICK kind \in Answers : PeerSays(n, kind)
      BY <2>3 DEF PickedUp
    <3>2. in' = Append(in, Msg(kind, n)) /\ Open(n) /\ UNCHANGED repeats /\ dialog' = "answered"
          /\ leg' = [leg EXCEPT ![n] = "answered"]
      BY <2>3, <3>1 DEF PickedUp, PeerSays
    <3>3. kind \in Finals
      BY DEF Finals
    <3>4. QED BY <3>2, <3>3
  <2>4. CASE Repeats(n)
    <3>1. {"ok", "challenge"} \subseteq Finals
      BY DEF Finals, Answers, Refusals
    <3>2. QED BY <2>4, <3>1 DEF Repeats, Closed
  <2>5. QED BY <2>1, <2>2, <2>3, <2>4
<1>3. PICK kind \in Finals \cup {"trying"} :
        /\ in' = Append(in, Msg(kind, n))
        /\ \/ /\ Open(n) /\ UNCHANGED repeats /\ dialog' \in {dialog, "answered"}
              /\ \E there \in {"ringing", "refused", "answered"} :
                    leg' = [leg EXCEPT ![n] = there] /\ (kind \in Finals => there # "ringing")
           \/ /\ Closed(n) /\ UNCHANGED <<leg, dialog>> /\ repeats < MaxRepeats /\ repeats' = repeats + 1
  BY <1>2
<1>4. Msg(kind, n) \in Heard /\ Msg(kind, n).kind = kind /\ Msg(kind, n).n = n
  BY DEF Msg, Heard
<1>5. /\ leg' \in [Attempts -> {"none", "trying", "ringing", "refused", "answered"}]
      /\ \A k \in Attempts : leg[k] = "none" <=> leg'[k] = "none"
      /\ \A k \in Attempts : Closed(k) => Closed(k)'
      /\ kind \in Finals => Closed(n)'
      /\ dialog' \in {"none", "answered", "up", "down"} /\ repeats' \in 0 .. MaxRepeats
  <2>1. MaxRepeats \in Nat /\ repeats \in 0 .. MaxRepeats /\ dialog \in {"none", "answered", "up", "down"}
    BY <1>a, OutboundDialAssumption DEF DialTypeOK
  <2>2. CASE Closed(n) /\ UNCHANGED <<leg, dialog>> /\ repeats < MaxRepeats /\ repeats' = repeats + 1
    BY <1>a, <2>1, <2>2 DEF DialTypeOK, Closed
  <2>3. CASE /\ Open(n) /\ UNCHANGED repeats /\ dialog' \in {dialog, "answered"}
             /\ \E there \in {"ringing", "refused", "answered"} :
                   leg' = [leg EXCEPT ![n] = there] /\ (kind \in Finals => there # "ringing")
    <3>1. PICK there \in {"ringing", "refused", "answered"} :
                 leg' = [leg EXCEPT ![n] = there] /\ (kind \in Finals => there # "ringing")
      BY <2>3
    <3>2. /\ leg' \in [Attempts -> {"none", "trying", "ringing", "refused", "answered"}]
          /\ leg'[n] = there
          /\ \A k \in Attempts : leg[k] = "none" <=> leg'[k] = "none"
          /\ \A k \in Attempts : Closed(k) => Closed(k)'
      BY <1>a, <2>3, <3>1, LegGoesOn
    <3>3. QED BY <2>1, <2>3, <3>1, <3>2 DEF Closed
  <2>4. QED BY <1>3, <2>2, <2>3
<1>6. in' \in Seq(Heard) /\ FinalsIn(in)' /\ FinalsIn(sink)'
  BY <1>1, <1>3, <1>4, <1>5, PeerAdds
<1>7. DialTypeOK'
  BY <1>1, <1>a, <1>5 DEF DialTypeOK
<1>8. Calm
  BY <1>1, <1>5 DEF Calm
<1>9. NothingLeft' /\ StreamTypes'
  <2>1. NothingLeft'
    BY <1>1 DEF DialInv, NothingLeft
  <2>2. QED
    BY <1>1, <1>a, <1>6, <2>1 DEF StreamTypes, Heard, Sent, Finals, Answers, Refusals, Attempts
<1>10. QED BY <1>6, <1>7, <1>8, <1>9, CalmStep

\* The peer reads: an INVITE opens a leg, a CANCEL closes one that rings.
LEMMA PeersInv == ASSUME DialInv, Peers PROVE DialInv'
<1> DEFINE m == Head(out)
<1>a. DialTypeOK /\ StreamTypes /\ out \in Seq(Sent) /\ in \in Seq(Heard) /\ sink \in Seq(Heard)
  BY DEF DialInv, StreamTypes
<1>1. /\ out # <<>> /\ out' = Tail(out)
      /\ UNCHANGED <<dial, gateway, cseq, retried, answer, stale, ackSent, sink, route, tracked, cancelled,
                     byed, pending, aborted, armed, engine, why, repeats>>
  BY DEF Peers, Invited, Terminates, Confirms, PeerReads, ours, task, transport, abort
<1>2. /\ out' \in Seq(Sent) /\ m \in Sent /\ m = out[1] /\ 1 \in DOMAIN out
      /\ \A i \in DOMAIN out' : i \in Nat /\ i + 1 \in DOMAIN out /\ out'[i] = out[i + 1] /\ i + 1 # 1
  BY <1>1, <1>a, AtFront
<1> HIDE DEF m
<1>3. NothingLeft'
  BY <1>1 DEF DialInv, NothingLeft
<1>4. ASSUME in' \in Seq(Heard) PROVE StreamTypes'
  BY <1>1, <1>2, <1>4, <1>a DEF StreamTypes, Heard, Sent, Finals, Answers, Refusals, Attempts
<1>5. InvitesCounted'
  BY <1>1 DEF DialInv, InvitesCounted, Remedied
<1>6. ASSUME \A i \in DOMAIN out' : out'[i].kind = "INVITE" => leg'[out'[i].n] = leg[out'[i].n]
      PROVE  InvitesInOrder'
  <2>1. \A i \in DOMAIN out : out[i].kind = "INVITE" => out[i].n \in 1 .. cseq /\ leg[out[i].n] = "none"
    BY DEF DialInv, InvitesInOrder
  <2>2. \A i, j \in DOMAIN out :
          out[i].kind = "INVITE" /\ out[j].kind = "INVITE" /\ out[i].n = out[j].n => i = j
    BY DEF DialInv, InvitesInOrder
  <2>3. \A i \in DOMAIN out' : out'[i].kind = "INVITE" => out'[i].n \in 1 .. cseq' /\ leg'[out'[i].n] = "none"
    BY <1>1, <1>2, <1>6, <2>1
  <2>4. ASSUME NEW i \in DOMAIN out', NEW j \in DOMAIN out',
               out'[i].kind = "INVITE", out'[j].kind = "INVITE", out'[i].n = out'[j].n
        PROVE  i = j
    <3>1. i + 1 = j + 1
      BY <1>2, <2>2, <2>4
    <3>2. QED BY <1>2, <3>1
  <2>5. QED BY <2>3, <2>4 DEF InvitesInOrder
<1>7. ASSUME FinalsIn(in)', FinalsIn(sink)',
             \A n \in Attempts : Closed(n) => Closed(n)',
             \A n \in Attempts : n > cseq => (leg[n] = "none" => leg'[n] = "none")
      PROVE  FinalsClose' /\ AnsweredLast'
  <2>1. \A n \in Attempts : /\ n < cseq' => Closed(n)'
                            /\ n > cseq' => leg'[n] = "none"
    BY <1>1, <1>7 DEF DialInv, FinalsClose
  <2>2. FinalsClose'
    BY <1>7, <2>1 DEF FinalsClose, FinalsIn, Attempts, Finals, Answers, Refusals
  <2>3. AnsweredLast'
    BY <1>1, <1>7 DEF DialInv, AnsweredLast, Attempts
  <2>4. QED BY <2>2, <2>3
<1>b. /\ \A i \in DOMAIN in : in[i].n \in Attempts
      /\ \A i \in DOMAIN sink : sink[i].n \in Attempts
  <2>1. \A s \in Heard : s.n \in Attempts
    BY DEF Heard
  <2>2. QED BY <1>a, <2>1, ElementOfSeq, LenProperties
<1>c. ASSUME UNCHANGED in, \A n \in Attempts : Closed(n) => Closed(n)' PROVE FinalsIn(in)' /\ FinalsIn(sink)'
  BY <1>1, <1>b, <1>c DEF DialInv, FinalsClose, FinalsIn, Attempts, Finals, Answers, Refusals
<1>8. CASE Invited
  <2>1. m.kind = "INVITE" /\ leg' = [leg EXCEPT ![m.n] = "trying"] /\ UNCHANGED <<in, dialog>>
    BY <1>8 DEF Invited, m
  <2>2. m.n \in 1 .. cseq /\ leg[m.n] = "none" /\ m.n \in Attempts
    <3>1. cseq \in 0 .. 3
      BY <1>a DEF DialTypeOK
    <3>2. m.n \in 1 .. cseq /\ leg[m.n] = "none"
      BY <1>2, <2>1 DEF DialInv, InvitesInOrder
    <3>3. QED BY <3>1, <3>2 DEF Attempts
  <2>3. /\ leg' \in [Attempts -> {"none", "trying", "ringing", "refused", "answered"}]
        /\ \A n \in Attempts : n # m.n => leg'[n] = leg[n]
    BY <1>a, <2>1, <2>2 DEF DialTypeOK
  <2>4. \A n \in Attempts : Closed(n) => Closed(n)'
    BY <2>2, <2>3 DEF Closed
  <2>5. \A n \in Attempts : n > cseq => n # m.n
    BY <1>a, <2>2 DEF DialTypeOK, Attempts
  <2>6. \A i \in DOMAIN out' : out'[i].kind = "INVITE" => out'[i].n # m.n /\ out'[i].n \in Attempts
    <3>1. \A i \in DOMAIN out : out[i].kind = "INVITE" => out[i].n \in Attempts
      <4>1. 1 .. cseq \subseteq Attempts
        BY <1>a DEF DialTypeOK, Attempts
      <4>2. QED BY <4>1 DEF DialInv, InvitesInOrder
    <3>2. \A i \in DOMAIN out : out[i].kind = "INVITE" /\ out[i].n = m.n => i = 1
      BY <1>2, <2>1 DEF DialInv, InvitesInOrder
    <3>3. QED BY <1>2, <3>1, <3>2
  <2>7. InvitesInOrder'
    BY <1>6, <2>3, <2>6
  <2>8. DialTypeOK'
    BY <1>1, <1>a, <2>1, <2>3 DEF DialTypeOK
  <2>9. FinalsClose' /\ AnsweredLast'
    BY <1>7, <1>c, <2>1, <2>3, <2>4, <2>5
  <2>10. StreamTypes'
    BY <1>4, <1>a, <2>1
  <2>11. QED BY <1>3, <1>5, <2>7, <2>8, <2>9, <2>10 DEF DialInv
<1>9. CASE Confirms
  <2>1. /\ UNCHANGED <<in, leg>> /\ dialog' \in {"down", "up", dialog}
    BY <1>9 DEF Confirms
  <2>2. DialTypeOK'
    BY <1>1, <1>a, <2>1 DEF DialTypeOK
  <2>3. InvitesInOrder'
    BY <1>6, <2>1
  <2>4. FinalsClose' /\ AnsweredLast'
    BY <1>7, <1>c, <2>1 DEF Closed
  <2>5. StreamTypes'
    BY <1>4, <1>a, <2>1
  <2>6. QED BY <1>3, <1>5, <2>2, <2>3, <2>4, <2>5 DEF DialInv
<1>10. CASE Terminates
  <2>1. PICK n \in Attempts :
        /\ m.kind = "CANCEL" /\ UNCHANGED dialog
        /\ \/ /\ Open(n) /\ leg' = [leg EXCEPT ![n] = "refused"]
              /\ in' = in \o <<Msg("cancelok", n), Msg("terminated", n)>>
           \/ in' = Append(in, Msg("cancelok", n)) /\ UNCHANGED leg
    <3>1. m.kind = "CANCEL"
      BY <1>10 DEF Terminates, m
    <3>2. m.n \in Attempts
      BY <1>2, <3>1 DEF Sent
    <3>3. QED BY <1>10, <3>1, <3>2 DEF Terminates, m
  <2>3. /\ Msg("cancelok", n) \in Heard /\ Msg("cancelok", n).kind \notin Finals
        /\ Msg("terminated", n) \in Heard /\ Msg("terminated", n).n = n
    BY DEF Msg, Heard, Finals, Answers, Refusals
  <2>4. /\ leg' \in [Attempts -> {"none", "trying", "ringing", "refused", "answered"}]
        /\ \A k \in Attempts : leg[k] = "none" <=> leg'[k] = "none"
        /\ \A k \in Attempts : Closed(k) => Closed(k)'
    <3>1. CASE UNCHANGED leg
      BY <1>a, <3>1 DEF DialTypeOK, Closed
    <3>2. CASE Open(n) /\ leg' = [leg EXCEPT ![n] = "refused"]
      BY <1>a, <3>2, LegGoesOn
    <3>3. QED BY <2>1, <3>1, <3>2
  <2>5. in' \in Seq(Heard) /\ FinalsIn(in)' /\ FinalsIn(sink)'
    <3>1. CASE in' = Append(in, Msg("cancelok", n))
      BY <1>1, <2>3, <2>4, <3>1, PeerAdds
    <3>2. CASE /\ Open(n) /\ leg' = [leg EXCEPT ![n] = "refused"]
               /\ in' = in \o <<Msg("cancelok", n), Msg("terminated", n)>>
      <4> DEFINE both == <<Msg("cancelok", n), Msg("terminated", n)>>
      <4>1. both \in Seq(Heard) /\ \A j \in DOMAIN both : both[j] \in {Msg("cancelok", n), Msg("terminated", n)}
        BY <2>3
      <4> HIDE DEF both
      <4>2. /\ in' \in Seq(Heard)
            /\ \A i \in DOMAIN in' : \/ i \in DOMAIN in /\ in'[i] = in[i]
                                     \/ \E j \in DOMAIN both : in'[i] = both[j]
        BY <1>a, <3>2, <4>1, Joined DEF both
      <4>3. \A i \in DOMAIN in' : \/ i \in DOMAIN in /\ in'[i] = in[i]
                                 \/ in'[i] = Msg("cancelok", n) \/ in'[i] = Msg("terminated", n)
        BY <4>1, <4>2
      <4>4. Closed(n)'
        BY <1>a, <3>2 DEF DialTypeOK, Closed
      <4>5. FinalsIn(in)'
        BY <1>b, <2>3, <2>4, <4>3, <4>4 DEF DialInv, FinalsClose, FinalsIn, Finals, Answers, Refusals
      <4>6. FinalsIn(sink)'
        BY <1>1, <1>b, <2>4 DEF DialInv, FinalsClose, FinalsIn, Attempts, Finals, Answers, Refusals
      <4>7. QED BY <4>2, <4>5, <4>6
    <3>3. QED BY <2>1, <3>1, <3>2
  <2>6. DialTypeOK'
    BY <1>1, <1>a, <2>1, <2>4 DEF DialTypeOK
  <2>7. InvitesInOrder'
    <3>1. \A i \in DOMAIN out : out[i].kind = "INVITE" => leg[out[i].n] = "none" /\ out[i].n \in Attempts
      <4>1. 1 .. cseq \subseteq Attempts
        BY <1>a DEF DialTypeOK, Attempts
      <4>2. QED BY <4>1 DEF DialInv, InvitesInOrder
    <3>2. QED BY <1>2, <1>6, <2>4, <3>1
  <2>8. FinalsClose' /\ AnsweredLast'
    BY <1>7, <2>4, <2>5
  <2>9. StreamTypes'
    BY <1>4, <2>5
  <2>10. QED BY <1>3, <1>5, <2>6, <2>7, <2>8, <2>9 DEF DialInv
<1>11. QED BY <1>8, <1>9, <1>10 DEF Peers

----
(* What follows *)

\* Nothing has been dialled yet.
LEMMA InitDialInv == DialInit => DialInv
<1> SUFFICES ASSUME DialInit PROVE DialInv
  OBVIOUS
<1>1. /\ <<>> \in Seq(Sent) /\ <<>> \in Seq(Heard) /\ DOMAIN <<>> = {}
  BY EmptySeq, LenProperties
<1>2. DialTypeOK
  <2>1. retried \in [{"auth", "interval", "read"} -> BOOLEAN]
    BY DEF DialInit
  <2>2. leg \in [Attempts -> {"none", "trying", "ringing", "refused", "answered"}]
    BY DEF DialInit
  <2>3. {ackSent, cancelled, byed, pending, aborted, armed, engine} \subseteq BOOLEAN
    <3>1. /\ ackSent = FALSE /\ cancelled = FALSE /\ byed = FALSE /\ pending = FALSE
          /\ aborted = FALSE /\ armed = FALSE /\ engine = FALSE
      BY DEF DialInit
    <3>2. QED BY <3>1, Zenon
  <2>4. cseq \in 0 .. 3 /\ stale \in 0 .. MaxStale + 1 /\ repeats \in 0 .. MaxRepeats
    BY OutboundDialAssumption DEF DialInit
  <2>5. QED BY <2>1, <2>2, <2>3, <2>4 DEF DialInit, DialTypeOK
<1>3. StreamTypes
  BY <1>1 DEF DialInit, StreamTypes, Heard, Sent, Finals, Answers, Refusals, Attempts
<1>4. InvitesCounted
  BY DEF DialInit, InvitesCounted
<1>5. InvitesInOrder
  BY <1>1 DEF DialInit, InvitesInOrder
<1>6. FinalsClose
  BY <1>1 DEF DialInit, FinalsClose, Attempts
<1>7. AnsweredLast /\ NothingLeft
  BY DEF DialInit, AnsweredLast, NothingLeft
<1>8. QED BY <1>2, <1>3, <1>4, <1>5, <1>6, <1>7 DEF DialInv

\* The invariant holds throughout every dial.
THEOREM DialInvariance == DialSpec => []DialInv
<1>1. DialInv /\ UNCHANGED dialVars => DialInv'
  <2> SUFFICES ASSUME DialInv, UNCHANGED dialVars PROVE DialInv'
    OBVIOUS
  <2>1. UNCHANGED <<gateway, dial, cseq, retried, answer, stale, ackSent, sink, route, tracked, cancelled,
                    byed, pending, aborted, armed, engine, out, in, leg, dialog, repeats, why>>
    BY DEF dialVars, task, transport, abort, peer
  <2>2. DialTypeOK'
    BY <2>1 DEF DialInv, DialTypeOK
  <2>3. StreamTypes' /\ InvitesCounted'
    BY <2>1 DEF DialInv, StreamTypes, InvitesCounted, Remedied, Heard, Sent, Finals, Answers, Refusals, Attempts
  <2>4. InvitesInOrder'
    BY <2>1, OutGrows DEF DialInv
  <2>5. FinalsClose' /\ AnsweredLast' /\ NothingLeft'
    BY <2>1 DEF DialInv, FinalsClose, AnsweredLast, NothingLeft, Closed, Attempts, Finals, Answers, Refusals
  <2>6. QED BY <2>2, <2>3, <2>4, <2>5 DEF DialInv
<1>2. DialInv /\ [DialNext]_dialVars => DialInv'
  BY <1>1, StartInv, DialsInv, AbortInv, ReadsInv, PeersInv, PeerInv DEF DialNext
<1>3. QED BY <1>2, InitDialInv, PTL DEF DialSpec

\* However a dial fails, nothing of it outlives place_call, and one that fails on a
\* response fails on that of its last INVITE (place_call, abort_call, _on_invite_response).
THEOREM FailsClean == DialSpec => []FailedLeavesNothing
<1>1. DialInv => FailedLeavesNothing
  <2> SUFFICES ASSUME DialInv, dial = "failed" PROVE FailedLeavesNothing
    BY DEF FailedLeavesNothing
  <2>1. ASSUME why = "response", NEW n \in Attempts PROVE ~Open(n)
    <3>1. cseq \in Attempts /\ Closed(cseq)
      BY <2>1 DEF DialInv, AnsweredLast
    <3>2. n < cseq \/ n = cseq \/ n > cseq
      BY <3>1 DEF Attempts
    <3>3. QED BY <3>1, <3>2 DEF DialInv, FinalsClose, Closed, Open
  <2>2. QED BY <2>1 DEF DialInv, NothingLeft, FailedLeavesNothing
<1>2. QED BY <1>1, DialInvariance, PTL
====
