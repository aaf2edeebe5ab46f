---- MODULE Handshake ----
(***************************************************************************)
(* The DTLS-SRTP set-up of one answered call: hermes_voip.media.           *)
(* sip_dtls_session (a plain UDP pipe that latches onto the peer) and      *)
(* webrtc_session (an ICE pipe), the endpoint of media.dtls under both,    *)
(* and the adapter's _setup_sip_dtls_call around them.                     *)
(*                                                                         *)
(* A DTLS handshake is four flights: 1 and 3 are the client's, 2 and 4 the *)
(* server's.  OpenSSL and the peer are external.  OpenSSL looks at its     *)
(* retransmission timer only when it is stepped, and the pump steps it     *)
(* only when a datagram arrives; the peer's own timer really runs.         *)
(***************************************************************************)
EXTENDS Naturals, Sequences

CONSTANTS
    MaxRounds,      \* _MAX_HANDSHAKE_ROUNDS
    QueueMax,       \* _INBOUND_QUEUE_MAXSIZE
    MaxLosses,      \* bound: datagrams that the network drops
    MaxStrays,      \* bound: datagrams that are no part of the handshake
    MaxMoves        \* bound: changes of the peer's source address

ASSUME HandshakeAssumption ==
    /\ {MaxRounds, QueueMax} \subseteq Nat \ {0}
    /\ {MaxLosses, MaxStrays, MaxMoves} \subseteq Nat

VARIABLES
    deal,       \* what the SDP settled: the leg, what is wrong with the peer if anything
    pc,         \* connect, pump, keyed, media, failed, over, cancelled
    us,         \* our endpoint: its role, the last flight it read, the one it sent last
    peer,       \* the peer's, its source address
    rounds,     \* rounds of the pump
    dups,       \* 1 once the peer retransmitted since our last flight: again, and our timer is out
    pipe,       \* the pipe: its destination, frozen, closed
    inq,        \* the pipe's queue
    toUs,       \* datagrams on the wire to us
    toPeer,     \* and to the peer
    keys,       \* our SRTP pair
    byed,       \* the guard: the peer hung up during the set-up
    lost,       \* ghost: the flights of which a copy was lost
    src,        \* ghost: where the peer's last DTLS datagram came from
    swept,      \* ghost: a stray DTLS datagram came after that
    spent       \* losses, strays and moves so far

ghosts == <<lost, src, swept>>
net == <<inq, toUs, toPeer>>
vars == <<deal, pc, us, peer, rounds, dups, pipe, net, keys, byed, ghosts, spent>>

Role == {"active", "passive"}
Other(role) == IF role = "active" THEN "passive" ELSE "active"

\* The operator's preference decides whatever the peer offered.
ForcedFirst(offer, forced) == IF forced = "passive" THEN "passive" ELSE "active"

\* answer_setup_for_offer: a pinned offer wins over the operator's preference.
AnswerSetup(offer, forced) ==
    IF offer \in Role THEN Other(offer)
    ELSE IF forced = "passive" THEN "passive" ELSE "active"

----
(* An endpoint of the handshake *)

Awaited(e) ==
    CASE e.role = "active" -> IF e.got = 0 THEN 2 ELSE 4
      [] OTHER -> IF e.got = 0 THEN 1 ELSE 3

Done(e) == e.got = IF e.role = "active" THEN 4 ELSE 3

Reads(e, n) == ~Done(e) /\ n = Awaited(e)
After(e, n) == [e EXCEPT !.got = n, !.out = IF n < 4 THEN n + 1 ELSE @]

Endpoint(role) == [role |-> role, got |-> 0, out |-> 0]

OurEndpoint(offer, forced) == Endpoint(AnswerSetup(offer, forced))

\* A bound pipe sends to where the SDP said the peer is.
FreshPipe == [peer |-> "sdp", frozen |-> FALSE, closed |-> FALSE]

Flight(n, where) == [kind |-> "flight", n |-> n, at |-> where]
Stray(kind) == [kind |-> kind, n |-> 0, at |-> "stranger"]

Init ==
    \E offer \in Role \cup {"actpass", "none"}, forced \in Role \cup {"auto"},
       leg \in {"sip", "ice"}, wrong \in {"nothing", "cert", "profile", "cipher"},
       nat \in BOOLEAN :
        /\ deal = [leg |-> leg, wrong |-> wrong]
        /\ pc = IF leg = "ice" THEN "connect" ELSE "pump"
        /\ us = OurEndpoint(offer, forced)
        /\ peer = [end |-> Endpoint(IF offer \in Role THEN offer ELSE Other(us.role)),
                   at |-> IF nat THEN "nat" ELSE "sdp"]
    /\ rounds = 0 /\ dups = 0
    /\ pipe = FreshPipe
    /\ inq = <<>> /\ toUs = {} /\ toPeer = {}
    /\ keys = [in |-> "none", out |-> "none"] /\ byed = FALSE
    /\ lost = {} /\ src = "none" /\ swept = FALSE
    /\ spent = [losses |-> 0, strays |-> 0, moves |-> 0]

Sends(n) == toPeer' = toPeer \cup {Flight(n, pipe.peer)}

----
(* The pump: _pump_dtls_handshake *)

\* The ICE leg: the peer's candidates are applied, with the end of them, so that the
\* checks nominate a pair or fail.
IceConnect ==
    /\ pc = "connect"
    /\ pc' \in {"pump", "failed"}
    /\ UNCHANGED <<deal, us, peer, rounds, dups, pipe, net, keys, byed, ghosts, spent>>

\* The first drain: a client's ClientHello.
Hello ==
    /\ pc = "pump" /\ us.role = "active" /\ us.out = 0
    /\ us' = [us EXCEPT !.out = 1]
    /\ Sends(1)
    /\ UNCHANGED <<deal, pc, peer, rounds, dups, pipe, inq, toUs, keys, byed, ghosts, spent>>

\* Each role sends under its own write key: audio, RTCP and video, from one export.
WriteKeys(role) ==
    IF role = "active" THEN [in |-> "server_write", out |-> "client_write"]
    ELSE [in |-> "client_write", out |-> "server_write"]

Profiled == deal.wrong # "profile"
VerifiedNever == Profiled
Verified == deal.wrong # "cert" /\ Profiled

\* The handshake is done: the certificate is compared with the SDP's fingerprint, the
\* destination is frozen, and the keys are derived, or nothing is.
Conclude ==
    /\ pipe' = [pipe EXCEPT !.frozen = deal.leg = "sip" /\ deal.wrong # "cert"]
    /\ IF Verified
       THEN pc' = "keyed" /\ keys' = WriteKeys(us.role)
       ELSE pc' = "failed" /\ UNCHANGED keys

LastRound == rounds + 1 = MaxRounds

\* What a round makes of a datagram: fatal alert, progress, an old flight that OpenSSL
\* answers once its timer has run out, or nothing.
Fatal(d) == d.kind = "alert" \/ (Reads(us, d.n) /\ deal.wrong = "cipher")

RoundFails(d) ==
    /\ Fatal(d) \/ LastRound
    /\ us' = IF Reads(us, d.n) /\ ~Fatal(d) THEN After(us, d.n) ELSE us
    /\ pc' = "failed"
    /\ UNCHANGED <<dups, pipe, toPeer, keys>>

RoundAdvances(d) ==
    /\ ~Fatal(d) /\ ~LastRound /\ d.kind = "flight" /\ Reads(us, d.n)
    /\ us' = After(us, d.n)
    /\ dups' = 0
    /\ IF d.n < 4 THEN Sends(d.n + 1) ELSE UNCHANGED toPeer
    /\ IF Done(us') THEN Conclude ELSE UNCHANGED <<pc, pipe, keys>>

RoundIdle(d) ==
    /\ ~Fatal(d) /\ ~LastRound /\ ~(d.kind = "flight" /\ Reads(us, d.n))
    /\ LET old == d.kind = "flight" /\ us.out > 0 IN
        \/ ~(old /\ dups = 1) /\ dups' = (IF old THEN 1 ELSE dups) /\ UNCHANGED toPeer
        \/ us.out > 0 /\ dups' = 0 /\ Sends(us.out)
    /\ UNCHANGED <<pc, us, pipe, keys>>

Receives == inq # <<>> /\ inq' = Tail(inq)      \* recv

Round ==
    /\ pc = "pump" /\ (us.role = "active" => us.out > 0)
    /\ Receives
    /\ rounds' = rounds + 1
    /\ \/ RoundFails(Head(inq))
       \/ RoundAdvances(Head(inq))
       \/ RoundIdle(Head(inq))
    /\ UNCHANGED <<deal, peer, toUs, byed, ghosts, spent>>

\* A datagram of the peer is due within the ten seconds: on its way, or its timer runs.
PeerOwes ==
    \/ toUs # {} \/ toPeer # {}
    \/ ~Done(peer.end) /\ (peer.end.role = "active" \/ peer.end.out > 0)

TimesOut == ~PeerOwes

\* Ten seconds without a datagram.
Stall ==
    /\ pc = "pump" /\ (us.role = "active" => us.out > 0)
    /\ inq = <<>> /\ TimesOut
    /\ pc' = "failed"
    /\ UNCHANGED <<deal, us, peer, rounds, dups, pipe, net, keys, byed, ghosts, spent>>

----
(* The pipe: _UdpDatagramPipe.datagram_received *)

LatchesAny(d) == ~pipe.frozen

\* Any DTLS record moves the destination until it is frozen; nothing else does.
Latches(d) == ~pipe.frozen /\ d.kind # "media"

Arrive(d) ==
    /\ IF deal.leg = "sip" /\ Latches(d) THEN pipe' = [pipe EXCEPT !.peer = d.at]
       ELSE UNCHANGED pipe
    /\ IF d.kind # "media" /\ ~pipe.frozen
       THEN IF d.at = "stranger" THEN swept' = TRUE /\ UNCHANGED src
            ELSE swept' = FALSE /\ src' = d.at
       ELSE UNCHANGED <<swept, src>>
    /\ IF Len(inq) < QueueMax
       THEN inq' = Append(inq, d) /\ UNCHANGED lost
       ELSE lost' = lost \cup {d.n} /\ UNCHANGED inq

Deliver(d) ==
    /\ d \in toUs
    /\ toUs' = toUs \ {d}
    /\ IF pc \in {"connect", "pump", "keyed"} THEN Arrive(d)
       ELSE UNCHANGED <<pipe, src, swept, lost, inq>>    \* the engine's, or closed
    /\ UNCHANGED <<deal, pc, us, peer, rounds, dups, toPeer, keys, byed, spent>>

\* Early media, or a DTLS record of someone else.
StrayArrives(kind) ==
    /\ pc \in {"pump", "keyed"}
    /\ spent.strays < MaxStrays
    /\ deal.leg = "ice" => kind = "media"       \* aioice knows the sender
    /\ spent' = [spent EXCEPT !.strays = @ + 1]
    /\ Arrive(Stray(kind))
    /\ UNCHANGED <<deal, pc, us, peer, rounds, dups, toUs, toPeer, keys, byed>>

----
(* The set-up around it: _setup_sip_dtls_call, _abort_answered_call *)

\* The engine takes the pipe over, unless it cannot start or the guard saw a BYE.
HandOver ==
    /\ pc = "keyed"
    /\ \/ ~byed /\ pc' = "media" /\ UNCHANGED <<pipe, keys>>
       \/ /\ byed
          /\ pc' = "over" /\ pipe' = [pipe EXCEPT !.closed = TRUE]
          /\ UNCHANGED keys
       \/ pc' = "failed" /\ UNCHANGED <<pipe, keys>>
    /\ UNCHANGED <<deal, us, peer, rounds, dups, net, byed, ghosts, spent>>

Abort ==
    /\ pc = "failed"
    /\ pc' = "over"
    /\ pipe' = [pipe EXCEPT !.closed = TRUE]
    /\ UNCHANGED <<deal, us, peer, rounds, dups, net, keys, byed, ghosts, spent>>

\* disconnect() cancels the task inside the pump: nothing closes the pipe.
Cancel ==
    /\ pc \in {"connect", "pump"}
    /\ pc' = "cancelled"
    /\ UNCHANGED <<deal, us, peer, rounds, dups, pipe, net, keys, byed, ghosts, spent>>

PeerBye ==
    /\ ~byed /\ pc \in {"connect", "pump", "keyed"}
    /\ byed' = TRUE
    /\ UNCHANGED <<deal, pc, us, peer, rounds, dups, pipe, net, keys, ghosts, spent>>

----
(* The peer and the network *)

PeerSends(d) == toUs' = toUs \cup {d}

PeerHello ==
    /\ peer.end.role = "active" /\ peer.end.out = 0
    /\ peer' = [peer EXCEPT !.end.out = 1]
    /\ PeerSends(Flight(1, peer.at))
    /\ UNCHANGED <<deal, pc, us, rounds, dups, pipe, inq, toPeer, keys, byed, ghosts, spent>>

Reaches(d) == deal.leg = "ice" \/ d.at = peer.at

PeerReads(d) ==
    /\ d \in toPeer /\ Reaches(d)
    /\ toPeer' = toPeer \ {d}
    /\ IF Reads(peer.end, d.n)
       THEN IF deal.wrong = "cipher"
            THEN PeerSends([Flight(0, peer.at) EXCEPT !.kind = "alert"]) /\ UNCHANGED peer
            ELSE /\ peer' = [peer EXCEPT !.end = After(@, d.n)]
                 /\ IF d.n < 4 THEN PeerSends(Flight(d.n + 1, peer.at)) ELSE UNCHANGED toUs
       ELSE /\ UNCHANGED peer
            /\ IF peer.end.out > 0 THEN PeerSends(Flight(peer.end.out, peer.at))
               ELSE UNCHANGED toUs
    /\ UNCHANGED <<deal, pc, us, rounds, dups, pipe, inq, keys, byed, ghosts, spent>>

\* Its timer is longer than a round trip.
PeerRetransmits ==
    /\ pc = "pump" /\ peer.end.out > 0 /\ ~Done(peer.end)
    /\ toUs = {} /\ toPeer = {} /\ inq = <<>>
    /\ PeerSends(Flight(peer.end.out, peer.at))
    /\ UNCHANGED <<deal, pc, us, peer, rounds, dups, pipe, inq, toPeer, keys, byed, ghosts, spent>>

PeerMoves ==
    /\ spent.moves < MaxMoves /\ deal.leg = "sip" /\ pc = "pump" /\ peer.at # "moved"
    /\ peer' = [peer EXCEPT !.at = "moved"]
    /\ spent' = [spent EXCEPT !.moves = @ + 1]
    /\ UNCHANGED <<deal, pc, us, rounds, dups, pipe, net, keys, byed, ghosts>>

Astray(d) ==    \* it was sent to where the peer is not
    /\ d \in toPeer /\ ~Reaches(d)
    /\ toPeer' = toPeer \ {d}
    /\ lost' = lost \cup {d.n}
    /\ UNCHANGED <<deal, pc, us, peer, rounds, dups, pipe, inq, toUs, keys, byed, src, swept, spent>>

Lose(d) ==
    /\ d \in toUs \cup toPeer
    /\ spent.losses < MaxLosses
    /\ spent' = [spent EXCEPT !.losses = @ + 1]
    /\ toUs' = toUs \ {d} /\ toPeer' = toPeer \ {d}
    /\ lost' = lost \cup {d.n}
    /\ UNCHANGED <<deal, pc, us, peer, rounds, dups, pipe, inq, keys, byed, src, swept>>

----
Pump == IceConnect \/ Hello \/ Round \/ Stall
SetUp == HandOver \/ Abort
Network == \/ \E d \in toUs : Deliver(d)
           \/ \E d \in toPeer : PeerReads(d) \/ Astray(d)
Peer == PeerHello \/ PeerRetransmits

Next ==
    \/ Pump
    \/ SetUp
    \/ Network
    \/ Peer
    \/ PeerMoves
    \/ PeerBye
    \/ Cancel
    \/ \E kind \in {"media", "dtls"} : StrayArrives(kind)
    \/ \E d \in toUs \cup toPeer : Lose(d)

FairSpec ==
    /\ Init /\ [][Next]_vars
    /\ WF_vars(Pump) /\ WF_vars(SetUp) /\ WF_vars(Network) /\ WF_vars(Peer)

----
(* Properties *)

\* Keys exist only after a whole handshake with the certificate that the SDP named, and
\* both ends hold each direction's key: what we send under, the peer receives under.
KeyedAlike ==
    keys.out # "none" =>
        /\ Done(us) /\ deal.wrong = "nothing"
        /\ peer.end.role = Other(us.role)
        /\ LET theirs == IF peer.end.role = "active" THEN "client_write" ELSE "server_write"
           IN  keys.in = theirs /\ keys.out # theirs

\* The destination is settled on where the peer's last record came from, whatever early
\* media came from elsewhere and wherever the SDP said the peer was; only a stray DTLS
\* record that came after that record can have taken it away.
SettledOnPeer == pipe.frozen => pipe.peer = src \/ swept

\* However the roles were offered and preferred, both ends are keyed if nothing is wrong
\* with the peer and nobody gives up; a lost second or third flight is sent again.
BothKeyed ==
    <>(\/ Done(peer.end) /\ keys.out # "none"
       \/ deal.wrong # "nothing" \/ ~(lost \subseteq {0, 2, 3})
       \/ byed \/ pc = "cancelled" \/ rounds = MaxRounds
       \/ deal.leg = "ice" /\ pc = "over" /\ rounds = 0)

\* Every set-up that nobody cancels ends, in media or with its pipe closed.
SetUpEnds ==
    <>(\/ pc \in {"media", "cancelled"}
       \/ pc = "over" /\ pipe.closed)

\* The set-up comes to an end, and with a sound peer on a sound network to a good one.
SetUpSettles == BothKeyed /\ SetUpEnds
====
