---- MODULE OutboundDial ----
(***************************************************************************)
(* One outbound call from place_call to its session, or to its failure:    *)
(* hermes_voip.adapter (the UAC of a SIP/TLS gateway and that of a WebRTC  *)
(* one) and the client side of hermes_voip.transport.connection (CANCEL,   *)
(* the 2xx that crosses it, the routing of responses by Call-ID).          *)
(*                                                                         *)
(* The peer is the gateway with the phone behind it.  It may challenge an  *)
(* INVITE, find its session interval too small, ring, refuse or answer it, *)
(* answer with an SDP we cannot use, repeat a final response, and meet our *)
(* CANCEL with 487.  Each direction is one TLS stream, in order.  The dial *)
(* may be aborted, by its ring timer or by a tool, and its task may be     *)
(* cancelled with the agent turn that runs it.                             *)
(***************************************************************************)
EXTENDS Naturals, Sequences, FiniteSets

CONSTANTS
    Gateways,   \* kinds of gateway a dial may use: "sip" (TLS) and "wss" (WebRTC)
    MaxStale,   \* _MAX_STALE_INVITE_FINALS
    MaxRepeats  \* bound: final responses that the peer repeats

ASSUME OutboundDialAssumption ==
    /\ Gateways \subseteq {"sip", "wss"}
    /\ {MaxStale, MaxRepeats} \subseteq Nat

VARIABLES
    gateway,   \* is_wss
    dial,      \* place_call: idle, waiting, handshake, acked, up, failed
    cseq,      \* last_cseq
    retried,   \* auth_retried, se_retried, and (WSS) that the first response was read
    answer,    \* the 2xx that place_call is working on
    stale,     \* stale_finals
    ackSent,   \* ack_sent
    sink,      \* the responses queued for place_call
    route,     \* whose sink the transport has for the Call-ID: none, queue, session
    tracked,   \* _outbound_invites, by CSeq
    cancelled, \* the Call-ID is in _cancelled_outbound
    byed,      \* the Call-ID is in _glare_byed
    pending,   \* the call is in _outbound_pending
    aborted,   \* pending.cancel_requested
    armed,     \* the ring timer runs
    engine,    \* the RTP engine (WSS: the ICE session) is open
    out, in,   \* the stream to the peer, and the one from it
    leg,       \* the peer: what became of each INVITE
    dialog,    \* the peer: none, answered, up, down
    repeats,   \* bound: final responses repeated so far
    why        \* ghost: what made place_call fail

task == <<gateway, cseq, retried, answer, stale, ackSent>>
transport == <<route, tracked, cancelled, byed>>
abort == <<pending, aborted, armed, engine>>
peer == <<leg, dialog, repeats>>
dialVars == <<dial, task, sink, transport, abort, out, in, peer, why>>

Msg(kind, n) == [kind |-> kind, n |-> n]
Answers == {"ok", "mismatch", "nosdp"}  \* 2xx: fit; no codec or key of ours; no SDP
Refusals == {"challenge", "interval", "reject", "terminated"}
Attempts == 1..3                        \* one INVITE, and one more for each remedy
Open(n) == leg[n] \in {"trying", "ringing"}

DialTypeOK ==
    /\ gateway \in Gateways
    /\ dial \in {"idle", "waiting", "handshake", "acked", "up", "failed"}
    /\ cseq \in 0..3 /\ stale \in 0..MaxStale + 1 /\ repeats \in 0..MaxRepeats
    /\ retried \in [{"auth", "interval", "read"} -> BOOLEAN]
    /\ answer \in Answers \cup {"none"}
    /\ route \in {"none", "queue", "session"}
    /\ tracked \subseteq Attempts
    /\ {ackSent, cancelled, byed, pending, aborted, armed, engine} \subseteq BOOLEAN
    /\ leg \in [Attempts -> {"none", "trying", "ringing", "refused", "answered"}]
    /\ dialog \in {"none", "answered", "up", "down"}

DialInit ==
    /\ gateway \in Gateways
    /\ dial = "idle" /\ cseq = 0 /\ answer = "none" /\ stale = 0 /\ ackSent = FALSE
    /\ retried = [remedy \in {"auth", "interval", "read"} |-> FALSE]
    /\ sink = <<>> /\ route = "none"
    /\ tracked = {} /\ cancelled = FALSE /\ byed = FALSE
    /\ pending = FALSE /\ aborted = FALSE /\ armed = FALSE /\ engine = FALSE
    /\ out = <<>> /\ in = <<>>
    /\ leg = [n \in Attempts |-> "none"] /\ dialog = "none" /\ repeats = 0
    /\ why = "none"

----
(* place_call: the INVITE and its remedies *)

Invite(n) == Msg("INVITE", n)    \* build_outbound_invite: the same dial, one CSeq on

Invites(n) ==
    /\ cseq' = n
    /\ out' = Append(out, Invite(n))
    /\ tracked' = tracked \cup {n}

\* Only a SIP dial can be aborted: place_call refuses a ring timeout on WSS, and
\* _handle_outbound_webrtc_invite registers nothing in _outbound_pending.
StartsSip == pending' = TRUE /\ armed' \in BOOLEAN
StartsWss == UNCHANGED <<pending, armed>>

Start ==
    /\ dial = "idle"
    /\ dial' = "waiting"
    /\ Invites(1)
    /\ engine' = TRUE
    /\ route' = "queue"
    /\ IF gateway = "sip" THEN StartsSip ELSE StartsWss
    /\ UNCHANGED <<gateway, retried, answer, stale, ackSent, sink, cancelled, byed,
                   aborted, in, peer, why>>

\* The finally of a dial that was not established: nothing of the call is left
\* pending, the transport forgets it with all it tracked, the engine is stopped.
Releases ==
    /\ pending' = FALSE /\ armed' = FALSE /\ engine' = FALSE
    /\ route' = "none" /\ tracked' = {} /\ cancelled' = FALSE /\ byed' = FALSE

ClosesRefused == ackSent /\ answer = "mismatch"    \* not on a failure of the wiring

\* ... and a dialog that we have ACKed gets its BYE, whatever failed after the ACK.
Closes == ackSent

Fails(reason) ==
    /\ dial' = "failed"
    /\ why' = reason
    /\ Releases
    /\ IF Closes THEN out' = Append(out, Msg("BYE", cseq)) ELSE UNCHANGED out
    /\ UNCHANGED <<task, aborted>>

\* One more INVITE, with credentials or with a longer session interval.  Nobody
\* looks at cancel_requested here.
Resends(remedy) ==
    /\ Invites(cseq + 1)
    /\ retried' = [retried EXCEPT ![remedy] = TRUE, !.read = TRUE]
    /\ UNCHANGED <<gateway, dial, answer, stale, ackSent, route, cancelled, byed, abort, why>>

RemedySip(m) ==
    CASE m.kind = "challenge" /\ ~retried.auth -> "auth"
      [] m.kind = "interval" /\ ~retried.interval -> "interval"
      [] OTHER -> "none"

\* Only the very first response is looked at for a challenge.
RemedyWss(m) == IF m.kind = "challenge" /\ ~retried.read THEN "auth" ELSE "none"

Remedy(m) == IF gateway = "sip" THEN RemedySip(m) ELSE RemedyWss(m)

----
(* place_call: the responses *)

Await ==        \* a response is taken from the queue
    /\ dial = "waiting"
    /\ sink # <<>>
    /\ sink' = Tail(sink)
    /\ UNCHANGED <<in, peer>>

Passes(m) == m.kind \in {"trying", "cancelok"}

OldFinalNever(m) == FALSE   \* the first final response read is the one

\* A final response of an INVITE that a re-send has replaced.  The first INVITE's is
\* taken without a look at its number: no other is out yet.
OldFinal(m) == ~Passes(m) /\ cseq > 1 /\ m.n # cseq

Skip ==
    /\ Await
    /\ Passes(Head(sink))
    /\ retried' = [retried EXCEPT !.read = TRUE]
    /\ UNCHANGED <<gateway, dial, cseq, answer, stale, ackSent, transport, abort, out, why>>

SkipOld ==
    /\ Await
    /\ OldFinal(Head(sink))
    /\ \/ /\ gateway = "sip" /\ stale = MaxStale
          /\ Fails("stale")
       \/ /\ gateway = "wss" \/ stale < MaxStale
          /\ stale' = IF gateway = "sip" THEN stale + 1 ELSE stale
          /\ UNCHANGED <<gateway, dial, cseq, retried, answer, ackSent, transport,
                         abort, out, why>>

OnRefusal ==
    /\ Await
    /\ LET m == Head(sink) IN
        /\ m.kind \in Refusals /\ ~OldFinal(m)
        /\ IF Remedy(m) = "none" THEN Fails("response") ELSE Resends(Remedy(m))

\* A 2xx without an SDP we can read fails before its ACK.  SIP: the ACK goes out
\* before anything of the answer is judged; WSS: the answer is judged and the DTLS
\* handshake run before the ACK.
UnusableWss(m) == m.kind \in {"nosdp", "mismatch"}

OnAnswer ==
    /\ Await
    /\ LET m == Head(sink) IN
        /\ m.kind \in Answers /\ ~OldFinal(m)
        /\ \/ /\ IF gateway = "wss" THEN UnusableWss(m) ELSE m.kind = "nosdp"
              /\ Fails("response")
           \/ /\ gateway = "sip" /\ m.kind # "nosdp"
              /\ dial' = "acked"
              /\ answer' = m.kind
              /\ ackSent' = TRUE
              /\ armed' = FALSE
              /\ out' = Append(out, Msg("ACK", cseq))
              /\ UNCHANGED <<gateway, cseq, retried, stale, transport, pending,
                             aborted, engine, why>>
           \/ /\ gateway = "wss" /\ m.kind = "ok"
              /\ dial' = "handshake"
              /\ answer' = m.kind
              /\ UNCHANGED <<gateway, cseq, retried, stale, ackSent, transport, abort,
                             out, why>>

Handshake ==
    /\ dial = "handshake"
    /\ UNCHANGED <<sink, in, peer>>
    /\ \/ Fails("handshake")
       \/ /\ dial' = "acked"
          /\ ackSent' = TRUE
          /\ out' = Append(out, Msg("ACK", cseq))
          /\ UNCHANGED <<gateway, cseq, retried, answer, stale, transport, abort, why>>

Abandoned == aborted    \* the re-check that follows the ACK

\* After the ACK: the answer is judged (SIP), the abort that raced it is honoured, and
\* the session takes over from the queue, or the wiring fails.
Wire ==
    /\ dial = "acked"
    /\ UNCHANGED <<sink, in, peer>>
    /\ \/ /\ answer = "mismatch" \/ Abandoned
          /\ Fails("refused")
       \/ /\ answer = "ok" /\ ~Abandoned
          /\ dial' = "up"
          /\ route' = "session"
          /\ tracked' = {} /\ cancelled' = FALSE /\ byed' = FALSE
          /\ pending' = FALSE /\ armed' = FALSE
          /\ UNCHANGED <<task, aborted, engine, out, why>>
       \/ answer = "ok" /\ ~Abandoned /\ Fails("wiring")

\* asyncio.wait_for gives up after _OUTBOUND_INVITE_TIMEOUT with nothing queued.
Timeout ==
    /\ dial = "waiting"
    /\ sink = <<>>
    /\ Fails("timeout")
    /\ UNCHANGED <<sink, in, peer>>

\* The task that runs place_call is cancelled, at any of its awaits.
Interrupt ==
    /\ dial \in {"waiting", "handshake", "acked"}
    /\ Fails("cancelled")
    /\ UNCHANGED <<sink, in, peer>>

----
(* abort_call, and the ring timer that calls it *)

Latest == CHOOSE n \in tracked : \A k \in tracked : k <= n

SendCancel ==
    IF tracked = {}
    THEN UNCHANGED <<cancelled, out>>
    ELSE cancelled' = TRUE /\ out' = Append(out, Msg("CANCEL", Latest))

AbortCall ==
    /\ pending /\ ~aborted
    /\ aborted' = TRUE
    /\ armed' = FALSE
    /\ engine' = FALSE
    /\ SendCancel
    /\ UNCHANGED <<dial, task, sink, route, tracked, byed, pending, in, peer, why>>

\* The timer disarms itself: abort_call cancels the task it runs on.  The CANCEL goes
\* out if nothing before it suspends; if the transport's send lock is taken, the
\* cancellation lands there.
RingExpires ==
    /\ armed
    /\ \/ AbortCall
       \/ /\ pending /\ ~aborted /\ tracked # {}
          /\ aborted' = TRUE /\ armed' = FALSE /\ engine' = FALSE /\ cancelled' = TRUE
          /\ UNCHANGED <<dial, task, sink, route, tracked, byed, pending, out, in, peer, why>>

----
(* The transport's reader *)

Receive ==
    /\ in # <<>>
    /\ in' = Tail(in)
    /\ UNCHANGED <<dial, task, abort, peer, why, route, tracked, cancelled>>

Crossed(m) == m.kind \in Answers /\ cancelled   \* a 2xx to a call that we CANCELled

GlareReplies == <<Msg("ACK", 0)>> \o (IF byed THEN <<>> ELSE <<Msg("BYE", 0)>>)

\* ACK each repetition of it, BYE its dialog once, and never let place_call see it.
OnGlare ==
    /\ Receive
    /\ Crossed(Head(in))
    /\ IF tracked = {} THEN UNCHANGED <<out, byed>>
       ELSE out' = out \o GlareReplies /\ byed' = TRUE
    /\ UNCHANGED sink

Deliver ==
    /\ Receive
    /\ ~Crossed(Head(in))
    /\ sink' = IF route = "queue" THEN Append(sink, Head(in)) ELSE sink
    /\ UNCHANGED <<out, byed>>

----
(* The peer *)

ours == <<dial, task, sink, transport, abort, why>>

PeerReads ==
    /\ out # <<>>
    /\ out' = Tail(out)
    /\ UNCHANGED <<ours, repeats>>

Invited ==
    /\ PeerReads
    /\ LET m == Head(out) IN
        /\ m.kind = "INVITE"
        /\ leg' = [leg EXCEPT ![m.n] = "trying"]
    /\ UNCHANGED <<in, dialog>>

Terminates ==       \* 200 to the CANCEL, and 487 to the INVITE that still rings
    /\ PeerReads
    /\ LET m == Head(out) IN
        /\ m.kind = "CANCEL"
        /\ IF Open(m.n)
           THEN /\ leg' = [leg EXCEPT ![m.n] = "refused"]
                /\ in' = in \o <<Msg("cancelok", m.n), Msg("terminated", m.n)>>
           ELSE in' = Append(in, Msg("cancelok", m.n)) /\ UNCHANGED leg
    /\ UNCHANGED dialog

Confirms ==
    /\ PeerReads
    /\ Head(out).kind \in {"ACK", "BYE"}
    /\ dialog' = IF Head(out).kind = "BYE" THEN "down"
                 ELSE IF dialog = "answered" THEN "up" ELSE dialog
    /\ UNCHANGED <<in, leg>>

PeerSays(n, kind) ==
    /\ Open(n)
    /\ in' = Append(in, Msg(kind, n))
    /\ UNCHANGED <<ours, out, repeats>>

Rings(n) ==         \* 100 or 180; one stands for any finite number of them
    /\ leg[n] = "trying"
    /\ PeerSays(n, "trying")
    /\ leg' = [leg EXCEPT ![n] = "ringing"]
    /\ UNCHANGED dialog

Refuses(n) ==
    /\ \E kind \in Refusals \ {"terminated"} : PeerSays(n, kind)
    /\ leg' = [leg EXCEPT ![n] = "refused"]
    /\ UNCHANGED dialog

PickedUp(n) ==
    /\ \E kind \in Answers : PeerSays(n, kind)
    /\ leg' = [leg EXCEPT ![n] = "answered"]
    /\ dialog' = "answered"

\* A proxy forks or a timer fires: a final response already sent comes again.
Repeats(n) ==
    /\ repeats < MaxRepeats
    /\ repeats' = repeats + 1
    /\ \/ leg[n] = "answered" /\ dialog = "answered" /\ in' = Append(in, Msg("ok", n))
       \/ leg[n] = "refused" /\ in' = Append(in, Msg("challenge", n))
    /\ UNCHANGED <<ours, out, leg, dialog>>

----
Dials == Skip \/ SkipOld \/ OnRefusal \/ OnAnswer \/ Handshake \/ Wire \/ Timeout
Reads == OnGlare \/ Deliver
Peers == Invited \/ Terminates \/ Confirms

DialNext ==
    \/ Start
    \/ Dials
    \/ Interrupt
    \/ AbortCall
    \/ RingExpires
    \/ Reads
    \/ Peers
    \/ \E n \in Attempts : Rings(n) \/ Refuses(n) \/ PickedUp(n) \/ Repeats(n)

\* Place_call's task and the reader run, and what is written to the stream is read.
\* Nobody has to answer the phone.
DialSpec ==
    /\ DialInit /\ [][DialNext]_dialVars
    /\ WF_dialVars(Dials)
    /\ WF_dialVars(Reads)
    /\ WF_dialVars(Peers)

----
(* Properties *)

\* However a dial fails, nothing of it outlives place_call: the engine is stopped, no
\* timer, route, tracked INVITE or cancelled mark is left; and one that fails on a response
\* fails on that of its last INVITE, so that no phone rings on for it, although the final
\* responses of older INVITEs are repeated.
FailedLeavesNothing ==
    dial = "failed" =>
        /\ ~engine /\ ~armed /\ ~pending
        /\ route = "none" /\ tracked = {} /\ ~cancelled /\ ~byed
        /\ why = "response" => \A n \in Attempts : ~Open(n)

\* A dialog that the peer has confirmed with our ACK, of a dial that then failed, is
\* closed: by place_call's BYE or by the reader's, who ACKed the 2xx crossing a CANCEL.
AckedIsClosed == dial = "failed" /\ dialog = "up" ~> dialog = "down"

\* Once abort_call has taken a ringing call, place_call fails and the peer is not left
\* in a call: the abort races the answer, the challenge and the ACK in every order.
AbortEnds == aborted ~> dial = "failed" /\ dialog # "up"

\* A dial ends whole: a failed one leaves no dialog up, and an abort does make it fail.
DialEnds == AckedIsClosed /\ AbortEnds
====
