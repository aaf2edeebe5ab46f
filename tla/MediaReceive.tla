---- MODULE MediaReceive ----
(***************************************************************************)
(* The receiving side of one call's media plane: what becomes of a datagram*)
(* in hermes_voip.media.engine.RtpMediaTransport._inbound_gen.  SRTP       *)
(* (hermes_voip.media.srtp) takes it or not, the comedia latch learns from *)
(* it where to send, telephone events go to hermes_voip.dtmf, audio to the *)
(* reception statistics (hermes_voip.rtcp) and through the jitter buffer   *)
(* (Jitter) to the frames that the call hears, lost ones concealed.        *)
(* Beside it: the peer that moves to another endpoint with a re-INVITE, and*)
(* stop() with the last RTCP report.                                       *)
(*                                                                         *)
(* The peer sends from its first source until it moves to the second.  The *)
(* network loses, repeats and reorders: any of the last packets of a source*)
(* may arrive, at any time and again, and the receive queue is part of it. *)
(* A source sits behind a NAT: its packets do not come from the address of *)
(* its SDP.  What a call carries is chosen when it begins: speech, the tone*)
(* of a pressed key in the audio, or telephone events; the RTCP channel and*)
(* the end of the call, which do not depend on it, are followed on calls of*)
(* the last kind.                                                          *)
(***************************************************************************)
EXTENDS Jitter

CONSTANTS
    First,        \* first sequence number of each source
    Last,         \* bound: the last packet of each source, by what the call carries
    Jump,         \* bound: packets lost in a row, and one, by what the call carries
    Reach,        \* bound: how far behind the newest a packet may arrive
    MaxLate,      \* bound: packets that arrive behind another, or again
    Window,       \* _REPLAY_WINDOW of SRTP
    Dropout, Misorder,  \* _MAX_DROPOUT and _MAX_MISORDER of the statistics
    History,      \* _RECEIVER_HISTORY of telephone events
    Event,        \* the event of each press of each source
    Keypad,       \* the events that are a digit
    Toned,        \* the packets of the first source that carry a pressed key's tone
    PressFrames, ReleaseFrames,   \* _INBAND_MIN_PRESS_FRAMES, _INBAND_GAP_RELEASE_FRAMES
    MaxRepeat,    \* _PLC_MAX_REPEAT_FRAMES
    Patience      \* fresh packets in a row that may pass without a frame

Source == {1, 2}
Carried == {"speech", "tones", "events"}

ASSUME MediaReceiveAssumption ==
    /\ First \in [Source -> 0..SeqMod - 1]
    /\ Last \in [Carried -> [Source -> Int]] /\ Jump \in [Carried -> Nat]
    /\ {Reach, MaxLate, Window, Dropout, Misorder, History, PressFrames, ReleaseFrames, MaxRepeat,
        Patience} \subseteq Nat
    /\ Reach + 1 < SeqMod \div 2 /\ Reach < Misorder /\ Misorder <= SeqMod - Dropout

VARIABLES
    carried,    \* what the call carries
    secured,    \* SRTP is configured
    top,        \* the newest packet of each source that has arrived
    late,       \* bound: packets so far that came behind another, or again
    reinvite,   \* the re-INVITE of the second source: how far it is handled
    srtp,       \* _srtp_in
    aim,        \* _outbound_addr
    latched,    \* _latched
    left,       \* _relocated_from
    stats,      \* _reception, by source
    jitter,     \* _jitter
    dtmf,       \* _dtmf_receiver._window, oldest first
    pressed,    \* the newest press of each source that has arrived
    tones,      \* _inband_detector; of the last good frame, if it had the tone;
                \*   _consecutive_lost; and the digits given so far
    rtcp,       \* the RTCP channel: where its sender is, and what became of its BYE
    closed,     \* stop() has taken the socket
    stopped,    \* _stop_event
    delivered,  \* ghost: what the last step gave to the call
    ghost       \* ghost: see NoGhosts

media == <<srtp, stats, jitter>>
target == <<aim, latched, left>>
keys == <<dtmf, pressed, tones>>
fate == <<rtcp, closed, stopped>>
receiveVars == <<carried, secured, top, late, reinvite, media, target, keys, fate, delivered,
                 ghost>>

----
(* The peer and the network *)

Sdp(s) == <<s, "sdp">>
Real(s) == <<s, "real">>
Nowhere == <<0, "none">>

Number(s, i) == (First[s] + i) % SeqMod
Rollovers(s, i) == (First[s] + i) \div SeqMod
RtpPacket(s, i) == [ssrc |-> s, seq |-> Number(s, i), idx |-> i]

Newer(s, i) == i > top[s]

\* No packet is half the number space away from what the buffer has given last,
\* and the first one that arrives is sent before the numbers wrap.
Within(s, i) ==
    /\ ghost.home = s => i - ghost.slot \in -(SeqMod \div 2)..SeqMod \div 2
    /\ top[s] = None => Rollovers(s, i) = 0

MayArrive(s, i) ==
    /\ ~closed
    /\ i \in top[s] - Reach..top[s] + Jump[carried]
    /\ IF Newer(s, i) THEN s = 2 \/ top[2] = None ELSE late < MaxLate
    /\ Within(s, i)

----
(* SRTP: one key, one source *)

Unheard(k) == [key |-> k, rollovers |-> 0, top |-> None, seen |-> {}]

\* _estimate_roc
Estimate(n) ==
    LET h == SeqMod \div 2 IN
    CASE srtp.top = None -> 0
      [] srtp.top # None /\ srtp.top < h /\ n - srtp.top > h -> srtp.rollovers - 1
      [] srtp.top >= h /\ srtp.top - n > h -> srtp.rollovers + 1
      [] OTHER -> srtp.rollovers

Authentic(s, i) == srtp.key = s /\ Estimate(Number(s, i)) = Rollovers(s, i)

Newest == srtp.rollovers * SeqMod + srtp.top

IsNew(s, i) ==
    \/ srtp.top = None
    \/ LET index == First[s] + i IN
       /\ index > Newest - Window
       /\ index \notin srtp.seen

Accepted(s, i) == secured => Authentic(s, i) /\ IsNew(s, i)

\* _update_state: the newest moves the window, another marks its place in it.
Unprotect(s, i) ==
    LET index == First[s] + i IN
    srtp' = IF ~secured THEN srtp
            ELSE IF srtp.top = None \/ index > Newest
            THEN [srtp EXCEPT !.rollovers = Rollovers(s, i), !.top = Number(s, i),
                              !.seen = {x \in @ : x > index - Window} \cup {index}]
            ELSE [srtp EXCEPT !.seen = @ \cup {index}]

----
(* _maybe_latch *)

MayLatchAnywhere(s) == ~latched   \* the endpoint that was left is not remembered

MayLatch(s) == ~latched /\ Real(s) # left

Latch(s) ==
    IF MayLatch(s)
    THEN aim' = Real(s) /\ latched' = TRUE /\ left' = Nowhere
    ELSE UNCHANGED target

----
(* ReceptionStats.on_packet *)

NoStats == [base |-> None, max |-> None, cycles |-> 0, received |-> 0, bad |-> None]

\* _init_seq
Based(n) == [base |-> n, max |-> n, cycles |-> 0, received |-> 1, bad |-> None]

Wraps(st, n) == n < st.max

Counted(st, n) ==
    LET delta == SeqAhead(st.max, n) IN
    CASE st.base = None -> Based(n)
      [] st.base # None /\ delta < Dropout ->
            [st EXCEPT !.cycles = IF Wraps(st, n) THEN @ + SeqMod ELSE @,
                       !.max = n, !.received = @ + 1]
      [] st.base # None /\ delta \in Dropout..SeqMod - Misorder ->
            IF n = st.bad THEN Based(n) ELSE [st EXCEPT !.bad = (n + 1) % SeqMod]
      [] OTHER -> [st EXCEPT !.received = @ + 1]

Highest(st) == st.cycles + st.max
Expected(st) == Highest(st) - st.base + 1

----
(* What the call hears *)

\* A frame has the tone of a pressed key, or not.  The repeat of a frame that
\* had it, fainter each time, may still be taken for it, or not.
Lost(p) == p.idx = None

HasTone(p) == ~Lost(p) /\ p.ssrc = 1 /\ p.idx \in Toned

Hearable(f, p, repeats) ==
    IF ~Lost(p) THEN {HasTone(p)}
    ELSE IF f.tone /\ repeats < MaxRepeat THEN {TRUE, FALSE} ELSE {FALSE}

Detector == [run |-> 0, held |-> FALSE, gap |-> 0, tone |-> FALSE, digits |-> 0,
             lost |-> 0]

\* InbandDtmfDetector.feed
ReleasesAtOnce(d) == d.held       \* one silent frame ends a press

Releases(d) == d.held /\ d.gap + 1 >= ReleaseFrames

Lesser(a, b) == IF a < b THEN a ELSE b

Feed(d, tone) ==
    CASE ~tone -> [d EXCEPT !.run = 0, !.held = @ /\ ~Releases(d),
                            !.gap = IF d.held /\ ~Releases(d) THEN @ + 1 ELSE 0]
      [] tone /\ d.run + 1 >= PressFrames /\ ~d.held ->
            [d EXCEPT !.run = PressFrames, !.held = TRUE, !.gap = 0, !.digits = @ + 1]
      [] OTHER -> [d EXCEPT !.run = Lesser(@ + 1, PressFrames), !.gap = 0]

\* The frame of p after those that d has heard: the last good frame is kept for
\* the next loss.
Hear(d, p, tone) ==
    [Feed(d, tone) EXCEPT !.tone = IF Lost(p) THEN @ ELSE HasTone(p),
                          !.lost = IF Lost(p) THEN Lesser(@ + 1, MaxRepeat) ELSE 0]

\* What the detector may be after the frames of ps.
Listening(d, ps) ==
    LET Heard[n \in 0..Len(ps)] ==
            IF n = 0 THEN {d}
            ELSE UNION {{Hear(h, ps[n], t) : t \in Hearable(h, ps[n], h.lost)} :
                           h \in Heard[n - 1]}
    IN Heard[Len(ps)]

Listen(ps) ==
    IF carried = "tones" THEN tones' \in Listening(tones, ps) ELSE UNCHANGED tones

----
(* The ghosts *)

\* The source and the number of the last frame given to the call; the fresh
\* packets in a row that gave none; of each source the first, the lowest and the
\* highest packet counted; where a peer that had been heard was before it moved;
\* the presses given, and the copies that arrived.
NoGhosts ==
    [home |-> None, slot |-> None, silent |-> 0,
     left |-> {},
     counted |-> [s \in Source |-> [first |-> None, low |-> None, high |-> None]],
     given |-> {}, copies |-> [s \in Source |-> [p \in DOMAIN Event[s] |-> 0]]]

Greater(a, b) == IF a < b THEN b ELSE a

\* A packet is counted, or it is held as a restart that the next one may confirm,
\* and then all begins anew.
Count(c, old, new, i) ==
    IF new.received = old.received /\ new.bad # None THEN c
    ELSE IF new.received = 1 THEN [first |-> i, low |-> i, high |-> i]
    ELSE [c EXCEPT !.low = Lesser(@, i), !.high = Greater(@, i)]

----
ReceiveInit ==
    /\ carried \in Carried /\ secured \in BOOLEAN
    /\ top = [s \in Source |-> None] /\ late = 0 /\ reinvite = "none"
    /\ srtp = Unheard(1) /\ aim = Sdp(1) /\ latched = FALSE /\ left = Nowhere
    /\ stats = [s \in Source |-> NoStats] /\ jitter = Empty(None)
    /\ dtmf = <<>> /\ pressed = [s \in Source |-> 0] /\ tones = Detector
    /\ rtcp = [at |-> "off", bye |-> "none"] /\ closed = FALSE /\ stopped = FALSE
    /\ delivered = <<>> /\ ghost = NoGhosts

\* An audio packet arrives and passes all stages at once.
Arrive(s, i) ==
    /\ MayArrive(s, i) /\ ~stopped
    /\ top' = [top EXCEPT ![s] = Greater(@, i)]
    /\ IF Accepted(s, i)
       THEN LET counted == Counted(stats[s], Number(s, i))
                drained == Drain(Push(jitter, RtpPacket(s, i))) IN
            /\ Unprotect(s, i)
            /\ Latch(s)
            /\ stats' = [stats EXCEPT ![s] = counted]
            /\ jitter' = drained.jb
            /\ delivered' = drained.out
            /\ Listen(drained.out)
            /\ ghost' = [ghost EXCEPT
                  !.home = drained.jb.ssrc,
                  !.slot = IF delivered' = <<>> THEN @ ELSE delivered'[Len(delivered')].idx,
                  !.counted[s] = Count(@, stats[s], counted, i),
                  !.silent = IF delivered' = <<>> /\ Newer(s, i) THEN @ + 1 ELSE 0]
       ELSE /\ delivered' = <<>>
            /\ ghost' = [ghost EXCEPT
                  !.silent = IF Newer(s, i) /\ srtp.key = s THEN @ + 1 ELSE 0]
            /\ UNCHANGED <<media, target, tones>>
    /\ late' = IF Newer(s, i) THEN late ELSE late + 1
    /\ UNCHANGED <<carried, secured, reinvite, dtmf, pressed, fate>>

----
(* Telephone events *)

\* DtmfReceiver.feed, of an end packet: the first is remembered, the second that
\* agrees gives the digit, and any that disagrees before that spoils the press.
Forget(w) == IF Len(w) < History THEN w ELSE Tail(w)

Remembered(t) == {k \in DOMAIN dtmf : dtmf[k].at = t}

Corroborated(m, e) == m.event = e /\ ~m.spoilt /\ ~m.given

FeedEvent(t, e) ==
    IF Remembered(t) = {}
    THEN /\ dtmf' = Append(Forget(dtmf), [at |-> t, event |-> e, given |-> FALSE,
                                          spoilt |-> FALSE])
         /\ delivered' = <<>>
    ELSE LET k == CHOOSE k \in Remembered(t) : TRUE IN
         /\ dtmf' = [dtmf EXCEPT
                ![k].given = @ \/ Corroborated(dtmf[k], e),
                ![k].spoilt = @ \/ dtmf[k].event # e]
         /\ delivered' = IF Corroborated(dtmf[k], e) /\ e \in Keypad
                   THEN <<[press |-> t, event |-> e]>> ELSE <<>>

\* From elsewhere than where the latch has been fixed: dropped.
FromElsewhere(s) == latched /\ Real(s) # aim

\* The end packets of one press, repeated three times by its sender.  SRTP is
\* left to the audio packets.
Press(s, p) ==
    /\ carried = "events" /\ ~closed /\ ~stopped
    /\ p \in pressed[s] - (History - 1)..pressed[s] + 1
    /\ p > pressed[s] => s = 2 \/ pressed[2] = 0
    /\ secured => srtp.key = s
    /\ pressed' = [pressed EXCEPT ![s] = Greater(@, p)]
    /\ IF FromElsewhere(s) THEN UNCHANGED dtmf /\ delivered' = <<>>
       ELSE FeedEvent(p, Event[s][p])
    /\ ghost' = [ghost EXCEPT !.copies[s][p] = Lesser(@ + 1, 2),
                              !.given = IF delivered' = <<>> THEN @ ELSE @ \cup {delivered'[1]}]
    /\ UNCHANGED <<carried, secured, top, late, reinvite, media, target, tones, fate>>

----
(* The peer moves to its second source: CallSession answers the re-INVITE *)

\* rekey_srtp, before the 200
RekeySrtp ==
    /\ reinvite = "none" /\ ~closed
    /\ reinvite' = "answered"
    /\ srtp' = IF secured THEN Unheard(2) ELSE srtp
    /\ delivered' = <<>>
    /\ UNCHANGED <<carried, secured, top, late, stats, jitter, target, keys, fate, ghost>>

\* set_remote, after it
SetRemote ==
    /\ reinvite = "answered" /\ ~closed
    /\ reinvite' = "moved"
    /\ left' = aim /\ aim' = Sdp(2) /\ latched' = FALSE
    /\ delivered' = <<>>
    /\ ghost' = [ghost EXCEPT !.left = IF latched THEN {Sdp(1), Real(1)} ELSE {}]
    /\ UNCHANGED <<carried, secured, top, late, media, keys, fate>>

----
(* RTCP and the end *)

\* start_rtcp: on the RTP socket or on its own; on a call with SRTP but without
\* SRTCP, or when the port is taken, not at all.
StartRtcp(kind) ==
    /\ carried = "events" /\ rtcp.at = "off" /\ ~closed
    /\ rtcp' = [rtcp EXCEPT !.at = kind]
    /\ delivered' = <<>>
    /\ UNCHANGED <<carried, secured, top, late, reinvite, media, target, keys, closed, stopped,
                   ghost>>

Running == rtcp.at \in {"muxed", "own"}

\* stop() closes the socket, then cancels the sender and waits for it.
StopMedia ==
    /\ carried = "events" /\ ~closed
    /\ closed' = TRUE
    /\ delivered' = <<>>
    /\ UNCHANGED <<carried, secured, top, late, reinvite, media, target, keys, rtcp, stopped,
                   ghost>>

\* The sender leaves, cancelled or by the stop event, and says BYE where it can,
\* the call having sent audio; the socket of its own is closed after it.
HasSink(r) == r.at = "own" \/ ~closed

SenderLeaves ==
    /\ Running /\ (closed \/ stopped)
    /\ rtcp' = [at |-> "left", bye |-> IF HasSink(rtcp) THEN rtcp.at ELSE "lost"]
    /\ delivered' = <<>>
    /\ UNCHANGED <<carried, secured, top, late, reinvite, media, target, keys, closed, stopped,
                   ghost>>

\* The watchdog sees no packet for its time, or the socket fails.
LoseMedia ==
    /\ carried = "events" /\ ~stopped /\ ~closed
    /\ stopped' = TRUE
    /\ delivered' = <<>>
    /\ UNCHANGED <<carried, secured, top, late, reinvite, media, target, keys, rtcp, closed,
                   ghost>>

StopEnds ==
    /\ closed /\ ~Running /\ ~stopped
    /\ stopped' = TRUE
    /\ delivered' = <<>>
    /\ UNCHANGED <<carried, secured, top, late, reinvite, media, target, keys, rtcp, closed,
                   ghost>>

ReceiveNext ==
    \/ \E s \in Source : \E i \in 0..Last[carried][s] : Arrive(s, i)
    \/ \E s \in Source : \E p \in DOMAIN Event[s] : Press(s, p)
    \/ RekeySrtp \/ SetRemote
    \/ \E kind \in {"muxed", "own", "dormant"} : StartRtcp(kind)
    \/ StopMedia \/ SenderLeaves \/ StopEnds \/ LoseMedia

ReceiveSpec == ReceiveInit /\ [][ReceiveNext]_receiveVars

----
(* Properties *)

\* The frames given to the call are those of the peer, in their order and one for
\* each that was sent: a slot that is skipped or given twice would shift all that
\* is heard after it.  Only a burst of losses longer than the playout window is
\* skipped, and another source begins anew.
Sounding(ps) == {k \in DOMAIN ps : ~Lost(ps[k])}

PlayedInOrder ==
    [][carried # "events" =>
         \A k \in Sounding(delivered') :
            /\ \A j \in Sounding(delivered') : delivered'[k].idx - delivered'[j].idx = k - j
            /\ ghost.home = delivered'[k].ssrc =>
                 LET slot == delivered'[k].idx - k + 1 IN
                 slot = ghost.slot + 1 \/ slot > ghost.slot + 1 + MaxAhead]_receiveVars

\* However packets were lost, repeated or reordered before, and whatever source
\* they come from: when the stream goes on, the call hears it again.
NeverDeaf == ghost.silent < Patience

\* The highest number and the packets expected, as the reports to the peer give
\* them, are those of the stream; and with SRTP nothing is counted twice.
ReceptionTrue ==
    \A s \in Source :
        LET st == stats[s]
            c == ghost.counted[s] IN
        st.base # None =>
            /\ Expected(st) = c.high - c.first + 1
            /\ secured => st.received <= c.high - c.low + 1

\* After a peer that was heard has moved, nothing more is sent to where it was,
\* whatever is still on its way from there.
StaysMoved == reinvite = "moved" => aim \notin ghost.left

IsDigit(o) == o # <<>> /\ "press" \in DOMAIN o[1]

\* A digit is given once for one press, and only when two packets of it came.
DigitsPressed ==
    [][/\ tones'.digits <= 1
       /\ IsDigit(delivered') =>
            LET digit == delivered'[1] IN
            /\ digit \notin ghost.given
            /\ \E s \in Source : Event[s][digit.press] = digit.event
                                  /\ ghost'.copies[s][digit.press] = 2]_receiveVars

\* What RFC 3550 and 3711 ask of a stream for its numbers to tell the packets: no loss of
\* half the numbers at once, and gaps shorter than what counts as a restart; either may
\* be more in a stream that is short.  And the patience that the thresholds of the buffer
\* add up to.
Followable ==
    /\ Patience >= Ceiling + ReanchorAfter + Hysteresis - 2
    /\ \A c \in Carried :
        /\ Jump[c] < SeqMod \div 2
        /\ \/ Reach + Jump[c] < SeqMod \div 2
           \/ First[2] + Last[c][2] < SeqMod /\ Last[c][2] <= SeqMod \div 2
        /\ \A s \in Source :
             \/ Reach + Jump[c] < Dropout
             \/ Last[c][s] <= SeqMod - Dropout /\ Last[c][s] <= SeqMod - Misorder

\* SRTP guesses that a stream it joins has not wrapped yet: the numbers of the second
\* source do not wrap between its first packet and the first that is taken by its key.
KeyedInTime ==
    secured /\ srtp.key = 2 /\ srtp.top = None /\ top[2] # None =>
        First[2] + top[2] + Jump[carried] < SeqMod

\* The stream is followed, through loss, disorder and restarts: it is heard, and counted as
\* it was sent (JitterBuffer, ReceptionStats).
StreamTracked == NeverDeaf /\ ReceptionTrue
====
