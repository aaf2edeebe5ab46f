---- MODULE SdpAnswer ----
(***************************************************************************)
(* The answer to an audio offer, as hermes_voip.sdp negotiates it and as   *)
(* the set-up helpers of hermes_voip.adapter arm the media engine for it.  *)
(* The answer is what the peer is told, the engine what then runs: the two *)
(* are computed by different code from the same offer.                     *)
(***************************************************************************)
EXTENDS SdpOffer, FiniteSetsExt

Event == "telephone-event"
Rejected == <<>>    \* no agreement
Dormant == "dormant"

IsSrtp(offer) == offer.profile # "avp"
IsWebrtc(offer) == offer.profile = "webrtc"
IsSipDtls(offer) == offer.profile = "tls" /\ offer.fingerprint

\* The suite an answer names: the longest tag that was offered.
AnswerSuite(offer) ==
    IF "sha1_80" \in ToSet(offer.crypto) THEN "sha1_80" ELSE "sha1_32"

Keyable(offer) == IsSrtp(offer) /\ offer.crypto # <<>>

MediaSecurity(offer) ==
    IF IsSipDtls(offer) THEN "dtls"
    ELSE IF ~ IsSrtp(offer) THEN "plain"
    ELSE IF Keyable(offer) /\ ~ IsWebrtc(offer) THEN "sdes" ELSE "unsupported"

\* Which of the three set-up helpers takes the call.
Path(offer, dtlsKnob) ==
    IF IsWebrtc(offer) THEN "webrtc"
    ELSE IF dtlsKnob /\ MediaSecurity(offer) = "dtls" THEN "dtls"
    ELSE "sdes"

----
(* Codecs. *)

WebrtcMenu == <<"opus", "PCMU", "PCMA", Event>>
SipMenu(opus) == (IF opus THEN <<"opus">> ELSE <<>>) \o <<"G722", "PCMU", "PCMA", Event>>
Menu(path, opus) == IF path = "webrtc" THEN WebrtcMenu ELSE SipMenu(opus)

VoiceCodecs(codecs) == Those(codecs, {i \in DOMAIN codecs : codecs[i].encoding # Event})
Events(codecs) == Those(codecs, {i \in DOMAIN codecs : codecs[i].encoding = Event})

\* The common codecs in our order of preference; equals keep the order of the offer.
InMenuOrder(codecs, menu) ==
    LET Of(n) == IF n > Len(menu) THEN <<>>
                 ELSE Those(codecs, {i \in DOMAIN codecs : codecs[i].encoding = menu[n]})
    IN  Of(1) \o Of(2) \o Of(3) \o Of(4) \o Of(5)     \* no menu is longer

\* The first telephone-event must tick at the rate of some common voice codec.
EventRateAgrees(codecs) ==
    Events(codecs) # <<>> =>
        \E codec \in ToSet(VoiceCodecs(codecs)) : codec.rate = Head(Events(codecs)).rate

NegotiateAudio(offer, menu) ==
    LET chosen == InMenuOrder(offer.codecs, menu)
    IN  IF VoiceCodecs(chosen) # <<>> /\ EventRateAgrees(chosen) THEN chosen ELSE Rejected

\* The engine's table: what it can carry, by name and rate.
Carriable(codec) ==
    \/ codec.encoding = "opus" /\ codec.rate = 48000
    \/ codec.encoding \in {"G722", "PCMU", "PCMA"} /\ codec.rate = 8000

EventPt(codecs) == IF Events(codecs) = <<>> THEN Absent ELSE Head(Events(codecs)).pt

G711 == {"PCMU", "PCMA"}

\* How keys are sent: as events when agreed, in the sound as a last resort.
DtmfSendMode(knob, eventPt, encoding) ==
    CASE knob = "sip_info" -> "sip_info"
      [] knob \in {"auto", "rfc4733"} /\ eventPt # Absent -> "rfc4733"
      [] knob \in {"auto", "inband"} /\ encoding \in G711
            /\ (knob = "auto" => eventPt = Absent) -> "inband"
      [] OTHER -> "unavailable"

\* How they are heard; the operator may forbid the last resort.
DtmfReceiveMode(knob, eventPt, encoding, inband) ==
    IF knob = "auto" /\ eventPt = Absent /\ ~ inband
    THEN "disabled" ELSE DtmfSendMode(knob, eventPt, encoding)

----
(* Framing. *)

Framings(codec) == IF codec.encoding = "opus" THEN {20} ELSE {10, 20, 30, 40}
DefaultPtime == 20

WithinCap(ptime, offer) == offer.maxptime = Absent \/ ptime <= offer.maxptime

NegotiatePtime(offer, framings) ==
    LET fitting == {ptime \in framings : WithinCap(ptime, offer)}
    IN  IF offer.ptime \in fitting THEN offer.ptime
        ELSE IF DefaultPtime \in fitting \/ fitting = {} THEN DefaultPtime
        ELSE Max(fitting)

----
(* RTCP: on the port of RTP (muxed), on the one above, or not at all. *)

\* Payload types that a muxed receiver would take for RTCP.
Conflicts(codecs) == \E codec \in ToSet(codecs) : codec.pt \in 64..95

\* On our own socket the offer's wish is followed, unless the types conflict.
OwnSocketRtcp(offer, codecs) ==
    IF offer.mux /\ ~ Conflicts(codecs) THEN "mux" ELSE "sibling"

\* knob: off, on (clear calls only), or secured.  In the clear only on a plain profile.
PlanRtcp(offer, codecs, knob) ==
    IF knob # "off" /\ offer.profile = "avp" THEN OwnSocketRtcp(offer, codecs) ELSE Dormant
PlanSecuredRtcp(offer, codecs, knob) ==
    IF knob = "secured" THEN OwnSocketRtcp(offer, codecs) ELSE Dormant

\* A pipe has no second port; the engine itself keeps off conflicting types.
PipeRtcp(codecs, knob) ==
    IF knob # "off" /\ ~ Conflicts(codecs) THEN "mux" ELSE Dormant

----
(* The answers. *)

MirrorDirection(direction) ==
    CASE direction = "sendonly" -> "recvonly"
      [] direction = "recvonly" -> "sendonly"
      [] OTHER -> direction

\* Video is only ever sent, and only to a browser that takes our H.264; an m-line that
\* was offered is answered, if need be with port 0.
VideoAnswer(offer, source) ==
    CASE offer.video = "none" -> "none"
      [] offer.video = "h264" /\ source -> "sendonly"
      [] offer.video = "h264" /\ ~ source -> "inactive"
      [] OTHER -> "rejected"

\* build_audio_answer: a secured offer is answered with a key or not at all.
AudioAnswer(offer, codecs) ==
    [profile |-> IF IsSrtp(offer) THEN "savp" ELSE "avp",
     keys |-> IF IsSrtp(offer) THEN AnswerSuite(offer) ELSE "none", codecs |-> codecs,
     mux |-> offer.mux, direction |-> MirrorDirection(offer.direction), video |-> "none"]

SipDtlsAnswer(offer, codecs) ==
    [profile |-> "tls", keys |-> "dtls", codecs |-> codecs, mux |-> offer.mux,
     direction |-> MirrorDirection(offer.direction), video |-> "none"]

WebrtcAnswer(offer, codecs, source) ==
    [profile |-> "webrtc", keys |-> "dtls", codecs |-> codecs, mux |-> TRUE,
     direction |-> MirrorDirection(offer.direction), video |-> VideoAnswer(offer, source)]
====
