---- MODULE SdpOffer ----
(***************************************************************************)
(* How hermes_voip.sdp reads an offer.  A description is a sequence of     *)
(* lines, each a pair of what it is and what it says; a line "m" starts a  *)
(* section, what comes before the first is of the session.  Only the first *)
(* audio and the first video section are read, and the session's lines are *)
(* defaults for the credentials the audio section has not.                 *)
(*                                                                         *)
(* <<"m", [media, profile, formats]>>, <<"rtpmap", codec>>, <<"crypto", s>>, *)
(* <<"fingerprint", well-formed>>, <<"ice", TRUE>>, <<"ptime", ms>>,       *)
(* <<"maxptime", ms>>, <<"direction", d>>, <<"mux", TRUE>>, <<"h264", TRUE>> *)
(* The profile is avp, savp, tls (UDP/TLS/RTP/SAVP) or webrtc              *)
(* (UDP/TLS/RTP/SAVPF); a suite is sha1_80, sha1_32 or one unknown to us.  *)
(***************************************************************************)
EXTENDS Integers, SequencesExt, Subsequence

Codec(encoding, pt, rate) == [encoding |-> encoding, pt |-> pt, rate |-> rate]
Absent == 0         \* no a=ptime, no a=maxptime

\* The payload types that need no rtpmap.
StaticPayloads ==
    {Codec("PCMU", 0, 8000), Codec("GSM", 3, 8000), Codec("PCMA", 8, 8000),
     Codec("G722", 9, 8000), Codec("G729", 18, 8000)}

----
(* Sections. *)

Starts(sdp) == {i \in DOMAIN sdp : sdp[i][1] = "m"}
EndOf(sdp, start) ==
    IF \E i \in Starts(sdp) : i > start
    THEN CHOOSE i \in Starts(sdp) : i > start /\ \A j \in Starts(sdp) : j > start => i <= j
    ELSE Len(sdp) + 1

\* Where the first section of that medium starts, 0 if there is none.
FirstOf(sdp, medium) ==
    LET of == {i \in Starts(sdp) : sdp[i][2].media = medium}
    IN  IF of = {} THEN 0 ELSE Min(of)

Section(sdp, start) == SubSeq(sdp, start + 1, EndOf(sdp, start) - 1)
SessionLines(sdp) == SubSeq(sdp, 1, EndOf(sdp, 0) - 1)

AudioLines(sdp) == Section(sdp, FirstOf(sdp, "audio"))

----
(* Attributes: the last line of a kind counts. *)

Said(lines, tag) ==
    LET of == Those(lines, {i \in DOMAIN lines : lines[i][1] = tag})
    IN  [i \in DOMAIN of |-> of[i][2]]
LastSaid(lines, tag, default) ==
    IF Said(lines, tag) = <<>> THEN default ELSE Last(Said(lines, tag))

\* A credential that cannot be read leaves what was there; the media section's own counts
\* before the session's.
HasCredential(sdp, tag) ==
    TRUE \in ToSet(Said(AudioLines(sdp), tag) \o Said(SessionLines(sdp), tag))

\* A bad framing or a payload type mapped twice, be it of the session, fails the parse.
SaneLines(lines) ==
    /\ \A ms \in ToSet(Said(lines, "ptime") \o Said(lines, "maxptime")) : ms > 0
    /\ \A i, j \in DOMAIN Said(lines, "rtpmap") :
        Said(lines, "rtpmap")[i].pt = Said(lines, "rtpmap")[j].pt => i = j

\* Without audio there is nothing to negotiate.
Readable(sdp) ==
    /\ FirstOf(sdp, "audio") # 0
    /\ SaneLines(AudioLines(sdp)) /\ SaneLines(SessionLines(sdp))

\* The formats in their order; one with neither an rtpmap nor a fixed meaning is dropped.
CodecsOf(sdp) ==
    LET mapped == ToSet(Said(AudioLines(sdp), "rtpmap"))
        static == {c \in StaticPayloads : \A m \in mapped : m.pt # c.pt}
        known == mapped \cup static
        listed == sdp[FirstOf(sdp, "audio")][2].formats
        formats == Those(listed, {i \in DOMAIN listed : \E c \in known : c.pt = listed[i]})
    IN  [i \in DOMAIN formats |-> CHOOSE c \in known : c.pt = formats[i]]

\* Mutant: as the peer ordered them.
CryptoAttrsAsOffered(sdp) ==
    LET said == Said(AudioLines(sdp), "crypto")
    IN  Those(said, {i \in DOMAIN said : said[i] \in {"sha1_80", "sha1_32"}})
\* The usable crypto lines, the strongest first; equals keep their order.
CryptoAttrs(sdp) ==
    LET said == Said(AudioLines(sdp), "crypto")
        known(name) == Those(said, {i \in DOMAIN said : said[i] = name})
    IN  known("sha1_80") \o known("sha1_32")

VideoOf(sdp) ==
    LET start == FirstOf(sdp, "video")
    IN  CASE start = 0 -> "none"
          [] start # 0 /\ Said(Section(sdp, start), "h264") # <<>> -> "h264"
          [] OTHER -> "other"

Parse(sdp) ==
    LET audio == AudioLines(sdp)
    IN  [profile |-> sdp[FirstOf(sdp, "audio")][2].profile, codecs |-> CodecsOf(sdp),
         crypto |-> CryptoAttrs(sdp),
         fingerprint |-> HasCredential(sdp, "fingerprint"), ice |-> HasCredential(sdp, "ice"),
         ptime |-> LastSaid(audio, "ptime", Absent),
         maxptime |-> LastSaid(audio, "maxptime", Absent),
         direction |-> LastSaid(audio, "direction", "sendrecv"),
         mux |-> Said(audio, "mux") # <<>>, video |-> VideoOf(sdp)]
====
