---- MODULE Admission ----
(***************************************************************************)
(* One inbound call from its INVITE to what the agent does on it: the      *)
(* handler _handle_inbound_invite of hermes_voip.adapter classifies the    *)
(* caller and negotiates the media, a declined caller hears one line, any  *)
(* other talks to the agent, and the agent's tools pass the gate.  Beside  *)
(* the call there are Hermes sessions that are no call and may place one.  *)
(*                                                                         *)
(* What is decided at one step and not read again is not kept: of the      *)
(* configuration, what it said of the caller; of the negotiation, once the *)
(* agent is there, how keys are sent.  Transactions, dialogs and slots are *)
(* those of InboundCalls; the two transfer tools are those of Transfers.   *)
(***************************************************************************)
EXTENDS ToolGate, SdpAnswer

CONSTANTS
    Documents,      \* caller-group configurations, from a file or the three lists
    Callers,        \* caller-IDs that a From header may resolve to
    Unresolved,     \* a From header without a SIP user part
    Offers,         \* what callers offer: descriptions as SdpOffer reads them
    Knobs,          \* what the operator set about the media
    Intercoms,      \* the intercoms: a sequence of [pattern, openings]
    LegacyOpening,  \* the opening of a call that is of none of them
    Names,          \* what the agent may call an opening; "unsaid" for no name
    Sessions,       \* Hermes sessions that are no call
    Proactive,      \* those the operator lists
    Numbers,        \* what the agent may want to dial: sequences of keys
    AllowInline, AllowFile      \* the outbound allowlist, of two sources

\* What a parser yields: lists, lines that are pairs, and the three lists as groups.
ASSUME AdmissionAssumption ==
    /\ \A d \in Documents :
        /\ d.groups \in Seq(ToSet(d.groups)) /\ d.order \in Seq(ToSet(d.order))
        /\ d.file \in BOOLEAN
        /\ ~ d.file => d = FromLists(d.lists.operator, d.lists.receptionist,
                                    d.lists.blocked, d.norm)
    /\ \A from \in Callers : from.digits \in Seq(0..9)
    /\ \A sdp \in Offers :
        /\ sdp \in Seq(ToSet(sdp))
        /\ \A line \in ToSet(sdp) : line = <<line[1], line[2]>>
        /\ \A i \in Starts(sdp) : sdp[i][2].formats \in Seq(ToSet(sdp[i][2].formats))

VARIABLES
    doc,        \* the configuration, until the caller is classified
    call,       \* the call: its phase and what was found of its caller
    media,      \* the offer, the answer and the engine; then how keys are sent
    guard,      \* GuardSessionState of the call, NoGuard without one
    tool,       \* the tool that passed the hook and now runs
    heard,      \* ghost: a screen has failed; the last turn was no clean one
    did         \* ghost: the tool that took effect in the last step, if one did

admissionVars == <<doc, call, media, guard, tool, heard, did>>

NoCall == [phase |-> "none"]
Over == [phase |-> "over"]
NoMedia == [send |-> "unavailable"]
NoTool == [name |-> "none"]
Unheard == [failed |-> FALSE, unclean |-> FALSE]
OwnSession == [platform |-> "voip", readable |-> TRUE]

Up == call.phase = "up"
\* No tool took effect.
Quiet == did' = NoTool

----
(* The caller. *)

\* Who has no number is never matched at all.
Classify(from, config) ==
    IF from = Unresolved THEN DefaultGroup(config) ELSE ClassifyCallerGroup(from, config)

\* MultiIntercomConfig.match: the first entry the raw caller-ID is of; none has {}.
IntercomOf(from) ==
    LET of == Those(Intercoms, {i \in DOMAIN Intercoms : Matches(from, from, Intercoms[i].pattern)})
    IN  IF from = Unresolved \/ of = <<>> THEN {} ELSE Head(of).openings

\* What the operator wrote, read without the code: the caller's digits are, or begin
\* with, the digits of a pattern of the group.
ListedIn(from, config, name) ==
    from # Unresolved /\ \E p \in PatternsOf(config, name) :
        /\ p.digits # <<>>
        /\ IF p.star THEN IsPrefix(p.digits, from.digits) ELSE p.digits = from.digits

\* The caller is on the deny list just as the gateway writes its number.
DeniedIn(from, config) ==
    /\ from # Unresolved /\ ~ config.file
    /\ \E p \in PatternsOf(config, "blocked") :
        from = CallerId(p.plus, p.digits, FALSE) \/ p = Pattern(FALSE, <<>>, TRUE)

AdmissionInit ==
    /\ doc \in {d \in Documents : Loads(d)}
    /\ call = NoCall /\ media = NoMedia /\ guard = NoGuard /\ tool = NoTool
    /\ heard = Unheard /\ did = NoTool

\* denyMode: a declined caller is refused with 603 here, or answered and told.
InboundInvite(from, denyMode) ==
    LET group == Classify(from, doc)
    IN  /\ call = NoCall
        /\ call' =
            IF group.declined /\ denyMode = "reject" THEN Over
            ELSE [phase |-> "classified", level |-> group.level, tools |-> group.tools,
                  decline |-> group.declined, intercom |-> IntercomOf(from),
                  \* ghosts: what the lists say of this caller
                  listed |-> ListedIn(from, doc, group.name),
                  denied |-> DeniedIn(from, doc)]
        /\ doc' = "used" /\ Quiet
        /\ UNCHANGED <<media, guard, tool, heard>>

----
(* The media. *)

Codecs(offer, knobs) ==
    NegotiateAudio(offer, Menu(Path(offer, knobs.dtls), knobs.opus))

\* Otherwise 488, as for an offer that cannot be read: the mandate, no common codec, one
\* the engine cannot carry or whose library is missing, no key.
Acceptable(offer, knobs) ==
    LET path == Path(offer, knobs.dtls)
        codecs == Codecs(offer, knobs)
    IN  /\ knobs.mandate => IsSrtp(offer)
        /\ codecs # Rejected
        /\ Carriable(Head(VoiceCodecs(codecs)))
        /\ Head(VoiceCodecs(codecs)).encoding = "opus" => knobs.opus
        /\ path = "webrtc" => offer.fingerprint /\ offer.ice
        /\ path = "sdes" /\ IsSrtp(offer) => Keyable(offer)

Engine(offer, knobs, keys, rtcp) ==
    LET codecs == Codecs(offer, knobs)
        voice == Head(VoiceCodecs(codecs))
    IN  [keys |-> keys, codec |-> voice, ptime |-> NegotiatePtime(offer, Framings(voice)),
         send |-> DtmfSendMode(knobs.dtmf, EventPt(codecs), voice.encoding),
         receive |-> DtmfReceiveMode(knobs.dtmf, EventPt(codecs), voice.encoding, knobs.inband),
         rtcp |-> rtcp]

\* On our own socket: keyed from the first usable crypto line, before the answer is built.
SdesCall(offer, knobs) ==
    LET codecs == Codecs(offer, knobs)
        keys == IF Keyable(offer) THEN Head(offer.crypto) ELSE "none"
        rtcp == IF Keyable(offer) THEN PlanSecuredRtcp(offer, codecs, knobs.rtcp)
                ELSE PlanRtcp(offer, codecs, knobs.rtcp)
    IN  [answer |-> AudioAnswer(offer, codecs), engine |-> Engine(offer, knobs, keys, rtcp)]

\* On a pipe that a handshake keys after the answer; nothing runs before that.
SipDtlsCall(offer, knobs) ==
    LET codecs == Codecs(offer, knobs)
    IN  [answer |-> SipDtlsAnswer(offer, codecs),
         engine |-> Engine(offer, knobs, "dtls", PipeRtcp(codecs, knobs.rtcp))]

WebrtcCall(offer, knobs) ==
    LET codecs == Codecs(offer, knobs)
    IN  [answer |-> WebrtcAnswer(offer, codecs, knobs.source),
         engine |-> Engine(offer, knobs, "dtls", PipeRtcp(codecs, knobs.rtcp))]

SetUp(offer, knobs) ==
    CASE Path(offer, knobs.dtls) = "webrtc" -> WebrtcCall(offer, knobs)
      [] Path(offer, knobs.dtls) = "dtls" -> SipDtlsCall(offer, knobs)
      [] OTHER -> SdesCall(offer, knobs)

Reject(sdp, knobs) ==
    /\ call.phase = "classified" /\ ~ (Readable(sdp) /\ Acceptable(Parse(sdp), knobs))
    /\ call' = Over /\ Quiet
    /\ UNCHANGED <<doc, media, guard, tool, heard>>

\* The 200 is sent.
Answer(sdp, knobs) ==
    LET offer == Parse(sdp)
        setup == SetUp(offer, knobs)
    IN  /\ call.phase = "classified" /\ Readable(sdp) /\ Acceptable(offer, knobs)
        /\ media' = [sdp |-> sdp, offer |-> offer, mandate |-> knobs.mandate, send |-> setup.engine.send,
                     answer |-> setup.answer, engine |-> setup.engine]
        /\ call' = [call EXCEPT !.phase = "answered"] /\ Quiet
        /\ UNCHANGED <<doc, guard, tool, heard>>

\* The handshake after the 200 fails: the call is ended, never carried on in the clear.
HandshakeFails ==
    /\ call.phase = "answered" /\ media.engine.keys = "dtls"
    /\ call' = Over /\ media' = NoMedia /\ Quiet
    /\ UNCHANGED <<doc, guard, tool, heard>>

\* The session is made, with its guard; a declined caller gets no agent.
StartSession ==
    /\ call.phase = "answered"
    /\ call' = [call EXCEPT !.phase = IF call.decline THEN "declining" ELSE "up"]
    /\ guard' = Guard(call.level, call.tools)
    /\ media' = [send |-> media.send] /\ Quiet
    /\ UNCHANGED <<doc, tool, heard>>

Leave ==
    /\ call' = Over /\ guard' = NoGuard /\ media' = NoMedia

\* _speak_decline_then_bye: one line and the BYE, whether the line could be said or not.
DeclineSpoken ==
    /\ call.phase = "declining"
    /\ Leave /\ Quiet
    /\ UNCHANGED <<doc, tool, heard>>

\* Whatever else ends the call; its session leaves the maps and its guard with it.
EndCall ==
    /\ Up
    /\ Leave /\ Quiet
    /\ UNCHANGED <<doc, tool, heard>>

----
(* The caller's turns. *)

\* A refused turn is recorded like any other and reaches the agent in no form.
ScreenTurn(verdict, failedOpen) ==
    /\ Up
    /\ failedOpen => verdict = "restrict"
    /\ guard' = Record(guard, verdict, failedOpen)
    /\ heard' = [failed |-> heard.failed \/ failedOpen, unclean |-> verdict # "allow"]
    /\ Quiet
    /\ UNCHANGED <<doc, call, media, tool>>

KeypadTurn ==
    /\ Up
    /\ guard' = NoteTrustedTurn(guard)
    /\ heard' = [heard EXCEPT !.unclean = FALSE] /\ Quiet
    /\ UNCHANGED <<doc, call, media, tool>>

----
(* The agent's tools.  The agent works at its own pace: a tool may be called in any *)
(* session at any time, and between its hook and its handler anything may happen.   *)

ArgsOf(name) ==
    CASE name = "open_entry" -> Names
      [] name = "place_call" -> Numbers
      [] OTHER -> {"none"}

GuardOf(session) == IF session = OwnSession /\ Up THEN guard ELSE NoGuard

CallTool(name, session, arg) ==
    /\ tool = NoTool
    /\ PreToolCall(name, GuardOf(session), session, Proactive)
    /\ tool' = [name |-> name, session |-> session, arg |-> arg, heard |-> heard,
                call |-> IF GuardOf(session) = NoGuard THEN NoCall ELSE call]
    /\ Quiet
    /\ UNCHANGED <<doc, call, media, guard, heard>>

Done == tool' = NoTool /\ UNCHANGED <<doc, heard>>
Still == UNCHANGED <<call, media, guard>>
\* The handler did it, or returned an error.
TakesEffect == did' = tool /\ Still /\ Done
ReturnsError == Quiet /\ Still /\ Done

\* A handler finds its call by the session, and finds none when it has ended.
OnCall == tool.session = OwnSession /\ Up

HangUp ==
    /\ tool.name = "hang_up"
    /\ IF OnCall THEN did' = tool /\ Leave /\ Done ELSE ReturnsError

\* hold_call, resume_call and report_call_result: their call is still there.
ActOnCall ==
    /\ tool.name \in {"hold_call", "resume_call", "report_call_result"}
    /\ IF OnCall THEN TakesEffect ELSE ReturnsError

\* The registrations are of the process: the handler looks for no call.
ListRegistrations ==
    /\ tool.name = "list_registrations"
    /\ TakesEffect

SendsKeys == OnCall /\ media.send # "unavailable"

SendDtmf ==
    /\ tool.name = "send_dtmf"
    /\ IF SendsKeys THEN TakesEffect ELSE ReturnsError

\* An opening's name may be left unsaid when there is one only.
Openings(names) == {o \in call.intercom : o.name \in names}
NamesOf(name) == IF name = "unsaid" THEN Names ELSE {name}
OwnOpenings(name) == Openings(NamesOf(name))

\* The call of an intercom opens what is that intercom's; any other, the legacy entry.
ToOpen(name) == IF call.intercom = {} THEN {LegacyOpening} ELSE OwnOpenings(name)

\* By the keys of the call, or by a request that still wants the call to be there.
Opens(opening) == IF opening.by = "dtmf" THEN SendsKeys ELSE opening.by # "disabled"

OpenEntry ==
    /\ tool.name = "open_entry"
    /\ IF OnCall /\ \E o \in ToOpen(tool.arg) : ToOpen(tool.arg) = {o} /\ Opens(o)
       THEN /\ \E o \in ToOpen(tool.arg) : did' = [tool EXCEPT !.arg = o]
            /\ Still /\ Done
       ELSE ReturnsError

\* The allowlist: an entry with an x is a mask of its length, any other is exact.
Digit == {"0", "1", "2"}
IsMask(entry) == "x" \in ToSet(entry)
OfMask(number, entry) ==
    /\ Len(number) = Len(entry)
    /\ \A i \in DOMAIN entry :
        IF entry[i] = "x" THEN number[i] \in Digit ELSE number[i] = entry[i]
IsOutboundAllowed(number) ==
    /\ number # <<>>
    /\ \E entry \in AllowInline \cup AllowFile :
        IF IsMask(entry) THEN OfMask(number, entry) ELSE number = entry

PlaceCall ==
    /\ tool.name = "place_call"
    /\ IF IsOutboundAllowed(tool.arg) THEN TakesEffect ELSE ReturnsError

----

AdmissionNext ==
    \/ \E from \in Callers \cup {Unresolved}, mode \in {"reject", "decline"} :
        InboundInvite(from, mode)
    \/ \E sdp \in Offers, knobs \in Knobs : Reject(sdp, knobs)
    \/ \E sdp \in Offers, knobs \in Knobs : Answer(sdp, knobs)
    \/ HandshakeFails
    \/ StartSession
    \/ DeclineSpoken
    \/ EndCall
    \/ \E verdict \in {"allow", "restrict", "refuse"}, failed \in BOOLEAN :
        ScreenTurn(verdict, failed)
    \/ KeypadTurn
    \/ \E name \in Tools \ {"transfer_blind", "transfer_attended"},
          session \in Sessions \cup {OwnSession} :
        \E arg \in ArgsOf(name) : CallTool(name, session, arg)
    \/ HangUp
    \/ ActOnCall
    \/ ListRegistrations
    \/ SendDtmf
    \/ OpenEntry
    \/ PlaceCall

AdmissionSpec == AdmissionInit /\ [][AdmissionNext]_admissionVars

----
(* Properties. *)

\* Privilege is for those the operator has listed by number: whatever the document, the
\* normalisation and the caller-ID, a call whose guard is above level 0 is of a caller
\* with a number that a pattern with digits, of that very group, stands for.
\* (CallerGroupConfig.__post_init__, classify_caller_group, _classify_caller)
TrustIsListed == guard.level > 0 => call.listed

\* A number on the deny list is never talked to by the agent and no tool acts for it, be
\* it on the operator's list too, and whether it is refused or told politely.
\* (caller_mode_config_to_groups, deny_mode in _handle_inbound_invite)
DeniedNeverServed == Up => ~ call.denied

\* What a tool does was the caller's to ask when the hook let it through: with a call, no
\* screen of it had failed open, its last turn was a clean one, its caller is listed at
\* the tool's level and a door was granted by name and is of the intercom that calls;
\* without one, it is place_call from a listed session that is no call; and no number is
\* dialled that the allowlist does not spell.  A later failure that comes between the
\* hook and the handler is not looked at again.
\* (voip_pre_tool_call, gate_voip_tool, GuardSessionState, open_entry, is_outbound_allowed)
Spelled(entry) ==
    {number \in Numbers : Len(number) = Len(entry) /\ \A i \in DOMAIN entry :
        number[i] = entry[i] \/ (entry[i] = "x" /\ number[i] \in Digit)}
EffectsAuthorised ==
    did.name \notin Safe \cup {"none"} =>
        /\ IF did.call = NoCall
           THEN did.name = "place_call" /\ did.session \in Proactive \ {OwnSession}
           ELSE /\ did.call.listed /\ did.call.level >= MinLevel(did.name)
                /\ ~ did.heard.failed /\ ~ did.heard.unclean
        /\ did.name = "open_entry" =>
            /\ "open_entry" \in did.call.tools
            /\ did.arg \in IF did.call.intercom = {} THEN {LegacyOpening} ELSE did.call.intercom
        /\ did.name = "place_call" =>
            \E entry \in AllowInline \cup AllowFile : did.arg \in Spelled(entry)

\* The line is one of the first audio section.
IsOffered(line, sdp) ==
    \E i \in DOMAIN sdp :
        /\ sdp[i] = line
        /\ \E m \in Starts(sdp) :
            /\ m < i /\ \A n \in Starts(sdp) : n <= m \/ n > i
            /\ sdp[m][2].media = "audio"
            /\ \A n \in Starts(sdp) : n < m => sdp[n][2].media # "audio"

\* What was agreed of the media is what is set up.
Agreed(m) ==
    LET offer == m.offer
        answer == m.answer
        engine == m.engine
    IN  /\ engine.keys = answer.keys
        /\ offer.profile # "avp" \/ m.mandate => engine.keys # "none"
        /\ engine.keys \in {"sha1_80", "sha1_32"} => IsOffered(<<"crypto", engine.keys>>, m.sdp)
        /\ engine.codec = Head(VoiceCodecs(answer.codecs)) /\ Carriable(engine.codec)
        /\ \A c \in ToSet(answer.codecs) \ StaticPayloads : IsOffered(<<"rtpmap", c>>, m.sdp)
        /\ \/ WithinCap(engine.ptime, offer)
           \/ engine.ptime = 20 /\ \A p \in Framings(engine.codec) : ~ WithinCap(p, offer)
        /\ "rfc4733" \in {engine.send, engine.receive} => Events(answer.codecs) # <<>>
        /\ "inband" \in {engine.send, engine.receive} => engine.codec.encoding \in G711
        /\ engine.rtcp = "mux" => answer.mux \/ answer.keys = "dtls"
        /\ engine.rtcp = "mux" => \A c \in ToSet(answer.codecs) : c.pt \notin 64..95
        /\ offer.profile = "webrtc" => (answer.video = "none" <=> offer.video = "none")
        /\ answer.video \notin {"sendrecv", "recvonly"}

\* The engine runs what the answer says and the offer allowed: keyed as the answer names
\* it, from a line of the audio that is answered, whenever the offer was secured or the
\* operator demands it; with the first voice codec of the answer, a framing within the
\* peer's cap if any fits it, keys as events only when both agreed on them and in the
\* sound only on G.711, and no RTCP where the payload types would be taken for it; video
\* is never received.
\* (_setup_sdes_call, _setup_sip_dtls_call, _setup_webrtc_call, hermes_voip.sdp)
MediaAsAgreed == call.phase = "answered" => Agreed(media)

\* The operator's lists decide: they alone give privilege, and deny it.
\* (classify_caller_group, caller_mode_config_to_groups, deny_mode)
ListsDecide == TrustIsListed /\ DeniedNeverServed
====
