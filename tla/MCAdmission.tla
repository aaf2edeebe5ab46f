---- MODULE MCAdmission ----
EXTENDS Admission

\* +12 and 12 are one number that two gateways write differently, 13 is another; 012 has
\* the zero of a trunk; +0 and the star match no single caller.
MCCallers ==
    {CallerId(TRUE, <<1, 2>>, FALSE), CallerId(FALSE, <<1, 2>>, FALSE),
     CallerId(TRUE, <<1, 3>>, FALSE), CallerId(FALSE, <<0, 1, 2>>, FALSE),
     CallerId(FALSE, <<>>, TRUE), CallerId(FALSE, <<1, 3>>, TRUE)}

Plus12 == Pattern(TRUE, <<1, 2>>, FALSE)
Plus1Star == Pattern(TRUE, <<1>>, TRUE)
Bare13 == Pattern(FALSE, <<1, 3>>, FALSE)
PlusStar == Pattern(TRUE, <<>>, TRUE)
Plus == Pattern(TRUE, <<>>, FALSE)
Star == Pattern(FALSE, <<>>, TRUE)

Norms == {"e164", "strip-plus", "none"}
Lists ==
    {FromLists(allow, grey, deny, norm) :
        allow \in {{}, {Plus12}, {Plus1Star, Bare13}, {PlusStar}, {Star}},
        grey \in {{}, {Star}}, deny \in {{}, {Plus12}, {Star}}, norm \in Norms}

\* A file with the four canonical channels: who is known may hold, the intercom may open.
Known == [name |-> "known", level |-> 2, declined |-> FALSE,
          tools |-> {"hold_call", "resume_call"}]
Colleague == [name |-> "colleague", level |-> 2, declined |-> FALSE, tools |-> NoTools]
Intercom == [name |-> "intercom", level |-> 2, declined |-> FALSE, tools |-> {"open_entry"}]
Files ==
    {[groups |-> <<Operator, group, Receptionist>>,
      lists |-> [name \in {"operator", group.name} |->
                    IF name = "operator" THEN operators ELSE others],
      default |-> default, order |-> order, norm |-> norm, file |-> TRUE] :
        group \in {Known, Colleague, Intercom},
        operators \in {{Plus12}, {Plus}}, others \in {{Plus1Star}, {Bare13}, {PlusStar}},
        default \in {"receptionist", "known"},
        order \in {<<"intercom", "operator", "receptionist">>,
                   <<"operator", "known", "receptionist">>,
                   <<"colleague", "receptionist">>},
        norm \in {"e164", "none"}}
MCDocuments == Lists \cup Files

Pcmu == Codec("PCMU", 0, 8000)
Pcma == Codec("PCMA", 8, 8000)
G722 == Codec("G722", 9, 8000)
Opus == Codec("opus", 111, 48000)
Opus70 == Codec("opus", 70, 48000)      \* a payload type that RTCP would be mistaken for
Odd722 == Codec("G722", 97, 16000)      \* at a rate the engine has no codec for
Event8 == Codec(Event, 101, 8000)
Event48 == Codec(Event, 110, 48000)

M(medium, profile, formats) ==
    <<"m", [media |-> medium, profile |-> profile, formats |-> formats]>>
Maps(codecs) == [i \in DOMAIN codecs |-> <<"rtpmap", codecs[i]>>]
Audio(profile, codecs, lines) ==
    <<M("audio", profile, [i \in DOMAIN codecs |-> codecs[i].pt])>> \o Maps(codecs) \o lines
Cryptos(suites) == [i \in DOMAIN suites |-> <<"crypto", suites[i]>>]

Menus ==
    {<<Pcmu>>, <<Pcma, Pcmu, Event8>>, <<Pcmu, Opus, Event48, Event8>>, <<Opus70, Event8>>,
     <<Opus, Pcmu, Event8>>, <<Odd722>>, <<G722, Event8>>, <<Event8>>}
Framing ==
    {<<<<"ptime", 40>>, <<"maxptime", 20>>>>, <<<<"ptime", 30>>>>, <<<<"maxptime", 5>>>>,
     <<<<"ptime", 20>>, <<"maxptime", 10>>>>, <<<<"ptime", 60>>, <<"maxptime", 30>>>>,
     <<<<"ptime", 0>>>>, <<<<"ptime", 10>>, <<"ptime", 30>>>>}
Mux == <<"mux", TRUE>>

PlainOffers ==
    {Audio("avp", codecs, <<Mux>>) : codecs \in Menus}
    \cup {Audio("avp", <<Pcmu>>, framing) : framing \in Framing}
    \* 8 needs no rtpmap, 96 is dropped without one, 0 is mapped twice
    \cup {<<M("audio", "avp", <<96, 8>>)>>, Audio("avp", <<Pcmu, Pcmu>>, <<>>),
           <<M("video", "avp", <<96>>)>>}
SdesOffers ==
    {Audio("savp", codecs, Cryptos(suites) \o <<<<"direction", "sendonly">>, Mux>>) :
        suites \in {<<>>, <<"other">>, <<"sha1_32", "sha1_80">>, <<"other", "sha1_32">>},
        codecs \in {<<Pcmu>>, <<Opus70, Event8>>}}
    \* the keys of a second audio section are not those of the first
    \cup {Audio("savp", <<Pcmu>>, Cryptos(suites)) \o Audio("savp", <<Pcma>>, Cryptos(<<"sha1_80">>)) :
        suites \in {<<>>, <<"sha1_32">>}}
Credentials == {<<>>, <<<<"fingerprint", TRUE>>, <<"ice", TRUE>>>>, <<<<"fingerprint", FALSE>>>>}
DtlsOffers ==
    {session \o Audio("tls", codecs, own \o Cryptos(suites)) :
        session \in Credentials, own \in Credentials, suites \in {<<>>, <<"sha1_80">>},
        codecs \in {<<Pcma, Pcmu, Event8>>}}
WebrtcOffers ==
    {session \o Audio("webrtc", codecs, <<Mux, <<"ptime", 10>>>>) \o video :
        session \in Credentials, codecs \in {<<Opus, Pcmu, Event8>>, <<Opus70, Pcmu>>},
        video \in {<<>>, <<M("video", "webrtc", <<99>>)>>,
                   <<M("video", "webrtc", <<99>>), <<"h264", TRUE>>>>}}
MCOffers == PlainOffers \cup SdesOffers \cup DtlsOffers \cup WebrtcOffers

Set(mandate, dtls, opus, rtcp, dtmf, inband, source) ==
    [mandate |-> mandate, dtls |-> dtls, opus |-> opus, rtcp |-> rtcp, dtmf |-> dtmf,
     inband |-> inband, source |-> source]
MCKnobs ==
    {Set(TRUE, TRUE, TRUE, "secured", "auto", TRUE, TRUE),
     Set(FALSE, FALSE, FALSE, "on", "inband", FALSE, FALSE),
     Set(FALSE, TRUE, TRUE, "on", "auto", FALSE, FALSE),
     Set(FALSE, FALSE, TRUE, "secured", "rfc4733", TRUE, TRUE),
     Set(TRUE, TRUE, FALSE, "off", "sip_info", FALSE, TRUE)}

Door == [name |-> "door", by |-> "dtmf"]
Gate == [name |-> "gate", by |-> "webhook"]
Barn == [name |-> "barn", by |-> "webhook"]
MCIntercoms ==
    <<[pattern |-> Plus12, openings |-> {Door, Gate}],
      [pattern |-> Plus1Star, openings |-> {Barn}]>>
MCLegacy == [name |-> "legacy", by |-> "webhook"]

Chat == [platform |-> "telegram", readable |-> TRUE]
OtherChat == [platform |-> "matrix", readable |-> TRUE]
Lost == [platform |-> "telegram", readable |-> FALSE]
MCSessions == {Chat, OtherChat, Lost}
MCProactive == {Chat, OwnSession}       \* as a careless wildcard would list it

MCNumbers == {<<"1", "2">>, <<"1">>, <<"1", "2", "0">>, <<"2", "2">>, <<>>}
MCInline == {<<"1", "x">>}
MCFile == {<<"2", "2">>, <<"x">>}
====
