---- MODULE CallerGroups ----
(***************************************************************************)
(* The classification of a caller, as hermes_voip.caller_modes computes    *)
(* it: the caller-ID is normalised, the configured groups are tried in     *)
(* their match order, and who matches none falls to the default group.     *)
(* A configuration is accepted or refused when the process starts.         *)
(*                                                                         *)
(* A caller-ID is a record: whether it begins with a plus, its digits, and *)
(* whether other characters follow.  A pattern has no such characters and  *)
(* may end in a star.                                                      *)
(***************************************************************************)
EXTENDS Integers, SequencesExt, Subsequence

ElevatedLevel == 2
IrreversibleLevel == 3

Pattern(plus, digits, star) == [plus |-> plus, digits |-> digits, star |-> star]
CallerId(plus, digits, word) == [plus |-> plus, digits |-> digits, word |-> word]

\* Mutant: only the bare star counts as matching everyone.
IsBlanketStar(pattern) == pattern.digits = <<>> /\ ~ pattern.plus
\* A pattern with no digit matches nearly everyone.
IsBlanket(pattern) == pattern.digits = <<>>

----
(* Matching. *)

\* E.164: a plus is put before a number that starts with 1 to 9; no digit, no number.
E164(raw) ==
    CallerId(raw.digits # <<>> /\ (raw.plus \/ Head(raw.digits) # 0), raw.digits, FALSE)

Normalize(raw, normalization) ==
    CASE normalization = "none" -> raw
      [] normalization = "strip-plus" -> CallerId(FALSE, raw.digits, FALSE)
      [] OTHER -> E164(raw)

\* str.startswith: a prefix that says no plus and has digits cannot begin with one.
StartsWith(form, pattern) ==
    /\ IsPrefix(pattern.digits, form.digits)
    /\ pattern.plus => form.plus
    /\ pattern.digits # <<>> => form.plus = pattern.plus

IsExactly(form, pattern) ==
    form = CallerId(pattern.plus, pattern.digits, FALSE)

\* Both forms are tried, the gateway's and the normalised one.
Matches(candidate, raw, pattern) ==
    \E form \in {candidate, raw} :
        IF pattern.star THEN StartsWith(form, pattern) ELSE IsExactly(form, pattern)

MatchesOneOf(raw, patterns, normalization) ==
    \E pattern \in patterns : Matches(Normalize(raw, normalization), raw, pattern)

----
(* Groups.  A document lists its groups in a sequence; their names are to be *)
(* distinct, and two look-ups of a name that is not would disagree.        *)

Named(doc, name) == Those(doc.groups, {i \in DOMAIN doc.groups : doc.groups[i].name = name})
IsNamed(doc, name) == Named(doc, name) # <<>>
FirstNamed(doc, name) == Head(Named(doc, name))     \* next(g for g in groups ...)
LastNamed(doc, name) == Last(Named(doc, name))      \* {g.name: g for g in groups}[name]

PatternsOf(doc, name) ==
    IF name \in DOMAIN doc.lists THEN doc.lists[name] ELSE {}

UniqueNames(doc) ==
    \A i, j \in DOMAIN doc.groups :
        doc.groups[i].name = doc.groups[j].name => i = j

DefaultUnprivileged(doc) ==
    IsNamed(doc, doc.default) => FirstNamed(doc, doc.default).level = 0

PrivilegedIn(doc) == {g \in ToSet(doc.groups) : g.level >= ElevatedLevel}

NoBlanketPrivilege(doc) ==
    \A g \in PrivilegedIn(doc) : \A p \in PatternsOf(doc, g.name) : ~ IsBlanket(p)

\* What every configuration must satisfy, however it was made.
WellFormed(doc) ==
    UniqueNames(doc) /\ DefaultUnprivileged(doc) /\ NoBlanketPrivilege(doc)

\* What the groups file must satisfy besides.
Parses(doc) ==
    /\ \A g \in ToSet(doc.groups) : g.level \in {0, 2, 3}
    /\ UniqueNames(doc)
    /\ \A name \in DOMAIN doc.lists : IsNamed(doc, name)
    /\ IsNamed(doc, doc.default) /\ FirstNamed(doc, doc.default).level = 0
    /\ \A name \in ToSet(doc.order) : IsNamed(doc, name)
    /\ doc.default \in ToSet(doc.order)
    /\ \A g \in PrivilegedIn(doc) : PatternsOf(doc, g.name) # {}

\* A configuration that the process starts with.
Loads(doc) == WellFormed(doc) /\ (doc.file => Parses(doc))

NoTools == {}
Operator == [name |-> "operator", level |-> 3, declined |-> FALSE, tools |-> NoTools]
Receptionist == [name |-> "receptionist", level |-> 0, declined |-> FALSE, tools |-> NoTools]
Blocked == [name |-> "blocked", level |-> 0, declined |-> TRUE, tools |-> NoTools]

\* The three lists of before the groups: who is on two of them is blocked first.
LegacyOrder == <<"blocked", "operator", "receptionist">>

FromLists(allow, grey, deny, normalization) ==
    [groups |-> <<Operator, Receptionist, Blocked>>,
     lists |-> [operator |-> allow, receptionist |-> grey, blocked |-> deny],
     default |-> "receptionist", order |-> LegacyOrder, norm |-> normalization,
     file |-> FALSE]

----
(* Classification. *)

DefaultGroup(doc) ==
    IF IsNamed(doc, doc.default) THEN LastNamed(doc, doc.default) ELSE Receptionist

\* The first group of the order that is defined and has a matching pattern.
Takes(raw, doc, name) ==
    IsNamed(doc, name) /\ MatchesOneOf(raw, PatternsOf(doc, name), doc.norm)

ClassifyCallerGroup(raw, doc) ==
    LET taken == Those(doc.order, {i \in DOMAIN doc.order : Takes(raw, doc, doc.order[i])})
    IN  IF taken = <<>> THEN DefaultGroup(doc) ELSE LastNamed(doc, Head(taken))
====
