------------------------------- MODULE Language --------------------------------
(***************************************************************************)
(* i18n: the language of a page.  Localizer works it out twice: once for   *)
(* Lang(), from the forced language, the Accept-Language header and the    *)
(* default joined in one list, and once inside go-i18n, which reads each   *)
(* of the three by itself, for the texts of T and Tn.                      *)
(***************************************************************************)
EXTENDS Naturals, Sequences, SequencesExt

CONSTANTS Tags,       \* languages, with a translation or without
          Malformed,  \* an entry that is no language
          Unset,      \* no ?lang=, nothing yet
          Full,       \* the weight of q=1; a weight is a number of parts of it
          MaxEntries  \* bound of the header's length

Dropped == 0          \* q=0

ASSUME LanguageAssumption ==
    /\ Malformed \notin Tags /\ Unset \notin Tags \cup {Malformed}
    /\ Full \in Nat \ {Dropped} /\ MaxEntries \in Nat

Entry == [tag : Tags \cup {Malformed}, q : Dropped..Full]
Header == UNION {[1..n -> Entry] : n \in 0..MaxEntries}

VARIABLES default,   \* DefaultLanguage
          loaded,    \* languages of the YAML files
          localizer  \* the last Localizer built, or Unset

languageVars == <<default, loaded, localizer>>

LanguageInit == default = Unset /\ loaded = {} /\ localizer = Unset

\* NewFS fails when no file is found; the default needs none of its own.
NewFS ==
    /\ default = Unset
    /\ default' \in Tags
    /\ loaded' \in (SUBSET Tags) \ {{}}
    /\ UNCHANGED localizer

Languages == loaded \cup {default}

\* A value given without a weight.
Alone(tag) == IF tag = Unset THEN <<>> ELSE <<[tag |-> tag, q |-> Full]>>

\* Entry i comes no later than entry j in the sorted list: it weighs more, or as much
\* and stands before it.
Ahead(entries, i, j) ==
    \/ entries[i].q > entries[j].q
    \/ entries[i].q = entries[j].q /\ i <= j

\* The places of the entries that count, and the k-th of them in the sorted list.
Kept(entries) == {i \in DOMAIN entries : entries[i].q # Dropped}
Nth(entries, k) ==
    CHOOSE i \in Kept(entries) :
        Cardinality({j \in Kept(entries) : Ahead(entries, j, i)}) = k

\* language.ParseAcceptLanguage: one malformed entry and nothing is left; q=0 is
\* dropped and the rest sorted by weight, equal weights in their order.
ParseAcceptLanguage(entries) ==
    IF \E i \in DOMAIN entries : entries[i].tag = Malformed THEN <<>>
    ELSE [k \in 1..Cardinality(Kept(entries)) |-> entries[Nth(entries, k)]]

\* Matcher.Match: the first preference there is, or the default.
Match(prefs) ==
    LET there == {k \in DOMAIN prefs : prefs[k].tag \in Languages}
    IN  IF there = {} THEN default ELSE prefs[Min(there)].tag

\* Mutant: the default comes first in the list.
LangDefaultFirst(force, accept) ==
    Match(ParseAcceptLanguage(Alone(default) \o Alone(force) \o accept))
Lang(force, accept) ==
    Match(ParseAcceptLanguage(Alone(force) \o accept \o Alone(default)))

\* Mutant: the header before ?lang=.
SpokenHeaderFirst(force, accept) ==
    Match(ParseAcceptLanguage(accept) \o ParseAcceptLanguage(Alone(force))
          \o Alone(default))
\* goi18n.NewLocalizer and Localize.
Spoken(force, accept) ==
    Match(ParseAcceptLanguage(Alone(force)) \o ParseAcceptLanguage(accept)
          \o Alone(default))

\* FromRequest: ?lang= and the header of a request.
FromRequest ==
    /\ default # Unset
    /\ \E force \in Tags \cup {Malformed, Unset}, accept \in Header :
          localizer' = [force |-> force, accept |-> accept,
                        lang |-> Lang(force, accept),
                        spoken |-> Spoken(force, accept)]
    /\ UNCHANGED <<default, loaded>>

LanguageNext == NewFS \/ FromRequest

LanguageSpec == LanguageInit /\ [][LanguageNext]_languageVars

--------------------------------------------------------------------------------
(* Properties. *)

WellFormed(accept) == \A i \in DOMAIN accept : accept[i].tag # Malformed
Acceptable(accept) ==
    {i \in DOMAIN accept : accept[i].q # Dropped /\ accept[i].tag \in Languages}

\* i is the place in the header of the language to serve: none that is there
\* weighs more, or as much and comes before.
Best(accept, i) ==
    /\ i \in Acceptable(accept)
    /\ \A j \in Acceptable(accept) \ {i} :
          accept[j].q < accept[i].q \/ (accept[j].q = accept[i].q /\ i < j)

\* The texts of a page are in the forced language, else in the language of the
\* header that weighs most, else in the default one, whatever else the header
\* names and however it is ordered; a malformed header or ?lang= does no harm.
TextInBestLanguage ==
    localizer # Unset =>
        LET force == localizer.force
            accept == localizer.accept
            heard == WellFormed(accept) /\ Acceptable(accept) # {} IN
        /\ force \in Languages => localizer.spoken = force
        /\ force \notin Languages /\ heard =>
              \A i \in DOMAIN accept : Best(accept, i) => localizer.spoken = accept[i].tag
        /\ force \notin Languages /\ ~heard => localizer.spoken = default

\* Lang() names the language of the texts when what is asked for is well formed
\* and nothing weighs less than 1 among what decides: a language forced, one
\* accepted at full weight, or none accepted at all.
LangNamesText ==
    localizer # Unset =>
        LET force == localizer.force
            accept == localizer.accept IN
        /\ force # Malformed /\ WellFormed(accept)
        /\ \/ force \in Languages
           \/ Acceptable(accept) = {}
           \/ \E i \in Acceptable(accept) : accept[i].q = Full
        => localizer.lang = localizer.spoken

================================================================================
