-------------------------------- MODULE MCInputs --------------------------------
(***************************************************************************)
(* The components that read what comes from outside, each on its own: a    *)
(* run follows one of them, the subject, and the others stay idle.         *)
(*                                                                         *)
(* - RecoveryFormat: three symbols, two of which are confused with a       *)
(*   letter, codes of three symbols in groups of two.                      *)
(* - Limiter: two clients and two proxies, one address that is also the    *)
(*   name of an account, two requests allowed or one, at most two hops.    *)
(* - Language: two languages, a malformed entry, weights 2, 1 and none.    *)
(* - NextTarget: paths of two characters and queries of three; a page of   *)
(*   the second factor that has a query of its own.                        *)
(* - Placeholders: up to eleven markers, each with text before it or none, *)
(*   digits in the text, drivers of every engine.                          *)
(***************************************************************************)
EXTENDS RecoveryFormat, Limiter, Language, NextTarget, Placeholders, TLC

CONSTANTS c1, c2, p1, p2, fr, en

VARIABLE subject

Subjects == {"format", "limiter", "language", "target", "placeholders"}

MCInit ==
    /\ subject \in Subjects
    /\ FormatInit /\ LimiterInit /\ LanguageInit /\ TargetInit /\ PlaceholdersInit

MCNext ==
    /\ UNCHANGED subject
    /\ \/ /\ subject = "format" /\ FormatNext
          /\ UNCHANGED <<limiterVars, languageVars, targetVars, placeholdersVars>>
       \/ /\ subject = "limiter" /\ LimiterNext
          /\ UNCHANGED <<formatVars, languageVars, targetVars, placeholdersVars>>
       \/ /\ subject = "language" /\ LanguageNext
          /\ UNCHANGED <<formatVars, limiterVars, targetVars, placeholdersVars>>
       \/ /\ subject = "target" /\ TargetNext
          /\ UNCHANGED <<formatVars, limiterVars, languageVars, placeholdersVars>>
       \/ /\ subject = "placeholders" /\ PlaceholdersNext
          /\ UNCHANGED <<formatVars, limiterVars, languageVars, targetVars>>

MCSpec ==
    MCInit /\ [][MCNext]_<<subject, formatVars, limiterVars, languageVars,
                           targetVars, placeholdersVars>>

MCLowered ==
    [c \in {"0", "1", "a", "o", "l", "u", "-", " "} |-> c]
    @@ ("A" :> "a") @@ ("O" :> "o") @@ ("L" :> "l")
MCConfused == ("l" :> "1") @@ ("o" :> "0")

MCPathChars ==
    {Raw("x"), Raw("/"), Raw("login"), <<"login", 1>>, <<"?", 1>>, <<"ctl", 1>>, <<"x", 2>>}
MCQueryChars == {Raw("x"), Raw("&"), Raw("="), Raw("+"), Raw("next"), <<"&", 1>>}
MCVerify == <<Raw("/"), Raw("x"), Raw("?"), Raw("x")>>
MCLanding == <<Raw("/"), Raw("codes")>>

MCEngineOf ==
    ("" :> "sqlite") @@ ("sqlite3" :> "sqlite") @@ ("pgx" :> "postgres")
    @@ ("postgresql" :> "postgres") @@ ("mariadb" :> "mysql") @@ ("oracle" :> "unknown")
MCStatements ==
    {FlattenSeq([i \in 1..n |-> IF i \in alone THEN <<"?">> ELSE <<",", "?">>])
        : n \in 1..11, alone \in SUBSET (1..2)}
    \cup {FlattenSeq([i \in 1..n |-> <<",", "1", "?">>]) : n \in {2, 11}}
================================================================================
