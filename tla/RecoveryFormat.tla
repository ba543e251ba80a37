---------------------------- MODULE RecoveryFormat -----------------------------
(***************************************************************************)
(* A recovery code on its way from the page that shows it once to the form *)
(* where its owner types it: randomRecoveryCode, formatRecoveryCode, what  *)
(* a person does to it, normalizeRecoveryCode.                             *)
(*                                                                         *)
(* A code is a sequence of characters.  The stored hash is a function of   *)
(* the normal form and of the account, so a code is found when its normal  *)
(* form is the one that was drawn.                                         *)
(***************************************************************************)
EXTENDS Naturals, Sequences, SequencesExt

CONSTANTS Alphabet,    \* recoveryAlphabet: what a code is drawn from
          Lowered,     \* character -> what strings.ToLower makes of it
          Confused,    \* i, l, o -> the digit they are read as
          Separators,  \* "-", " ", tab
          CodeLen,     \* recoveryCodeLen
          Group,       \* recoveryGroup
          MaxTyped     \* bound of the length of what is typed

Chars == DOMAIN Lowered

ASSUME FormatAssumption ==
    /\ Alphabet \subseteq Chars /\ Separators \subseteq Chars /\ "-" \in Separators
    /\ DOMAIN Confused \subseteq Chars \ Alphabet /\ Separators \cap Alphabet = {}
    /\ \A c \in Alphabet \cup Separators : Lowered[c] = c
    /\ CodeLen \in Nat \ {0} /\ Group \in Nat \ {0} /\ MaxTyped \in Nat

VARIABLES shown,    \* the code that was drawn, empty before
          typed,    \* what is in the form
          mistaken  \* a character was typed wrong

formatVars == <<shown, typed, mistaken>>

\* randomRecoveryCode: CodeLen independent symbols.
RawCodes == [1..CodeLen -> Alphabet]

\* Where formatRecoveryCode writes the i-th symbol: behind a dash for each group that
\* is complete.
PlaceOf(i) == i + (i - 1) \div Group
Format(raw) ==
    [p \in 1..PlaceOf(CodeLen) |->
        IF \E i \in 1..CodeLen : PlaceOf(i) = p
        THEN raw[CHOOSE i \in 1..CodeLen : PlaceOf(i) = p] ELSE "-"]

\* Mutant: no substitution.
SubstitutedNot(c) == c
\* The loop of normalizeRecoveryCode on one character.
Substituted(c) == IF c \in DOMAIN Confused THEN Confused[c] ELSE c
Letter(c) == Substituted(Lowered[c])
IsSeparator(c) == Lowered[c] \in Separators

\* The places of S in ascending order.
InOrder(S) ==
    [k \in 1..Cardinality(S) |-> CHOOSE i \in S : Cardinality({j \in S : j <= i}) = k]

\* Mutant: a foreign character is skipped, not refused.
ReadLax(code) ==
    LET kept == InOrder({i \in DOMAIN code :
                           ~IsSeparator(code[i]) /\ Letter(code[i]) \in Alphabet})
    IN  [k \in DOMAIN kept |-> Letter(code[kept[k]])]
\* What the loop of normalizeRecoveryCode reads, separators aside.
Read(code) ==
    LET kept == InOrder({i \in DOMAIN code : ~IsSeparator(code[i])})
    IN  [k \in DOMAIN kept |-> Letter(code[kept[k]])]

\* normalizeRecoveryCode; the empty sequence stands for a refusal.
Normalize(code) ==
    IF Range(Read(code)) \subseteq Alphabet /\ Len(Read(code)) = CodeLen
    THEN Read(code) ELSE <<>>

FormatInit == shown = <<>> /\ typed = <<>> /\ mistaken = FALSE

\* The page shows a code, and its owner copies it.
Show ==
    /\ shown = <<>>
    /\ shown' \in RawCodes /\ typed' = Format(shown')
    /\ UNCHANGED mistaken

\* What a person means by a character: the symbol, in capitals or not, or one
\* that looks like it.
Means(c) ==
    IF Lowered[c] \in DOMAIN Confused THEN Confused[Lowered[c]] ELSE Lowered[c]

\* The owner writes a letter another way: capital, or one it is confused with.
Respell ==
    /\ \E i \in DOMAIN typed, c \in Chars :
          /\ ~IsSeparator(typed[i]) /\ ~IsSeparator(c)
          /\ Means(c) = Means(typed[i])
          /\ typed' = [typed EXCEPT ![i] = c]
    /\ UNCHANGED <<shown, mistaken>>

\* The owner leaves a separator out, or adds one.
Regroup ==
    /\ shown # <<>>
    /\ \/ \E i \in DOMAIN typed : IsSeparator(typed[i]) /\ typed' = RemoveAt(typed, i)
       \/ /\ Len(typed) < MaxTyped
          /\ \E i \in 1..(Len(typed) + 1), s \in Separators :
                typed' = InsertAt(typed, i, s)
    /\ UNCHANGED <<shown, mistaken>>

\* The owner makes one mistake: a letter too few, one too many, or another one.
Mistype ==
    /\ shown # <<>> /\ ~mistaken /\ mistaken' = TRUE
    /\ \/ \E i \in DOMAIN typed : ~IsSeparator(typed[i]) /\ typed' = RemoveAt(typed, i)
       \/ /\ Len(typed) < MaxTyped
          /\ \E i \in 1..(Len(typed) + 1), c \in Chars :
                ~IsSeparator(c) /\ typed' = InsertAt(typed, i, c)
       \/ \E i \in DOMAIN typed, c \in Chars :
             /\ ~IsSeparator(typed[i]) /\ ~IsSeparator(c)
             /\ Means(c) # Means(typed[i])
             /\ typed' = [typed EXCEPT ![i] = c]
    /\ UNCHANGED shown

FormatNext == Show \/ Respell \/ Regroup \/ Mistype

FormatSpec == FormatInit /\ [][FormatNext]_formatVars

--------------------------------------------------------------------------------
(* Properties. *)

\* However the code shown by formatRecoveryCode is spelled and grouped when it is
\* typed, normalizeRecoveryCode finds the code that was drawn.
ReadAsShown == shown # <<>> /\ ~mistaken => Normalize(typed) = shown

\* A mistake is never forgiven: what is typed is then refused, or is another
\* code, however it is spelled and grouped.
MistakeNotForgiven == mistaken => Normalize(typed) # shown

================================================================================
