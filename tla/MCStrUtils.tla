----------------------------- MODULE MCStrUtils -----------------------------
(***************************************************************************)
(* The string functions over all short texts: a behaviour is one call, of  *)
(* a function of StrUtils or of StrNumbers.                                *)
(***************************************************************************)
EXTENDS StrUtils, StrNumbers

CONSTANTS MaxLen,      \* the longest text of the tokenizers
          MaxNumLen    \* the longest arbitrary text of the numbers

MCChars == {"a", "d", "q", "r", "b"}
MCTexts == UNION {[1..k -> MCChars] : k \in 1..MaxLen}

(* A sentence with the spaces in front, behind the digits and at the end. *)
Sentence(front, sign, prefix, digits, gap, letter, i, rest) ==
    [spaces |-> <<front, <<>>, IF gap = <<>> THEN <<>> ELSE front, gap, gap, rest>>, sign |-> sign,
     prefix |-> prefix, digits |-> digits, letter |-> letter, i |-> i]

Spaces   == {<<>>, <<"space">>}
Bases    == {<<<<"0", "x">>, {<<"a">>, <<"1", "b">>, <<"8", "0">>}>>,
             <<<<"\\", "x">>, {<<"1">>, <<"f">>}>>,
             <<<<"h">>, {<<"b">>}>>,
             <<<<"\\", "0">>, {<<"7">>, <<"1", "0">>}>>,
             <<<<>>, {<<"0">>, <<"8">>, <<"1", "6">>, <<"1", "0", "2", "4">>}>>,
             <<<<"\\", "b">>, {<<"1">>, <<"1", "0", "0", "0">>}>>,
             <<<<"b">>, {<<"1", "1">>}>>}

Sentences == {s \in UNION {{Sentence(f, g, b[1], d, e, l, i, r) :
                  f \in Spaces, g \in {<<>>, <<"-">>, <<"+">>}, d \in b[2], e \in Spaces,
                  l \in {0, 1, 2, 6}, i \in BOOLEAN, r \in Spaces} : b \in Bases} : IsSentence(s)}

NumChars == {"-", "+", "space", "\\", "0", "1", "x", "b", "k", "i"}
AnyTexts == UNION {[1..k -> NumChars] : k \in 1..MaxNumLen}

MCArgs == {[text |-> TextOf(s), base |-> 0, type |-> t, known |-> TRUE, sentence |-> s] :
              s \in Sentences, t \in Types}
          \cup {[text |-> s, base |-> b, type |-> t, known |-> FALSE, sentence |-> <<>>] :
                  s \in AnyTexts, b \in {0, 2, 10}, t \in {x \in Types : x.bits = 1}}
MCAlphabet == NumChars \cup {"h"} \cup Range(SiLetters) \cup Range(Digits)
MCWords == <<16, 64, 4096>>
MCSi == <<3, 4>>

NoCall == [text |-> <<>>, base |-> 0, type |-> [bits |-> 1, signed |-> TRUE], known |-> FALSE, sentence |-> <<>>]

Init ==
    \/ StrInit /\ arg = NoCall /\ res = NotYet
    \/ org = <<"a">> /\ max = 0 /\ fn = "trim_right" /\ StrInit /\ NumInit

Next ==
    \/ StrNext /\ arg = NoCall /\ UNCHANGED numVars
    \/ mccp_str_parse /\ arg # NoCall /\ UNCHANGED strVars

vars == <<strVars, numVars>>
Spec == Init /\ [][Next]_vars /\ WF_vars(StrNext /\ arg = NoCall /\ UNCHANGED numVars)

(* Every call of a function that walks over a text returns. *)
EveryCallReturns == arg = NoCall => <>(pc = "done")
=============================================================================
