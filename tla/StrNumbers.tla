----------------------------- MODULE StrNumbers -----------------------------
(***************************************************************************)
(* The numbers of src/src/lib/strutils.c: how a text with a sign, a prefix *)
(* that names the base, digits and a multiplier becomes an integer of one  *)
(* of the six types. One behaviour is one call of a mccp_str_parse_*()      *)
(* function. Upper and lower case letters are the same letter here, as they *)
(* are for the code. The digits themselves are read by GMP.                 *)
(***************************************************************************)
EXTENDS Integers, Sequences, SequencesExt, FiniteSetsExt

CONSTANTS Args,     \* the calls: text, base (0: the text names it), type and, if known, sentence
          Alphabet, \* the characters of the texts
          Si,       \* the bases of the multipliers, 1000 and 1024 in the code
          Words     \* how many values 16, 32 and 64 bits have

ASSUME NumbersAssumption ==
    /\ Si \in Nat \X Nat
    /\ Words \in [1..3 -> Nat \ {0}]
    /\ Words[1] < Words[2] /\ Words[3] = Words[2] * Words[2]
    /\ Words[1] % 2 = 0 /\ Words[2] % 2 = 0

VARIABLES arg,      \* the call
          res       \* its result and the value it stored

numVars == <<arg, res>>

(***************************************************************************)
(* Spaces, signs and prefixes.                                             *)
(***************************************************************************)
NotSpace(s)   == {i \in 1..Len(s) : s[i] # "space"}
SkipSpaces(s) == IF NotSpace(s) = {} THEN <<>> ELSE SubSeq(s, Min(NotSpace(s)), Len(s))
TrimSpaces(s) == IF NotSpace(s) = {} THEN <<>> ELSE SubSeq(s, 1, Max(NotSpace(s)))

HasSign(s)  == s # <<>> /\ s[1] \in {"-", "+"}
IsNeg(s)    == HasSign(s) /\ s[1] = "-"
SkipSign(s) == SkipSpaces(IF HasSign(s) THEN Tail(s) ELSE s)

Starts2(s, a, b) == Len(s) >= 2 /\ s[1] = a /\ s[2] = b
LongHex(s)  == Starts2(s, "0", "x") \/ Starts2(s, "\\", "x")
BaseOf(s) ==
    IF LongHex(s) THEN 16
    ELSE IF Starts2(s, "\\", "0") THEN 8
    ELSE IF Starts2(s, "\\", "b") THEN 2
    ELSE IF s # <<>> /\ s[1] = "h" THEN 16
    ELSE IF s # <<>> /\ s[1] = "b" THEN 2
    ELSE 10

SkipBase(s) ==
    IF LongHex(s) \/ Starts2(s, "\\", "0") \/ Starts2(s, "\\", "b")
    THEN SubSeq(s, 3, Len(s))
    ELSE IF s # <<>> /\ s[1] \in {"h", "b"} THEN Tail(s) ELSE s

(***************************************************************************)
(* The multipliers. The tables hold the powers of Si[1] and of Si[2], one   *)
(* for each letter.                                                        *)
(***************************************************************************)
SiLetters == <<"k", "m", "g", "t", "p", "x", "z", "y">>
s_mult[i \in 1..8]   == IF i = 1 THEN Si[1] ELSE s_mult[i - 1] * Si[1]
s_mult_i[i \in 1..8] == IF i = 1 THEN Si[2] ELSE s_mult_i[i - 1] * Si[2]

Failed == [ok |-> FALSE, mul |-> 0, rest |-> <<>>]

(* The multiplier at the end of s, and what is left of s in front of it. *)
PrefixMultiplier(s) ==
    LET a == TrimSpaces(s)
        got_i == a # <<>> /\ Last(a) = "i"
        b == IF got_i THEN TrimSpaces(Front(a)) ELSE a
        letters == IF b = <<>> THEN {} ELSE {i \in 1..8 : SiLetters[i] = Last(b)}
        c == IF letters = {} THEN b ELSE TrimSpaces(Front(b))
    IN  IF c = <<>> THEN Failed
        ELSE [ok |-> TRUE, rest |-> c,
              mul |-> IF letters = {} THEN 1
                      ELSE (IF got_i THEN s_mult_i ELSE s_mult)[Min(letters)]]

(***************************************************************************)
(* mpz_init_set_str(): an optional minus sign, a digit, then digits with    *)
(* spaces between them.                                                    *)
(***************************************************************************)
Digits == <<"0", "1", "2", "3", "4", "5", "6", "7", "8", "9", "a", "b", "c", "d", "e", "f">>
DigitsOf(base)  == {Digits[i] : i \in 1..base}
DigitVal(c)     == (CHOOSE i \in 1..16 : Digits[i] = c) - 1
NumberTo(s, base) ==
    LET val[i \in 0..Len(s)] ==
            IF i = 0 THEN 0
            ELSE IF s[i] = "space" THEN val[i - 1]
            ELSE val[i - 1] * base + DigitVal(s[i])
    IN  val
NumberVal(s, base) == NumberTo(s, base)[Len(s)]

GmpMinus(s)     == s # <<>> /\ s[1] = "-"
GmpDigits(s)    == IF GmpMinus(s) THEN Tail(s) ELSE s
GmpReads(s, base) ==
    /\ GmpDigits(s) # <<>>
    /\ GmpDigits(s)[1] \in DigitsOf(base)
    /\ \A i \in 1..Len(GmpDigits(s)) : GmpDigits(s)[i] \in DigitsOf(base) \cup {"space"}
GmpValue(s, base) ==
    IF GmpMinus(s) THEN -NumberVal(GmpDigits(s), base) ELSE NumberVal(GmpDigits(s), base)

(***************************************************************************)
(* s_parse_bigint_by_base() and s_parse_bigint(): a sign is read in both.   *)
(***************************************************************************)
NotANumber == [ok |-> FALSE, val |-> 0]

ParseByBase(s, base) ==
    LET a == SkipSpaces(s)
        b == SkipSign(a)
        m == PrefixMultiplier(b)
        v == GmpValue(m.rest, base) * m.mul
    IN  IF b # <<>> /\ m.ok /\ GmpReads(m.rest, base)
        THEN [ok |-> TRUE, val |-> IF IsNeg(a) THEN -v ELSE v]
        ELSE NotANumber

ParseBigint(s) ==
    LET a == SkipSpaces(s)
        b == SkipSign(a)
        c == SkipSpaces(SkipBase(b))
        v == ParseByBase(c, BaseOf(b))
    IN  IF c # <<>> /\ v.ok
        THEN [ok |-> TRUE, val |-> IF IsNeg(a) THEN -v.val ELSE v.val]
        ELSE NotANumber

(***************************************************************************)
(* The range of a type, and the value that is stored for it. A 64 bit       *)
(* build takes the value from GMP as it is; a 32 bit build puts two halves  *)
(* together and negates them in unsigned arithmetic (s_bignum_2_uint64_t). *)
(***************************************************************************)
Types == [bits : 1..3, signed : BOOLEAN]
Lower(t) == IF t.signed THEN -(Words[t.bits] \div 2) ELSE 0
Upper(t) == (IF t.signed THEN Words[t.bits] \div 2 ELSE Words[t.bits]) - 1
InRange(t, v) == Lower(t) <= v /\ v <= Upper(t)

Signed(v, w) == IF v >= w \div 2 THEN v - w ELSE v
(* What the type reads of a number: the rest after the values it has. *)
CastTo(t, v) ==
    LET w == Words[t.bits]
    IN  IF t.signed THEN Signed(v % w, w) ELSE v % w

Magnitude(v) == IF v < 0 THEN -v ELSE v
(* Two halves of 32 bits, put together. *)
Halves(v) == ((v \div Words[2]) % Words[2]) * Words[2] + (v % Words[2])

Uint64Of_NoBorrow(v) ==
    LET word == Halves(Magnitude(v))
    IN  IF v < 0 THEN (Words[3] - 1) - word ELSE word

Uint64Of(v) ==
    LET word == Halves(Magnitude(v))
    IN  IF v < 0 THEN (Words[3] - 1) - ((word - 1) % Words[3]) ELSE word

Stored(t, v, arch) ==
    IF arch = 64 THEN CastTo(t, v)
    ELSE CastTo(t, IF t.signed THEN Signed(Uint64Of(v), Words[3]) ELSE Uint64Of(v))

(* The result of a call, with the value in full and as it is stored. *)
Parse(a, arch) ==
    LET v == IF a.base = 0 THEN ParseBigint(a.text) ELSE ParseByBase(a.text, a.base)
    IN  IF a.text = <<>> \/ a.base = 1 THEN [ret |-> "ANY_FAILURES", full |-> 0, val |-> 0]
        ELSE IF ~v.ok THEN [ret |-> "INVALID_ARGS", full |-> 0, val |-> 0]
        ELSE IF ~InRange(a.type, v.val) THEN [ret |-> "OUT_OF_RANGE", full |-> v.val, val |-> 0]
        ELSE [ret |-> "OK", full |-> v.val, val |-> Stored(a.type, v.val, arch)]

NotYet == [ret |-> "none", full |-> 0, val |-> 0]

NumInit == arg \in Args /\ res = NotYet

mccp_str_parse ==
    /\ res = NotYet
    /\ \E arch \in {32, 64} : res' = Parse(arg, arch)
    /\ UNCHANGED arg

NumSpec == NumInit /\ [][mccp_str_parse]_numVars
-----------------------------------------------------------------------------
(***************************************************************************)
(* The grammar of the comment at strutils.c:416, as far as the code reads  *)
(* it: a sign, the prefix of a base, digits, the letter of a multiplier    *)
(* and its i, with spaces in front, between and behind.                    *)
(***************************************************************************)
Blank(s) == \A i \in 1..Len(s) : s[i] = "space"

BasePrefixes == {<<"0", "x">>, <<"\\", "x">>, <<"h">>, <<"\\", "0">>, <<"\\", "b">>, <<"b">>, <<>>}
BaseNamed(prefix) ==
    CASE prefix \in {<<"0", "x">>, <<"\\", "x">>, <<"h">>} -> 16
      [] prefix = <<"\\", "0">> -> 8
      [] prefix \in {<<"\\", "b">>, <<"b">>} -> 2
      [] prefix = <<>> -> 10

(* s.letter is the place of the letter in SiLetters, 0 without one, and     *)
(* s.spaces are the spaces in front of each part and at the end.           *)
IsSentence(s) ==
    /\ s.spaces \in [1..6 -> Seq(Alphabet)] /\ \A i \in 1..6 : Blank(s.spaces[i])
    /\ s.sign \in {<<>>, <<"-">>, <<"+">>}
    /\ s.prefix \in BasePrefixes
    /\ s.digits \in Seq(DigitsOf(BaseNamed(s.prefix))) /\ s.digits # <<>>
    /\ s.letter \in 0..8 /\ s.i \in BOOLEAN
    \* 0x without digits is the prefix, never zero with the multiplier x
    /\ ~(s.prefix = <<>> /\ s.digits = <<"0">> /\ s.spaces[4] = <<>> /\ s.letter = 6)

NumberOf(s) ==
    LET letter == IF s.letter = 0 THEN <<>> ELSE <<SiLetters[s.letter]>>
        i      == IF s.letter # 0 /\ s.i THEN <<"i">> ELSE <<>>
    IN  s.digits \o s.spaces[4] \o letter \o s.spaces[5] \o i \o s.spaces[6]
TextOf(s) ==
    s.spaces[1] \o (s.sign \o (s.spaces[2] \o (s.prefix \o (s.spaces[3] \o NumberOf(s)))))

(* The first eight powers of x: kilo, mega, giga ... *)
Powers(x) ==
    LET square == x * x
    IN  <<x, square, square * x, square * square, square * square * x,
          square * square * square, square * square * square * x, square * square * square * square>>

MultiplierOf(s) == IF s.letter = 0 THEN 1 ELSE Powers(IF s.i THEN Si[2] ELSE Si[1])[s.letter]
ValueOf(s) ==
    (IF s.sign = <<"-">> THEN -1 ELSE 1) * (NumberVal(s.digits, BaseNamed(s.prefix)) * MultiplierOf(s))

(* The calls: any text with a base of up to 16 digits, or none, and texts of *)
(* the grammar whose base is the one they name.                            *)
ASSUME ArgsAssumption ==
    /\ {"space", "-", "+", "\\", "h", "b", "x", "i"} \cup Range(SiLetters) \cup Range(Digits) \subseteq Alphabet
    /\ \A a \in Args :
         /\ a.text \in Seq(Alphabet) /\ a.base \in 0..16 /\ a.type \in Types /\ a.known \in BOOLEAN
         /\ a.known => a.base = 0 /\ IsSentence(a.sentence) /\ a.text = TextOf(a.sentence)

(* A text of the grammar has the value that the grammar gives it, whatever   *)
(* the type; when that is not in the range of the type, this is the result.  *)
TextIsRead ==
    arg.known =>
        IF InRange(arg.type, ValueOf(arg.sentence))
        THEN res.ret = "OK" /\ res.val = ValueOf(arg.sentence)
        ELSE res.ret = "OUT_OF_RANGE"

(* Texts of the grammar are read as the grammar says, but for binary numbers *)
(* that begin with 0b, which the comment at strutils.c:419 has and the code  *)
(* refuses; and whatever the text, a call that succeeds has stored exactly   *)
(* the number it read: nothing is cut off on the way into the narrower type, *)
(* by the 64 bit code or by the two halves of the 32 bit code.               *)
NumbersAreRead == res # NotYet => TextIsRead /\ (res.ret = "OK" => res.val = res.full)
=============================================================================
