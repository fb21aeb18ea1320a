--------------------------- MODULE StrUtilsProofs ---------------------------
(***************************************************************************)
(* What StrUtils does for texts, delimiters, marks and arrays of any size: *)
(* every variable keeps its type, no call leaves its memory but for the    *)
(* one start too many of a quotation right behind letters, a delimiter     *)
(* is part of a token only inside a quotation and no letter is lost, and   *)
(* without marks the tokens are the runs of letters between delimiters.    *)
(* The last two stand on what the scan leaves behind it at every step:     *)
(* ScanInv says it of every text, PlainInv of a text without marks.        *)
(*                                                                         *)
(* The second half is about StrNumbers, for texts, multipliers and calls of *)
(* any kind. A number in the range of its type is stored as it is, by both *)
(* builds; a text of the grammar is taken apart from its two ends, spaces, *)
(* sign and prefix in front, spaces, i and letter behind, until its digits *)
(* are left; and the recursive functions of the module have the values     *)
(* their equations say, because a solution exists (Stepwise).              *)
(***************************************************************************)
EXTENDS StrUtils, StrNumbers, SequenceTheorems, FiniteSetTheorems, TLAPS

(* How far the array is filled in each loop of a call, and which function   *)
(* runs it: outside of a token n starts are written, inside of one n + 1.    *)
Filled ==
    /\ pc = "outer" => fn \in {"tokenize", "tokenize_quote"} /\ Len(tokens) = n
    /\ pc = "skip" => fn \in {"tokenize", "tokenize_quote"} /\ Len(tokens) = n /\ n < max
    /\ pc = "word" => fn \in {"tokenize", "tokenize_quote"} /\ Len(tokens) = n + 1 /\ n < max
    /\ pc = "quoted" => fn = "tokenize_quote" /\ Len(tokens) = n + 1 /\ n <= max
    /\ pc = "got" => /\ fn \in {"tokenize", "tokenize_quote"}
                     /\ Len(tokens) = n + 1 /\ n + 1 <= Room
    /\ pc \in {"check", "copy"} => fn = "unescape"
    /\ pc = "trim" => fn = "trim_right" /\ p <= Len(org)

StrIInv == StrTypeOK /\ InBounds /\ Filled

(* Writing the start i at index k: the array ends there. *)
LEMMA PutOne ==
    ASSUME NEW S, NEW k \in Nat, NEW i \in S, tokens \in Seq(S), k <= Len(tokens)
    PROVE  Put(k, i) \in Seq(S) /\ Len(Put(k, i)) = k + 1
<1> DEFINE a == SubSeq(tokens, 1, k)
<1>1. k \in 0..Len(tokens)
  BY LenProperties
<1>2. a \in Seq(S) /\ Len(a) = k
  BY <1>1, SubSeqProperties, LenProperties
<1>3. <<i>> \in Seq(S) /\ Len(<<i>>) = 1
  OBVIOUS
<1> HIDE DEF a
<1>4. a \o <<i>> \in Seq(S) /\ Len(a \o <<i>>) = Len(a) + Len(<<i>>)
  BY <1>2, <1>3, ConcatProperties
<1>5. QED
  BY <1>2, <1>3, <1>4 DEF Put, a

(* What mccp_str_unescape() writes for a letter behind a backslash. *)
LEMMA UnescapedLetters ==
    ASSUME NEW c \in Chars
    PROVE  Unescaped(c) \in Seq(Chars) /\ Len(Unescaped(c)) <= 2 /\ Len(Unescaped(c)) \in Nat
BY CharsAssumption DEF Unescaped

LEMMA StrInitInv == StrInit => StrIInv
<1> SUFFICES ASSUME StrInit PROVE StrIInv
  OBVIOUS
<1>1. org \in Seq(Chars) /\ org # <<>> /\ max \in Nat
  BY CharsAssumption DEF StrInit
<1>2. Len(org) \in Nat /\ Len(org) > 0
  BY <1>1, EmptySeq, LenProperties
<1>3. text \in [Places -> Letters] /\ text[Len(org) + 1] = Nul
  BY <1>1, <1>2, LenProperties, ElementOfSeq DEF StrInit, Buffer, Places, Letters
<1>4. tokens \in Seq(Places) /\ Len(tokens) = 0 /\ out \in Seq(Chars) /\ Len(out) = 0
  BY EmptySeq DEF StrInit
<1>5. pc \in Loops /\ p \in 0..(Len(org) + 1) /\ n = 0 /\ no_delm = 0 /\ cur_quote \in Letters
      /\ got_bs = FALSE /\ ret \in Results_ /\ fn \in Functions_
  BY <1>2 DEF StrInit, FirstLoop, Functions_, Loops, Letters, Results_
<1>6. StrTypeOK
  BY <1>1, <1>2, <1>3, <1>4, <1>5 DEF StrTypeOK
<1>7. InBounds
  BY <1>1, <1>2, <1>3, <1>4, <1>5 DEF StrInit, InBounds, FirstLoop, Room, Functions_
<1>8. Filled
  BY <1>1, <1>2, <1>4, <1>5 DEF StrInit, Filled, FirstLoop, Functions_
<1>9. QED
  BY <1>6, <1>7, <1>8 DEF StrIInv

(* One step of a call keeps the invariant: one step per action below, and   *)
(* the ones that write into the array, the buffer or the text are split.    *)
LEMMA StrStepInv == StrIInv /\ [StrNext]_strVars => StrIInv'
<1> SUFFICES ASSUME StrIInv, [StrNext]_strVars PROVE StrIInv'
  OBVIOUS
<1>t. StrTypeOK /\ InBounds /\ Filled
  BY DEF StrIInv
<1>l. Len(org) \in Nat /\ Len(org) > 0 /\ Len(tokens) \in Nat /\ Len(out) \in Nat
  BY <1>t, LenProperties DEF StrTypeOK
<1>e. ASSUME NEW i \in Places, text[i] # Nul
      PROVE  i \in 1..Len(org) /\ text[i] \in Chars
  <2>1. text[i] \in Letters /\ text[Len(org) + 1] = Nul
    BY <1>t, <1>e DEF StrTypeOK, InBounds
  <2>2. i # Len(org) + 1
    BY <1>e, <2>1
  <2>3. i \in 1..Len(org)
    BY <1>l, <2>2 DEF Places
  <2>4. QED
    BY <1>e, <2>1, <2>3 DEF Letters
<1> USE DEF call, cutter, copier, Return
<1>1. CASE Outer
  <2>1. StrTypeOK'
    BY <1>1, <1>t, <1>l, <1>e, CharsAssumption DEF Outer, StrTypeOK, InBounds, Filled, Loops, Results_, Places, Letters, HasRoom, LastCounts, NextMark, LettersLeft
  <2>2. InBounds' /\ Filled'
    BY <1>1, <1>t, <1>l, <1>e, CharsAssumption DEF Outer, StrTypeOK, InBounds, Filled, Loops, Results_, Places, Letters, HasRoom, LastCounts, NextMark, LettersLeft, Room, Functions_
  <2>3. QED
    BY <2>1, <2>2 DEF StrIInv
<1>2. CASE SkipDelimiter
  <2>1. StrTypeOK'
    BY <1>2, <1>t, <1>l, <1>e, CharsAssumption DEF SkipDelimiter, StrTypeOK, InBounds, Filled, Loops, Results_, Places, Letters, HasRoom, LastCounts, NextMark, LettersLeft
  <2>2. InBounds' /\ Filled'
    BY <1>2, <1>t, <1>l, <1>e, CharsAssumption DEF SkipDelimiter, StrTypeOK, InBounds, Filled, Loops, Results_, Places, Letters, HasRoom, LastCounts, NextMark, LettersLeft, Room, Functions_
  <2>3. QED
    BY <2>1, <2>2 DEF StrIInv
<1>3. CASE NothingLeft
  <2>1. StrTypeOK'
    BY <1>3, <1>t, <1>l, <1>e, CharsAssumption DEF NothingLeft, StrTypeOK, InBounds, Filled, Loops, Results_, Places, Letters, HasRoom, LastCounts, NextMark, LettersLeft
  <2>2. InBounds' /\ Filled'
    BY <1>3, <1>t, <1>l, <1>e, CharsAssumption DEF NothingLeft, StrTypeOK, InBounds, Filled, Loops, Results_, Places, Letters, HasRoom, LastCounts, NextMark, LettersLeft, Room, Functions_
  <2>3. QED
    BY <2>1, <2>2 DEF StrIInv
<1>4. CASE Letter
  <2>1. StrTypeOK'
    BY <1>4, <1>t, <1>l, <1>e, CharsAssumption DEF Letter, StrTypeOK, InBounds, Filled, Loops, Results_, Places, Letters, HasRoom, LastCounts, NextMark, LettersLeft
  <2>2. InBounds' /\ Filled'
    BY <1>4, <1>t, <1>l, <1>e, CharsAssumption DEF Letter, StrTypeOK, InBounds, Filled, Loops, Results_, Places, Letters, HasRoom, LastCounts, NextMark, LettersLeft, Room, Functions_
  <2>3. QED
    BY <2>1, <2>2 DEF StrIInv
<1>5. CASE EscapedMark
  <2>1. StrTypeOK'
    BY <1>5, <1>t, <1>l, <1>e, CharsAssumption DEF EscapedMark, StrTypeOK, InBounds, Filled, Loops, Results_, Places, Letters, HasRoom, LastCounts, NextMark, LettersLeft
  <2>2. InBounds' /\ Filled'
    BY <1>5, <1>t, <1>l, <1>e, CharsAssumption DEF EscapedMark, StrTypeOK, InBounds, Filled, Loops, Results_, Places, Letters, HasRoom, LastCounts, NextMark, LettersLeft, Room, Functions_
  <2>3. QED
    BY <2>1, <2>2 DEF StrIInv
<1>6. CASE CloseQuote
  <2>1. StrTypeOK'
    BY <1>6, <1>t, <1>l, <1>e, CharsAssumption DEF CloseQuote, StrTypeOK, InBounds, Filled, Loops, Results_, Places, Letters, HasRoom, LastCounts, NextMark, LettersLeft
  <2>2. InBounds' /\ Filled'
    BY <1>6, <1>t, <1>l, <1>e, CharsAssumption DEF CloseQuote, StrTypeOK, InBounds, Filled, Loops, Results_, Places, Letters, HasRoom, LastCounts, NextMark, LettersLeft, Room, Functions_
  <2>3. QED
    BY <2>1, <2>2 DEF StrIInv
<1>7. CASE NoMark
  <2>1. StrTypeOK'
    BY <1>7, <1>t, <1>l, <1>e, CharsAssumption DEF NoMark, StrTypeOK, InBounds, Filled, Loops, Results_, Places, Letters, HasRoom, LastCounts, NextMark, LettersLeft
  <2>2. InBounds' /\ Filled'
    BY <1>7, <1>t, <1>l, <1>e, CharsAssumption DEF NoMark, StrTypeOK, InBounds, Filled, Loops, Results_, Places, Letters, HasRoom, LastCounts, NextMark, LettersLeft, Room, Functions_
  <2>3. QED
    BY <2>1, <2>2 DEF StrIInv
<1>8. CASE EndToken
  <2>1. StrTypeOK'
    BY <1>8, <1>t, <1>l, <1>e, CharsAssumption DEF EndToken, StrTypeOK, InBounds, Filled, Loops, Results_, Places, Letters, HasRoom, LastCounts, NextMark, LettersLeft
  <2>2. InBounds' /\ Filled'
    BY <1>8, <1>t, <1>l, <1>e, CharsAssumption DEF EndToken, StrTypeOK, InBounds, Filled, Loops, Results_, Places, Letters, HasRoom, LastCounts, NextMark, LettersLeft, Room, Functions_
  <2>3. QED
    BY <2>1, <2>2 DEF StrIInv
<1>9. CASE GotLast
  <2>1. StrTypeOK'
    BY <1>9, <1>t, <1>l, <1>e, CharsAssumption DEF GotLast, StrTypeOK, InBounds, Filled, Loops, Results_, Places, Letters, HasRoom, LastCounts, NextMark, LettersLeft
  <2>2. InBounds' /\ Filled'
    BY <1>9, <1>t, <1>l, <1>e, CharsAssumption DEF GotLast, StrTypeOK, InBounds, Filled, Loops, Results_, Places, Letters, HasRoom, LastCounts, NextMark, LettersLeft, Room, Functions_
  <2>3. QED
    BY <2>1, <2>2 DEF StrIInv
<1>10. CASE CheckMarks
  <2>1. StrTypeOK'
    BY <1>10, <1>t, <1>l, <1>e, CharsAssumption DEF CheckMarks, StrTypeOK, InBounds, Filled, Loops, Results_, Places, Letters, HasRoom, LastCounts, NextMark, LettersLeft
  <2>2. InBounds' /\ Filled'
    BY <1>10, <1>t, <1>l, <1>e, CharsAssumption DEF CheckMarks, StrTypeOK, InBounds, Filled, Loops, Results_, Places, Letters, HasRoom, LastCounts, NextMark, LettersLeft, Room, Functions_
  <2>3. QED
    BY <2>1, <2>2 DEF StrIInv
<1>11. CASE CopyEnd
  <2>1. StrTypeOK'
    BY <1>11, <1>t, <1>l, <1>e, CharsAssumption DEF CopyEnd, StrTypeOK, InBounds, Filled, Loops, Results_, Places, Letters, HasRoom, LastCounts, NextMark, LettersLeft
  <2>2. InBounds' /\ Filled'
    BY <1>11, <1>t, <1>l, <1>e, CharsAssumption DEF CopyEnd, StrTypeOK, InBounds, Filled, Loops, Results_, Places, Letters, HasRoom, LastCounts, NextMark, LettersLeft, Room, Functions_
  <2>3. QED
    BY <2>1, <2>2 DEF StrIInv
<1>12. CASE TrimEnd
  <2>1. StrTypeOK'
    BY <1>12, <1>t, <1>l, <1>e, CharsAssumption DEF TrimEnd, StrTypeOK, InBounds, Filled, Loops, Results_, Places, Letters, HasRoom, LastCounts, NextMark, LettersLeft
  <2>2. InBounds' /\ Filled'
    BY <1>12, <1>t, <1>l, <1>e, CharsAssumption DEF TrimEnd, StrTypeOK, InBounds, Filled, Loops, Results_, Places, Letters, HasRoom, LastCounts, NextMark, LettersLeft, Room, Functions_
  <2>3. QED
    BY <2>1, <2>2 DEF StrIInv
<1>13. CASE BeginToken
  <2>1. p \in Places /\ p \in Nat /\ n \in Nat /\ n <= Len(tokens) /\ tokens \in Seq(Places)
    BY <1>13, <1>t, <1>l DEF BeginToken, StrTypeOK, InBounds, Filled, Places
  <2>2. tokens' \in Seq(Places) /\ Len(tokens') = n + 1
    BY <1>13, <2>1, PutOne DEF BeginToken
  <2>3. StrTypeOK'
    BY <1>13, <1>t, <1>l, <2>2, CharsAssumption DEF BeginToken, StrTypeOK, InBounds, Filled, Loops, Results_, Places, Letters, HasRoom, Room, Functions_
  <2>4. InBounds' /\ Filled'
    BY <1>13, <1>t, <1>l, <2>2 DEF BeginToken, StrTypeOK, InBounds, Filled, Loops, Results_, Places, Letters, HasRoom, Room, Functions_
  <2>5. QED
    BY <2>3, <2>4 DEF StrIInv
<1>14. CASE OpenQuote
  <2>1. p \in 1..Len(org) /\ text[p] \in Chars /\ fn = "tokenize_quote" /\ pc = "word"
    BY <1>14, <1>t, <1>l, <1>e, CharsAssumption DEF OpenQuote, IsQuoteHere, StrTypeOK, InBounds, Filled, Places
  <2>2. text' \in [Places -> Letters] /\ text'[Len(org) + 1] = Nul /\ org' = org /\ p' = p + 1
    BY <1>14, <1>t, <1>l, <2>1 DEF OpenQuote, Cut, StrTypeOK, InBounds, Places, Letters
  <2>3. CASE pc' = "quoted"
    <3>1. n' = TokensAtQuote /\ tokens' = Put(TokensAtQuote, p + 1) /\ UNCHANGED ret
      BY <1>14, <2>1, <2>3 DEF OpenQuote
    <3>2. TokensAtQuote \in Nat /\ TokensAtQuote <= Len(tokens) /\ TokensAtQuote <= max
      BY <1>t, <1>l, <2>1 DEF TokensAtQuote, StrTypeOK, Filled, HasRoom
    <3>3. p + 1 \in Places /\ tokens \in Seq(Places)
      BY <1>t, <1>l, <2>1 DEF Places, StrTypeOK
    <3>4. tokens' \in Seq(Places) /\ Len(tokens') = n' + 1 /\ n' \in Nat /\ n' <= max
      BY <3>1, <3>2, <3>3, PutOne
    <3>5. StrTypeOK'
      BY <1>14, <1>t, <1>l, <2>1, <2>2, <2>3, <3>1, <3>4 DEF OpenQuote, StrTypeOK, InBounds, Filled, Loops, Results_, Places, Letters, HasRoom, Room, Functions_
    <3>6. InBounds' /\ Filled'
      BY <1>14, <1>t, <1>l, <2>1, <2>2, <2>3, <3>1, <3>4 DEF OpenQuote, StrTypeOK, InBounds, Filled, Loops, Results_, Places, Letters, HasRoom, Room, Functions_
    <3>7. QED
      BY <3>5, <3>6 DEF StrIInv
  <2>4. CASE pc' = "done" /\ UNCHANGED <<n, tokens>>
    <3>1. ret' \in Results_
      BY <1>14, <2>1, <2>4 DEF OpenQuote, Results_
    <3>2. StrTypeOK'
      BY <1>14, <1>t, <1>l, <2>1, <2>2, <2>4, <3>1 DEF OpenQuote, StrTypeOK, InBounds, Filled, Loops, Results_, Places, Letters, HasRoom, Room, Functions_
    <3>3. InBounds' /\ Filled'
      BY <1>14, <1>t, <1>l, <2>1, <2>2, <2>4 DEF OpenQuote, StrTypeOK, InBounds, Filled, Loops, Results_, Places, Letters, HasRoom, Room, Functions_
    <3>4. QED
      BY <3>2, <3>3 DEF StrIInv
  <2>5. QED
    BY <1>14, <2>3, <2>4 DEF OpenQuote
<1>15. CASE GotToken
  <2>1. p \in 1..Len(org) /\ pc = "got"
    BY <1>15, <1>t, <1>l, <1>e DEF GotToken, StrTypeOK, InBounds, Filled, Places
  <2>2. text' \in [Places -> Letters] /\ text'[Len(org) + 1] = Nul
    BY <1>15, <1>t, <1>l, <2>1 DEF GotToken, Cut, StrTypeOK, InBounds, Places, Letters
  <2>3. StrTypeOK'
    BY <1>15, <1>t, <1>l, <2>1, <2>2 DEF GotToken, StrTypeOK, InBounds, Filled, Loops, Results_, Places, Letters, HasRoom, Room, Functions_
  <2>4. InBounds' /\ Filled'
    BY <1>15, <1>t, <1>l, <2>1, <2>2 DEF GotToken, StrTypeOK, InBounds, Filled, Loops, Results_, Places, Letters, HasRoom, Room, Functions_
  <2>5. QED
    BY <2>3, <2>4 DEF StrIInv
<1>16. CASE CopyLetter
  <2>1. p \in 1..Len(org) /\ text[p] \in Chars /\ fn = "unescape"
    BY <1>16, <1>t, <1>l, <1>e DEF CopyLetter, StrTypeOK, InBounds, Filled, Places
  <2>2. out' \in Seq(Chars) /\ Len(out') + (IF got_bs' THEN 1 ELSE 0) <= p /\ got_bs' \in BOOLEAN
    <3>1. CASE got_bs
      <4> DEFINE u == Unescaped(text[p])
      <4>1. u \in Seq(Chars) /\ Len(u) \in Nat /\ Len(u) <= 2
        BY <2>1, UnescapedLetters
      <4> HIDE DEF u
      <4>2. out \o u \in Seq(Chars) /\ Len(out \o u) = Len(out) + Len(u)
        BY <1>t, <4>1, ConcatProperties DEF StrTypeOK
      <4>3. out' = out \o u /\ got_bs' = FALSE
        BY <1>16, <3>1 DEF CopyLetter, u
      <4>4. Len(out) + 1 <= p - 1
        BY <1>t, <2>1, <3>1 DEF InBounds
      <4>5. Len(out') = Len(out) + Len(u) /\ out' \in Seq(Chars)
        BY <4>2, <4>3
      <4>6. Len(out') <= p
        BY <1>l, <2>1, <4>1, <4>4, <4>5
      <4>7. (IF got_bs' THEN 1 ELSE 0) = 0 /\ got_bs' \in BOOLEAN
        BY <4>3
      <4>8. Len(out') \in Nat
        BY <4>5, LenProperties
      <4>9. QED
        BY <4>5, <4>6, <4>7, <4>8
    <3>2. CASE ~got_bs /\ text[p] = Bs
      BY <1>16, <1>t, <1>l, <2>1, <3>2 DEF CopyLetter, StrTypeOK, InBounds
    <3>3. CASE ~got_bs /\ text[p] # Bs
      <4>1. out' = Append(out, text[p]) /\ got_bs' = got_bs
        BY <1>16, <3>3 DEF CopyLetter
      <4>2. out' \in Seq(Chars) /\ Len(out') = Len(out) + 1
        BY <1>t, <2>1, <4>1, AppendProperties DEF StrTypeOK
      <4>3. QED
        BY <1>t, <1>l, <2>1, <3>3, <4>1, <4>2 DEF InBounds, StrTypeOK
    <3>4. QED
      BY <3>1, <3>2, <3>3
  <2>3. StrTypeOK'
    BY <1>16, <1>t, <1>l, <2>1, <2>2 DEF CopyLetter, StrTypeOK, InBounds, Filled, Loops, Results_, Places, Letters, HasRoom, Room, Functions_
  <2>4. p' - 1 = p
    BY <1>16, <2>1 DEF CopyLetter
  <2>5. InBounds' /\ Filled'
    BY <1>16, <1>t, <1>l, <2>1, <2>2, <2>4 DEF CopyLetter, StrTypeOK, InBounds, Filled, Loops, Results_, Places, Letters, HasRoom, Room, Functions_
  <2>6. QED
    BY <2>3, <2>5 DEF StrIInv
<1>17. CASE TrimLetter
  <2>1. p \in 1..Len(org) /\ fn = "trim_right"
    BY <1>17, <1>t, <1>l DEF TrimLetter, LettersLeft, StrTypeOK, Filled
  <2>2. text' \in [Places -> Letters] /\ text'[Len(org) + 1] = Nul
    BY <1>17, <1>t, <1>l, <2>1 DEF TrimLetter, Cut, StrTypeOK, InBounds, Places, Letters
  <2>3. StrTypeOK'
    BY <1>17, <1>t, <1>l, <2>1, <2>2 DEF TrimLetter, StrTypeOK, InBounds, Filled, Loops, Results_, Places, Letters, HasRoom, Room, Functions_
  <2>4. InBounds' /\ Filled'
    BY <1>17, <1>t, <1>l, <2>1, <2>2 DEF TrimLetter, StrTypeOK, InBounds, Filled, Loops, Results_, Places, Letters, HasRoom, Room, Functions_
  <2>5. QED
    BY <2>3, <2>4 DEF StrIInv
<1>18. CASE UNCHANGED strVars
  <2>1. StrTypeOK'
    BY <1>18, <1>t DEF strVars, StrTypeOK, Places, Letters
  <2>2. InBounds' /\ Filled'
    BY <1>18, <1>t DEF strVars, InBounds, Filled, Room
  <2>3. QED
    BY <2>1, <2>2 DEF StrIInv
<1>19. QED
  BY <1>1, <1>2, <1>3, <1>4, <1>5, <1>6, <1>7, <1>8, <1>9, <1>10, <1>11, <1>12, <1>13, <1>14,
     <1>15, <1>16, <1>17, <1>18 DEF StrNext

(* For any texts, delimiters, marks and arrays, every variable of a call of *)
(* a string function keeps its type.                                        *)
THEOREM StrTypeCorrect == StrSpec => []StrTypeOK
<1>1. StrIInv => StrTypeOK
  BY DEF StrIInv
<1>2. QED
  BY <1>1, StrInitInv, StrStepInv, PTL DEF StrSpec

(* For any texts, delimiters, marks and arrays, no call of a string function *)
(* leaves its text, its buffer or, but for one start behind an opening mark, *)
(* the array of the caller.                                                  *)
THEOREM CallsStayInBounds == StrSpec => []InBounds
<1>1. StrIInv => InBounds
  BY DEF StrIInv
<1>2. QED
  BY <1>1, StrInitInv, StrStepInv, PTL DEF StrSpec

(***************************************************************************)
(* How long a call takes.  A step goes on in the text, or to a later loop   *)
(* at the same place, and a scan that goes on never leaves the text.        *)
(***************************************************************************)
LEMMA CallGoesOn ==
  ASSUME StrIInv, StrNext
  PROVE  /\ UNCHANGED <<fn, org>>
         /\ \/ p' = p /\ Loop[pc'] < Loop[pc]
            \/ fn # "trim_right" /\ p' \in Nat /\ p' > p /\ Loop[pc'] <= Loop[pc] + 4
            \/ fn = "trim_right" /\ p' = p - 1 /\ pc' = pc
<1>t. StrTypeOK /\ InBounds /\ Filled
  BY DEF StrIInv
<1>l. /\ Loop["done"] = 0 /\ Loop["got"] = 1 /\ Loop["trim"] = 1 /\ Loop["copy"] = 1 /\ Loop["quoted"] = 2
      /\ Loop["check"] = 2 /\ Loop["word"] = 3 /\ Loop["skip"] = 4 /\ Loop["outer"] = 5
  BY DEF Loop
<1>p. p \in Nat /\ Len(org) \in Nat
  BY <1>t, LenProperties DEF StrTypeOK
<1> USE DEF call, cutter, copier, Return
<1> HIDE DEF Loop
<1>1. CASE Outer
  BY <1>1, <1>t, <1>l, <1>p DEF Outer, Filled
<1>2. CASE SkipDelimiter
  BY <1>2, <1>t, <1>l, <1>p DEF SkipDelimiter, Filled
<1>3. CASE NothingLeft
  BY <1>3, <1>t, <1>l, <1>p DEF NothingLeft, Filled
<1>4. CASE BeginToken
  BY <1>4, <1>t, <1>l, <1>p DEF BeginToken, Filled
<1>5. CASE Letter
  BY <1>5, <1>t, <1>l, <1>p DEF Letter, Filled
<1>6. CASE OpenQuote
  BY <1>6, <1>t, <1>l, <1>p DEF OpenQuote, Filled
<1>7. CASE EscapedMark
  BY <1>7, <1>t, <1>l, <1>p DEF EscapedMark, Filled, NextMark
<1>8. CASE CloseQuote
  BY <1>8, <1>t, <1>l, <1>p DEF CloseQuote, Filled, NextMark
<1>9. CASE NoMark
  BY <1>9, <1>t, <1>l, <1>p DEF NoMark, Filled
<1>10. CASE EndToken
  BY <1>10, <1>t, <1>l, <1>p DEF EndToken, Filled
<1>11. CASE GotLast
  BY <1>11, <1>t, <1>l, <1>p DEF GotLast, Filled
<1>12. CASE GotToken
  BY <1>12, <1>t, <1>l, <1>p DEF GotToken, Filled
<1>13. CASE CheckMarks
  BY <1>13, <1>t, <1>l, <1>p DEF CheckMarks, Filled
<1>14. CASE CopyLetter
  BY <1>14, <1>t, <1>l, <1>p DEF CopyLetter, Filled
<1>15. CASE CopyEnd
  BY <1>15, <1>t, <1>l, <1>p DEF CopyEnd, Filled
<1>16. CASE TrimLetter
  BY <1>16, <1>t, <1>l, <1>p DEF TrimLetter, Filled
<1>17. CASE TrimEnd
  BY <1>17, <1>t, <1>l, <1>p DEF TrimEnd, Filled
<1>18. QED
  BY <1>1, <1>2, <1>3, <1>4, <1>5, <1>6, <1>7, <1>8, <1>9,
     <1>10, <1>11, <1>12, <1>13, <1>14, <1>15, <1>16, <1>17 DEF StrNext

(* A letter is worth more steps than the loops that can follow it.          *)
LEMMA FewerSteps ==
  ASSUME NEW x \in Nat, NEW y \in Nat, NEW l \in 0..5, NEW m \in 0..5,
         (y = x /\ m < l) \/ (y < x /\ m <= l + 4)
  PROVE  (6 * y) + m \in 0..(((6 * x) + l) - 1)
<1>1. CASE y = x /\ m < l
  BY <1>1
<1>2. CASE y < x /\ m <= l + 4
  <2>1. y + 1 <= x
    BY <1>2
  <2>2. QED
    BY <2>1, <1>2
<1>3. QED
  BY <1>1, <1>2

(* For any texts, delimiters, marks and arrays, a step of a call brings it  *)
(* nearer to its return: no call goes round in its loops for ever.           *)
THEOREM CallsAreBounded == StrSpec => CallsComeNearer
<1>1. StrIInv /\ [StrNext]_strVars => [StepsLeft' \in 0..(StepsLeft - 1)]_strVars
  <2> SUFFICES ASSUME StrIInv, StrNext PROVE StepsLeft' \in 0..(StepsLeft - 1)
    OBVIOUS
  <2>1. StrIInv'
    BY StrStepInv
  <2>2. Len(org) \in Nat /\ p \in 0..(Len(org) + 1) /\ p' \in 0..(Len(org') + 1) /\ pc \in Loops /\ pc' \in Loops
    BY <2>1, LenProperties DEF StrIInv, StrTypeOK
  <2>3. Loop[pc] \in 0..5 /\ Loop[pc'] \in 0..5
    BY <2>2 DEF Loop, Loops
  <2>4. org' = org /\ fn' = fn
    BY CallGoesOn
  <2>5. \/ LettersToGo' = LettersToGo /\ Loop[pc'] < Loop[pc]
        \/ LettersToGo' < LettersToGo /\ Loop[pc'] <= Loop[pc] + 4
    <3>1. CASE p' = p /\ Loop[pc'] < Loop[pc]
      BY <3>1, <2>4 DEF LettersToGo
    <3>2. CASE fn # "trim_right" /\ p' > p /\ Loop[pc'] <= Loop[pc] + 4
      <4>1. LettersToGo = (Len(org) + 1) - p /\ LettersToGo' = (Len(org) + 1) - p'
        BY <3>2, <2>4 DEF LettersToGo
      <4>2. QED
        BY <4>1, <3>2, <2>2, <2>4
    <3>3. CASE fn = "trim_right" /\ p' = p - 1 /\ pc' = pc
      <4>1. LettersToGo = p /\ LettersToGo' = p'
        BY <3>3, <2>4 DEF LettersToGo
      <4>2. LettersToGo' < LettersToGo
        BY <4>1, <3>3, <2>2
      <4>3. Loop[pc'] <= Loop[pc] + 4
        BY <3>3, <2>3
      <4>4. QED
        BY <4>2, <4>3
    <3>4. QED
      BY <3>1, <3>2, <3>3, CallGoesOn
  <2>6. LettersToGo \in Nat /\ LettersToGo' \in Nat
    BY <2>2, <2>4 DEF LettersToGo
  <2>7. QED
    BY <2>3, <2>5, <2>6, FewerSteps DEF StepsLeft
<1>2. QED
  BY <1>1, StrInitInv, StrStepInv, PTL DEF StrSpec, CallsComeNearer

-----------------------------------------------------------------------------
(***************************************************************************)
(* What the tokenizers find.  A call whose text ends with an escaped mark  *)
(* is set apart, as QuotesHold does: its loop ends without a result.       *)
(***************************************************************************)
Tokenizers == {"tokenize", "tokenize_quote"}
Regular    == fn \in Tokenizers /\ ~(fn = "tokenize_quote" /\ EndsEscaped)
Scanning   == pc \in {"outer", "skip", "word", "quoted", "got"}
InToken    == pc \in {"word", "quoted", "got"}
Mark(i)    == fn = "tokenize_quote" /\ org[i] \in Quote

(* Only a delimiter or a mark is cut out, and only where the scan has been. *)
CutsAreEnds ==
    /\ \A i \in 1..Len(org) : text[i] = org[i] \/ (text[i] = Nul /\ (org[i] \in Delm \/ Mark(i)))
    /\ Scanning => \A i \in p..Len(org) : text[i] = org[i]

(* The token that starts at i ends in front of e: it has no delimiter, or    *)
(* it stands between two equal marks.                                       *)
NoDelm(i, e) == \A j \in i..(e - 1) : org[j] \notin Delm
Uncut(i, e)  == \A j \in i..(e - 1) : text[j] = org[j]
BetweenMarks(i, e) ==
    fn = "tokenize_quote" /\ i > 1 /\ org[i - 1] \in Quote /\ e <= Len(org) /\ org[e] = org[i - 1]
EndsAt(i, e) ==
    i <= e /\ text[e] = Nul /\ Uncut(i, e) /\ (NoDelm(i, e) \/ BetweenMarks(i, e))

TokensEnd == \A k \in 1..n : \E e \in 1..p : EndsAt(tokens[k], e)

(* The token the scan is in. *)
Current == tokens[n + 1]
CurrentFits ==
    InToken =>
        /\ Current <= p /\ Uncut(Current, p)
        /\ pc = "word" => /\ NoDelm(Current, p) /\ (no_delm > 0 \/ p = Current)
                          /\ p = Current => text[p] \in Chars \ Delm
        /\ pc = "quoted" => /\ Current > 1 /\ org[Current - 1] = cur_quote
                            /\ cur_quote \in Quote /\ p <= Len(org)
        /\ pc = "got" => /\ no_delm > 0
                         /\ p <= Len(org) => org[p] \in Delm \/ Mark(p)
                         /\ NoDelm(Current, p) \/ BetweenMarks(Current, p)

(* Each letter the scan has passed is a delimiter, a mark or in a token. *)
PartOf(i, k) == tokens[k] <= i /\ \A j \in tokens[k]..i : text[j] # Nul
NothingIsLost ==
    /\ Scanning => \A i \in 1..(p - 1) :
         \/ org[i] \in Delm \/ Mark(i)
         \/ \E k \in 1..n : PartOf(i, k)
         \/ InToken /\ Current <= i
    /\ ret = "OK" /\ n < max => \A i \in 1..Len(org) :
         org[i] \in Delm \/ Mark(i) \/ \E k \in 1..n : PartOf(i, k)

AllWritten ==
    /\ ret = "OK" => Len(tokens) = n
    /\ ret # "none" => pc = "done"

ScanParts == CutsAreEnds /\ TokensEnd /\ CurrentFits /\ NothingIsLost /\ AllWritten
ScanInv   == Regular => ScanParts

LEMMA PutElements ==
    ASSUME NEW S, NEW k \in Nat, NEW i \in S, tokens \in Seq(S), k <= Len(tokens)
    PROVE  Put(k, i)[k + 1] = i /\ \A j \in 1..k : Put(k, i)[j] = tokens[j]
<1> DEFINE a == SubSeq(tokens, 1, k)
<1>1. k \in 0..Len(tokens)
  BY LenProperties
<1>2. a \in Seq(S) /\ Len(a) = k /\ \A j \in 1..k : a[j] = tokens[j]
  BY <1>1, SubSeqProperties, LenProperties
<1>3. <<i>> \in Seq(S) /\ Len(<<i>>) = 1 /\ <<i>>[1] = i
  OBVIOUS
<1> HIDE DEF a
<1>4. (a \o <<i>>)[k + 1] = i /\ \A j \in 1..k : (a \o <<i>>)[j] = a[j]
  BY <1>2, <1>3, ConcatProperties
<1>5. QED
  BY <1>2, <1>4 DEF Put, a

LEMMA ScanFacts ==
    ASSUME StrIInv, fn \in Tokenizers
    PROVE  /\ Len(org) \in Nat /\ Len(org) > 0 /\ p \in 1..(Len(org) + 1) /\ p \in Int
           /\ n \in Nat /\ max \in Nat /\ no_delm \in Nat /\ Len(tokens) \in Nat
           /\ \A i \in 1..Len(org) : org[i] \in Chars /\ org[i] # Nul
           /\ tokens \in Seq(Places)
           /\ \A k \in 1..Len(tokens) : tokens[k] \in 1..(Len(org) + 1) /\ tokens[k] \in Int
           /\ text \in [1..(Len(org) + 1) -> Letters] /\ text[Len(org) + 1] = Nul
           /\ Scanning => n <= Len(tokens) /\ (InToken => Len(tokens) = n + 1)
<1>1. StrTypeOK /\ InBounds /\ Filled
  BY DEF StrIInv
<1>2. Len(org) \in Nat /\ Len(tokens) \in Nat
  BY <1>1, LenProperties DEF StrTypeOK
<1>3. \A i \in 1..Len(org) : org[i] \in Chars /\ org[i] # Nul
  BY <1>1, <1>2, ElementOfSeq, CharsAssumption DEF StrTypeOK
<1>4. \A k \in 1..Len(tokens) : tokens[k] \in 1..(Len(org) + 1) /\ tokens[k] \in Int
  BY <1>1, <1>2, ElementOfSeq DEF StrTypeOK, Places
<1>5. p \in 1..(Len(org) + 1) /\ p \in Int
  BY <1>1, <1>2 DEF StrTypeOK, InBounds, Tokenizers
<1>6. Scanning => n <= Len(tokens) /\ (InToken => Len(tokens) = n + 1)
  BY <1>1, <1>2 DEF StrTypeOK, Filled, Scanning, InToken
<1>7. QED
  BY <1>1, <1>2, <1>3, <1>4, <1>5, <1>6 DEF StrTypeOK, InBounds, Places

(* What the scan sees is what the text has there. *)
LEMMA ScanSees ==
    ASSUME StrIInv, fn \in Tokenizers, Scanning, CutsAreEnds
    PROVE  /\ text[p] = Nul => p = Len(org) + 1
           /\ text[p] # Nul => p \in 1..Len(org) /\ text[p] = org[p] /\ text[p] \in Chars
           /\ p \in 1..Len(org) /\ text[p + 1] = Nul => p = Len(org)
<1>1. /\ Len(org) \in Nat /\ p \in 1..(Len(org) + 1) /\ text[Len(org) + 1] = Nul
      /\ \A i \in 1..Len(org) : org[i] \in Chars /\ org[i] # Nul
  BY ScanFacts
<1>2. \A i \in p..Len(org) : text[i] = org[i]
  BY DEF CutsAreEnds
<1>3. p # Len(org) + 1 => p \in 1..Len(org) /\ p \in p..Len(org)
  BY <1>1
<1>4. p \in 1..Len(org) /\ p # Len(org) => p + 1 \in p..Len(org) /\ p + 1 \in 1..Len(org)
  BY <1>1
<1>5. QED
  BY <1>1, <1>2, <1>3, <1>4

LEMMA CutText ==
    ASSUME StrIInv, fn \in Tokenizers, text' \in {text, Cut(p)}
    PROVE  /\ \A j \in 1..(Len(org) + 1) : j # p => text'[j] = text[j]
           /\ text[p] = Nul => text'[p] = Nul
<1>1. p \in 1..(Len(org) + 1) /\ text \in [1..(Len(org) + 1) -> Letters]
  BY ScanFacts
<1>2. CASE text' = text
  BY <1>2
<1>3. CASE text' = [text EXCEPT ![p] = Nul]
  BY <1>1, <1>3
<1>4. QED
  BY <1>2, <1>3 DEF Cut

(* The tokens that are finished, and their letters, stay as they are when   *)
(* the scan moves on and cuts the text where it stands.                     *)
LEMMA FinishedStay ==
    ASSUME StrIInv, fn \in Tokenizers, Scanning, TokensEnd,
           UNCHANGED call,
           text' \in {text, Cut(p)}, p' \in Int, p' >= p,
           \A k \in 1..n : tokens'[k] = tokens[k]
    PROVE  /\ \A k \in 1..n : \E e \in 1..p' : EndsAt(tokens[k], e)'
           /\ \A i \in 1..(p - 1), k \in 1..n : PartOf(i, k) => PartOf(i, k)'
<1>0. org' = org /\ fn' = fn
  BY DEF call
<1>1. /\ \A j \in 1..(p - 1) : text'[j] = text[j]
      /\ \A j \in 1..p : text[j] = Nul => text'[j] = Nul
      /\ Len(org) \in Nat /\ p \in 1..(Len(org) + 1)
  <2>1. Len(org) \in Nat /\ p \in 1..(Len(org) + 1)
    BY ScanFacts
  <2>2. /\ \A j \in 1..(Len(org) + 1) : j # p => text'[j] = text[j]
        /\ text[p] = Nul => text'[p] = Nul
    BY CutText
  <2>3. \A j \in 1..(p - 1) : j \in 1..(Len(org) + 1) /\ j # p
    BY <2>1
  <2>4. \A j \in 1..p : j = p \/ (j \in 1..(Len(org) + 1) /\ j # p)
    BY <2>1
  <2>5. QED
    BY <2>1, <2>2, <2>3, <2>4
<1>2. \A k \in 1..n : tokens[k] \in 1..(Len(org) + 1)
  BY ScanFacts
<1>3. ASSUME NEW k \in 1..n
      PROVE  \E e \in 1..p' : EndsAt(tokens[k], e)'
  <2>1. PICK e \in 1..p : EndsAt(tokens[k], e)
    BY DEF TokensEnd
  <2>2. text'[e] = Nul
    BY <1>1, <2>1 DEF EndsAt
  <2>3. \A j \in tokens[k]..(e - 1) : text'[j] = org[j]
    <3>1. \A j \in tokens[k]..(e - 1) : text[j] = org[j] /\ j \in 1..(p - 1)
      BY <1>1, <1>2, <2>1 DEF EndsAt, Uncut
    <3>2. QED
      BY <1>1, <3>1
  <2>4. EndsAt(tokens[k], e)'
    BY <1>0, <2>1, <2>2, <2>3 DEF EndsAt, Uncut, NoDelm, BetweenMarks
  <2>5. e \in 1..p'
    BY ScanFacts
  <2>6. QED
    BY <2>4, <2>5
<1>4. ASSUME NEW i \in 1..(p - 1), NEW k \in 1..n, PartOf(i, k)
      PROVE  PartOf(i, k)'
  <2>1. \A j \in tokens[k]..i : text[j] # Nul /\ j \in 1..(p - 1)
    BY <1>1, <1>2, <1>4 DEF PartOf
  <2>2. QED
    BY <1>1, <1>4, <2>1 DEF PartOf
<1>5. QED
  BY <1>3, <1>4

(* The current token is finished where the scan stands. *)
LEMMA CurrentEnds ==
    ASSUME StrIInv, Regular, ScanParts, InToken,
           UNCHANGED call, NEW m \in Nat, m = n + 1, NEW q \in Nat, q = p,
           text' \in {text, Cut(p)}, text'[p] = Nul, tokens'[m] = tokens[m],
           NoDelm(Current, p) \/ BetweenMarks(Current, p)
    PROVE  /\ EndsAt(tokens[m], q)'
           /\ \A i \in 1..(q - 1) : Current <= i => PartOf(i, m)'
<1>0. org' = org /\ fn' = fn
  BY DEF call
<1>1. /\ \A j \in 1..(p - 1) : text'[j] = text[j]
      /\ p \in 1..(Len(org) + 1) /\ Len(org) \in Nat
      /\ \A j \in 1..Len(org) : org[j] # Nul
  BY CutText, ScanFacts DEF Regular
<1>2. Current \in 1..(Len(org) + 1) /\ Current <= p /\ Uncut(Current, p)
  <2>1. Scanning
    BY DEF Scanning, InToken
  <2>2. Len(tokens) = n + 1 /\ n \in Nat
    BY <2>1, ScanFacts DEF Regular
  <2>3. Current \in 1..(Len(org) + 1)
    BY <2>2, ScanFacts DEF Current, Regular
  <2>4. QED
    BY <2>3 DEF ScanParts, CurrentFits
<1>3. \A j \in Current..(p - 1) : text'[j] = org[j] /\ text'[j] # Nul
  <2>1. \A j \in Current..(p - 1) : text[j] = org[j] /\ j \in 1..(p - 1) /\ j \in 1..Len(org)
    BY <1>1, <1>2 DEF Uncut
  <2>2. QED
    BY <1>1, <2>1
<1>4. EndsAt(tokens[m], q)'
  BY <1>0, <1>1, <1>2, <1>3 DEF EndsAt, Uncut, NoDelm, BetweenMarks, Current
<1>5. \A i \in 1..(q - 1) : Current <= i => PartOf(i, m)'
  <2> SUFFICES ASSUME NEW i \in 1..(p - 1), Current <= i PROVE PartOf(i, m)'
    OBVIOUS
  <2>1. \A j \in Current..i : text'[j] # Nul
    BY <1>1, <1>2, <1>3
  <2>2. QED
    BY <2>1 DEF PartOf, Current
<1>6. QED
  BY <1>4, <1>5

(* The steps that only read.                                               *)
LEMMA ReadingScans ==
    ASSUME StrIInv, Regular, ScanParts,
           Outer \/ SkipDelimiter \/ NothingLeft \/ NoMark
    PROVE  ScanParts'
<1> USE DEF call, cutter, copier, Return
<1>1. /\ Scanning /\ fn \in Tokenizers
      /\ UNCHANGED <<fn, org, max, text, n, tokens>> /\ p' \in {p, p + 1}
  BY DEF Outer, SkipDelimiter, NothingLeft, NoMark, Scanning, Regular
<1>2. p' \in Int /\ p' >= p
  BY <1>1, ScanFacts
<1>3. CutsAreEnds /\ TokensEnd /\ NothingIsLost /\ AllWritten
  BY DEF ScanParts
<1>4. CutsAreEnds'
  <2>1. \A i \in p'..Len(org) : text[i] = org[i]
    BY <1>1, <1>2, <1>3, ScanFacts DEF CutsAreEnds
  <2>2. QED
    BY <1>1, <1>3, <2>1 DEF CutsAreEnds, Mark
<1>5. TokensEnd' /\ \A i \in 1..(p - 1), k \in 1..n : PartOf(i, k) => PartOf(i, k)'
  BY <1>1, <1>2, <1>3, FinishedStay DEF TokensEnd
<1>6. CurrentFits'
  <2>1. ~InToken'
    BY DEF Outer, SkipDelimiter, NothingLeft, NoMark, InToken
  <2>2. QED
    BY <2>1 DEF CurrentFits
<1>7. \A i \in 1..(p - 1) :
        pc # "quoted" => org[i] \in Delm \/ Mark(i) \/ \E k \in 1..n : PartOf(i, k)'
  BY <1>1, <1>3, <1>5
  DEF NothingIsLost, Outer, SkipDelimiter, NothingLeft, NoMark, InToken
<1>8. CASE Outer \/ NothingLeft
  <2>1. pc # "quoted" /\ p' = p /\ ret = "none"
    BY <1>3, <1>8 DEF AllWritten, Outer, NothingLeft
  <2>2. ret' = "OK" => ~(n < max) \/ text[p] = Nul
    BY <1>8, <2>1 DEF Outer, NothingLeft, HasRoom
  <2>3. ret' = "OK" => ~(n < max) \/ p = Len(org) + 1
    BY <1>1, <1>3, <2>2, ScanSees
  <2>4. NothingIsLost'
    <3>1. ASSUME ret' = "OK", n < max
          PROVE  p = Len(org) + 1
      BY <2>3, <3>1, ScanFacts DEF Regular
    <3>2. (p = Len(org) + 1) => 1..Len(org) = 1..(p - 1)
      BY ScanFacts DEF Regular
    <3>3. QED
      BY <1>1, <1>7, <2>1, <3>1, <3>2 DEF NothingIsLost, Mark
  <2>5. Len(tokens) = n
    BY <1>8 DEF StrIInv, Filled, Outer, NothingLeft
  <2>6. AllWritten'
    BY <1>1, <1>8, <2>1, <2>5 DEF AllWritten, Outer, NothingLeft
  <2>7. QED
    BY <1>4, <1>5, <1>6, <2>4, <2>6 DEF ScanParts
<1>9. CASE SkipDelimiter
  <2>1. ret = "none" /\ ret' = ret /\ pc # "quoted" /\ p' = p + 1 /\ text[p] \in Delm
    BY <1>3, <1>9 DEF AllWritten, SkipDelimiter
  <2>2. org[p] \in Delm
    BY <1>1, <1>3, <2>1, ScanSees, CharsAssumption
  <2>3. \A i \in 1..(p' - 1) : i \in 1..(p - 1) \/ i = p
    BY <2>1, ScanFacts DEF Regular
  <2>4. NothingIsLost'
    BY <1>1, <1>7, <2>1, <2>2, <2>3 DEF NothingIsLost, Mark
  <2>5. AllWritten'
    BY <2>1 DEF AllWritten
  <2>6. QED
    BY <1>4, <1>5, <1>6, <2>4, <2>5 DEF ScanParts
<1>10. CASE NoMark
  <2>1. pc' = "done" /\ ret' = "QUOTE_NOT_CLOSED"
    BY <1>10 DEF NoMark
  <2>2. NothingIsLost' /\ AllWritten'
    BY <2>1 DEF NothingIsLost, AllWritten, Scanning
  <2>3. QED
    BY <1>4, <1>5, <1>6, <2>2 DEF ScanParts
<1>11. QED
  BY <1>8, <1>9, <1>10

LEMMA BeginningScans ==
    ASSUME StrIInv, Regular, ScanParts, BeginToken
    PROVE  ScanParts'
<1> USE DEF call, cutter, copier, Return
<1>1. /\ Scanning /\ fn \in Tokenizers /\ pc = "skip" /\ pc' = "word"
      /\ UNCHANGED <<fn, org, max, text, n, p, ret>>
      /\ text[p] \in Chars \ Delm /\ tokens' = Put(n, p)
  BY DEF BeginToken, Scanning, Regular
<1>2. CutsAreEnds /\ TokensEnd /\ NothingIsLost /\ AllWritten
  BY DEF ScanParts
<1>3. tokens'[n + 1] = p /\ \A k \in 1..n : tokens'[k] = tokens[k]
  <2>1. p \in Places /\ n \in Nat /\ n <= Len(tokens) /\ tokens \in Seq(Places)
    BY <1>1, ScanFacts DEF Places
  <2>2. QED
    BY <1>1, <2>1, PutElements
<1>4. TokensEnd' /\ \A i \in 1..(p - 1), k \in 1..n : PartOf(i, k) => PartOf(i, k)'
  <2>1. p' \in Int /\ p' >= p
    BY <1>1, ScanFacts
  <2>2. QED
    BY <1>1, <1>2, <1>3, <2>1, FinishedStay DEF TokensEnd
<1>5. CutsAreEnds'
  BY <1>1, <1>2 DEF CutsAreEnds, Mark, Scanning
<1>6. CurrentFits'
  <2>1. \A j \in p..(p - 1) : FALSE
    BY ScanFacts DEF Regular
  <2>2. p <= p
    BY ScanFacts DEF Regular
  <2>3. QED
    BY <1>1, <1>3, <2>1, <2>2 DEF CurrentFits, Current, Uncut, NoDelm
<1>7. NothingIsLost'
  <2>1. ret = "none"
    BY <1>1, <1>2 DEF AllWritten
  <2>2. QED
    BY <1>1, <1>2, <1>4, <2>1 DEF NothingIsLost, Mark, InToken
<1>8. AllWritten'
  BY <1>1, <1>2 DEF AllWritten
<1>9. QED
  BY <1>4, <1>5, <1>6, <1>7, <1>8 DEF ScanParts

(* The steps inside a token that leave it as it is.                        *)
LEMMA TokenGrows ==
    ASSUME StrIInv, StrIInv', Regular, ScanParts,
           Letter \/ EscapedMark \/ CloseQuote \/ EndToken
    PROVE  ScanParts'
<1> USE DEF call, cutter, copier, Return
<1>1. /\ Scanning /\ InToken /\ Scanning' /\ InToken' /\ fn \in Tokenizers
      /\ UNCHANGED <<fn, org, max, text, n, tokens, cur_quote, ret>>
  BY DEF Letter, EscapedMark, CloseQuote, EndToken, Scanning, InToken, Regular
<1>2. CutsAreEnds /\ TokensEnd /\ CurrentFits /\ NothingIsLost /\ AllWritten
  BY DEF ScanParts
<1>3. p' \in Int /\ p' >= p
  <2>1. p' \in Int
    BY ScanFacts DEF Letter, EscapedMark, CloseQuote, EndToken, Regular
  <2>2. p' >= p
    BY ScanFacts DEF Letter, EscapedMark, CloseQuote, EndToken, Regular
  <2>3. QED
    BY <2>1, <2>2
<1>4. TokensEnd' /\ \A i \in 1..(p - 1), k \in 1..n : PartOf(i, k) => PartOf(i, k)'
  BY <1>1, <1>2, <1>3, FinishedStay DEF TokensEnd
<1>5. CutsAreEnds'
  <2>1. \A i \in p'..Len(org) : text[i] = org[i]
    BY <1>1, <1>2, <1>3, ScanFacts DEF CutsAreEnds
  <2>2. QED
    BY <1>1, <1>2, <2>1 DEF CutsAreEnds, Mark
<1>6. /\ Current' = Current /\ Current \in 1..(Len(org) + 1) /\ Current <= p
      /\ Len(org) \in Nat /\ p \in 1..(Len(org) + 1)
  <2>1. Current \in 1..(Len(org) + 1)
    BY <1>1, ScanFacts DEF Current
  <2>2. QED
    BY <1>1, <1>2, <2>1, ScanFacts DEF Current, CurrentFits
<1>7. NothingIsLost'
  <2>1. ret = "none"
    BY <1>1, <1>2 DEF AllWritten, Scanning
  <2>2. ASSUME NEW i \in 1..(p' - 1)
        PROVE  \/ org[i] \in Delm \/ Mark(i)
               \/ \E k \in 1..n : PartOf(i, k)'
               \/ Current <= i
    <3>1. CASE i < p
      <4>1. i \in 1..(p - 1)
        BY <1>6, <3>1
      <4>2. QED
        BY <1>1, <1>2, <1>4, <4>1 DEF NothingIsLost
    <3>2. CASE i >= p
      BY <1>3, <1>6, <3>2
    <3>3. QED
      BY <1>3, <1>6, <3>1, <3>2
  <2>3. QED
    BY <1>1, <1>6, <2>1, <2>2 DEF NothingIsLost, Mark
<1>8. AllWritten'
  BY <1>1, <1>2 DEF AllWritten, Scanning
<1>9. Current <= p' /\ Uncut(Current, p)
  BY <1>1, <1>2, <1>3, <1>6 DEF CurrentFits
<1>10. \A j \in Current..(p' - 1) : text[j] = org[j]
  <2>1. p' <= Len(org) + 1
    BY <1>1 DEF StrIInv, StrTypeOK
  <2>2. ASSUME NEW c \in Int, c = Current, NEW q \in Int, q = p', NEW j \in c..(q - 1)
        PROVE  text[j] = org[j]
    <3>0. p \in Int /\ Len(org) \in Int /\ q <= Len(org) + 1
      BY <1>6, <2>1, <2>2
    <3>1. CASE j < p
      BY <1>6, <1>9, <2>2, <3>1 DEF Uncut
    <3>2. CASE j >= p
      <4>1. j \in Int /\ j <= q - 1
        OBVIOUS
      <4>2. j <= Len(org)
        BY <3>0, <4>1
      <4>3. j \in p..Len(org)
        BY <3>0, <3>2, <4>1, <4>2
      <4>4. QED
        BY <1>1, <1>2, <4>3 DEF CutsAreEnds
    <3>3. QED
      BY <1>6, <2>2, <3>1, <3>2
  <2>3. Current \in Int /\ p' \in Int
    BY <1>3, <1>6
  <2>4. QED
    BY <2>2, <2>3
<1>11. CASE Letter
  <2>1. /\ pc = "word" /\ pc' = "word" /\ p' = p + 1 /\ no_delm' = no_delm + 1
        /\ text[p] \in Chars \ Delm
    BY <1>11 DEF Letter
  <2>2. org[p] \notin Delm
    BY <1>1, <1>2, <2>1, ScanSees, CharsAssumption
  <2>3. NoDelm(Current, p)
    BY <1>1, <1>2, <2>1 DEF CurrentFits
  <2>4. NoDelm(Current, p')
    <3>1. \A j \in Current..(p' - 1) : j \in Current..(p - 1) \/ j = p
      BY <1>6, <2>1
    <3>2. QED
      BY <2>2, <2>3, <3>1 DEF NoDelm
  <2>5. no_delm' > 0 /\ p' # Current
    BY <1>1, <1>6, <2>1, ScanFacts
  <2>6. CurrentFits'
    BY <1>1, <1>6, <1>9, <1>10, <2>1, <2>4, <2>5 DEF CurrentFits, NoDelm, Uncut
  <2>7. QED
    BY <1>4, <1>5, <1>7, <1>8, <2>6 DEF ScanParts
<1>12. CASE EscapedMark
  <2>1. PICK q \in p..Len(org) : NextMark(q) /\ text[q - 1] = Bs /\ p' = q + 1
    BY <1>12 DEF EscapedMark
  <2>2. /\ pc = "quoted" /\ pc' = "quoted" /\ fn = "tokenize_quote"
        /\ Current > 1 /\ org[Current - 1] = cur_quote /\ cur_quote \in Quote
    BY <1>1, <1>2, <1>12 DEF EscapedMark, CurrentFits, StrIInv, Filled
  <2>3. /\ q \in 1..Len(org) /\ q - 1 \in 1..Len(org) /\ q > 1
        /\ org[q] \in Quote /\ org[q - 1] = Bs
    <3>1. q \in 1..Len(org) /\ q - 1 \in 1..Len(org) /\ q > 1
      BY <1>6, <2>2
    <3>2. text[q] = org[q] /\ text[q] = cur_quote
      BY <1>1, <1>2, <2>1 DEF CutsAreEnds, NextMark
    <3>3. text[q - 1] = org[q - 1]
      BY <1>2, <2>1, <3>1, CharsAssumption DEF CutsAreEnds
    <3>4. QED
      BY <2>1, <2>2, <3>1, <3>2, <3>3
  <2>4. q # Len(org)
    BY <1>6, <2>2, <2>3 DEF Regular, EndsEscaped
  <2>5. p' <= Len(org)
    BY <1>6, <2>1, <2>3, <2>4
  <2>6. CurrentFits'
    BY <1>1, <1>6, <1>9, <1>10, <2>2, <2>5 DEF CurrentFits, Uncut
  <2>7. QED
    BY <1>4, <1>5, <1>7, <1>8, <2>6 DEF ScanParts
<1>13. CASE CloseQuote
  <2>1. PICK q \in p..Len(org) : NextMark(q) /\ p' = q
    BY <1>13 DEF CloseQuote
  <2>2. /\ pc = "quoted" /\ pc' = "got" /\ fn = "tokenize_quote" /\ no_delm' = 1
        /\ Current > 1 /\ org[Current - 1] = cur_quote /\ cur_quote \in Quote
    BY <1>1, <1>2, <1>13 DEF CloseQuote, CurrentFits, StrIInv, Filled
  <2>3. org[q] = cur_quote
    BY <1>1, <1>2, <2>1 DEF CutsAreEnds, NextMark
  <2>4. org'[p'] \in Quote /\ BetweenMarks(Current, q)' /\ Mark(q)'
    BY <1>1, <1>6, <2>1, <2>2, <2>3 DEF BetweenMarks, Mark
  <2>5. CurrentFits'
    BY <1>1, <1>6, <1>9, <1>10, <2>1, <2>2, <2>4 DEF CurrentFits, Uncut
  <2>6. QED
    BY <1>4, <1>5, <1>7, <1>8, <2>5 DEF ScanParts
<1>14. CASE EndToken
  <2>1. pc' = "got" /\ p' = p /\ no_delm' = no_delm
    BY <1>14 DEF EndToken
  <2>2. pc = "word" /\ text[p] \in Delm \cup {Nul}
    <3>1. SUFFICES ASSUME pc = "quoted", text[p] = Nul PROVE FALSE
      BY <1>14 DEF EndToken
    <3>2. p <= Len(org)
      BY <1>1, <1>2, <3>1 DEF CurrentFits
    <3>3. QED
      BY <1>1, <1>2, <1>6, <3>1, <3>2, ScanSees
  <2>3. NoDelm(Current, p) /\ no_delm > 0
    BY <1>1, <1>2, <2>2, CharsAssumption DEF CurrentFits
  <2>4. p <= Len(org) => org[p] \in Delm
    BY <1>1, <1>2, <1>6, <2>2, ScanSees
  <2>5. CurrentFits'
    BY <1>1, <1>6, <1>9, <1>10, <2>1, <2>3, <2>4 DEF CurrentFits, NoDelm, Uncut
  <2>6. QED
    BY <1>4, <1>5, <1>7, <1>8, <2>5 DEF ScanParts
<1>15. QED
  BY <1>11, <1>12, <1>13, <1>14

(* The mark at p opens a quotation, and ends the letters in front of it.    *)
LEMMA OpeningScans ==
    ASSUME StrIInv, Regular, ScanParts, OpenQuote
    PROVE  ScanParts'
<1> USE DEF call, cutter, copier, Return
<1>1. /\ Scanning /\ InToken /\ fn = "tokenize_quote" /\ fn \in Tokenizers /\ pc = "word"
      /\ UNCHANGED <<fn, org, max, no_delm>> /\ text' = Cut(p) /\ p' = p + 1
      /\ text[p] \in Chars \ Delm /\ text[p] \in Quote /\ cur_quote' = text[p]
  BY DEF OpenQuote, IsQuoteHere, Scanning, InToken, Regular, Tokenizers
<1>2. CutsAreEnds /\ TokensEnd /\ CurrentFits /\ NothingIsLost /\ AllWritten
  BY DEF ScanParts
<1>3. /\ p \in 1..Len(org) /\ Len(org) \in Nat /\ n \in Nat /\ no_delm \in Nat
      /\ n < max /\ max \in Nat /\ Len(tokens) = n + 1 /\ tokens \in Seq(Places)
      /\ org[p] = text[p] /\ Mark(p)
  <2>1. p \in 1..Len(org) /\ org[p] = text[p]
    BY <1>1, <1>2, ScanSees, CharsAssumption
  <2>2. QED
    BY <1>1, <2>1, ScanFacts DEF StrIInv, Filled, Mark
<1>4. /\ \A j \in 1..(Len(org) + 1) : j # p => text'[j] = text[j]
      /\ text'[p] = Nul
  BY <1>1, <1>3, ScanFacts DEF Cut
<1>5. CutsAreEnds'
  <2>1. \A i \in 1..Len(org) : text'[i] = org[i] \/ (text'[i] = Nul /\ (org[i] \in Delm \/ Mark(i)))
    <3> TAKE i \in 1..Len(org)
    <3>1. CASE i = p
      BY <1>3, <1>4, <3>1
    <3>2. CASE i # p
      BY <1>2, <1>3, <1>4, <3>2 DEF CutsAreEnds
    <3>3. QED
      BY <3>1, <3>2
  <2>2. \A i \in p'..Len(org) : text'[i] = org[i]
    BY <1>1, <1>2, <1>3, <1>4 DEF CutsAreEnds
  <2>3. QED
    BY <1>1, <2>1, <2>2 DEF CutsAreEnds, Mark
<1>6. p' \in Int /\ p' >= p /\ text' \in {text, Cut(p)}
  BY <1>1, <1>3
<1>7. CASE text[p + 1] = Nul
  <2>1. /\ pc' = "done" /\ ret' = "QUOTE_NOT_CLOSED" /\ n' = n /\ tokens' = tokens
    BY <1>7 DEF OpenQuote
  <2>2. TokensEnd'
    BY <1>1, <1>2, <1>6, <2>1, FinishedStay DEF TokensEnd
  <2>3. CurrentFits' /\ NothingIsLost' /\ AllWritten'
    BY <2>1 DEF CurrentFits, NothingIsLost, AllWritten, InToken, Scanning
  <2>4. QED
    BY <1>5, <2>2, <2>3 DEF ScanParts
<1>8. CASE text[p + 1] # Nul
  <2>1. /\ n' = TokensAtQuote /\ tokens' = Put(TokensAtQuote, p + 1)
        /\ pc' = "quoted" /\ ret' = ret
    BY <1>3, <1>8 DEF OpenQuote, HasRoom
  <2>2. n' = (IF no_delm > 0 THEN n + 1 ELSE n) /\ n' \in {n, n + 1}
    BY <1>3, <2>1 DEF TokensAtQuote, HasRoom
  <2>3. p + 1 \in 1..Len(org)
    BY <1>1, <1>3, <1>8, ScanFacts
  <2>4. tokens'[n' + 1] = p + 1 /\ \A j \in 1..n' : tokens'[j] = tokens[j]
    <3> DEFINE k == TokensAtQuote
               q == p + 1
    <3>1. n' = k /\ tokens' = Put(k, q)
      BY <2>1
    <3>2. k \in Nat /\ k <= Len(tokens)
      BY <1>3, <2>2, <3>1
    <3>3. q \in Places
      BY <2>3 DEF Places
    <3>4. tokens \in Seq(Places)
      BY <1>3
    <3> HIDE DEF k, q
    <3>5. Put(k, q)[k + 1] = q /\ \A j \in 1..k : Put(k, q)[j] = tokens[j]
      BY <3>2, <3>3, <3>4, PutElements
    <3>6. tokens'[n' + 1] = q /\ \A j \in 1..n' : tokens'[j] = tokens[j]
      BY <3>1, <3>5
    <3>7. QED
      BY <3>6 DEF q
  <2>5. \A j \in 1..n : tokens'[j] = tokens[j]
    BY <1>3, <2>2, <2>4
  <2>6. /\ \A k \in 1..n : \E e \in 1..p' : EndsAt(tokens[k], e)'
        /\ \A i \in 1..(p - 1), k \in 1..n : PartOf(i, k) => PartOf(i, k)'
    BY <1>1, <1>2, <1>6, <2>5, FinishedStay
  <2>7. PICK m \in Nat, q \in Nat : m = n + 1 /\ q = p
    BY <1>3
  <2>8. ASSUME no_delm > 0
        PROVE  TokensEnd' /\ \A i \in 1..(p' - 1) :
           org[i] \in Delm \/ Mark(i) \/ \E k \in 1..n' : PartOf(i, k)'
    <3>1. n' = m /\ tokens'[m] = tokens[m]
      BY <1>3, <2>2, <2>4, <2>7, <2>8
    <3>2. NoDelm(Current, p)
      BY <1>1, <1>2 DEF CurrentFits
    <3>3. UNCHANGED call
      BY DEF OpenQuote
    <3>4. /\ EndsAt(tokens[m], q)'
          /\ \A i \in 1..(q - 1) : Current <= i => PartOf(i, m)'
      BY <1>1, <1>4, <2>7, <3>1, <3>2, <3>3, CurrentEnds
    <3>5. TokensEnd'
      <4>1. q \in 1..p' /\ \A k \in 1..n' : k \in 1..n \/ k = m
        BY <1>1, <1>3, <2>7, <3>1
      <4>2. QED
        BY <2>6, <3>4, <4>1 DEF TokensEnd
    <3>6. \A i \in 1..(p' - 1) : org[i] \in Delm \/ Mark(i) \/ \E k \in 1..n' : PartOf(i, k)'
      <4> TAKE i \in 1..(p' - 1)
      <4>1. i \in 1..(p - 1) \/ i = p
        BY <1>1, <1>3
      <4>2. m \in 1..n' /\ \A k \in 1..n : k \in 1..n'
        BY <1>3, <2>7, <3>1
      <4>3. QED
        BY <1>1, <1>2, <1>3, <2>6, <2>7, <3>4, <4>1, <4>2 DEF NothingIsLost
    <3>7. QED
      BY <3>5, <3>6
  <2>9. ASSUME ~(no_delm > 0)
        PROVE  TokensEnd' /\ \A i \in 1..(p' - 1) :
           org[i] \in Delm \/ Mark(i) \/ \E k \in 1..n' : PartOf(i, k)'
    <3>1. n' = n /\ p = Current
      BY <1>1, <1>2, <2>2, <2>9 DEF CurrentFits
    <3>2. TokensEnd'
      BY <2>6, <3>1 DEF TokensEnd
    <3>3. \A i \in 1..(p' - 1) : org[i] \in Delm \/ Mark(i) \/ \E k \in 1..n' : PartOf(i, k)'
      <4> TAKE i \in 1..(p' - 1)
      <4>1. i \in 1..(p - 1) \/ i = p
        BY <1>1, <1>3
      <4>2. CASE i \in 1..(p - 1)
        <5>1. ~(Current <= i)
          BY <1>3, <3>1, <4>2
        <5>2. QED
          BY <1>1, <1>2, <2>6, <3>1, <4>2, <5>1 DEF NothingIsLost
      <4>3. QED
        BY <1>3, <4>1, <4>2
    <3>4. QED
      BY <3>2, <3>3
  <2>10. TokensEnd' /\ \A i \in 1..(p' - 1) :
           org[i] \in Delm \/ Mark(i) \/ \E k \in 1..n' : PartOf(i, k)'
    BY <2>8, <2>9
  <2>11. ret = "none"
    BY <1>1, <1>2 DEF AllWritten
  <2>12. NothingIsLost' /\ AllWritten'
    BY <1>1, <2>1, <2>10, <2>11 DEF NothingIsLost, AllWritten, Mark
  <2>13. CurrentFits'
    <3>1. Current' = p + 1
      BY <1>1, <2>4 DEF Current
    <3>2. \A j \in (p + 1)..p : FALSE
      BY <1>3
    <3>3. p + 1 <= p' /\ p + 1 > 1 /\ p' <= Len(org) /\ p' - 1 = p /\ (p + 1) - 1 = p
      BY <1>1, <1>3, <2>3
    <3>4. QED
      BY <1>1, <1>3, <2>1, <3>1, <3>2, <3>3 DEF CurrentFits, Uncut
  <2>14. QED
    BY <1>5, <2>10, <2>12, <2>13 DEF ScanParts
<1>9. QED
  BY <1>7, <1>8

(* The token is finished, by the end of the text or by what ends it.        *)
LEMMA FinishingScans ==
    ASSUME StrIInv, Regular, ScanParts, GotLast \/ GotToken
    PROVE  ScanParts'
<1> USE DEF call, cutter, copier, Return
<1>1. /\ Scanning /\ InToken /\ fn \in Tokenizers /\ pc = "got"
      /\ UNCHANGED <<fn, org, max, tokens>> /\ UNCHANGED call
      /\ text' \in {text, Cut(p)} /\ p' \in {p, p + 1}
  BY DEF GotLast, GotToken, Scanning, InToken, Regular, Tokenizers
<1>2. CutsAreEnds /\ TokensEnd /\ CurrentFits /\ NothingIsLost /\ AllWritten
  BY DEF ScanParts
<1>3. /\ p \in 1..(Len(org) + 1) /\ Len(org) \in Nat /\ n \in Nat
      /\ Len(tokens) = n + 1 /\ no_delm > 0
  BY <1>1, <1>2, ScanFacts DEF CurrentFits
<1>4. n' = n + 1 /\ text'[p] = Nul
  <2>1. CASE GotLast
    BY <1>3, <2>1 DEF GotLast, LastCounts
  <2>2. CASE GotToken
    BY <1>1, <2>2, ScanFacts DEF GotToken, Cut
  <2>3. QED
    BY <2>1, <2>2
<1>5. \A j \in 1..(Len(org) + 1) : j # p => text'[j] = text[j]
  BY <1>1, CutText
<1>6. p' \in Int /\ p' >= p
  BY <1>1, <1>3
<1>7. p <= Len(org) => org[p] \in Delm \/ Mark(p)
  BY <1>1, <1>2 DEF CurrentFits
<1>8. PICK m \in Nat, q \in Nat : m = n + 1 /\ q = p
  BY <1>3
<1>9. /\ EndsAt(tokens[m], q)'
      /\ \A i \in 1..(q - 1) : Current <= i => PartOf(i, m)'
  <2>1. NoDelm(Current, p) \/ BetweenMarks(Current, p)
    BY <1>1, <1>2 DEF CurrentFits
  <2>2. QED
    BY <1>1, <1>4, <1>8, <2>1, CurrentEnds
<1>10. /\ \A k \in 1..n : \E e \in 1..p' : EndsAt(tokens[k], e)'
       /\ \A i \in 1..(p - 1), k \in 1..n : PartOf(i, k) => PartOf(i, k)'
  BY <1>1, <1>2, <1>6, FinishedStay
<1>11. q \in 1..p' /\ m \in 1..n' /\ \A k \in 1..n' : k \in 1..n \/ k = m
  BY <1>3, <1>4, <1>6, <1>8
<1>12. TokensEnd'
  BY <1>9, <1>10, <1>11 DEF TokensEnd
<1>13. \A i \in 1..Len(org) : i <= p =>
         org[i] \in Delm \/ Mark(i) \/ \E k \in 1..n' : PartOf(i, k)'
  <2> SUFFICES ASSUME NEW i \in 1..Len(org), i <= p
               PROVE  org[i] \in Delm \/ Mark(i) \/ \E k \in 1..n' : PartOf(i, k)'
    OBVIOUS
  <2>1. i \in 1..(p - 1) \/ (i = p /\ p <= Len(org))
    BY <1>3
  <2>2. \A k \in 1..n : k \in 1..n'
    BY <1>3, <1>4
  <2>3. CASE i \in 1..(p - 1)
    BY <1>1, <1>2, <1>8, <1>9, <1>10, <1>11, <2>2, <2>3 DEF NothingIsLost
  <2>4. QED
    BY <1>7, <2>1, <2>3
<1>14. ret = "none" /\ Len(tokens) = n'
  BY <1>1, <1>2, <1>3, <1>4 DEF AllWritten
<1>15. ~InToken'
  BY DEF GotLast, GotToken, InToken
<1>16. CurrentFits'
  BY <1>15 DEF CurrentFits
<1>17. \A i \in 1..Len(org) : text'[i] = org[i] \/ (text'[i] = Nul /\ (org[i] \in Delm \/ Mark(i)))
  <2> TAKE i \in 1..Len(org)
  <2>1. CASE i = p
    BY <1>3, <1>4, <1>7, <2>1
  <2>2. CASE i # p
    BY <1>2, <1>3, <1>5, <2>2 DEF CutsAreEnds
  <2>3. QED
    BY <2>1, <2>2
<1>18. CASE pc' = "done" /\ ret' = "OK"
  <2>1. p' = p /\ (p = Len(org) + 1 \/ p = Len(org))
    <3>1. CASE GotLast
      BY <1>1, <1>2, <3>1, ScanSees DEF GotLast
    <3>2. CASE GotToken
      <4>1. p' = p /\ text[p + 1] = Nul /\ p \in 1..Len(org)
        BY <1>1, <1>2, <1>18, <3>2, ScanSees, <1>3, ScanFacts DEF GotToken
      <4>2. QED
        BY <1>1, <1>2, <4>1, ScanSees
    <3>3. QED
      BY <3>1, <3>2
  <2>2. \A i \in 1..Len(org) : i <= p
    BY <1>3, <2>1
  <2>3. CutsAreEnds'
    BY <1>1, <1>17, <1>18 DEF CutsAreEnds, Mark, Scanning
  <2>4. NothingIsLost' /\ AllWritten'
    BY <1>1, <1>13, <1>14, <1>18, <2>2 DEF NothingIsLost, AllWritten, Mark, Scanning
  <2>5. QED
    BY <1>12, <1>16, <2>3, <2>4 DEF ScanParts
<1>19. CASE pc' = "outer" /\ p' = p + 1 /\ ret' = ret
  <2>1. \A i \in p'..Len(org) : text'[i] = org[i]
    BY <1>2, <1>1, <1>3, <1>5, <1>19 DEF CutsAreEnds
  <2>2. CutsAreEnds'
    BY <1>1, <1>17, <2>1 DEF CutsAreEnds, Mark
  <2>3. p <= Len(org)
    BY <1>1, <1>3, <1>19, ScanFacts DEF GotLast, GotToken
  <2>4. \A i \in 1..(p' - 1) : i \in 1..Len(org) /\ i <= p
    BY <1>3, <1>19, <2>3
  <2>5. NothingIsLost' /\ AllWritten'
    BY <1>1, <1>13, <1>14, <1>19, <2>4 DEF NothingIsLost, AllWritten, Mark, Scanning
  <2>6. QED
    BY <1>12, <1>16, <2>2, <2>5 DEF ScanParts
<1>20. QED
  BY <1>14, <1>18, <1>19 DEF GotLast, GotToken

LEMMA ScanBegins == StrInit => ScanInv
<1> SUFFICES ASSUME StrInit, Regular PROVE ScanParts
  BY DEF ScanInv
<1> USE DEF StrInit, FirstLoop
<1>1. StrIInv
  BY StrInitInv
<1>2. p = 1 /\ n = 0 /\ pc = "outer" /\ ret = "none" /\ Len(org) \in Nat
  BY <1>1, ScanFacts DEF Regular, Tokenizers
<1>3. \A i \in 1..Len(org) : text[i] = org[i]
  BY <1>2 DEF Buffer
<1>4. CutsAreEnds
  BY <1>2, <1>3 DEF CutsAreEnds
<1>5. TokensEnd /\ CurrentFits /\ NothingIsLost /\ AllWritten
  BY <1>2 DEF TokensEnd, CurrentFits, NothingIsLost, AllWritten, InToken
<1>6. QED
  BY <1>4, <1>5 DEF ScanParts

LEMMA ScanGoesOn == StrIInv /\ ScanInv /\ [StrNext]_strVars => ScanInv'
<1> SUFFICES ASSUME StrIInv, ScanInv, [StrNext]_strVars, Regular' PROVE ScanParts'
  BY DEF ScanInv
<1>1. UNCHANGED call
  BY DEF StrNext, strVars, Outer, SkipDelimiter, NothingLeft, BeginToken, Letter, OpenQuote,
         EscapedMark, CloseQuote, NoMark, EndToken, GotLast, GotToken, CheckMarks, CopyLetter,
         CopyEnd, TrimLetter, TrimEnd
<1>2. fn' = fn /\ org' = org
  BY <1>1 DEF call
<1>3. Regular /\ ScanParts
  BY <1>2 DEF ScanInv, Regular, EndsEscaped
<1>4. StrIInv'
  BY StrStepInv
<1>5. CASE Outer \/ SkipDelimiter \/ NothingLeft \/ NoMark
  BY <1>3, <1>5, ReadingScans
<1>6. CASE BeginToken
  BY <1>3, <1>6, BeginningScans
<1>7. CASE Letter \/ EscapedMark \/ CloseQuote \/ EndToken
  BY <1>3, <1>4, <1>7, TokenGrows
<1>8. CASE OpenQuote
  BY <1>3, <1>8, OpeningScans
<1>9. CASE GotLast \/ GotToken
  BY <1>3, <1>9, FinishingScans
<1>10. CASE CheckMarks \/ CopyLetter \/ CopyEnd \/ TrimLetter \/ TrimEnd
  <2>1. fn \notin Tokenizers
    BY <1>10 DEF StrIInv, Filled, Tokenizers, CheckMarks, CopyLetter, CopyEnd, TrimLetter, TrimEnd
  <2>2. QED
    BY <1>3, <2>1 DEF Regular
<1>11. CASE UNCHANGED strVars
  <2> USE <1>3, <1>11 DEF strVars, call
  <2>1. CutsAreEnds' /\ AllWritten'
    BY DEF ScanParts, CutsAreEnds, AllWritten, Mark, Scanning
  <2>2. TokensEnd'
    BY DEF ScanParts, TokensEnd, EndsAt, NoDelm, Uncut, BetweenMarks
  <2>3. CurrentFits'
    BY DEF ScanParts, CurrentFits, NoDelm, Uncut, BetweenMarks, Mark, Current, InToken
  <2>4. NothingIsLost'
    BY DEF ScanParts, NothingIsLost, PartOf, Mark, Current, InToken, Scanning
  <2>5. QED
    BY <2>1, <2>2, <2>3, <2>4 DEF ScanParts
<1>12. QED
  BY <1>5, <1>6, <1>7, <1>8, <1>9, <1>10, <1>11 DEF StrNext

(* A token is what stands between its start and its end. *)
LEMMA BodyEnds ==
    ASSUME StrIInv, Regular, NEW i \in 1..(Len(org) + 1), NEW e \in 1..p, EndsAt(i, e)
    PROVE  /\ Body(i) = i..(e - 1)
           /\ i + Cardinality(Body(i)) = e
<1>1. /\ Len(org) \in Nat /\ p \in 1..(Len(org) + 1)
      /\ \A j \in 1..Len(org) : org[j] # Nul
  BY ScanFacts DEF Regular
<1>2. i \in Int /\ e \in Int /\ 1 <= i /\ i <= e /\ e <= Len(org) + 1 /\ text[e] = Nul
  BY <1>1 DEF EndsAt
<1>3. \A j \in i..(e - 1) : j \in 1..Len(org) /\ text[j] = org[j]
  BY <1>2, <1>1 DEF EndsAt, Uncut
<1>4. ASSUME NEW j \in Body(i)
      PROVE  j \in i..(e - 1)
  BY <1>1, <1>2, <1>4 DEF Body
<1>5. ASSUME NEW j \in i..(e - 1)
      PROVE  j \in Body(i)
  <2>1. j \in i..Len(org)
    BY <1>2, <1>3
  <2>2. \A k \in i..j : text[k] # Nul
    BY <1>1, <1>2, <1>3
  <2>3. QED
    BY <2>1, <2>2 DEF Body
<1>6. Body(i) = i..(e - 1)
  BY <1>4, <1>5
<1>7. Cardinality(i..(e - 1)) = e - i
  <2>1. e - 1 \in Int
    BY <1>2
  <2>2. Cardinality(i..(e - 1)) = IF i > e - 1 THEN 0 ELSE (e - 1) - i + 1
    BY <1>2, <2>1, FS_Interval
  <2>3. QED
    BY <1>2, <2>2
<1>8. QED
  BY <1>2, <1>6, <1>7

LEMMA QuotesInv == StrIInv /\ ScanInv => QuotesHold
<1> SUFFICES ASSUME StrIInv, ScanInv, fn = "tokenize_quote", ret = "OK", ~EndsEscaped
             PROVE  /\ \A k \in 1..n : (\E i \in Body(tokens[k]) : org[i] \in Delm) => Quoted(tokens[k])
                    /\ n < max => \A i \in 1..Len(org) :
                          \/ org[i] \in Delm \cup Quote
                          \/ \E k \in 1..n : i \in Body(tokens[k])
  BY DEF QuotesHold
<1>1. Regular /\ ScanParts
  BY DEF Regular, Tokenizers, ScanInv
<1>2. Len(tokens) = n /\ TokensEnd /\ NothingIsLost
  BY <1>1 DEF ScanParts, AllWritten
<1>3. \A k \in 1..n : tokens[k] \in 1..(Len(org) + 1)
  BY <1>1, <1>2, ScanFacts DEF Regular
<1>4. ASSUME NEW k \in 1..n, NEW i \in Body(tokens[k]), org[i] \in Delm
      PROVE  Quoted(tokens[k])
  <2>1. PICK e \in 1..p : EndsAt(tokens[k], e)
    BY <1>2 DEF TokensEnd
  <2>2. Body(tokens[k]) = tokens[k]..(e - 1) /\ tokens[k] + Cardinality(Body(tokens[k])) = e
    BY <1>1, <1>3, <2>1, BodyEnds
  <2>3. ~NoDelm(tokens[k], e)
    BY <1>4, <2>2 DEF NoDelm
  <2>4. BetweenMarks(tokens[k], e)
    BY <2>1, <2>3 DEF EndsAt
  <2>5. QED
    BY <2>2, <2>4 DEF BetweenMarks, Quoted
<1>5. ASSUME n < max, NEW i \in 1..Len(org)
      PROVE  \/ org[i] \in Delm \cup Quote
             \/ \E k \in 1..n : i \in Body(tokens[k])
  <2>1. CASE org[i] \in Delm \/ Mark(i)
    BY <2>1 DEF Mark
  <2>2. ASSUME NEW k \in 1..n, PartOf(i, k)
        PROVE  i \in Body(tokens[k])
    <3>1. tokens[k] \in Int /\ tokens[k] <= i /\ Len(org) \in Nat
      BY <1>1, <1>3, <2>2, ScanFacts DEF PartOf, Regular
    <3>2. i \in tokens[k]..Len(org)
      BY <3>1
    <3>3. QED
      BY <2>2, <3>2 DEF Body, PartOf
  <2>3. QED
    BY <1>2, <1>5, <2>1, <2>2 DEF NothingIsLost
<1>6. QED
  BY <1>4, <1>5

(* For any texts, delimiters, marks and arrays, a delimiter is part of a    *)
(* token only inside a closed quotation, and mccp_str_tokenize_quote()      *)
(* loses no letter of a text it read to its end.                            *)
THEOREM QuotationsHold == StrSpec => []QuotesHold
<1>1. StrInit => StrIInv /\ ScanInv
  BY StrInitInv, ScanBegins
<1>2. StrIInv /\ ScanInv /\ [StrNext]_strVars => StrIInv' /\ ScanInv'
  BY StrStepInv, ScanGoesOn
<1>3. QED
  BY <1>1, <1>2, QuotesInv, PTL DEF StrSpec

(***************************************************************************)
(* Texts without quotation marks: the scan finds the runs of letters one    *)
(* after the other.                                                        *)
(***************************************************************************)
Plain   == fn \in Tokenizers /\ \A i \in 1..Len(org) : ~Mark(i)
Outside == pc \in {"outer", "skip"}

(* The tokens are starts of runs, ascending, and none is left out between.  *)
InOrder ==
    \A k \in 1..Len(tokens) :
        /\ tokens[k] \in Starts /\ tokens[k] <= p
        /\ \A j \in 1..(k - 1) : tokens[j] < tokens[k]
        /\ \A i \in Starts : i < tokens[k] => \E j \in 1..(k - 1) : tokens[j] = i

(* A start the scan has passed is a token. *)
AllFound ==
    /\ Scanning => \A i \in Starts : i < p => \E k \in 1..Len(tokens) : tokens[k] = i
    /\ ret = "OK" => n = max \/ \A i \in Starts : \E k \in 1..n : tokens[k] = i

(* A new token is looked for behind a delimiter, and behind the others.     *)
AtAStart ==
    Outside => /\ p = 1 \/ org[p - 1] \in Delm
               /\ \A k \in 1..Len(tokens) : tokens[k] < p

Unmarked  == pc # "quoted" /\ n <= max /\ (pc = "got" => n < max)

PlainParts == InOrder /\ AllFound /\ AtAStart /\ Unmarked
PlainInv   == Plain => PlainParts

LEMMA PlainIsRegular == StrIInv /\ Plain => Regular
<1> SUFFICES ASSUME StrIInv, Plain PROVE Regular
  OBVIOUS
<1>1. Len(org) \in 1..Len(org)
  BY ScanFacts DEF Plain
<1>2. QED
  BY <1>1 DEF Plain, Mark, Regular, EndsEscaped

(* The steps outside of a token.                                           *)
LEMMA PlainOutside ==
    ASSUME StrIInv, Plain, ScanParts, PlainParts, Outer \/ SkipDelimiter \/ NothingLeft
    PROVE  PlainParts'
<1> USE DEF call, cutter, copier, Return
<1>1. /\ Scanning /\ Outside /\ fn \in Tokenizers
      /\ UNCHANGED <<fn, org, max, text, n, tokens>> /\ p' \in {p, p + 1}
      /\ Starts' = Starts
  BY DEF Outer, SkipDelimiter, NothingLeft, Scanning, Outside, Plain, Starts, Begins
<1>2. CutsAreEnds /\ AllWritten /\ InOrder /\ AllFound /\ AtAStart /\ Unmarked
  BY DEF ScanParts, PlainParts
<1>3. /\ p \in 1..(Len(org) + 1) /\ p \in Int /\ p' \in Int /\ Len(org) \in Nat
      /\ n \in Nat /\ max \in Nat /\ Len(tokens) = n /\ ret = "none" /\ pc # "done"
      /\ \A k \in 1..Len(tokens) : tokens[k] \in Int
      /\ \A i \in Starts : i \in 1..Len(org) /\ i \in Int
  <2>1. p' \in Int
    BY <1>1, ScanFacts
  <2>2. ret = "none" /\ pc # "done"
    BY <1>1, <1>2 DEF AllWritten, Scanning
  <2>3. Len(tokens) = n
    BY <1>1 DEF StrIInv, Filled, Outside
  <2>4. QED
    BY <1>1, <2>1, <2>2, <2>3, ScanFacts DEF Starts
<1>4. InOrder'
  <2>1. \A k \in 1..Len(tokens) : tokens[k] <= p'
    BY <1>1, <1>2, <1>3 DEF InOrder
  <2>2. QED
    BY <1>1, <1>2, <2>1 DEF InOrder
<1>5. Unmarked'
  BY <1>1, <1>2 DEF Unmarked, Outer, SkipDelimiter, NothingLeft
<1>6. CASE Outer \/ NothingLeft
  <2>1. p' = p /\ (ret' = "OK" => n >= max \/ text[p] = Nul) /\ (pc' = "done" \/ ret' = ret)
    BY <1>3, <1>6 DEF Outer, NothingLeft, HasRoom
  <2>2. ret' = "OK" => n = max \/ p = Len(org) + 1
    BY <1>1, <1>2, <1>3, <2>1, ScanSees DEF Unmarked
  <2>3. \A i \in Starts : i < p => \E k \in 1..n : tokens[k] = i
    BY <1>1, <1>2, <1>3 DEF AllFound
  <2>4. (p = Len(org) + 1) => \A i \in Starts : i < p
    BY <1>3
  <2>5. AllFound'
    BY <1>1, <1>3, <2>1, <2>2, <2>3, <2>4 DEF AllFound
  <2>6. AtAStart'
    BY <1>1, <1>2, <2>1 DEF AtAStart
  <2>7. QED
    BY <1>4, <1>5, <2>5, <2>6 DEF PlainParts
<1>7. CASE SkipDelimiter
  <2>1. p' = p + 1 /\ ret' = ret /\ text[p] \in Delm
    BY <1>7 DEF SkipDelimiter
  <2>2. org[p] \in Delm /\ p \notin Starts
    <3>1. org[p] \in Delm
      BY <1>1, <1>2, <2>1, ScanSees, CharsAssumption
    <3>2. QED
      BY <3>1 DEF Starts, Begins
  <2>3. \A i \in Starts : i < p' => i < p
    BY <1>3, <2>1, <2>2
  <2>4. AllFound'
    BY <1>1, <1>2, <1>3, <2>1, <2>3 DEF AllFound
  <2>5. AtAStart'
    <3>1. p' - 1 = p /\ \A k \in 1..Len(tokens) : tokens[k] < p'
      BY <1>1, <1>2, <1>3, <2>1 DEF AtAStart
    <3>2. QED
      BY <1>1, <2>2, <3>1 DEF AtAStart
  <2>6. QED
    BY <1>4, <1>5, <2>4, <2>5 DEF PlainParts
<1>8. QED
  BY <1>6, <1>7

(* A token begins: the next start is written.                              *)
LEMMA PlainBegins ==
    ASSUME StrIInv, Plain, ScanParts, PlainParts, BeginToken
    PROVE  PlainParts'
<1> USE DEF call, cutter, copier, Return
<1>1. /\ Scanning /\ Outside /\ fn \in Tokenizers /\ pc = "skip" /\ pc' = "word"
      /\ UNCHANGED <<fn, org, max, text, n, p, ret>>
      /\ text[p] \in Chars \ Delm /\ tokens' = Put(n, p) /\ Starts' = Starts
  BY DEF BeginToken, Scanning, Outside, Plain, Starts, Begins
<1>2. CutsAreEnds /\ AllWritten /\ InOrder /\ AllFound /\ AtAStart /\ Unmarked
  BY DEF ScanParts, PlainParts
<1>3. /\ p \in 1..Len(org) /\ p \in Int /\ Len(org) \in Nat /\ n \in Nat /\ org[p] \notin Delm
      /\ Len(tokens) = n /\ ret = "none" /\ tokens \in Seq(Places) /\ p \in Places
      /\ \A i \in Starts : i \in 1..Len(org) /\ i \in Int
  <2>1. p \in 1..Len(org) /\ org[p] \notin Delm
    BY <1>1, <1>2, ScanSees, CharsAssumption
  <2>2. ret = "none"
    BY <1>1, <1>2 DEF AllWritten
  <2>3. Len(tokens) = n
    BY <1>1 DEF StrIInv, Filled, Outside
  <2>4. QED
    BY <1>1, <2>1, <2>2, <2>3, ScanFacts DEF Starts, Places
<1>4. p \in Starts
  BY <1>1, <1>2, <1>3 DEF AtAStart, Starts, Begins
<1>5. Len(tokens') = n + 1 /\ tokens'[n + 1] = p /\ \A k \in 1..n : tokens'[k] = tokens[k]
  <2>1. n <= Len(tokens)
    BY <1>3
  <2>2. Len(Put(n, p)) = n + 1
    BY <1>3, <2>1, PutOne
  <2>3. Put(n, p)[n + 1] = p /\ \A k \in 1..n : Put(n, p)[k] = tokens[k]
    BY <1>3, <2>1, PutElements
  <2>4. QED
    BY <1>1, <2>2, <2>3
<1>6. \A i \in Starts : i < p => \E j \in 1..n : tokens'[j] = i
  BY <1>1, <1>2, <1>3, <1>5 DEF AllFound
<1>7. InOrder'
  <2>1. ASSUME NEW k \in 1..(n + 1)
        PROVE  /\ tokens'[k] \in Starts /\ tokens'[k] <= p
               /\ \A j \in 1..(k - 1) : tokens'[j] < tokens'[k]
               /\ \A i \in Starts : i < tokens'[k] => \E j \in 1..(k - 1) : tokens'[j] = i
    <3>1. CASE k = n + 1
      <4>1. k - 1 = n /\ p <= p /\ tokens'[k] = p
        BY <1>3, <1>5, <3>1
      <4>2. \A j \in 1..n : tokens'[j] < p
        BY <1>1, <1>2, <1>3, <1>5 DEF AtAStart
      <4>3. QED
        BY <1>4, <1>6, <4>1, <4>2
    <3>2. CASE k \in 1..n
      <4>1. \A j \in 1..(k - 1) : j \in 1..n
        BY <1>3, <3>2
      <4>2. tokens'[k] = tokens[k] /\ \A j \in 1..(k - 1) : tokens'[j] = tokens[j]
        BY <1>5, <3>2, <4>1
      <4>3. /\ tokens[k] \in Starts /\ tokens[k] <= p
            /\ \A j \in 1..(k - 1) : tokens[j] < tokens[k]
            /\ \A i \in Starts : i < tokens[k] => \E j \in 1..(k - 1) : tokens[j] = i
        BY <1>2, <1>3, <3>2 DEF InOrder
      <4>4. \A i \in Starts : i < tokens[k] => \E j \in 1..(k - 1) : tokens'[j] = i
        BY <4>2, <4>3
      <4>5. QED
        BY <4>2, <4>3, <4>4
    <3>3. QED
      BY <1>3, <3>1, <3>2
  <2>2. QED
    BY <1>1, <1>5, <2>1 DEF InOrder
<1>8. AllFound'
  <2>1. \A k \in 1..n : k \in 1..(n + 1)
    BY <1>3
  <2>2. \A i \in Starts : i < p => \E k \in 1..(n + 1) : tokens'[k] = i
    BY <1>6, <2>1
  <2>3. QED
    BY <1>1, <1>3, <1>5, <2>2 DEF AllFound
<1>9. AtAStart' /\ Unmarked'
  BY <1>1, <1>2 DEF AtAStart, Outside, Unmarked
<1>10. QED
  BY <1>7, <1>8, <1>9 DEF PlainParts

(* Inside of a token, and where it ends.                                   *)
LEMMA PlainInside ==
    ASSUME StrIInv, Plain, ScanParts, PlainParts, Letter \/ EndToken \/ GotLast \/ GotToken
    PROVE  PlainParts'
<1> USE DEF call, cutter, copier, Return
<1>1. /\ Scanning /\ InToken /\ fn \in Tokenizers /\ pc \in {"word", "got"}
      /\ UNCHANGED <<fn, org, max, tokens>> /\ p' \in {p, p + 1}
      /\ Starts' = Starts
  BY DEF Letter, EndToken, GotLast, GotToken, Scanning, InToken, Plain, PlainParts, Unmarked,
         Starts, Begins
<1>2. CutsAreEnds /\ CurrentFits /\ AllWritten /\ InOrder /\ AllFound /\ AtAStart /\ Unmarked
  BY DEF ScanParts, PlainParts
<1>3. /\ p \in 1..(Len(org) + 1) /\ p \in Int /\ p' \in Int /\ p' >= p /\ Len(org) \in Nat
      /\ n \in Nat /\ n < max /\ max \in Nat /\ Len(tokens) = n + 1 /\ ret = "none"
      /\ \A k \in 1..Len(tokens) : tokens[k] \in Int /\ tokens[k] <= p
      /\ \A i \in Starts : i \in 1..Len(org) /\ i \in Int
      /\ \A i \in Starts : i < p => \E k \in 1..Len(tokens) : tokens[k] = i
  <2>1. p' \in Int /\ p' >= p
    BY <1>1, ScanFacts
  <2>2. ret = "none"
    BY <1>1, <1>2 DEF AllWritten
  <2>3. n < max
    BY <1>1, <1>2 DEF Unmarked, StrIInv, Filled
  <2>4. \A i \in Starts : i \in 1..Len(org) /\ i \in Int
    BY DEF Starts
  <2>5. QED
    BY <1>1, <1>2, <2>1, <2>2, <2>3, <2>4, ScanFacts DEF InOrder, AllFound
<1>4. InOrder'
  <2>1. \A k \in 1..Len(tokens) : tokens[k] <= p'
    BY <1>1, <1>3
  <2>2. QED
    BY <1>1, <1>2, <2>1 DEF InOrder
<1>5. CASE Letter
  <2>1. p' = p + 1 /\ ret' = ret /\ pc = "word" /\ pc' = "word" /\ n' = n
    BY <1>5 DEF Letter
  <2>2. p \in Starts => Current = p
    <3>1. SUFFICES ASSUME p \in Starts, Current # p PROVE FALSE
      OBVIOUS
    <3>2. Current \in 1..(Len(org) + 1) /\ Current <= p /\ NoDelm(Current, p)
      BY <1>1, <1>2, <1>3, <2>1, ScanFacts DEF CurrentFits, Current
    <3>3. p - 1 \in Current..(p - 1) /\ p > 1
      BY <1>3, <3>1, <3>2
    <3>4. QED
      BY <3>1, <3>2, <3>3 DEF NoDelm, Starts, Begins
  <2>3. \A i \in Starts : i < p' => \E k \in 1..Len(tokens) : tokens[k] = i
    <3>1. \A i \in Starts : i < p' => i < p \/ i = p
      BY <1>3, <2>1
    <3>2. n + 1 \in 1..Len(tokens)
      BY <1>3
    <3>3. QED
      BY <1>3, <2>2, <3>1, <3>2 DEF Current
  <2>4. AllFound'
    BY <1>1, <1>3, <2>1, <2>3 DEF AllFound
  <2>5. AtAStart' /\ Unmarked'
    BY <1>1, <1>2, <2>1 DEF AtAStart, Outside, Unmarked
  <2>6. QED
    BY <1>4, <2>4, <2>5 DEF PlainParts
<1>6. CASE EndToken
  <2>1. p' = p /\ ret' = ret /\ pc' = "got" /\ n' = n
    BY <1>6 DEF EndToken
  <2>2. AllFound'
    BY <1>1, <1>3, <2>1 DEF AllFound
  <2>3. AtAStart' /\ Unmarked'
    BY <1>1, <1>2, <1>3, <2>1 DEF AtAStart, Outside, Unmarked
  <2>4. QED
    BY <1>4, <2>2, <2>3 DEF PlainParts
<1>7. ASSUME GotLast \/ GotToken
      PROVE  n' = n + 1 /\ n' <= max /\ Len(tokens) = n'
  <2>1. no_delm > 0 \/ GotToken
    BY <1>1, <1>2, <1>7 DEF GotLast, CurrentFits
  <2>2. n' = n + 1
    BY <1>7, <2>1 DEF GotLast, GotToken, LastCounts
  <2>3. QED
    BY <1>3, <2>2
<1>8. ASSUME GotToken
      PROVE  p \in 1..Len(org) /\ org[p] \in Delm /\ p \notin Starts
  <2>1. p \in 1..Len(org)
    BY <1>1, <1>2, <1>8, ScanSees DEF GotToken
  <2>2. org[p] \in Delm
    BY <1>1, <1>2, <1>8, <2>1 DEF GotToken, CurrentFits, Plain
  <2>3. QED
    BY <2>1, <2>2 DEF Starts, Begins
<1>9. CASE GotLast \/ (GotToken /\ pc' = "done")
  <2>1. pc' = "done" /\ ret' = "OK" /\ n' = n + 1 /\ n' <= max /\ Len(tokens) = n'
    BY <1>7, <1>9 DEF GotLast, GotToken
  <2>2. \A i \in Starts : i < p
    <3>1. CASE GotLast
      <4>1. p = Len(org) + 1
        BY <1>1, <1>2, <3>1, ScanSees DEF GotLast
      <4>2. QED
        BY <1>3, <4>1
    <3>2. CASE GotToken
      <4>1. text[p + 1] = Nul
        BY <1>9, <3>2 DEF GotToken, GotLast
      <4>2. p = Len(org)
        BY <1>1, <1>2, <1>8, <3>2, <4>1, ScanSees
      <4>3. QED
        BY <1>3, <1>8, <3>2, <4>2
    <3>3. QED
      BY <1>9, <3>1, <3>2
  <2>3. AllFound'
    BY <1>1, <1>3, <2>1, <2>2 DEF AllFound, Scanning
  <2>4. AtAStart' /\ Unmarked'
    BY <1>1, <1>2, <2>1 DEF AtAStart, Outside, Unmarked
  <2>5. QED
    BY <1>4, <2>3, <2>4 DEF PlainParts
<1>10. CASE GotToken /\ pc' # "done"
  <2>1. pc' = "outer" /\ ret' = ret /\ p' = p + 1 /\ n' = n + 1 /\ n' <= max /\ Len(tokens) = n'
    BY <1>7, <1>10 DEF GotToken
  <2>2. \A i \in Starts : i < p' => i < p
    BY <1>3, <1>8, <1>10, <2>1
  <2>3. AllFound'
    BY <1>1, <1>3, <2>1, <2>2 DEF AllFound
  <2>4. AtAStart'
    <3>1. p' - 1 = p /\ \A k \in 1..Len(tokens) : tokens[k] < p'
      BY <1>3, <2>1
    <3>2. QED
      BY <1>1, <1>8, <1>10, <3>1 DEF AtAStart
  <2>5. Unmarked'
    BY <1>1, <2>1 DEF Unmarked
  <2>6. QED
    BY <1>4, <2>3, <2>4, <2>5 DEF PlainParts
<1>11. QED
  BY <1>5, <1>6, <1>9, <1>10

LEMMA PlainBeginning == StrInit => PlainInv
<1> SUFFICES ASSUME StrInit, Plain PROVE PlainParts
  BY DEF PlainInv
<1> USE DEF StrInit, FirstLoop
<1>1. StrIInv
  BY StrInitInv
<1>2. p = 1 /\ n = 0 /\ pc = "outer" /\ ret = "none" /\ Len(org) \in Nat /\ Len(tokens) = 0
      /\ max \in Nat
  BY <1>1, ScanFacts DEF Plain, Tokenizers, StrIInv, Filled
<1>3. InOrder /\ Unmarked
  BY <1>2 DEF InOrder, Unmarked
<1>4. AllFound /\ AtAStart
  BY <1>2 DEF AllFound, AtAStart, Starts
<1>5. QED
  BY <1>3, <1>4 DEF PlainParts

LEMMA PlainGoesOn == StrIInv /\ ScanInv /\ PlainInv /\ [StrNext]_strVars => PlainInv'
<1> SUFFICES ASSUME StrIInv, ScanInv, PlainInv, [StrNext]_strVars, Plain' PROVE PlainParts'
  BY DEF PlainInv
<1>1. UNCHANGED call
  BY DEF StrNext, strVars, Outer, SkipDelimiter, NothingLeft, BeginToken, Letter, OpenQuote,
         EscapedMark, CloseQuote, NoMark, EndToken, GotLast, GotToken, CheckMarks, CopyLetter,
         CopyEnd, TrimLetter, TrimEnd
<1>2. fn' = fn /\ org' = org
  BY <1>1 DEF call
<1>3. Plain
  BY <1>2 DEF Plain, Mark
<1>4. ScanParts /\ PlainParts
  BY <1>3, PlainIsRegular DEF ScanInv, PlainInv
<1>5. CASE Outer \/ SkipDelimiter \/ NothingLeft
  BY <1>3, <1>4, <1>5, PlainOutside
<1>6. CASE BeginToken
  BY <1>3, <1>4, <1>6, PlainBegins
<1>7. CASE Letter \/ EndToken \/ GotLast \/ GotToken
  BY <1>3, <1>4, <1>7, PlainInside
<1>8. CASE OpenQuote
  <2>1. Scanning /\ fn \in Tokenizers /\ CutsAreEnds
    BY <1>3, <1>4, <1>8 DEF OpenQuote, Scanning, Plain, ScanParts
  <2>2. p \in 1..Len(org) /\ text[p] = org[p]
    BY <1>8, <2>1, ScanSees, CharsAssumption DEF OpenQuote
  <2>3. Mark(p)
    BY <1>8, <2>2 DEF OpenQuote, IsQuoteHere, Mark
  <2>4. QED
    BY <1>3, <2>2, <2>3 DEF Plain
<1>9. CASE EscapedMark \/ CloseQuote \/ NoMark
  BY <1>4, <1>9 DEF EscapedMark, CloseQuote, NoMark, PlainParts, Unmarked
<1>10. CASE CheckMarks \/ CopyLetter \/ CopyEnd \/ TrimLetter \/ TrimEnd
  <2>1. fn \notin Tokenizers
    BY <1>10 DEF StrIInv, Filled, Tokenizers, CheckMarks, CopyLetter, CopyEnd, TrimLetter, TrimEnd
  <2>2. QED
    BY <1>3, <2>1 DEF Plain
<1>11. CASE UNCHANGED strVars
  <2> USE <1>4, <1>11 DEF strVars, call
  <2>1. Starts' = Starts
    BY DEF Starts, Begins
  <2>2. InOrder' /\ AllFound'
    BY <2>1 DEF PlainParts, InOrder, AllFound, Scanning
  <2>3. AtAStart' /\ Unmarked'
    BY DEF PlainParts, AtAStart, Outside, Unmarked
  <2>4. QED
    BY <2>2, <2>3 DEF PlainParts
<1>12. QED
  BY <1>5, <1>6, <1>7, <1>8, <1>9, <1>10, <1>11 DEF StrNext

(* The first m tokens are m places, since they ascend.                     *)
LEMMA AscendingCount ==
    ASSUME InOrder, NEW m \in Nat, m <= Len(tokens), Len(tokens) \in Nat, Len(org) \in Nat
    PROVE  /\ IsFiniteSet({tokens[j] : j \in 1..m})
           /\ Cardinality({tokens[j] : j \in 1..m}) = m
<1> DEFINE S == {tokens[j] : j \in 1..m}
           f == [j \in 1..m |-> tokens[j]]
<1>1. \A a, b \in 1..m : a < b => tokens[a] < tokens[b]
  <2> SUFFICES ASSUME NEW a \in 1..m, NEW b \in 1..m, a < b PROVE tokens[a] < tokens[b]
    OBVIOUS
  <2>1. b \in 1..Len(tokens) /\ a \in 1..(b - 1)
    OBVIOUS
  <2>2. QED
    BY <2>1 DEF InOrder
<1>2. \A a \in 1..m : tokens[a] \in Int
  BY DEF InOrder, Starts
<1>3. \A a, b \in 1..m : f[a] = f[b] => a = b
  <2> SUFFICES ASSUME NEW a \in 1..m, NEW b \in 1..m, tokens[a] = tokens[b] PROVE a = b
    OBVIOUS
  <2>1. a < b \/ b < a \/ a = b
    OBVIOUS
  <2>2. ~(a < b) /\ ~(b < a)
    BY <1>1, <1>2
  <2>3. QED
    BY <2>1, <2>2
<1>4. f \in [1..m -> S] /\ \A t \in S : \E s \in 1..m : f[s] = t
  OBVIOUS
<1> HIDE DEF S, f
<1>5. f \in Bijection(1..m, S)
  <2>1. f \in Injection(1..m, S)
    BY <1>3, <1>4 DEF Injection, IsInjective
  <2>2. f \in Surjection(1..m, S)
    BY <1>4 DEF Surjection
  <2>3. QED
    BY <2>1, <2>2 DEF Bijection
<1>6. ExistsBijection(1..m, S)
  BY <1>5 DEF ExistsBijection
<1>7. Cardinality(S) = m /\ IsFiniteSet(S)
  BY <1>6, FS_CountingElements, FS_NatBijection
<1>8. QED
  BY <1>7 DEF S

(* Without marks, a token is a run. *)
LEMMA TokenIsRun ==
    ASSUME StrIInv, Plain, ScanParts, NEW k \in 1..n, tokens[k] \in 1..(Len(org) + 1)
    PROVE  Body(tokens[k]) = Run(tokens[k])
<1>1. Regular
  BY PlainIsRegular
<1>2. PICK e \in 1..p : EndsAt(tokens[k], e)
  BY DEF ScanParts, TokensEnd
<1>3. Body(tokens[k]) = tokens[k]..(e - 1)
  BY <1>1, <1>2, BodyEnds
<1>4. /\ Len(org) \in Nat /\ p \in 1..(Len(org) + 1)
      /\ \A j \in 1..Len(org) : org[j] # Nul
  BY ScanFacts DEF Plain
<1>5. tokens[k] \in Int /\ 1 <= tokens[k] /\ tokens[k] <= e /\ e \in Int /\ 1 <= e /\ e <= Len(org) + 1
  BY <1>2, <1>4 DEF EndsAt
<1>6. NoDelm(tokens[k], e)
  <2>1. SUFFICES ASSUME BetweenMarks(tokens[k], e) PROVE FALSE
    BY <1>2 DEF EndsAt
  <2>2. e \in 1..Len(org) /\ Mark(e)
    BY <1>4, <1>5, <2>1 DEF BetweenMarks, Mark
  <2>3. QED
    BY <2>2 DEF Plain
<1>7. e <= Len(org) => org[e] \in Delm
  <2> SUFFICES ASSUME e <= Len(org) PROVE org[e] \in Delm
    OBVIOUS
  <2>1. e \in 1..Len(org)
    BY <1>5
  <2>2. text[e] = Nul /\ org[e] # Nul
    BY <1>2, <1>4, <2>1 DEF EndsAt
  <2>3. QED
    BY <2>1, <2>2 DEF ScanParts, CutsAreEnds, Plain
<1>8. ASSUME NEW j \in Run(tokens[k])
      PROVE  j \in tokens[k]..(e - 1)
  <2>1. j \in Int /\ tokens[k] <= j /\ j <= Len(org) /\ \A i \in tokens[k]..j : org[i] \notin Delm
    BY <1>4, <1>5, <1>8 DEF Run
  <2>2. j < e
    BY <1>5, <1>7, <2>1
  <2>3. QED
    BY <1>5, <2>1, <2>2
<1>9. ASSUME NEW j \in tokens[k]..(e - 1)
      PROVE  j \in Run(tokens[k])
  <2>1. j \in tokens[k]..Len(org) /\ \A i \in tokens[k]..j : i \in tokens[k]..(e - 1)
    BY <1>4, <1>5, <1>9
  <2>2. QED
    BY <1>6, <2>1 DEF NoDelm, Run
<1>10. QED
  BY <1>3, <1>8, <1>9

LEMMA RunsInv == StrIInv /\ ScanInv /\ PlainInv => TokensAreTheRuns
<1> SUFFICES ASSUME StrIInv, ScanInv, PlainInv, Plain, ret = "OK"
             PROVE  /\ n = (IF Cardinality(Starts) < max THEN Cardinality(Starts) ELSE max)
                    /\ Len(tokens) = n
                    /\ \A k \in 1..n :
                          /\ tokens[k] \in Starts
                          /\ Cardinality({i \in Starts : i < tokens[k]}) = k - 1
                          /\ Body(tokens[k]) = Run(tokens[k])
  BY DEF TokensAreTheRuns, Plain, Tokenizers, Mark
<1>1. ScanParts /\ PlainParts
  BY PlainIsRegular DEF ScanInv, PlainInv
<1>2. InOrder /\ AllFound /\ n <= max /\ Len(tokens) = n
  BY <1>1 DEF PlainParts, Unmarked, ScanParts, AllWritten
<1>3. n \in Nat /\ max \in Nat /\ Len(org) \in Nat /\ Starts \subseteq 1..Len(org)
  BY ScanFacts DEF Plain, Starts
<1>4. ASSUME NEW k \in 1..n
      PROVE  /\ tokens[k] \in Starts
             /\ Cardinality({i \in Starts : i < tokens[k]}) = k - 1
             /\ Body(tokens[k]) = Run(tokens[k])
  <2>1. tokens[k] \in Starts /\ tokens[k] \in 1..(Len(org) + 1)
    <3>1. tokens[k] \in Starts
      BY <1>2 DEF InOrder
    <3>2. tokens[k] \in 1..Len(org)
      BY <1>3, <3>1
    <3>3. QED
      BY <1>3, <3>1, <3>2
  <2>2. {i \in Starts : i < tokens[k]} = {tokens[j] : j \in 1..(k - 1)}
    <3>1. \A i \in Starts : i < tokens[k] => \E j \in 1..(k - 1) : tokens[j] = i
      BY <1>2 DEF InOrder
    <3>2. \A j \in 1..(k - 1) : tokens[j] \in Starts /\ tokens[j] < tokens[k]
      <4>1. \A j \in 1..(k - 1) : j \in 1..n
        BY <1>3
      <4>2. QED
        BY <1>2, <4>1 DEF InOrder
    <3>3. QED
      BY <3>1, <3>2
  <2>3. k - 1 \in Nat /\ k - 1 <= Len(tokens) /\ Len(tokens) \in Nat
    BY <1>2, <1>3
  <2>4. Cardinality({tokens[j] : j \in 1..(k - 1)}) = k - 1
    BY <1>2, <1>3, <2>3, AscendingCount
  <2>5. Body(tokens[k]) = Run(tokens[k])
    BY <1>1, <2>1, TokenIsRun
  <2>6. QED
    BY <2>1, <2>2, <2>4, <2>5
<1>5. n = (IF Cardinality(Starts) < max THEN Cardinality(Starts) ELSE max)
  <2> DEFINE S == {tokens[j] : j \in 1..n}
  <2>1. S \subseteq Starts
    BY <1>4
  <2>2. Cardinality(S) = n
    <3>1. n <= Len(tokens) /\ Len(tokens) \in Nat
      BY <1>2, <1>3
    <3>2. QED
      BY <1>2, <1>3, <3>1, AscendingCount
  <2> HIDE DEF S
  <2>3. IsFiniteSet(Starts)
    <3>1. 1 \in Int /\ Len(org) \in Int
      BY <1>3
    <3>2. IsFiniteSet(1..Len(org))
      BY <3>1, FS_Interval
    <3>3. QED
      BY <1>3, <3>2, FS_Subset
  <2>4. n <= Cardinality(Starts) /\ Cardinality(Starts) \in Nat
    BY <2>1, <2>2, <2>3, FS_Subset, FS_CardinalityType
  <2>5. CASE n = max
    BY <1>3, <2>4, <2>5
  <2>6. CASE n # max
    <3>1. \A i \in Starts : i \in S
      BY <1>2, <2>6 DEF AllFound, S
    <3>2. S = Starts
      BY <2>1, <3>1
    <3>3. QED
      BY <1>2, <1>3, <2>2, <2>6, <3>2
  <2>7. QED
    BY <2>5, <2>6
<1>6. QED
  BY <1>2, <1>4, <1>5

(* For any texts, delimiters, marks and arrays, both tokenizers return the  *)
(* runs of letters of a text without marks: the first max, ascending, whole. *)
THEOREM TokensAreFound == StrSpec => []TokensAreTheRuns
<1>1. StrInit => StrIInv /\ ScanInv /\ PlainInv
  BY StrInitInv, ScanBegins, PlainBeginning
<1>2. StrIInv /\ ScanInv /\ PlainInv /\ [StrNext]_strVars => StrIInv' /\ ScanInv' /\ PlainInv'
  BY StrStepInv, ScanGoesOn, PlainGoesOn
<1>3. QED
  BY <1>1, <1>2, RunsInv, PTL DEF StrSpec

(***************************************************************************)
(* What mccp_str_unescape() copies.  Kept is recursive: what it is for a    *)
(* text of any length follows by induction, which rests on the order of the *)
(* numbers.                                                                *)
(***************************************************************************)
LEMMA LeastNumber ==
    ASSUME NEW S, S \subseteq Nat, S # {}
    PROVE  \E x \in S : \A y \in S : x <= y
<1>1. PICK x \in S : \A y \in S : ~(<<y, x>> \in OpToRel(<, Nat))
  BY NatLessThanWellFounded, WFMin
<1>2. \A y \in S : ~(y < x)
  BY <1>1 DEF OpToRel
<1>3. ASSUME NEW y \in S
      PROVE  x <= y
  <2>1. x \in Nat /\ y \in Nat /\ ~(y < x)
    BY <1>2
  <2>2. QED
    BY <2>1
<1>4. QED
  BY <1>3

LEMMA AllNumbers ==
    ASSUME NEW S, 0 \in S, \A i \in Nat : i \in S => i + 1 \in S
    PROVE  Nat \subseteq S
<1> DEFINE Others == Nat \ S
<1>1. SUFFICES ASSUME Others # {} PROVE FALSE
  OBVIOUS
<1>2. PICK x \in Others : \A y \in Others : x <= y
  BY <1>1, LeastNumber
<1>3. x # 0 /\ x \in Nat
  OBVIOUS
<1>4. x - 1 \in Nat /\ x - 1 \notin Others
  BY <1>2, <1>3
<1>5. QED
  BY <1>3, <1>4

KeepOne(s, f, i) ==
    IF i = 0 THEN <<>>
    ELSE IF s[i] = Bs THEN f[i - 1] ELSE Append(f[i - 1], s[i])

KeepsTo(s, f, k) == f \in [0..k -> Seq(Chars)] /\ \A i \in 0..k : f[i] = KeepOne(s, f, i)

(* The function of the recursive definition exists, and is what it says.   *)
LEMMA KeptIsDefined ==
    ASSUME NEW s \in Seq(Chars)
    PROVE  /\ Kept(s) \in [0..Len(s) -> Seq(Chars)]
           /\ \A i \in 0..Len(s) : Kept(s)[i] = KeepOne(s, Kept(s), i)
<1> DEFINE S == {k \in Nat : k <= Len(s) => \E f : KeepsTo(s, f, k)}
<1>0. Len(s) \in Nat /\ \A i \in 1..Len(s) : s[i] \in Chars
  BY LenProperties, ElementOfSeq
<1>1. 0 \in S
  <2> DEFINE f == [i \in 0..0 |-> <<>>]
  <2>1. \A i \in 0..0 : i = 0
    OBVIOUS
  <2>2. <<>> \in Seq(Chars)
    BY EmptySeq
  <2>3. KeepsTo(s, f, 0)
    BY <2>1, <2>2 DEF KeepsTo, KeepOne
  <2>4. QED
    BY <2>3
<1>2. ASSUME NEW k \in Nat, k \in S
      PROVE  k + 1 \in S
  <2>1. SUFFICES ASSUME k + 1 <= Len(s) PROVE \E f : KeepsTo(s, f, k + 1)
    OBVIOUS
  <2>2. PICK g : KeepsTo(s, g, k)
    BY <1>0, <1>2, <2>1
  <2> DEFINE f == [i \in 0..(k + 1) |-> IF i <= k THEN g[i] ELSE KeepOne(s, g, k + 1)]
  <2>3. KeepOne(s, g, k + 1) \in Seq(Chars)
    <3>1. k + 1 \in 1..Len(s) /\ (k + 1) - 1 = k /\ k \in 0..k
      BY <1>0, <2>1
    <3>2. g[k] \in Seq(Chars) /\ s[k + 1] \in Chars
      BY <1>0, <2>2, <3>1 DEF KeepsTo
    <3>3. Append(g[k], s[k + 1]) \in Seq(Chars)
      BY <3>2, AppendProperties
    <3>4. QED
      BY <3>1, <3>2, <3>3 DEF KeepOne
  <2>4. f \in [0..(k + 1) -> Seq(Chars)]
    <3>1. \A i \in 0..(k + 1) : i <= k => i \in 0..k
      OBVIOUS
    <3>2. QED
      BY <2>2, <2>3, <3>1 DEF KeepsTo
  <2>5. ASSUME NEW i \in 0..(k + 1)
        PROVE  f[i] = KeepOne(s, f, i)
    <3>1. i = 0 \/ (i - 1 \in 0..(k + 1) /\ i - 1 <= k /\ f[i - 1] = g[i - 1])
      OBVIOUS
    <3>2. KeepOne(s, f, i) = KeepOne(s, g, i)
      BY <3>1 DEF KeepOne
    <3>3. CASE i <= k
      BY <2>2, <3>2, <3>3 DEF KeepsTo
    <3>4. CASE i = k + 1
      BY <3>2, <3>4
    <3>5. QED
      BY <3>3, <3>4
  <2>6. QED
    BY <2>4, <2>5 DEF KeepsTo
<1>3. Len(s) \in S
  <2> HIDE DEF S
  <2>1. QED
    BY <1>0, <1>1, <1>2, AllNumbers
<1>4. PICK f : KeepsTo(s, f, Len(s))
  BY <1>0, <1>3
<1>5. f = [i \in 0..Len(s) |-> KeepOne(s, f, i)]
  BY <1>4 DEF KeepsTo
<1>6. \E g : g = [i \in 0..Len(s) |-> KeepOne(s, g, i)]
  BY <1>5
<1>7. Kept(s) = [i \in 0..Len(s) |-> KeepOne(s, Kept(s), i)]
  BY <1>6 DEF Kept, KeepOne
<1> DEFINE k == Kept(s)
<1> HIDE DEF k
<1>8. k = [i \in 0..Len(s) |-> KeepOne(s, k, i)]
  BY <1>7 DEF k
<1>9. \A i \in 0..Len(s) : k[i] = KeepOne(s, k, i)
  BY <1>8
<1> DEFINE R == {i \in Nat : i <= Len(s) => k[i] \in Seq(Chars)}
<1>10. 0 \in R
  <2>1. k[0] = <<>>
    BY <1>0, <1>9 DEF KeepOne
  <2>2. QED
    BY <2>1, EmptySeq
<1>11. ASSUME NEW i \in Nat, i \in R
       PROVE  i + 1 \in R
  <2>1. SUFFICES ASSUME i + 1 <= Len(s) PROVE k[i + 1] \in Seq(Chars)
    OBVIOUS
  <2>2. i + 1 \in 0..Len(s) /\ i + 1 \in 1..Len(s) /\ (i + 1) - 1 = i /\ i <= Len(s) /\ i + 1 # 0
    BY <1>0, <2>1
  <2>3. k[i] \in Seq(Chars) /\ s[i + 1] \in Chars
    BY <1>0, <1>11, <2>2
  <2>4. Append(k[i], s[i + 1]) \in Seq(Chars)
    BY <2>3, AppendProperties
  <2>5. QED
    BY <1>9, <2>2, <2>3, <2>4 DEF KeepOne
<1>12. Nat \subseteq R
  <2> HIDE DEF R
  <2>1. QED
    BY <1>10, <1>11, AllNumbers
<1>13. \A i \in 0..Len(s) : k[i] \in Seq(Chars)
  BY <1>0, <1>12
<1>14. QED
  BY <1>8, <1>9, <1>13 DEF k

(* Texts with the same beginning keep the same of it. *)
LEMMA KeptBeginning ==
    ASSUME NEW s \in Seq(Chars), NEW t \in Seq(Chars), NEW k \in Nat, k <= Len(s), k <= Len(t),
           \A i \in 1..k : s[i] = t[i]
    PROVE  Kept(s)[k] = Kept(t)[k]
<1> DEFINE S == {i \in Nat : i <= k => Kept(s)[i] = Kept(t)[i]}
<1>0. /\ Len(s) \in Nat /\ Len(t) \in Nat
      /\ \A i \in 0..Len(s) : Kept(s)[i] = KeepOne(s, Kept(s), i)
      /\ \A i \in 0..Len(t) : Kept(t)[i] = KeepOne(t, Kept(t), i)
  BY KeptIsDefined, LenProperties
<1>1. 0 \in S
  BY <1>0 DEF KeepOne
<1>2. ASSUME NEW i \in Nat, i \in S
      PROVE  i + 1 \in S
  <2>1. SUFFICES ASSUME i + 1 <= k PROVE Kept(s)[i + 1] = Kept(t)[i + 1]
    OBVIOUS
  <2>2. /\ i + 1 \in 0..Len(s) /\ i + 1 \in 0..Len(t) /\ i + 1 \in 1..k
        /\ (i + 1) - 1 = i /\ i + 1 # 0 /\ i <= k
    BY <1>0, <2>1
  <2>3. s[i + 1] = t[i + 1] /\ Kept(s)[i] = Kept(t)[i]
    BY <1>2, <2>2
  <2>4. QED
    BY <1>0, <2>2, <2>3 DEF KeepOne
<1>3. Nat \subseteq S
  <2> HIDE DEF S
  <2>1. QED
    BY <1>1, <1>2, AllNumbers
<1>4. QED
  BY <1>3

(* One more letter is kept unless it is a backslash. *)
LEMMA KeptOneMore ==
    ASSUME NEW s \in Seq(Chars), NEW c \in Chars
    PROVE  WithoutBs(Append(s, c)) = IF c = Bs THEN WithoutBs(s) ELSE Append(WithoutBs(s), c)
<1> DEFINE t == Append(s, c)
<1>1. /\ t \in Seq(Chars) /\ Len(t) = Len(s) + 1 /\ Len(s) \in Nat
      /\ \A i \in 1..Len(s) : t[i] = s[i] /\ t[Len(s) + 1] = c
  BY AppendProperties, LenProperties
<1>2. t[Len(s) + 1] = c
  BY AppendProperties
<1> HIDE DEF t
<1>3. Kept(t)[Len(s)] = Kept(s)[Len(s)]
  BY <1>1, KeptBeginning
<1>4. Len(t) \in 0..Len(t) /\ Len(t) # 0 /\ Len(t) - 1 = Len(s)
  BY <1>1
<1>5. Kept(t)[Len(t)] = KeepOne(t, Kept(t), Len(t))
  BY <1>1, <1>4, KeptIsDefined
<1>6. QED
  BY <1>1, <1>2, <1>3, <1>4, <1>5 DEF KeepOne, WithoutBs, t

(* The text keeps as it is up to where the copy stands, and what was copied *)
(* is what was read but for backslashes.                                    *)
Escapes == \A i \in 1..Len(org) : org[i] = Bs => i < Len(org) /\ org[i + 1] \in Quote

CopyParts ==
    /\ \A i \in 1..Len(org) : text[i] = org[i]
    /\ WithoutBs(out) = Kept(org)[p - 1]
    /\ got_bs => p > 1 /\ org[p - 1] = Bs
    /\ Escapes => out = Kept(org)[p - 1]
    /\ ret = "OK" => p = Len(org) + 1

CopyInv == fn = "unescape" => CopyParts

LEMMA CopyBegins == StrInit => CopyInv
<1> SUFFICES ASSUME StrInit, fn = "unescape" PROVE CopyParts
  BY DEF CopyInv
<1> USE DEF StrInit, FirstLoop
<1>1. StrIInv
  BY StrInitInv
<1>2. Len(org) \in Nat /\ org \in Seq(Chars) /\ p = 1 /\ out = <<>> /\ ret = "none" /\ ~got_bs
  BY <1>1, LenProperties DEF StrIInv, StrTypeOK
<1>3. \A i \in 1..Len(org) : text[i] = org[i]
  BY <1>2 DEF Buffer
<1>4. Kept(org)[0] = <<>>
  BY <1>2, KeptIsDefined DEF KeepOne
<1>5. WithoutBs(<<>>) = <<>>
  <2>1. <<>> \in Seq(Chars) /\ Len(<<>>) = 0 /\ 0 \in 0..0
    BY EmptySeq
  <2>2. QED
    BY <2>1, KeptIsDefined DEF KeepOne, WithoutBs
<1>6. p - 1 = 0
  BY <1>2
<1>7. QED
  BY <1>2, <1>3, <1>4, <1>5, <1>6 DEF CopyParts

LEMMA LetterIsCopied ==
    ASSUME StrIInv, fn = "unescape", CopyParts, CopyLetter
    PROVE  CopyParts'
<1> USE DEF call, cutter
<1>1. /\ org \in Seq(Chars) /\ Len(org) \in Nat /\ out \in Seq(Chars) /\ p \in 1..Len(org)
      /\ text[p] = org[p] /\ org[p] \in Chars /\ p - 1 \in Nat
  <2>1. /\ org \in Seq(Chars) /\ Len(org) \in Nat /\ out \in Seq(Chars) /\ p \in 1..(Len(org) + 1)
        /\ text[Len(org) + 1] = Nul
    BY LenProperties DEF StrIInv, StrTypeOK, InBounds
  <2>2. p \in 1..Len(org) /\ p - 1 \in Nat
    BY <2>1 DEF CopyLetter
  <2>3. QED
    BY <2>1, <2>2, ElementOfSeq DEF CopyParts
<1>2. UNCHANGED <<org, text, ret>> /\ p' = p + 1 /\ pc = "copy"
  BY DEF CopyLetter
<1>3. ret # "OK"
  BY <1>1, <1>2 DEF CopyParts
<1>4. Kept(org)[p] = IF org[p] = Bs THEN Kept(org)[p - 1] ELSE Append(Kept(org)[p - 1], org[p])
  <2>1. p \in 0..Len(org) /\ p # 0
    BY <1>1
  <2>2. QED
    BY <1>1, <2>1, KeptIsDefined DEF KeepOne
<1>5. SUFFICES /\ WithoutBs(out') = Kept(org)[p]
               /\ got_bs' => org[p] = Bs
               /\ Escapes => out' = Kept(org)[p]
  <2>1. p' - 1 = p /\ p' > 1
    BY <1>1, <1>2
  <2>2. QED
    BY <1>2, <1>3, <1>5, <2>1 DEF CopyParts, Escapes
<1>6. WithoutBs(out) = Kept(org)[p - 1] /\ (Escapes => out = Kept(org)[p - 1])
  BY DEF CopyParts
<1>7. CASE got_bs
  <2>1. out' = out \o Unescaped(org[p]) /\ ~got_bs'
    BY <1>1, <1>7 DEF CopyLetter
  <2>2. CASE org[p] \in Quote
    <3>1. org[p] # Bs
      BY <2>2, CharsAssumption
    <3>2. out' = Append(out, org[p])
      BY <1>1, <2>1, <2>2, AppendIsConcat DEF Unescaped
    <3>3. WithoutBs(out') = Append(WithoutBs(out), org[p])
      BY <1>1, <3>1, <3>2, KeptOneMore
    <3>4. QED
      BY <1>4, <1>6, <2>1, <3>1, <3>2, <3>3
  <2>3. CASE org[p] \notin Quote
    <3>1. Unescaped(org[p]) = <<Bs, org[p]>>
      BY <2>3 DEF Unescaped
    <3>2. Append(out, Bs) \in Seq(Chars) /\ Bs \in Chars
      BY <1>1, CharsAssumption, AppendProperties
    <3>3. out' = Append(Append(out, Bs), org[p])
      <4>1. <<Bs>> \in Seq(Chars) /\ <<org[p]>> \in Seq(Chars)
        BY <1>1, <3>2
      <4>2. <<Bs, org[p]>> = <<Bs>> \o <<org[p]>>
        OBVIOUS
      <4>3. out \o <<Bs, org[p]>> = (out \o <<Bs>>) \o <<org[p]>>
        BY <1>1, <4>1, <4>2, ConcatAssociative
      <4>4. QED
        BY <1>1, <2>1, <3>1, <3>2, <4>3, AppendIsConcat
    <3>4. WithoutBs(Append(out, Bs)) = WithoutBs(out)
      BY <1>1, <3>2, KeptOneMore
    <3>5. WithoutBs(out') = Kept(org)[p]
      <4> DEFINE b == Append(out, Bs)
      <4> HIDE DEF b
      <4>1. b \in Seq(Chars) /\ out' = Append(b, org[p]) /\ WithoutBs(b) = WithoutBs(out)
        BY <3>2, <3>3, <3>4 DEF b
      <4>2. WithoutBs(Append(b, org[p])) = IF org[p] = Bs THEN WithoutBs(b) ELSE Append(WithoutBs(b), org[p])
        BY <1>1, <4>1, KeptOneMore
      <4>3. QED
        BY <1>4, <1>6, <4>1, <4>2
    <3>6. ~Escapes
      <4>1. p > 1 /\ org[p - 1] = Bs
        BY <1>7 DEF CopyParts
      <4>2. p - 1 \in 1..Len(org) /\ (p - 1) + 1 = p
        BY <1>1, <4>1
      <4>3. QED
        BY <2>3, <4>1, <4>2 DEF Escapes
    <3>7. QED
      BY <2>1, <3>5, <3>6
  <2>4. QED
    BY <2>2, <2>3
<1>8. CASE ~got_bs /\ org[p] = Bs
  <2>1. out' = out /\ got_bs'
    BY <1>1, <1>8 DEF CopyLetter
  <2>2. QED
    BY <1>4, <1>6, <1>8, <2>1
<1>9. CASE ~got_bs /\ org[p] # Bs
  <2>1. out' = Append(out, org[p]) /\ ~got_bs'
    BY <1>1, <1>9 DEF CopyLetter
  <2>2. WithoutBs(out') = Append(WithoutBs(out), org[p])
    BY <1>1, <1>9, <2>1, KeptOneMore
  <2>3. QED
    BY <1>4, <1>6, <1>9, <2>1, <2>2
<1>10. QED
  BY <1>7, <1>8, <1>9

LEMMA CopyGoesOn == StrIInv /\ CopyInv /\ [StrNext]_strVars => CopyInv'
<1> SUFFICES ASSUME StrIInv, CopyInv, [StrNext]_strVars, fn' = "unescape" PROVE CopyParts'
  BY DEF CopyInv
<1>1. UNCHANGED call
  BY DEF StrNext, strVars, Outer, SkipDelimiter, NothingLeft, BeginToken, Letter, OpenQuote,
         EscapedMark, CloseQuote, NoMark, EndToken, GotLast, GotToken, CheckMarks, CopyLetter,
         CopyEnd, TrimLetter, TrimEnd
<1>2. org' = org /\ fn = "unescape" /\ CopyParts
  BY <1>1 DEF call, CopyInv
<1>3. CASE CopyLetter
  BY <1>2, <1>3, LetterIsCopied
<1>4. CASE CheckMarks \/ CopyEnd \/ UNCHANGED strVars
  <2>1. UNCHANGED <<text, p, got_bs, out>> /\ (ret' = "OK" => text[p] = Nul \/ ret = "OK")
    BY <1>4 DEF CheckMarks, CopyEnd, Return, strVars, cutter, copier
  <2>2. text[p] = Nul => p = Len(org) + 1
    <3>1. p \in 1..(Len(org) + 1) /\ Len(org) \in Nat /\ \A i \in 1..Len(org) : org[i] # Nul
      BY <1>2, LenProperties, ElementOfSeq, CharsAssumption DEF StrIInv, StrTypeOK, InBounds
    <3>2. QED
      BY <1>2, <3>1 DEF CopyParts
  <2>3. QED
    BY <1>2, <2>1, <2>2 DEF CopyParts, Escapes
<1>5. CASE ~(CopyLetter \/ CheckMarks \/ CopyEnd) /\ StrNext
  <2>1. fn # "unescape"
    BY <1>5
    DEF StrIInv, Filled, StrNext, Outer, SkipDelimiter, NothingLeft, BeginToken, Letter, OpenQuote,
        EscapedMark, CloseQuote, NoMark, EndToken, GotLast, GotToken, TrimLetter, TrimEnd
  <2>2. QED
    BY <1>2, <2>1
<1>6. QED
  BY <1>3, <1>4, <1>5

(* For any texts and marks, what mccp_str_unescape() returns differs from   *)
(* the text it was given by backslashes alone, and by all of them when each *)
(* escapes a mark.                                                          *)
THEOREM UnescapingUndoes == StrSpec => []EscapingIsUndone
<1>1. StrInit => StrIInv /\ CopyInv
  BY StrInitInv, CopyBegins
<1>2. StrIInv /\ CopyInv /\ [StrNext]_strVars => StrIInv' /\ CopyInv'
  BY StrStepInv, CopyGoesOn
<1>3. StrIInv /\ CopyInv => EscapingIsUndone
  <2>1. StrIInv => Len(org) \in Nat /\ (Len(org) + 1) - 1 = Len(org)
    BY LenProperties DEF StrIInv, StrTypeOK
  <2>2. QED
    BY <2>1 DEF CopyInv, CopyParts, Escapes, EscapingIsUndone, WithoutBs
<1>4. QED
  BY <1>1, <1>2, <1>3, PTL DEF StrSpec
-----------------------------------------------------------------------------
(***************************************************************************)
(* Words: a number in the range of a type is stored as it is.               *)
(***************************************************************************)
LEMMA DivMod ==
    ASSUME NEW w \in Nat \ {0}, NEW v \in Int
    PROVE  /\ v \div w \in Int /\ v % w \in Int
           /\ v = (w * (v \div w)) + (v % w) /\ 0 <= v % w /\ v % w < w
OBVIOUS

LEMMA ModSmall ==
    ASSUME NEW w \in Nat \ {0}, NEW v \in Int, 0 <= v, v < w
    PROVE  v % w = v /\ v \div w = 0
OBVIOUS

LEMMA ModNegative ==
    ASSUME NEW w \in Nat \ {0}, NEW v \in Int, -w <= v, v < 0
    PROVE  v % w = v + w
OBVIOUS

LEMMA HalfOf ==
    ASSUME NEW w \in Nat \ {0}, w % 2 = 0
    PROVE  w \div 2 \in Nat \ {0} /\ w = (w \div 2) + (w \div 2)
OBVIOUS

LEMMA WordFacts ==
    /\ \A i \in 1..3 : Words[i] \in Nat \ {0} /\ Words[i] % 2 = 0 /\ Words[i] <= Words[3]
    /\ Words[3] = Words[2] * Words[2]
<1>1. /\ Words[1] \in Nat \ {0} /\ Words[2] \in Nat \ {0} /\ Words[3] \in Nat \ {0}
      /\ Words[1] < Words[2] /\ Words[3] = Words[2] * Words[2]
      /\ Words[1] % 2 = 0 /\ Words[2] % 2 = 0
  BY NumbersAssumption
<1> DEFINE a == Words[1]
           b == Words[2]
           c == Words[3]
<1> HIDE DEF a, b, c
<1>2. a \in Nat \ {0} /\ b \in Nat \ {0} /\ c \in Nat \ {0} /\ a < b /\ c = b * b /\ a % 2 = 0 /\ b % 2 = 0
  BY <1>1 DEF a, b, c
<1>3. b <= b * b
  BY <1>2
<1>4. c % 2 = 0
  <2>1. PICK k \in Int : b = 2 * k
    BY <1>2, DivMod
  <2>2. c = 2 * (k * b) /\ k * b \in Int
    BY <1>2, <2>1
  <2> DEFINE d == k * b
  <2> HIDE DEF d
  <2>3. d \in Int /\ c = 2 * d
    BY <2>2 DEF d
  <2>4. QED
    BY <2>3
<1>5. a <= c /\ b <= c
  BY <1>2, <1>3
<1>6. \A i \in 1..3 : i = 1 \/ i = 2 \/ i = 3
  OBVIOUS
<1>7. QED
  BY <1>2, <1>4, <1>5, <1>6 DEF a, b, c

(* A word of w values holds its numbers, signed and unsigned. *)
LEMMA SignedHolds ==
    ASSUME NEW w \in Nat \ {0}, w % 2 = 0, NEW v \in Int, -(w \div 2) <= v, v <= (w \div 2) - 1
    PROVE  Signed(v % w, w) = v
<1>1. w \div 2 \in Nat \ {0} /\ w = (w \div 2) + (w \div 2)
  BY HalfOf
<1> DEFINE h == w \div 2
<1> HIDE DEF h
<1>2. h \in Nat \ {0} /\ w = h + h /\ -h <= v /\ v <= h - 1
  BY <1>1 DEF h
<1>3. CASE v >= 0
  <2>1. v % w = v
    BY <1>2, <1>3, ModSmall
  <2>2. ~(v >= h)
    BY <1>2
  <2>3. QED
    BY <2>1, <2>2 DEF Signed, h
<1>4. CASE v < 0
  <2>1. -w <= v
    BY <1>2
  <2>2. v % w = v + w
    BY <1>4, <2>1, ModNegative
  <2>3. v + w >= h /\ (v + w) - w = v
    BY <1>2
  <2>4. QED
    BY <2>2, <2>3 DEF Signed, h
<1>5. QED
  BY <1>3, <1>4

LEMMA CastHolds ==
    ASSUME NEW t \in Types, NEW v \in Int, InRange(t, v)
    PROVE  CastTo(t, v) = v
<1> DEFINE w == Words[t.bits]
<1>1. w \in Nat \ {0} /\ w % 2 = 0 /\ t.signed \in BOOLEAN
  BY WordFacts DEF Types
<1>2. CASE t.signed
  <2>1. -(w \div 2) <= v /\ v <= (w \div 2) - 1
    BY <1>2 DEF InRange, Lower, Upper
  <2>2. Signed(v % w, w) = v
    BY <1>1, <2>1, SignedHolds
  <2>3. QED
    BY <1>2, <2>2 DEF CastTo
<1>3. CASE ~t.signed
  <2>1. 0 <= v /\ v <= w - 1
    BY <1>3 DEF InRange, Lower, Upper
  <2> HIDE DEF w
  <2>2. v % w = v
    BY <1>1, <2>1, ModSmall
  <2>3. QED
    BY <1>3, <2>2 DEF CastTo, w
<1>4. QED
  BY <1>1, <1>2, <1>3

(* The two halves of a number make up the number. *)
LEMMA HalvesHold ==
    ASSUME NEW v \in Nat, v < Words[3]
    PROVE  Halves(v) = v
<1> DEFINE h == Words[2]
           q == v \div h
           r == v % h
<1>1. h \in Nat \ {0} /\ v < h * h
  BY WordFacts
<1> HIDE DEF h
<1>2. q \in Int /\ r \in Int /\ v = (h * q) + r /\ 0 <= r /\ r < h
  BY <1>1, DivMod
<1> HIDE DEF q, r
<1>3. q >= 0
  <2>1. SUFFICES ASSUME q <= -1 PROVE FALSE
    BY <1>2
  <2>2. h * q <= -h
    BY <1>1, <1>2, <2>1
  <2>3. QED
    BY <1>1, <1>2, <2>2
<1>4. q < h
  <2>1. SUFFICES ASSUME q >= h PROVE FALSE
    BY <1>1, <1>2
  <2>2. h * q >= h * h
    BY <1>1, <1>2, <2>1
  <2>3. h * q \in Int /\ h * h \in Int
    BY <1>1, <1>2
  <2>4. QED
    BY <1>1, <1>2, <2>2, <2>3
<1>5. q % h = q
  BY <1>1, <1>2, <1>3, <1>4, ModSmall
<1>6. (q * h) + r = v
  BY <1>1, <1>2
<1>7. QED
  BY <1>5, <1>6 DEF Halves, h, q, r

LEMMA Uint64Holds ==
    ASSUME NEW v \in Int, -Words[3] < v, v < Words[3]
    PROVE  Uint64Of(v) = IF v < 0 THEN v + Words[3] ELSE v
<1> DEFINE w == Words[3]
<1>1. w \in Nat \ {0}
  BY WordFacts
<1> HIDE DEF w
<1>2. Magnitude(v) \in Nat /\ Magnitude(v) < w /\ Magnitude(v) = IF v < 0 THEN -v ELSE v
  BY <1>1 DEF Magnitude, w
<1>3. Halves(Magnitude(v)) = Magnitude(v)
  BY <1>2, HalvesHold DEF w
<1>4. CASE v < 0
  <2>1. (-v - 1) % w = -v - 1
    <3>1. -v - 1 \in Int /\ 0 <= -v - 1 /\ -v - 1 < w
      BY <1>1, <1>2, <1>4
    <3>2. QED
      BY <1>1, <3>1, ModSmall
  <2>2. Uint64Of(v) = (w - 1) - (-v - 1)
    BY <1>2, <1>3, <1>4, <2>1 DEF Uint64Of, w
  <2>3. QED
    BY <1>1, <1>4, <2>2 DEF w
<1>5. CASE ~(v < 0)
  BY <1>2, <1>3, <1>5 DEF Uint64Of
<1>6. QED
  BY <1>4, <1>5

(* Both builds store a number in the range of the type as it is. *)
LEMMA StoredHolds ==
    ASSUME NEW t \in Types, NEW v \in Int, InRange(t, v), NEW arch \in {32, 64}
    PROVE  Stored(t, v, arch) = v
<1> DEFINE w == Words[3]
           x == Words[t.bits]
<1>1. /\ x \in Nat \ {0} /\ x % 2 = 0 /\ x <= w /\ w \in Nat \ {0} /\ w % 2 = 0
      /\ t.signed \in BOOLEAN
  BY WordFacts DEF Types
<1>2. CastTo(t, v) = v
  BY CastHolds
<1>3. (t.signed => -(x \div 2) <= v /\ v <= (x \div 2) - 1) /\ (~t.signed => 0 <= v /\ v <= x - 1)
  BY DEF InRange, Lower, Upper
<1> HIDE DEF w, x
<1>4. /\ x \div 2 \in Nat \ {0} /\ w \div 2 \in Nat \ {0} /\ x = (x \div 2) + (x \div 2)
      /\ w = (w \div 2) + (w \div 2)
  BY <1>1, HalfOf
<1>5. -w < v /\ v < w /\ (t.signed => -(w \div 2) <= v /\ v <= (w \div 2) - 1)
  BY <1>1, <1>3, <1>4
<1>6. Uint64Of(v) = IF v < 0 THEN v + w ELSE v
  BY <1>5, Uint64Holds DEF w
<1>7. v % w = IF v < 0 THEN v + w ELSE v
  <2>1. v < 0 => v % w = v + w
    BY <1>1, <1>5, ModNegative
  <2>2. ~(v < 0) => v % w = v
    BY <1>1, <1>5, ModSmall
  <2>3. QED
    BY <2>1, <2>2
<1>8. t.signed => Signed(Uint64Of(v), w) = v
  BY <1>1, <1>5, <1>6, <1>7, SignedHolds
<1>9. ~t.signed => Uint64Of(v) = v
  BY <1>3, <1>6
<1>10. QED
  BY <1>2, <1>8, <1>9 DEF Stored, w
-----------------------------------------------------------------------------
(***************************************************************************)
(* Spaces in front of a text and behind it.                                 *)
(***************************************************************************)
LEMMA IsMin == ASSUME NEW S \in SUBSET Nat, NEW x \in S, \A y \in S : x <= y PROVE Min(S) = x
<1>1. \A z \in S : (\A y \in S : z <= y) => z = x
  OBVIOUS
<1>2. (CHOOSE z \in S : \A y \in S : z <= y) = x
  BY <1>1
<1>3. QED
  BY <1>2 DEF Min

LEMMA IsMax == ASSUME NEW S \in SUBSET Nat, NEW x \in S, \A y \in S : y <= x PROVE Max(S) = x
<1>1. \A z \in S : (\A y \in S : z >= y) => z = x
  OBVIOUS
<1>2. (CHOOSE z \in S : \A y \in S : z >= y) = x
  BY <1>1
<1>3. QED
  BY <1>2 DEF Max

LEMMA FirstPlace ==
    ASSUME NEW len \in Nat, NEW S \in SUBSET (1..len), S # {}
    PROVE  Min(S) \in S /\ \A y \in S : Min(S) <= y
<1>1. S \subseteq Nat /\ 1..len \subseteq Nat
  OBVIOUS
<1>2. PICK x \in S : \A y \in S : x <= y
  BY <1>1, LeastNumber
<1>3. QED
  BY <1>1, <1>2, IsMin

LEMMA LastPlace ==
    ASSUME NEW len \in Nat, NEW S \in SUBSET (1..len), S # {}
    PROVE  Max(S) \in S /\ \A y \in S : y <= Max(S)
<1> DEFINE T == {len - y : y \in S}
<1>0. S \subseteq Nat
  OBVIOUS
<1>1. T \subseteq Nat /\ T # {}
  <2>1. \A y \in 1..len : len - y \in Nat
    OBVIOUS
  <2>2. QED
    BY <2>1
<1>2. PICK z \in T : \A y \in T : z <= y
  BY <1>1, LeastNumber
<1>3. PICK x \in S : z = len - x
  BY <1>2
<1>4. \A y \in S : y <= x
  <2>1. \A y \in S : len - x <= len - y
    BY <1>2, <1>3
  <2>2. QED
    BY <2>1
<1>5. QED
  BY <1>0, <1>4, IsMax

(* The elements of a concatenation. *)
LEMMA Joined ==
    ASSUME NEW a \in Seq(Alphabet), NEW b \in Seq(Alphabet)
    PROVE  /\ a \o b \in Seq(Alphabet) /\ Len(a) \in Nat /\ Len(b) \in Nat /\ Len(a \o b) = Len(a) + Len(b)
           /\ \A i \in 1..Len(a) : (a \o b)[i] = a[i]
           /\ \A i \in 1..Len(b) : (a \o b)[Len(a) + i] = b[i]
<1>1. Len(a) \in Nat /\ Len(b) \in Nat
  BY LenProperties
<1>2. /\ a \o b \in Seq(Alphabet) /\ Len(a \o b) = Len(a) + Len(b)
      /\ \A i \in 1..(Len(a) + Len(b)) : (a \o b)[i] = IF i <= Len(a) THEN a[i] ELSE b[i - Len(a)]
  BY ConcatProperties
<1>3. \A i \in 1..Len(a) : i \in 1..(Len(a) + Len(b)) /\ i <= Len(a)
  BY <1>1
<1>4. \A i \in 1..Len(b) : /\ Len(a) + i \in 1..(Len(a) + Len(b)) /\ ~(Len(a) + i <= Len(a))
                           /\ (Len(a) + i) - Len(a) = i
  BY <1>1
<1>5. QED
  BY <1>1, <1>2, <1>3, <1>4

LEMMA SkippedText ==
    ASSUME NEW s \in Seq(Alphabet)
    PROVE  SkipSpaces(s) \in Seq(Alphabet)
<1>1. Len(s) \in Nat /\ NotSpace(s) \in SUBSET (1..Len(s))
  BY LenProperties DEF NotSpace
<1>2. CASE NotSpace(s) = {}
  BY <1>2, EmptySeq DEF SkipSpaces
<1>3. CASE NotSpace(s) # {}
  <2>1. Min(NotSpace(s)) \in 1..Len(s)
    BY <1>1, <1>3, FirstPlace
  <2>2. \A i \in Min(NotSpace(s))..Len(s) : s[i] \in Alphabet
    BY <1>1, <2>1, ElementOfSeq
  <2>3. QED
    BY <1>1, <1>3, <2>1, <2>2, SubSeqProperties DEF SkipSpaces
<1>4. QED
  BY <1>2, <1>3

LEMMA TrimmedText ==
    ASSUME NEW s \in Seq(Alphabet)
    PROVE  TrimSpaces(s) \in Seq(Alphabet)
<1>1. Len(s) \in Nat /\ NotSpace(s) \in SUBSET (1..Len(s))
  BY LenProperties DEF NotSpace
<1>2. CASE NotSpace(s) = {}
  BY <1>2, EmptySeq DEF TrimSpaces
<1>3. CASE NotSpace(s) # {}
  <2>1. Max(NotSpace(s)) \in 1..Len(s)
    BY <1>1, <1>3, LastPlace
  <2>2. \A i \in 1..Max(NotSpace(s)) : s[i] \in Alphabet
    BY <1>1, <2>1, ElementOfSeq
  <2>3. QED
    BY <1>1, <1>3, <2>1, <2>2, SubSeqProperties DEF TrimSpaces
<1>4. QED
  BY <1>2, <1>3

(* A text that begins, or ends, with another character is left as it is. *)
LEMMA NothingToSkip ==
    ASSUME NEW s \in Seq(Alphabet), s # <<>>, s[1] # "space"
    PROVE  SkipSpaces(s) = s
<1>1. Len(s) \in Nat \ {0}
  BY EmptySeq
<1>2. 1 \in NotSpace(s) /\ NotSpace(s) \in SUBSET Nat /\ \A y \in NotSpace(s) : 1 <= y
  BY <1>1 DEF NotSpace
<1>3. Min(NotSpace(s)) = 1
  BY <1>2, IsMin
<1>4. QED
  BY <1>2, <1>3, SubSeqFull DEF SkipSpaces

LEMMA NothingToTrim ==
    ASSUME NEW s \in Seq(Alphabet), s # <<>>, s[Len(s)] # "space"
    PROVE  TrimSpaces(s) = s
<1>1. Len(s) \in Nat \ {0}
  BY EmptySeq
<1>2. Len(s) \in NotSpace(s) /\ NotSpace(s) \in SUBSET Nat /\ \A y \in NotSpace(s) : y <= Len(s)
  BY <1>1 DEF NotSpace
<1>3. Max(NotSpace(s)) = Len(s)
  BY <1>2, IsMax
<1>4. QED
  BY <1>2, <1>3, SubSeqFull DEF TrimSpaces

(* Spaces in front make no difference to the one, spaces behind none to the other. *)
LEMMA SkipFront ==
    ASSUME NEW sp \in Seq(Alphabet), NEW s \in Seq(Alphabet), Blank(sp)
    PROVE  SkipSpaces(sp \o s) = SkipSpaces(s)
<1> DEFINE t == sp \o s
           k == Len(sp)
<1>1. /\ t \in Seq(Alphabet) /\ k \in Nat /\ Len(s) \in Nat /\ Len(t) = k + Len(s)
      /\ \A i \in 1..k : t[i] = "space"
      /\ \A i \in 1..Len(s) : t[k + i] = s[i]
  BY Joined DEF Blank
<1> HIDE DEF t, k
<1>2. ASSUME NEW i \in 1..Len(t), t[i] # "space"
      PROVE  i - k \in NotSpace(s) /\ k + (i - k) = i
  <2>1. ~(i <= k)
    BY <1>1, <1>2
  <2>2. i - k \in 1..Len(s) /\ k + (i - k) = i
    BY <1>1, <2>1
  <2>3. QED
    BY <1>1, <1>2, <2>2 DEF NotSpace
<1>3. ASSUME NEW j \in NotSpace(s)
      PROVE  k + j \in NotSpace(t)
  <2>1. j \in 1..Len(s) /\ k + j \in 1..Len(t) /\ s[j] # "space"
    BY <1>1 DEF NotSpace
  <2>2. QED
    BY <1>1, <2>1 DEF NotSpace
<1>4. CASE NotSpace(s) = {}
  <2>1. NotSpace(t) = {}
    BY <1>2, <1>4 DEF NotSpace
  <2>2. QED
    BY <1>4, <2>1 DEF SkipSpaces, t
<1>5. CASE NotSpace(s) # {}
  <2> DEFINE m == Min(NotSpace(s))
  <2>1. NotSpace(s) \in SUBSET (1..Len(s)) /\ NotSpace(t) \in SUBSET Nat
    BY <1>1 DEF NotSpace
  <2>2. m \in NotSpace(s) /\ \A y \in NotSpace(s) : m <= y
    BY <1>1, <1>5, <2>1, FirstPlace
  <2> HIDE DEF m
  <2>3. m \in 1..Len(s)
    BY <2>1, <2>2
  <2>4. k + m \in NotSpace(t)
    BY <1>3, <2>2
  <2>5. \A y \in NotSpace(t) : k + m <= y
    <3> SUFFICES ASSUME NEW y \in NotSpace(t) PROVE k + m <= y
      OBVIOUS
    <3>1. y \in 1..Len(t) /\ t[y] # "space"
      BY DEF NotSpace
    <3>2. y - k \in NotSpace(s)
      BY <1>2, <3>1
    <3>3. m <= y - k
      BY <2>2, <3>2
    <3>4. QED
      BY <1>1, <2>3, <3>1, <3>3
  <2>6. Min(NotSpace(t)) = k + m
    BY <2>1, <2>4, <2>5, IsMin
  <2>7. k + m \in k + 1..k + Len(s) /\ k + Len(s) \in k + 1..k + Len(s)
    BY <1>1, <2>3
  <2>8. SubSeq(t, k + m, k + Len(s)) = SubSeq(s, (k + m) - k, (k + Len(s)) - k)
    BY <2>7, SubSeqOfConcat2 DEF t, k
  <2>9. (k + m) - k = m /\ (k + Len(s)) - k = Len(s)
    BY <1>1, <2>3
  <2>10. SkipSpaces(t) = SubSeq(t, k + m, k + Len(s))
    BY <1>1, <2>4, <2>6 DEF SkipSpaces
  <2>11. SkipSpaces(s) = SubSeq(s, m, Len(s))
    BY <1>5 DEF SkipSpaces, m
  <2>12. QED
    BY <2>8, <2>9, <2>10, <2>11 DEF t
<1>6. QED
  BY <1>4, <1>5

LEMMA TrimBehind ==
    ASSUME NEW s \in Seq(Alphabet), NEW sp \in Seq(Alphabet), Blank(sp)
    PROVE  TrimSpaces(s \o sp) = TrimSpaces(s)
<1> DEFINE t == s \o sp
<1>1. /\ t \in Seq(Alphabet) /\ Len(sp) \in Nat /\ Len(s) \in Nat /\ Len(t) = Len(s) + Len(sp)
      /\ \A i \in 1..Len(s) : t[i] = s[i]
      /\ \A i \in 1..Len(sp) : t[Len(s) + i] = "space"
  BY Joined DEF Blank
<1> HIDE DEF t
<1>2. \A i \in 1..Len(t) : t[i] # "space" => i \in 1..Len(s)
  <2> SUFFICES ASSUME NEW i \in 1..Len(t), t[i] # "space", i > Len(s) PROVE FALSE
    BY <1>1
  <2>1. i - Len(s) \in 1..Len(sp) /\ Len(s) + (i - Len(s)) = i
    BY <1>1
  <2>2. QED
    BY <1>1, <2>1
<1>3. \A i \in 1..Len(s) : i \in 1..Len(t)
  BY <1>1
<1>4. NotSpace(t) = NotSpace(s)
  BY <1>1, <1>2, <1>3 DEF NotSpace
<1>5. CASE NotSpace(s) = {}
  BY <1>4, <1>5 DEF TrimSpaces, t
<1>6. CASE NotSpace(s) # {}
  <2>1. NotSpace(s) \in SUBSET (1..Len(s))
    BY DEF NotSpace
  <2>2. Max(NotSpace(s)) \in 1..Len(s)
    BY <1>1, <1>6, <2>1, LastPlace
  <2>3. 1 \in 1..Len(s)
    BY <1>1, <2>2
  <2>4. SubSeq(t, 1, Max(NotSpace(s))) = SubSeq(s, 1, Max(NotSpace(s)))
    BY <2>2, <2>3, SubSeqOfConcat1 DEF t
  <2>5. QED
    BY <1>4, <1>6, <2>4 DEF TrimSpaces, t
<1>7. QED
  BY <1>5, <1>6
-----------------------------------------------------------------------------
(***************************************************************************)
(* Digits, the number they stand for and the multiplier behind them.        *)
(***************************************************************************)
LEMMA DigitsApart ==
    \A i \in 1..16 : /\ Digits[i] # "space" /\ Digits[i] # "-" /\ Digits[i] # "+" /\ Digits[i] # "\\"
                     /\ Digits[i] # "h" /\ Digits[i] # "i"
                     /\ i <= 10 => Digits[i] # "b"
                     /\ Digits[i] \in Alphabet
<1>1. \A i \in 1..16 : /\ Digits[i] # "space" /\ Digits[i] # "-" /\ Digits[i] # "+"
                       /\ Digits[i] # "h" /\ Digits[i] # "i"
  BY DEF Digits
<1>2. \A i \in 1..16 : Digits[i] # "\\"
  BY DEF Digits
<1>3. \A i \in 1..16 : i <= 10 => Digits[i] # "b"
  BY DEF Digits
<1>4. DOMAIN Digits = 1..16
  BY DEF Digits
<1>5. \A i \in 1..16 : Digits[i] \in Alphabet
  BY <1>4, ArgsAssumption DEF Range
<1>6. QED
  BY <1>1, <1>2, <1>3, <1>5

LEMMA LettersApart ==
    /\ \A i \in 1..8 : SiLetters[i] # "space" /\ SiLetters[i] # "i" /\ SiLetters[i] \in Alphabet
    /\ \A i, j \in 1..8 : SiLetters[i] = SiLetters[j] => i = j
    /\ \A i \in 1..16 : \A j \in 1..8 : Digits[i] # SiLetters[j]
    /\ \A i \in 1..8 : SiLetters[i] = "x" => i = 6
<1>1. \A i \in 1..8 : SiLetters[i] # "space" /\ SiLetters[i] # "i"
  BY DEF SiLetters
<1>2. DOMAIN SiLetters = 1..8
  BY DEF SiLetters
<1>3. \A i \in 1..8 : SiLetters[i] \in Alphabet
  BY <1>2, ArgsAssumption DEF Range
<1>4. \A i, j \in 1..8 : SiLetters[i] = SiLetters[j] => i = j
  BY DEF SiLetters
<1>5. \A i \in 1..16 : \A j \in 1..8 : Digits[i] # SiLetters[j]
  BY DEF Digits, SiLetters
<1>6. \A i \in 1..8 : SiLetters[i] = "x" => i = 6
  BY DEF SiLetters
<1>7. QED
  BY <1>1, <1>3, <1>4, <1>5, <1>6

LEMMA DigitFacts ==
    ASSUME NEW base \in 0..16, NEW c \in DigitsOf(base)
    PROVE  /\ DigitVal(c) \in Nat /\ c \in Alphabet
           /\ c # "space" /\ c # "-" /\ c # "+" /\ c # "\\" /\ c # "h" /\ c # "i" /\ c # "x"
           /\ base <= 10 => c # "b"
           /\ \A j \in 1..8 : c # SiLetters[j]
<1>1. PICK i \in 1..base : c = Digits[i]
  BY DEF DigitsOf
<1>2. i \in 1..16
  BY <1>1
<1>3. (CHOOSE k \in 1..16 : Digits[k] = c) \in 1..16
  BY <1>1, <1>2
<1>4. DigitVal(c) \in Nat
  <2> DEFINE k == CHOOSE j \in 1..16 : Digits[j] = c
  <2>1. DigitVal(c) = k - 1 /\ k \in 1..16
    BY <1>3 DEF DigitVal
  <2> HIDE DEF k
  <2>2. QED
    BY <2>1
<1>5. Digits[i] # "x"
  <2>1. SiLetters[6] = "x"
    BY DEF SiLetters
  <2>2. QED
    BY <1>2, <2>1, LettersApart
<1>6. base <= 10 => i <= 10
  BY <1>1
<1>7. QED
  BY <1>1, <1>2, <1>4, <1>5, <1>6, DigitsApart, LettersApart

Stepwise(f, len, first, G) == \A i \in 0..len : f[i] = IF i = 0 THEN first ELSE G[<<i, f[i - 1]>>]

(* A recursion over 0..len has a solution when each step stays in S. *)
LEMMA StepsExist ==
    ASSUME NEW len \in Nat, NEW S, NEW first \in S, NEW G \in [(1..len) \X S -> S]
    PROVE  \E f \in [0..len -> S] : Stepwise(f, len, first, G)
<1> DEFINE Goes(f, k) == /\ f \in [0..k -> S]
                         /\ \A i \in 0..k : f[i] = IF i = 0 THEN first ELSE G[<<i, f[i - 1]>>]
           N == {k \in Nat : k <= len => \E f : Goes(f, k)}
<1>1. 0 \in N
  <2> DEFINE f == [i \in 0..0 |-> first]
  <2>1. \A i \in 0..0 : i = 0
    OBVIOUS
  <2>2. Goes(f, 0)
    BY <2>1
  <2>3. QED
    BY <2>2
<1>2. ASSUME NEW k \in Nat, k \in N
      PROVE  k + 1 \in N
  <2>1. SUFFICES ASSUME k + 1 <= len PROVE \E f : Goes(f, k + 1)
    OBVIOUS
  <2>2. PICK g : Goes(g, k)
    BY <1>2, <2>1
  <2> DEFINE v == G[<<k + 1, g[k]>>]
             f == [i \in 0..(k + 1) |-> IF i <= k THEN g[i] ELSE v]
  <2>3. k + 1 \in 1..len /\ k \in 0..k /\ (k + 1) - 1 = k /\ k + 1 # 0
    BY <2>1
  <2>4. g[k] \in S
    BY <2>2, <2>3
  <2>5. v \in S
    BY <2>3, <2>4
  <2>6. \A i \in 0..(k + 1) : (i <= k => i \in 0..k) /\ (i # 0 => i - 1 \in 0..(k + 1) /\ i - 1 <= k)
    OBVIOUS
  <2>7. f \in [0..(k + 1) -> S]
    BY <2>2, <2>5, <2>6
  <2>8. ASSUME NEW i \in 0..(k + 1)
        PROVE  f[i] = IF i = 0 THEN first ELSE G[<<i, f[i - 1]>>]
    <3>1. i # 0 => f[i - 1] = g[i - 1]
      BY <2>6
    <3>2. CASE i <= k
      <4>1. i \in 0..k /\ f[i] = g[i]
        BY <2>6, <3>2
      <4>2. g[i] = IF i = 0 THEN first ELSE G[<<i, g[i - 1]>>]
        BY <2>2, <4>1
      <4>3. QED
        BY <3>1, <4>1, <4>2
    <3>3. CASE i = k + 1
      <4>1. ~(i <= k) /\ i # 0 /\ i - 1 = k
        BY <3>3
      <4>2. f[i] = v
        BY <4>1
      <4>3. QED
        BY <3>1, <3>3, <4>1, <4>2
    <3>4. QED
      BY <3>2, <3>3
  <2> HIDE DEF f
  <2>9. Goes(f, k + 1)
    BY <2>7, <2>8
  <2>10. QED
    BY <2>9
<1>3. len \in N
  <2> HIDE DEF N
  <2>1. QED
    BY <1>1, <1>2, AllNumbers
<1>4. QED
  BY <1>3 DEF Stepwise

(* What GMP reads is a number. *)
LEMMA NumberIsNat ==
    ASSUME NEW base \in 0..16, NEW s \in Seq(Alphabet),
           \A i \in 1..Len(s) : s[i] \in DigitsOf(base) \cup {"space"}
    PROVE  NumberVal(s, base) \in Nat
<1> DEFINE len == Len(s)
           Step(i, x) == IF s[i] = "space" THEN x ELSE (x * base) + DigitVal(s[i])
           G == [y \in (1..len) \X Nat |-> Step(y[1], y[2])]
<1>1. len \in Nat
  BY LenProperties
<1>2. \A i \in 1..len, x \in Nat : Step(i, x) \in Nat
  <2> SUFFICES ASSUME NEW i \in 1..len, NEW x \in Nat PROVE Step(i, x) \in Nat
    OBVIOUS
  <2>1. CASE s[i] = "space"
    BY <2>1
  <2>2. CASE s[i] # "space"
    <3>1. DigitVal(s[i]) \in Nat
      BY <2>2, DigitFacts
    <3>2. x * base \in Nat
      OBVIOUS
    <3>3. (x * base) + DigitVal(s[i]) \in Nat
      BY <3>1, <3>2
    <3>4. QED
      BY <2>2, <3>3
  <2>3. QED
    BY <2>1, <2>2
<1>3. G \in [(1..len) \X Nat -> Nat]
  <2> HIDE DEF Step
  <2>1. \A y \in (1..len) \X Nat : y[1] \in 1..len /\ y[2] \in Nat
    OBVIOUS
  <2>2. QED
    BY <1>2, <2>1
<1>4. \A i \in 1..len, x \in Nat : G[<<i, x>>] = Step(i, x)
  <2> HIDE DEF Step
  <2>1. QED
    OBVIOUS
<1> HIDE DEF G
<1>5. PICK f \in [0..len -> Nat] : Stepwise(f, len, 0, G)
  <2> HIDE DEF len
  <2>1. 0 \in Nat
    OBVIOUS
  <2>2. QED
    BY ONLY <1>1, <1>3, <2>1, StepsExist
<1>6. \A i \in 0..len : i # 0 => i \in 1..len /\ i - 1 \in 0..len
  BY <1>1
<1>7. \A i \in 0..len : f[i] = IF i = 0 THEN 0 ELSE Step(i, f[i - 1])
  <2> HIDE DEF Step
  <2>1. \A i \in 0..len : i # 0 => G[<<i, f[i - 1]>>] = Step(i, f[i - 1])
    BY <1>4, <1>5, <1>6
  <2>2. QED
    BY <1>5, <2>1 DEF Stepwise
<1>8. f = [i \in 0..len |-> IF i = 0 THEN 0 ELSE IF s[i] = "space" THEN f[i - 1]
                          ELSE f[i - 1] * base + DigitVal(s[i])]
  BY <1>7
<1>9. \E g : g = [i \in 0..len |-> IF i = 0 THEN 0 ELSE IF s[i] = "space" THEN g[i - 1]
                                            ELSE g[i - 1] * base + DigitVal(s[i])]
  BY <1>8
<1>10. NumberTo(s, base) = [i \in 0..len |-> IF i = 0 THEN 0 ELSE IF s[i] = "space" THEN NumberTo(s, base)[i - 1]
                                            ELSE NumberTo(s, base)[i - 1] * base + DigitVal(s[i])]
  BY <1>9 DEF NumberTo
<1> DEFINE g == NumberTo(s, base)
<1> HIDE DEF g
<1>11. g = [i \in 0..len |-> IF i = 0 THEN 0 ELSE Step(i, g[i - 1])]
  BY <1>10 DEF g
<1>12. \A i \in 0..len : g[i] = IF i = 0 THEN 0 ELSE Step(i, g[i - 1])
  <2> HIDE DEF Step
  <2>1. QED
    BY <1>11
<1> HIDE DEF Step, len
<1> DEFINE R == {i \in Nat : i <= len => g[i] \in Nat}
<1>13. 0 \in R
  <2>1. 0 \in 0..len
    BY <1>1
  <2>2. QED
    BY <1>12, <2>1
<1>14. ASSUME NEW i \in Nat, i \in R
       PROVE  i + 1 \in R
  <2>1. SUFFICES ASSUME i + 1 <= len PROVE g[i + 1] \in Nat
    OBVIOUS
  <2>2. i + 1 \in 0..len /\ i + 1 \in 1..len /\ (i + 1) - 1 = i /\ i <= len /\ i + 1 # 0
    BY <1>1, <2>1
  <2>3. g[i] \in Nat
    BY <1>14, <2>2
  <2>4. QED
    BY <1>2, <1>12, <2>2, <2>3
<1>15. Nat \subseteq R
  <2> HIDE DEF R
  <2>1. QED
    BY <1>13, <1>14, AllNumbers
<1>16. g[len] \in Nat
  BY <1>1, <1>15
<1>17. QED
  BY <1>16 DEF NumberVal, g, len

(* The tables hold the powers of their bases. *)
LEMMA TableOfPowers ==
    ASSUME NEW x \in Nat, NEW m, m = [i \in 1..8 |-> IF i = 1 THEN x ELSE m[i - 1] * x]
    PROVE  \A i \in 1..8 : m[i] = Powers(x)[i] /\ m[i] \in Nat
<1> DEFINE q == x * x
<1>1. \A i \in 1..8 : m[i] = IF i = 1 THEN x ELSE m[i - 1] * x
  OBVIOUS
<1>2. /\ m[1] = x /\ m[2] = m[1] * x /\ m[3] = m[2] * x /\ m[4] = m[3] * x
      /\ m[5] = m[4] * x /\ m[6] = m[5] * x /\ m[7] = m[6] * x /\ m[8] = m[7] * x
  BY <1>1
<1>3. q \in Nat /\ q = x * x
  OBVIOUS
<1> HIDE DEF q
<1>4. m[1] = x /\ m[2] = q /\ m[3] = q * x
  BY <1>2, <1>3
<1>5. m[4] = q * q
  <2>1. (q * x) * x = q * (x * x)
    BY <1>3
  <2>2. QED
    BY <1>2, <1>3, <1>4, <2>1
<1>6. m[5] = q * q * x
  BY <1>2, <1>5
<1>7. m[6] = q * q * q
  <2>1. (q * q * x) * x = (q * q) * (x * x)
    BY <1>3
  <2>2. QED
    BY <1>2, <1>3, <1>6, <2>1
<1>8. m[7] = q * q * q * x
  BY <1>2, <1>7
<1>9. m[8] = q * q * q * q
  <2>1. (q * q * q * x) * x = (q * q * q) * (x * x)
    BY <1>3
  <2>2. QED
    BY <1>2, <1>3, <1>8, <2>1
<1>10. Powers(x) = <<x, q, q * x, q * q, q * q * x, q * q * q, q * q * q * x, q * q * q * q>>
  BY <1>3 DEF Powers, q
<1> DEFINE pow == Powers(x)
<1>11. /\ pow[1] = x /\ pow[2] = q /\ pow[3] = q * x /\ pow[4] = q * q /\ pow[5] = q * q * x
       /\ pow[6] = q * q * q /\ pow[7] = q * q * q * x /\ pow[8] = q * q * q * q
  BY <1>10
<1> HIDE DEF pow
<1>12. /\ q * q \in Nat /\ q * x \in Nat
  BY <1>3
<1>13. q * q * x \in Nat /\ q * q * q \in Nat
  BY <1>3, <1>12
<1>14. q * q * q * x \in Nat /\ q * q * q * q \in Nat
  BY <1>3, <1>13
<1>15. \A i \in 1..8 : i = 1 \/ i = 2 \/ i = 3 \/ i = 4 \/ i = 5 \/ i = 6 \/ i = 7 \/ i = 8
  OBVIOUS
<1>16. \A i \in 1..8 : m[i] = pow[i]
  BY <1>4, <1>5, <1>6, <1>7, <1>8, <1>9, <1>11, <1>15
<1>17. \A i \in 1..8 : m[i] \in Nat
  BY <1>3, <1>4, <1>5, <1>6, <1>7, <1>8, <1>9, <1>12, <1>13, <1>14, <1>15
<1>18. QED
  BY <1>16, <1>17 DEF pow

LEMMA TableExists ==
    ASSUME NEW x \in Nat
    PROVE  \E m : m = [i \in 1..8 |-> IF i = 1 THEN x ELSE m[i - 1] * x]
<1> DEFINE G == [y \in (1..8) \X Nat |-> y[2] * x]
           len == 8
<1>1. \A y \in (1..len) \X Nat : y[2] * x \in Nat
  OBVIOUS
<1>2. G \in [(1..len) \X Nat -> Nat]
  BY <1>1
<1>3. \A i \in 1..len, v \in Nat : G[<<i, v>>] = v * x
  OBVIOUS
<1> HIDE DEF G
<1>4. PICK f \in [0..len -> Nat] : Stepwise(f, len, 1, G)
  <2>1. 1 \in Nat /\ len \in Nat
    OBVIOUS
  <2> HIDE DEF len
  <2>2. QED
    BY ONLY <1>2, <2>1, StepsExist
<1>5. \A i \in 1..8 : f[i] = f[i - 1] * x
  <2>1. \A i \in 1..8 : i # 0 /\ i \in 0..8 /\ i - 1 \in 0..8
    OBVIOUS
  <2>2. \A i \in 1..8 : f[i] = G[<<i, f[i - 1]>>] /\ f[i - 1] \in Nat
    BY <1>4, <2>1 DEF Stepwise
  <2>3. QED
    BY <1>3, <2>2
<1>6. f[1] = x
  <2>1. f[0] = 1 /\ 1 - 1 = 0 /\ 1 \in 1..8
    BY <1>4 DEF Stepwise
  <2>2. f[1] = f[1 - 1] * x
    BY <1>5, <2>1
  <2>3. QED
    BY <2>1, <2>2
<1> DEFINE m == [i \in 1..8 |-> f[i]]
<1>7. \A i \in 1..8 : m[i] = IF i = 1 THEN x ELSE m[i - 1] * x
  <2>1. \A i \in 1..8 : i # 1 => i - 1 \in 1..8
    OBVIOUS
  <2>2. QED
    BY <1>5, <1>6, <2>1
<1> HIDE DEF m
<1>8. m = [i \in 1..8 |-> m[i]]
  BY DEF m
<1>9. m = [i \in 1..8 |-> IF i = 1 THEN x ELSE m[i - 1] * x]
  BY <1>7, <1>8
<1>10. QED
  BY <1>9

LEMMA Tables ==
    \A i \in 1..8 : /\ s_mult[i] = Powers(Si[1])[i] /\ s_mult[i] \in Nat
                    /\ s_mult_i[i] = Powers(Si[2])[i] /\ s_mult_i[i] \in Nat
<1>1. Si[1] \in Nat /\ Si[2] \in Nat
  BY NumbersAssumption
<1>2. s_mult = [i \in 1..8 |-> IF i = 1 THEN Si[1] ELSE s_mult[i - 1] * Si[1]]
  <2>1. \E m : m = [i \in 1..8 |-> IF i = 1 THEN Si[1] ELSE m[i - 1] * Si[1]]
    BY <1>1, TableExists
  <2>2. QED
    BY <2>1 DEF s_mult
<1>3. s_mult_i = [i \in 1..8 |-> IF i = 1 THEN Si[2] ELSE s_mult_i[i - 1] * Si[2]]
  <2>1. \E m : m = [i \in 1..8 |-> IF i = 1 THEN Si[2] ELSE m[i - 1] * Si[2]]
    BY <1>1, TableExists
  <2>2. QED
    BY <2>1 DEF s_mult_i
<1>4. \A i \in 1..8 : s_mult[i] = Powers(Si[1])[i] /\ s_mult[i] \in Nat
  BY ONLY <1>1, <1>2, TableOfPowers
<1>5. \A i \in 1..8 : s_mult_i[i] = Powers(Si[2])[i] /\ s_mult_i[i] \in Nat
  BY ONLY <1>1, <1>3, TableOfPowers
<1>6. QED
  BY <1>4, <1>5

(* The end of a text to which one character was added. *)
LEMMA OneBehind ==
    ASSUME NEW s \in Seq(Alphabet), NEW c \in Alphabet
    PROVE  /\ s \o <<c>> \in Seq(Alphabet) /\ s \o <<c>> # <<>>
           /\ Last(s \o <<c>>) = c /\ Front(s \o <<c>>) = s
           /\ (s \o <<c>>)[Len(s \o <<c>>)] = c
<1> DEFINE t == <<c>>
<1>1. t \in Seq(Alphabet) /\ Len(t) = 1 /\ t[1] = c
  OBVIOUS
<1> HIDE DEF t
<1>2. /\ s \o t \in Seq(Alphabet) /\ Len(s) \in Nat /\ Len(s \o t) = Len(s) + 1 /\ (s \o t)[Len(s) + 1] = c
      /\ \A i \in 1..Len(s) : (s \o t)[i] = s[i]
  <2>1. /\ s \o t \in Seq(Alphabet) /\ Len(s) \in Nat /\ Len(s \o t) = Len(s) + Len(t)
        /\ \A i \in 1..Len(s) : (s \o t)[i] = s[i]
        /\ \A i \in 1..Len(t) : (s \o t)[Len(s) + i] = t[i]
    BY <1>1, Joined
  <2>2. 1 \in 1..Len(t)
    BY <1>1
  <2>3. QED
    BY <1>1, <2>1, <2>2
<1>3. s \o t # <<>>
  BY <1>2, EmptySeq
<1>4. SubSeq(s \o t, 1, Len(s)) = s
  <2>1. \A i \in 1..Len(s) : (s \o t)[i] \in Alphabet
    BY <1>2, ElementOfSeq
  <2> DEFINE u == SubSeq(s \o t, 1, Len(s))
  <2>2. /\ u \in Seq(Alphabet) /\ Len(u) = IF 1 <= Len(s) THEN Len(s) - 1 + 1 ELSE 0
        /\ \A i \in 1..(Len(s) - 1 + 1) : u[i] = (s \o t)[1 + i - 1]
    BY <1>2, <2>1, SubSeqProperties
  <2> HIDE DEF u
  <2>3. Len(u) = Len(s)
    BY <1>2, <2>2
  <2>4. \A i \in 1..Len(s) : u[i] = s[i]
    <3>1. \A i \in 1..Len(s) : i \in 1..(Len(s) - 1 + 1) /\ 1 + i - 1 = i
      BY <1>2
    <3>2. QED
      BY <1>2, <2>2, <3>1
  <2>5. u = s
    BY <2>2, <2>3, <2>4, SeqEqual
  <2>6. QED
    BY <2>5 DEF u
<1>5. Len(s \o t) - 1 = Len(s)
  BY <1>2
<1>6. Front(s \o t) = s
  BY <1>4, <1>5 DEF Front
<1>7. QED
  BY <1>2, <1>3, <1>6 DEF Last, t

(* The parts of a sentence are texts. *)
LetterOf(s) == IF s.letter = 0 THEN <<>> ELSE <<SiLetters[s.letter]>>
IOf(s)      == IF s.letter # 0 /\ s.i THEN <<"i">> ELSE <<>>

LEMMA BasesNamed ==
    ASSUME NEW prefix \in BasePrefixes
    PROVE  /\ BaseNamed(prefix) \in {2, 8, 10, 16}
           /\ prefix \in {<<"0", "x">>, <<"\\", "x">>, <<"h">>} => BaseNamed(prefix) = 16
           /\ prefix = <<"\\", "0">> => BaseNamed(prefix) = 8
           /\ prefix \in {<<"\\", "b">>, <<"b">>} => BaseNamed(prefix) = 2
           /\ prefix = <<>> => BaseNamed(prefix) = 10
<1>1. /\ <<"0", "x">> # <<"\\", "0">> /\ <<"0", "x">> # <<"\\", "b">> /\ <<"0", "x">> # <<"b">> /\ <<"0", "x">> # <<>>
  OBVIOUS
<1>2. /\ <<"\\", "x">> # <<"\\", "0">> /\ <<"\\", "x">> # <<"\\", "b">> /\ <<"\\", "x">> # <<"b">> /\ <<"\\", "x">> # <<>>
  OBVIOUS
<1>3. /\ <<"h">> # <<"\\", "0">> /\ <<"h">> # <<"\\", "b">> /\ <<"h">> # <<"b">> /\ <<"h">> # <<>>
  OBVIOUS
<1>4. /\ <<"\\", "0">> # <<"\\", "b">> /\ <<"\\", "0">> # <<"b">> /\ <<"\\", "0">> # <<>>
      /\ <<"\\", "b">> # <<>> /\ <<"b">> # <<>>
  OBVIOUS
<1>5. QED
  BY <1>1, <1>2, <1>3, <1>4 DEF BasePrefixes, BaseNamed

LEMMA SentenceParts ==
    ASSUME NEW s, IsSentence(s)
    PROVE  /\ \A i \in 1..6 : s.spaces[i] \in Seq(Alphabet) /\ Blank(s.spaces[i])
           /\ s.sign \in Seq(Alphabet) /\ s.prefix \in Seq(Alphabet)
           /\ s.digits \in Seq(Alphabet) /\ Len(s.digits) \in Nat \ {0}
           /\ \A i \in 1..Len(s.digits) : s.digits[i] \in DigitsOf(BaseNamed(s.prefix))
           /\ BaseNamed(s.prefix) \in 0..16
           /\ LetterOf(s) \in Seq(Alphabet) /\ IOf(s) \in Seq(Alphabet)
           /\ NumberOf(s) \in Seq(Alphabet)
<1> DEFINE base == BaseNamed(s.prefix)
<1>1. base \in 0..16
  <2>1. base \in {2, 8, 10, 16}
    BY BasesNamed DEF IsSentence
  <2> HIDE DEF base
  <2>2. QED
    BY <2>1
<1> HIDE DEF base
<1>2. s.digits \in Seq(DigitsOf(base)) /\ s.digits # <<>>
  BY DEF IsSentence, base
<1>3. DigitsOf(base) \subseteq Alphabet
  BY <1>1, DigitFacts
<1>4. s.digits \in Seq(Alphabet)
  BY <1>2, <1>3, SeqMonotonic
<1>5. Len(s.digits) \in Nat \ {0}
  BY <1>2, EmptySeq
<1>6. \A i \in 1..Len(s.digits) : s.digits[i] \in DigitsOf(base)
  BY <1>2, ElementOfSeq
<1>7. /\ "-" \in Alphabet /\ "+" \in Alphabet /\ "\\" \in Alphabet /\ "h" \in Alphabet /\ "b" \in Alphabet
      /\ "x" \in Alphabet /\ "i" \in Alphabet
  BY ArgsAssumption
<1>8. "0" \in Alphabet
  <2>1. Digits[1] = "0"
    BY DEF Digits
  <2>2. QED
    BY <2>1, DigitsApart
<1>9. \A c, d \in Alphabet : <<c>> \in Seq(Alphabet) /\ <<c, d>> \in Seq(Alphabet)
  OBVIOUS
<1>10. s.sign \in Seq(Alphabet)
  BY <1>7, <1>9, EmptySeq DEF IsSentence
<1>11. s.prefix \in Seq(Alphabet)
  BY <1>7, <1>8, <1>9, EmptySeq DEF IsSentence, BasePrefixes
<1>12. LetterOf(s) \in Seq(Alphabet) /\ IOf(s) \in Seq(Alphabet)
  <2>1. s.letter # 0 => s.letter \in 1..8
    BY DEF IsSentence
  <2>2. s.letter # 0 => SiLetters[s.letter] \in Alphabet
    BY <2>1, LettersApart
  <2>3. QED
    BY <1>7, <1>9, <2>2, EmptySeq DEF LetterOf, IOf
<1>13. \A i \in 1..6 : s.spaces[i] \in Seq(Alphabet) /\ Blank(s.spaces[i])
  BY DEF IsSentence
<1>14. s.spaces[4] \in Seq(Alphabet) /\ s.spaces[5] \in Seq(Alphabet) /\ s.spaces[6] \in Seq(Alphabet)
  BY <1>13
<1>15. s.digits \o s.spaces[4] \in Seq(Alphabet)
  BY <1>4, <1>14, Joined
<1>16. (s.digits \o s.spaces[4]) \o LetterOf(s) \in Seq(Alphabet)
  BY <1>12, <1>15, Joined
<1>17. ((s.digits \o s.spaces[4]) \o LetterOf(s)) \o s.spaces[5] \in Seq(Alphabet)
  BY <1>14, <1>16, Joined
<1>18. (((s.digits \o s.spaces[4]) \o LetterOf(s)) \o s.spaces[5]) \o IOf(s) \in Seq(Alphabet)
  BY <1>12, <1>17, Joined
<1>19. ((((s.digits \o s.spaces[4]) \o LetterOf(s)) \o s.spaces[5]) \o IOf(s)) \o s.spaces[6] \in Seq(Alphabet)
  BY <1>14, <1>18, Joined
<1>20. NumberOf(s) \in Seq(Alphabet)
  BY <1>19 DEF NumberOf, LetterOf, IOf
<1>21. QED
  BY <1>1, <1>4, <1>5, <1>6, <1>10, <1>11, <1>12, <1>13, <1>20 DEF base

(* The multiplier is found behind the digits, and the digits are left. *)
LEMMA MultiplierIsFound ==
    ASSUME NEW s, IsSentence(s)
    PROVE  /\ PrefixMultiplier(NumberOf(s)).ok
           /\ PrefixMultiplier(NumberOf(s)).rest = s.digits
           /\ PrefixMultiplier(NumberOf(s)).mul = MultiplierOf(s)
           /\ MultiplierOf(s) \in Nat
<1> DEFINE t1 == s.digits \o s.spaces[4]
           t2 == t1 \o LetterOf(s)
           t3 == t2 \o s.spaces[5]
           t4 == t3 \o IOf(s)
           t5 == t4 \o s.spaces[6]
           d  == s.digits
<1>0. /\ s.letter \in 0..8 /\ s.i \in BOOLEAN
      /\ s.letter # 0 => s.letter \in 1..8
  BY DEF IsSentence
<1>1. /\ \A i \in 4..6 : s.spaces[i] \in Seq(Alphabet) /\ Blank(s.spaces[i])
      /\ d \in Seq(Alphabet) /\ Len(d) \in Nat \ {0} /\ d # <<>>
      /\ LetterOf(s) \in Seq(Alphabet) /\ IOf(s) \in Seq(Alphabet)
  <2>1. \A i \in 4..6 : i \in 1..6
    OBVIOUS
  <2>2. QED
    BY <2>1, SentenceParts, EmptySeq DEF IsSentence
<1>2. d[Len(d)] # "space" /\ d[Len(d)] # "i" /\ \A j \in 1..8 : d[Len(d)] # SiLetters[j]
  <2>1. Len(d) \in 1..Len(d)
    BY <1>1
  <2>2. QED
    BY <2>1, SentenceParts, DigitFacts
<1>3. NumberOf(s) = t5
  BY DEF NumberOf, LetterOf, IOf
<1> HIDE DEF d
<1>4. TrimSpaces(d) = d
  BY <1>1, <1>2, NothingToTrim
<1>5. t1 \in Seq(Alphabet) /\ TrimSpaces(t1) = d
  BY <1>1, <1>4, Joined, TrimBehind DEF d
<1> HIDE DEF t1
<1>6. t2 \in Seq(Alphabet) /\ TrimSpaces(t3) = TrimSpaces(t2) /\ t3 \in Seq(Alphabet)
  <2>1. t2 \in Seq(Alphabet)
    BY <1>1, <1>5, Joined
  <2>2. s.spaces[5] \in Seq(Alphabet) /\ Blank(s.spaces[5])
    BY <1>1
  <2> HIDE DEF t2
  <2>3. QED
    BY <2>1, <2>2, Joined, TrimBehind
<1>7. t4 \in Seq(Alphabet) /\ TrimSpaces(t5) = TrimSpaces(t4)
  <2>1. t4 \in Seq(Alphabet)
    BY <1>1, <1>6, Joined
  <2>2. s.spaces[6] \in Seq(Alphabet) /\ Blank(s.spaces[6])
    BY <1>1
  <2> HIDE DEF t4
  <2>3. QED
    BY <2>1, <2>2, TrimBehind
<1>8. s.letter = 0 => TrimSpaces(t2) = d
  <2>1. s.letter = 0 => t2 = t1
    BY <1>5, ConcatEmptySeq DEF LetterOf
  <2>2. QED
    BY <1>5, <2>1
<1>9. ASSUME s.letter # 0
      PROVE  /\ TrimSpaces(t2) = t2 /\ t2 # <<>> /\ Front(t2) = t1 /\ Last(t2) = SiLetters[s.letter]
             /\ SiLetters[s.letter] # "i"
  <2>1. SiLetters[s.letter] \in Alphabet /\ SiLetters[s.letter] # "space" /\ SiLetters[s.letter] # "i"
    BY <1>0, <1>9, LettersApart
  <2>2. t2 = t1 \o <<SiLetters[s.letter]>>
    BY <1>9 DEF LetterOf
  <2>3. /\ t2 # <<>> /\ Last(t2) = SiLetters[s.letter] /\ Front(t2) = t1
        /\ t2[Len(t2)] = SiLetters[s.letter]
    BY <1>5, <2>1, <2>2, OneBehind
  <2>4. TrimSpaces(t2) = t2
    BY <1>6, <2>1, <2>3, NothingToTrim
  <2>5. QED
    BY <2>1, <2>3, <2>4
<1> HIDE DEF t2
<1> DEFINE b == IF s.letter = 0 THEN d ELSE t2
<1>10. /\ TrimSpaces(t3) = b /\ b # <<>> /\ Last(b) # "i" /\ b \in Seq(Alphabet)
  BY <1>1, <1>2, <1>6, <1>8, <1>9 DEF Last
<1> HIDE DEF t3
<1> DEFINE gotI == s.letter # 0 /\ s.i
           a == TrimSpaces(t5)
<1>11. /\ (a # <<>> /\ Last(a) = "i") <=> gotI
       /\ gotI => TrimSpaces(Front(a)) = b
       /\ ~gotI => a = b
  <2>1. CASE gotI
    <3>1. t4 = t3 \o <<"i">>
      BY <2>1 DEF IOf
    <3>2. "i" \in Alphabet /\ "i" # "space"
      BY ArgsAssumption
    <3>3. t4 # <<>> /\ Last(t4) = "i" /\ Front(t4) = t3 /\ t4[Len(t4)] = "i"
      BY <1>6, <3>1, <3>2, OneBehind
    <3>4. TrimSpaces(t4) = t4
      BY <1>7, <3>2, <3>3, NothingToTrim
    <3>5. QED
      BY <1>7, <1>10, <2>1, <3>3, <3>4
  <2>2. CASE ~gotI
    <3>1. t4 = t3
      BY <1>6, <2>2, ConcatEmptySeq DEF IOf
    <3>2. a = b
      BY <1>7, <1>10, <3>1
    <3>3. QED
      BY <1>10, <2>2, <3>2
  <2>3. QED
    BY <2>1, <2>2
<1> HIDE DEF a
<1>12. {i \in 1..8 : SiLetters[i] = Last(b)} = IF s.letter = 0 THEN {} ELSE {s.letter}
  <2>1. CASE s.letter = 0
    <3>1. Last(b) = d[Len(d)]
      BY <2>1 DEF Last
    <3>2. QED
      BY <1>2, <2>1, <3>1
  <2>2. CASE s.letter # 0
    <3>1. Last(b) = SiLetters[s.letter]
      BY <1>9, <2>2
    <3>2. \A i \in 1..8 : SiLetters[i] = SiLetters[s.letter] => i = s.letter
      BY <1>0, <2>2, LettersApart
    <3>3. QED
      BY <1>0, <2>2, <3>1, <3>2
  <2>3. QED
    BY <2>1, <2>2
<1>13. s.letter # 0 => Min({s.letter}) = s.letter
  <2>1. s.letter \in Nat
    BY <1>0
  <2>2. \A y \in {s.letter} : s.letter <= y
    BY <2>1
  <2>3. QED
    BY <2>1, <2>2, IsMin
<1>14. s.letter # 0 => TrimSpaces(Front(b)) = d
  BY <1>5, <1>9
<1> DEFINE letters == {i \in 1..8 : SiLetters[i] = Last(b)}
<1>15. letters = {} <=> s.letter = 0
  BY <1>12
<1>16. PrefixMultiplier(t5) =
          [ok |-> TRUE, rest |-> d,
           mul |-> IF s.letter = 0 THEN 1 ELSE (IF gotI THEN s_mult_i ELSE s_mult)[s.letter]]
  <2> DEFINE bb == IF gotI THEN TrimSpaces(Front(a)) ELSE a
             c == IF letters = {} THEN bb ELSE TrimSpaces(Front(bb))
  <2>1. bb = b
    BY <1>11
  <2>2. c = d
    BY <1>14, <1>15, <2>1
  <2>3. PrefixMultiplier(t5) =
          IF c = <<>> THEN Failed
          ELSE [ok |-> TRUE, rest |-> c,
                mul |-> IF letters = {} THEN 1 ELSE (IF gotI THEN s_mult_i ELSE s_mult)[Min(letters)]]
    <3> HIDE DEF b, gotI
    <3>1. gotI <=> (a # <<>> /\ Last(a) = "i")
      BY <1>11
    <3>2. bb # <<>>
      BY <1>10, <2>1
    <3>3. QED
      BY <2>1, <3>1, <3>2 DEF PrefixMultiplier, a
  <2>4. letters # {} => Min(letters) = s.letter
    BY <1>12, <1>13
  <2> HIDE DEF letters, c, gotI
  <2>5. c # <<>>
    BY <1>1, <2>2
  <2>6. CASE s.letter = 0
    BY <1>15, <2>2, <2>3, <2>5, <2>6
  <2>7. CASE s.letter # 0
    BY <1>15, <2>2, <2>3, <2>4, <2>5, <2>7
  <2>8. QED
    BY <2>6, <2>7
<1>17. /\ MultiplierOf(s) = IF s.letter = 0 THEN 1 ELSE (IF gotI THEN s_mult_i ELSE s_mult)[s.letter]
       /\ MultiplierOf(s) \in Nat
  BY <1>0, Tables DEF MultiplierOf
<1>18. QED
  BY <1>3, <1>16, <1>17 DEF d
-----------------------------------------------------------------------------
(***************************************************************************)
(* Every text: what is read is an integer.                                  *)
(***************************************************************************)
LEMMA TailText ==
    ASSUME NEW s \in Seq(Alphabet), s # <<>>
    PROVE  Tail(s) \in Seq(Alphabet)
BY HeadTailProperties

LEMMA FrontText ==
    ASSUME NEW s \in Seq(Alphabet), s # <<>>
    PROVE  Front(s) \in Seq(Alphabet)
<1>1. Len(s) \in Nat
  BY LenProperties
<1>2. \A i \in 1..(Len(s) - 1) : s[i] \in Alphabet
  <2>1. \A i \in 1..(Len(s) - 1) : i \in 1..Len(s)
    BY <1>1
  <2>2. QED
    BY <2>1, ElementOfSeq
<1>3. QED
  BY <1>1, <1>2, SubSeqProperties DEF Front

LEMMA SignedText ==
    ASSUME NEW s \in Seq(Alphabet)
    PROVE  SkipSign(s) \in Seq(Alphabet)
BY SkippedText, TailText DEF SkipSign, HasSign

LEMMA BasedText ==
    ASSUME NEW s \in Seq(Alphabet)
    PROVE  SkipBase(s) \in Seq(Alphabet) /\ BaseOf(s) \in 0..16
<1>1. Len(s) \in Nat
  BY LenProperties
<1>2. \A i \in 3..Len(s) : s[i] \in Alphabet
  <2>1. \A i \in 3..Len(s) : i \in 1..Len(s)
    BY <1>1
  <2>2. QED
    BY <2>1, ElementOfSeq
<1>3. SubSeq(s, 3, Len(s)) \in Seq(Alphabet)
  BY <1>1, <1>2, SubSeqProperties
<1>4. SkipBase(s) \in Seq(Alphabet)
  BY <1>3, TailText DEF SkipBase
<1>5. QED
  BY <1>4 DEF BaseOf

LEMMA MultiplierType ==
    ASSUME NEW s \in Seq(Alphabet), PrefixMultiplier(s).ok
    PROVE  PrefixMultiplier(s).rest \in Seq(Alphabet) /\ PrefixMultiplier(s).mul \in Nat
<1> DEFINE a == TrimSpaces(s)
           gotI == a # <<>> /\ Last(a) = "i"
           b == IF gotI THEN TrimSpaces(Front(a)) ELSE a
           letters == IF b = <<>> THEN {} ELSE {i \in 1..8 : SiLetters[i] = Last(b)}
           c == IF letters = {} THEN b ELSE TrimSpaces(Front(b))
           mul == IF letters = {} THEN 1 ELSE (IF gotI THEN s_mult_i ELSE s_mult)[Min(letters)]
<1>1. PrefixMultiplier(s) = IF c = <<>> THEN Failed ELSE [ok |-> TRUE, rest |-> c, mul |-> mul]
  BY DEF PrefixMultiplier
<1>2. a \in Seq(Alphabet)
  BY TrimmedText
<1>3. b \in Seq(Alphabet)
  BY <1>2, TrimmedText, FrontText
<1>4. letters \in SUBSET (1..8) /\ (letters # {} => b # <<>>)
  OBVIOUS
<1> HIDE DEF a, b, letters
<1>5. c \in Seq(Alphabet)
  BY <1>3, <1>4, TrimmedText, FrontText
<1>6. mul \in Nat
  <2>1. letters # {} => Min(letters) \in 1..8
    BY <1>4, FirstPlace
  <2>2. QED
    BY <2>1, Tables
<1> HIDE DEF c, mul
<1>7. c # <<>>
  BY <1>1 DEF Failed
<1>8. QED
  BY <1>1, <1>5, <1>6, <1>7

LEMMA GmpIsInt ==
    ASSUME NEW s \in Seq(Alphabet), NEW base \in 0..16, GmpReads(s, base)
    PROVE  GmpValue(s, base) \in Int
<1>1. GmpDigits(s) \in Seq(Alphabet)
  BY TailText DEF GmpDigits, GmpMinus
<1>2. NumberVal(GmpDigits(s), base) \in Nat
  BY <1>1, NumberIsNat DEF GmpReads
<1>3. -NumberVal(GmpDigits(s), base) \in Int /\ NumberVal(GmpDigits(s), base) \in Int
  BY <1>2
<1>4. QED
  BY <1>3 DEF GmpValue

LEMMA ByBaseIsInt ==
    ASSUME NEW s \in Seq(Alphabet), NEW base \in 0..16, ParseByBase(s, base).ok
    PROVE  ParseByBase(s, base).val \in Int
<1> DEFINE a == SkipSpaces(s)
           b == SkipSign(a)
           m == PrefixMultiplier(b)
           g == GmpValue(m.rest, base)
           v == g * m.mul
           reads == b # <<>> /\ m.ok /\ GmpReads(m.rest, base)
<1>1. ParseByBase(s, base) = IF reads THEN [ok |-> TRUE, val |-> IF IsNeg(a) THEN -v ELSE v] ELSE NotANumber
  BY DEF ParseByBase
<1>2. b \in Seq(Alphabet)
  BY SkippedText, SignedText
<1> HIDE DEF a, b
<1>3. reads
  BY <1>1 DEF NotANumber
<1>4. m.rest \in Seq(Alphabet) /\ m.mul \in Nat
  BY <1>2, <1>3, MultiplierType
<1>5. g \in Int
  BY <1>3, <1>4, GmpIsInt
<1> HIDE DEF m, g
<1>6. v \in Int /\ -v \in Int
  BY <1>4, <1>5
<1> HIDE DEF v, reads
<1>7. QED
  BY <1>1, <1>3, <1>6

LEMMA BigintIsInt ==
    ASSUME NEW s \in Seq(Alphabet), ParseBigint(s).ok
    PROVE  ParseBigint(s).val \in Int
<1> DEFINE a == SkipSpaces(s)
           b == SkipSign(a)
           c == SkipSpaces(SkipBase(b))
           base == BaseOf(b)
           v == ParseByBase(c, base)
<1>1. ParseBigint(s) = IF c # <<>> /\ v.ok THEN [ok |-> TRUE, val |-> IF IsNeg(a) THEN -v.val ELSE v.val]
                       ELSE NotANumber
  BY DEF ParseBigint
<1>2. b \in Seq(Alphabet)
  BY SkippedText, SignedText
<1> HIDE DEF a, b
<1>3. c \in Seq(Alphabet) /\ base \in 0..16
  BY <1>2, BasedText, SkippedText
<1> HIDE DEF c, base
<1>4. c # <<>> /\ v.ok
  BY <1>1 DEF NotANumber
<1>5. v.val \in Int
  BY <1>3, <1>4, ByBaseIsInt
<1> HIDE DEF v
<1>6. -v.val \in Int
  BY <1>5
<1>7. QED
  BY <1>1, <1>4, <1>5, <1>6
-----------------------------------------------------------------------------
(***************************************************************************)
(* A sentence of the grammar: the sign, the base and the digits are found.  *)
(***************************************************************************)
LEMMA FirstJoined ==
    ASSUME NEW a \in Seq(Alphabet), NEW b \in Seq(Alphabet), a # <<>>
    PROVE  a \o b \in Seq(Alphabet) /\ a \o b # <<>> /\ (a \o b)[1] = a[1]
<1>1. Len(a) \in Nat \ {0}
  BY EmptySeq
<1>2. 1 \in 1..Len(a) /\ Len(a \o b) # 0
  BY <1>1, Joined
<1>3. QED
  BY <1>2, Joined, EmptySeq

LEMMA Dropped ==
    ASSUME NEW a \in Seq(Alphabet), NEW b \in Seq(Alphabet), b # <<>>
    PROVE  SubSeq(a \o b, Len(a) + 1, Len(a \o b)) = b
<1>1. Len(a) \in Nat /\ Len(b) \in Nat \ {0} /\ Len(a \o b) = Len(a) + Len(b)
  BY Joined, EmptySeq
<1>2. Len(a) + 1 \in Len(a) + 1..Len(a) + Len(b) /\ Len(a) + Len(b) \in Len(a) + 1..Len(a) + Len(b)
  BY <1>1
<1>3. SubSeq(a \o b, Len(a) + 1, Len(a) + Len(b)) = SubSeq(b, (Len(a) + 1) - Len(a), (Len(a) + Len(b)) - Len(a))
  BY <1>2, SubSeqOfConcat2
<1>4. (Len(a) + 1) - Len(a) = 1 /\ (Len(a) + Len(b)) - Len(a) = Len(b)
  BY <1>1
<1>5. QED
  BY <1>1, <1>3, <1>4, SubSeqFull

(* A text with one character, or two, in front of it. *)
LEMMA OneInFront ==
    ASSUME NEW c \in Alphabet, NEW b \in Seq(Alphabet), b # <<>>
    PROVE  /\ <<c>> \o b \in Seq(Alphabet) /\ <<c>> \o b # <<>>
           /\ (<<c>> \o b)[1] = c /\ Tail(<<c>> \o b) = b
<1> DEFINE a == <<c>>
<1>1. a \in Seq(Alphabet) /\ a # <<>> /\ a[1] = c /\ Len(a) = 1
  OBVIOUS
<1> HIDE DEF a
<1>2. a \o b \in Seq(Alphabet) /\ a \o b # <<>> /\ (a \o b)[1] = c
  BY <1>1, FirstJoined
<1>3. Tail(a \o b) = SubSeq(a \o b, 2, Len(a \o b))
  BY <1>2, TailIsSubSeq
<1>4. Len(a) + 1 = 2
  BY <1>1
<1>5. QED
  BY <1>1, <1>2, <1>3, <1>4, Dropped DEF a

LEMMA TwoInFront ==
    ASSUME NEW c \in Alphabet, NEW d \in Alphabet, NEW b \in Seq(Alphabet), b # <<>>
    PROVE  LET t == <<c, d>> \o b
           IN  /\ t \in Seq(Alphabet) /\ t # <<>> /\ Len(t) >= 2 /\ t[1] = c /\ t[2] = d
               /\ SubSeq(t, 3, Len(t)) = b
<1> DEFINE a == <<c, d>>
<1>1. a \in Seq(Alphabet) /\ a # <<>> /\ a[1] = c /\ a[2] = d /\ Len(a) = 2
  OBVIOUS
<1> HIDE DEF a
<1>2. a \o b \in Seq(Alphabet) /\ a \o b # <<>> /\ (a \o b)[1] = c
  BY <1>1, FirstJoined
<1>3. /\ Len(b) \in Nat /\ Len(a \o b) = Len(a) + Len(b) /\ \A i \in 1..Len(a) : (a \o b)[i] = a[i]
  BY <1>1, Joined
<1>4. Len(a) + 1 = 3 /\ 2 \in 1..Len(a) /\ Len(a) + Len(b) >= 2
  BY <1>1, <1>3
<1>5. QED
  BY <1>1, <1>2, <1>3, <1>4, Dropped DEF a

(* The number begins with its first digit; x is no second character of it. *)
LEMMA NumberBegins ==
    ASSUME NEW s, IsSentence(s)
    PROVE  /\ NumberOf(s) \in Seq(Alphabet) /\ NumberOf(s) # <<>>
           /\ NumberOf(s)[1] = s.digits[1] /\ s.digits[1] \in DigitsOf(BaseNamed(s.prefix))
           /\ s.prefix = <<>> => ~Starts2(NumberOf(s), "0", "x")
<1> DEFINE d == s.digits
           t1 == d \o s.spaces[4]
           t2 == t1 \o LetterOf(s)
           t3 == t2 \o s.spaces[5]
           t4 == t3 \o IOf(s)
           t5 == t4 \o s.spaces[6]
           base == BaseNamed(s.prefix)
<1>1. /\ \A i \in 4..6 : s.spaces[i] \in Seq(Alphabet) /\ Blank(s.spaces[i])
      /\ d \in Seq(Alphabet) /\ Len(d) \in Nat \ {0} /\ d # <<>>
      /\ LetterOf(s) \in Seq(Alphabet) /\ IOf(s) \in Seq(Alphabet)
      /\ base \in 0..16 /\ \A i \in 1..Len(d) : d[i] \in DigitsOf(base)
  <2>1. \A i \in 4..6 : i \in 1..6
    OBVIOUS
  <2>2. QED
    BY <2>1, SentenceParts, EmptySeq DEF IsSentence
<1>2. NumberOf(s) = t5
  BY DEF NumberOf, LetterOf, IOf
<1> DEFINE spaced == s.spaces[4]
           after == s.spaces[5]
           behind == s.spaces[6]
<1>3. /\ spaced \in Seq(Alphabet) /\ after \in Seq(Alphabet) /\ behind \in Seq(Alphabet)
      /\ Blank(spaced) /\ Blank(after) /\ Blank(behind)
  BY <1>1
<1> HIDE DEF spaced, after, behind, d
<1>4. t1 \in Seq(Alphabet) /\ t1 # <<>> /\ t1[1] = d[1]
  BY <1>1, <1>3, FirstJoined DEF spaced
<1>5. t2 \in Seq(Alphabet) /\ t2 # <<>> /\ t2[1] = d[1]
  BY <1>1, <1>4, FirstJoined
<1>6. t3 \in Seq(Alphabet) /\ t3 # <<>> /\ t3[1] = d[1]
  BY <1>3, <1>5, FirstJoined DEF after
<1>7. t4 \in Seq(Alphabet) /\ t4 # <<>> /\ t4[1] = d[1]
  BY <1>1, <1>6, FirstJoined
<1>8. t5 \in Seq(Alphabet) /\ t5 # <<>> /\ t5[1] = d[1]
  BY <1>3, <1>7, FirstJoined DEF behind
<1>9. d[1] \in DigitsOf(base)
  <2>1. 1 \in 1..Len(d)
    BY <1>1
  <2>2. QED
    BY <1>1, <2>1
<1>10. ASSUME s.prefix = <<>>, Len(t5) >= 2, t5[1] = "0", t5[2] = "x"
       PROVE  FALSE
  <2>1. /\ Len(t1) = Len(d) + Len(spaced) /\ Len(spaced) \in Nat /\ Len(t1) \in Nat
        /\ \A i \in 1..Len(d) : t1[i] = d[i]
        /\ \A i \in 1..Len(spaced) : t1[Len(d) + i] = spaced[i]
    BY <1>1, <1>3, Joined DEF spaced
  <2>2. /\ Len(t2) = Len(t1) + Len(LetterOf(s)) /\ Len(LetterOf(s)) \in Nat /\ Len(t2) \in Nat
        /\ \A i \in 1..Len(t1) : t2[i] = t1[i]
        /\ \A i \in 1..Len(LetterOf(s)) : t2[Len(t1) + i] = LetterOf(s)[i]
    BY <1>1, <1>4, <1>5, Joined, LenProperties
  <2>3. /\ Len(t3) = Len(t2) + Len(after) /\ Len(after) \in Nat /\ Len(t3) \in Nat
        /\ \A i \in 1..Len(t2) : t3[i] = t2[i]
        /\ \A i \in 1..Len(after) : t3[Len(t2) + i] = after[i]
    BY <1>3, <1>5, <1>6, Joined, LenProperties DEF after
  <2>4. /\ Len(t4) = Len(t3) + Len(IOf(s)) /\ Len(IOf(s)) \in Nat /\ Len(t4) \in Nat
        /\ \A i \in 1..Len(t3) : t4[i] = t3[i]
        /\ \A i \in 1..Len(IOf(s)) : t4[Len(t3) + i] = IOf(s)[i]
    BY <1>1, <1>6, <1>7, Joined, LenProperties
  <2>5. /\ Len(t5) = Len(t4) + Len(behind) /\ Len(behind) \in Nat /\ Len(t5) \in Nat
        /\ \A i \in 1..Len(t4) : t5[i] = t4[i]
        /\ \A i \in 1..Len(behind) : t5[Len(t4) + i] = behind[i]
    BY <1>3, <1>7, <1>8, Joined, LenProperties DEF behind
  <2> HIDE DEF t1, t2, t3, t4, t5
  <2>6. CASE Len(d) >= 2
    <3>1. 2 \in 1..Len(d) /\ 2 \in 1..Len(t1) /\ 2 \in 1..Len(t2) /\ 2 \in 1..Len(t3) /\ 2 \in 1..Len(t4)
      BY <1>1, <2>1, <2>2, <2>3, <2>4, <2>6
    <3>2. t5[2] = d[2] /\ d[2] \in DigitsOf(base)
      BY <1>1, <2>1, <2>2, <2>3, <2>4, <2>5, <3>1
    <3>3. QED
      BY <1>1, <1>10, <3>2, DigitFacts
  <2>7. CASE Len(d) = 1 /\ Len(spaced) >= 1
    <3>1. /\ 1 \in 1..Len(spaced) /\ Len(d) + 1 = 2 /\ 2 \in 1..Len(t1) /\ 2 \in 1..Len(t2) /\ 2 \in 1..Len(t3)
          /\ 2 \in 1..Len(t4)
      BY <1>1, <2>1, <2>2, <2>3, <2>4, <2>7
    <3>2. t5[2] = spaced[1] /\ spaced[1] = "space"
      BY <1>3, <2>1, <2>2, <2>3, <2>4, <2>5, <3>1 DEF Blank
    <3>3. QED
      BY <1>10, <3>2
  <2>8. CASE Len(d) = 1 /\ Len(spaced) = 0 /\ s.letter # 0
    <3>1. LetterOf(s) = <<SiLetters[s.letter]>> /\ s.letter \in 1..8
      BY <2>8 DEF LetterOf, IsSentence
    <3>2. Len(LetterOf(s)) = 1 /\ LetterOf(s)[1] = SiLetters[s.letter]
      BY <3>1
    <3>3. /\ 1 \in 1..Len(LetterOf(s)) /\ Len(t1) + 1 = 2 /\ 2 \in 1..Len(t2) /\ 2 \in 1..Len(t3) /\ 2 \in 1..Len(t4)
      BY <2>1, <2>2, <2>3, <2>4, <2>8, <3>2
    <3>4. t5[2] = SiLetters[s.letter]
      BY <2>2, <2>3, <2>4, <2>5, <3>2, <3>3
    <3>5. s.letter = 6
      BY <1>10, <3>1, <3>4, LettersApart
    <3>6. d = <<"0">>
      <4>1. d[1] = "0"
        BY <1>8, <1>10
      <4>2. \A i \in 1..Len(d) : i = 1
        BY <2>8
      <4> DEFINE z == <<"0">>
      <4>3. z \in Seq(Alphabet) /\ Len(z) = 1 /\ z[1] = "0"
        <5>1. "0" \in Alphabet
          BY <1>1, <1>9, <4>1, DigitFacts
        <5>2. QED
          BY <5>1
      <4> HIDE DEF z
      <4>4. Len(d) = Len(z) /\ \A i \in 1..Len(d) : d[i] = z[i]
        BY <2>8, <4>1, <4>2, <4>3
      <4>5. d = z
        BY <1>1, <4>3, <4>4, SeqEqual
      <4>6. QED
        BY <4>5 DEF z
    <3>7. spaced = <<>>
      BY <1>3, <2>8, EmptySeq
    <3>8. QED
      BY <1>10, <3>5, <3>6, <3>7 DEF IsSentence, d, spaced
  <2>9. CASE Len(d) = 1 /\ Len(spaced) = 0 /\ s.letter = 0
    <3>1. LetterOf(s) = <<>> /\ IOf(s) = <<>>
      BY <2>9 DEF LetterOf, IOf
    <3>2. Len(LetterOf(s)) = 0 /\ Len(IOf(s)) = 0
      BY <3>1
    <3>3. Len(t1) = 1 /\ Len(t2) = 1
      BY <2>1, <2>2, <2>9, <3>2
    <3>4. CASE Len(after) >= 1
      <4>1. 1 \in 1..Len(after) /\ Len(t2) + 1 = 2 /\ 2 \in 1..Len(t3) /\ 2 \in 1..Len(t4)
        BY <2>3, <2>4, <3>3, <3>4
      <4>2. t5[2] = after[1] /\ after[1] = "space"
        BY <1>3, <2>3, <2>4, <2>5, <4>1 DEF Blank
      <4>3. QED
        BY <1>10, <4>2
    <3>5. CASE Len(after) = 0
      <4>1. Len(t4) = 1 /\ Len(behind) >= 1
        BY <1>10, <2>3, <2>4, <2>5, <3>2, <3>3, <3>5
      <4>2. 1 \in 1..Len(behind) /\ Len(t4) + 1 = 2
        BY <2>5, <4>1
      <4>3. t5[2] = behind[1] /\ behind[1] = "space"
        BY <1>3, <2>5, <4>2 DEF Blank
      <4>4. QED
        BY <1>10, <4>3
    <3>6. QED
      BY <2>3, <3>4, <3>5
  <2>10. Len(d) >= 2 \/ Len(d) = 1
    <3>1. Len(d) \in Nat \ {0}
      <4>1. Len(d) \in Nat
        BY <1>1, LenProperties
      <4>2. Len(d) # 0
        BY <1>1, EmptySeq
      <4>3. QED
        BY <4>1, <4>2
    <3>2. \A k \in Nat \ {0} : k >= 2 \/ k = 1
      OBVIOUS
    <3>3. QED
      BY <3>1, <3>2, Zenon
  <2>11. Len(spaced) >= 1 \/ Len(spaced) = 0
    BY <2>1
  <2>12. QED
    BY <2>6, <2>7, <2>8, <2>9, <2>10, <2>11
<1>11. QED
  BY <1>2, <1>8, <1>9, <1>10 DEF Starts2, d

(* What is left of the sentence when the spaces and the sign in front are off. *)
CoreOf(s) == IF s.prefix = <<>> THEN NumberOf(s) ELSE s.prefix \o (s.spaces[3] \o NumberOf(s))

LEMMA CoreIsBased ==
    ASSUME NEW s, IsSentence(s)
    PROVE  /\ CoreOf(s) \in Seq(Alphabet) /\ CoreOf(s) # <<>>
           /\ CoreOf(s)[1] # "space" /\ CoreOf(s)[1] # "-" /\ CoreOf(s)[1] # "+"
           /\ BaseOf(CoreOf(s)) = BaseNamed(s.prefix)
           /\ SkipSpaces(SkipBase(CoreOf(s))) = NumberOf(s)
<1> DEFINE num == NumberOf(s)
           w == s.spaces[3] \o num
           core == CoreOf(s)
           base == BaseNamed(s.prefix)
<1>1. /\ num \in Seq(Alphabet) /\ num # <<>> /\ num[1] \in DigitsOf(base)
      /\ s.prefix = <<>> => ~Starts2(num, "0", "x")
  BY NumberBegins
<1>2. base \in 0..16
  BY SentenceParts
<1>3. num[1] # "space" /\ num[1] # "-" /\ num[1] # "+" /\ num[1] # "\\" /\ num[1] # "h" /\ (base <= 10 => num[1] # "b")
  BY <1>1, <1>2, DigitFacts
<1>4. SkipSpaces(num) = num
  BY <1>1, <1>3, NothingToSkip
<1>5. s.spaces[3] \in Seq(Alphabet) /\ Blank(s.spaces[3])
  BY SentenceParts
<1>6. w \in Seq(Alphabet) /\ SkipSpaces(w) = num /\ w # <<>>
  <2>1. w \in Seq(Alphabet) /\ SkipSpaces(w) = num
    BY <1>1, <1>4, <1>5, Joined, SkipFront
  <2>2. SkipSpaces(<<>>) = <<>>
    <3>1. Len(<<>>) = 0 /\ 1..0 = {}
      OBVIOUS
    <3>2. NotSpace(<<>>) = {}
      BY <3>1 DEF NotSpace
    <3>3. QED
      BY <3>2 DEF SkipSpaces
  <2>3. QED
    BY <1>1, <2>1, <2>2
<1>7. /\ "0" \in Alphabet /\ "\\" \in Alphabet /\ "x" \in Alphabet /\ "h" \in Alphabet /\ "b" \in Alphabet
  <2>1. Digits[1] = "0"
    BY DEF Digits
  <2>2. QED
    BY <2>1, DigitsApart, ArgsAssumption
<1> HIDE DEF num, w, base
<1>8. CASE s.prefix = <<>>
  <2>1. core = num /\ base = 10
    BY <1>8, BasesNamed DEF CoreOf, num, base, BasePrefixes
  <2>2. /\ ~LongHex(num) /\ ~Starts2(num, "\\", "0") /\ ~Starts2(num, "\\", "b")
        /\ num[1] # "h" /\ num[1] # "b"
    BY <1>1, <1>3, <1>8, <2>1 DEF LongHex, Starts2
  <2>3. BaseOf(num) = 10 /\ SkipBase(num) = num
    BY <2>2 DEF BaseOf, SkipBase
  <2> HIDE DEF core
  <2>4. /\ core \in Seq(Alphabet) /\ core # <<>> /\ core[1] # "space" /\ core[1] # "-" /\ core[1] # "+"
        /\ BaseOf(core) = base /\ SkipSpaces(SkipBase(core)) = num
    BY <1>1, <1>3, <1>4, <2>1, <2>3
  <2>5. QED
    BY <2>4 DEF core, base, num
<1>9. ASSUME NEW c \in Alphabet, s.prefix = <<c>>, c \in {"h", "b"}
      PROVE  /\ core \in Seq(Alphabet) /\ core # <<>> /\ core[1] = c
             /\ BaseOf(core) = base /\ SkipBase(core) = w
  <2>1. s.prefix # <<>> /\ core = <<c>> \o w
    BY <1>9 DEF CoreOf, w, num
  <2> HIDE DEF core
  <2>2. core \in Seq(Alphabet) /\ core # <<>> /\ core[1] = c /\ Tail(core) = w
    BY <1>6, <2>1, OneInFront
  <2>3. c # "0" /\ c # "\\"
    BY <1>9
  <2>4. ~LongHex(core) /\ ~Starts2(core, "\\", "0") /\ ~Starts2(core, "\\", "b")
    BY <2>2, <2>3 DEF LongHex, Starts2
  <2>5. SkipBase(core) = w
    BY <1>9, <2>2, <2>4 DEF SkipBase
  <2>6. c = "h" => base = 16
    BY <1>9, BasesNamed DEF base, IsSentence
  <2>7. c = "b" => base = 2
    BY <1>9, BasesNamed DEF base, IsSentence
  <2>8. BaseOf(core) = IF c = "h" THEN 16 ELSE 2
    BY <1>9, <2>2, <2>4 DEF BaseOf
  <2>9. QED
    BY <1>9, <2>2, <2>5, <2>6, <2>7, <2>8
<1>10. ASSUME NEW c \in Alphabet, NEW d \in Alphabet, s.prefix = <<c, d>>,
              (c = "0" /\ d = "x") \/ (c = "\\" /\ d = "x") \/ (c = "\\" /\ d = "0") \/ (c = "\\" /\ d = "b")
       PROVE  /\ core \in Seq(Alphabet) /\ core # <<>> /\ core[1] = c
              /\ BaseOf(core) = base /\ SkipBase(core) = w
  <2>1. s.prefix # <<>> /\ core = <<c, d>> \o w
    BY <1>10 DEF CoreOf, w, num
  <2> HIDE DEF core
  <2>2. /\ core \in Seq(Alphabet) /\ core # <<>> /\ Len(core) >= 2 /\ core[1] = c /\ core[2] = d
        /\ SubSeq(core, 3, Len(core)) = w
    BY <1>6, <2>1, TwoInFront
  <2>3. (c = "0" /\ d = "x") \/ (c = "\\" /\ d = "x") \/ (c = "\\" /\ d = "0") \/ (c = "\\" /\ d = "b")
    BY <1>10, Zenon
  <2>4. /\ LongHex(core) <=> d = "x"
        /\ Starts2(core, "\\", "0") <=> c = "\\" /\ d = "0"
        /\ Starts2(core, "\\", "b") <=> c = "\\" /\ d = "b"
    BY <2>2, <2>3 DEF LongHex, Starts2
  <2>5. SkipBase(core) = w
    BY <2>2, <2>3, <2>4 DEF SkipBase
  <2>6. BaseOf(core) = IF d = "x" THEN 16 ELSE IF d = "0" THEN 8 ELSE 2
    BY <2>2, <2>3, <2>4 DEF BaseOf
  <2>7. base = IF d = "x" THEN 16 ELSE IF d = "0" THEN 8 ELSE 2
    <3>1. s.prefix \in BasePrefixes
      BY DEF IsSentence
    <3>2. d = "x" => base = 16
      BY <1>10, <2>3, <3>1, BasesNamed DEF base
    <3>3. d = "0" => base = 8
      BY <1>10, <2>3, <3>1, BasesNamed DEF base
    <3>4. d = "b" => base = 2
      BY <1>10, <2>3, <3>1, BasesNamed DEF base
    <3>5. QED
      BY <2>3, <3>2, <3>3, <3>4
  <2>8. QED
    BY <2>2, <2>5, <2>6, <2>7
<1>11. CASE \E c \in {"h", "b"} : s.prefix = <<c>>
  <2>1. PICK c \in {"h", "b"} : s.prefix = <<c>>
    BY <1>11
  <2>2. c \in Alphabet /\ c # "space" /\ c # "-" /\ c # "+"
    BY <1>7
  <2>3. core \in Seq(Alphabet) /\ core # <<>> /\ core[1] = c /\ BaseOf(core) = base /\ SkipBase(core) = w
    BY <1>9, <2>1, <2>2
  <2> HIDE DEF core
  <2>4. /\ core[1] # "space" /\ core[1] # "-" /\ core[1] # "+" /\ SkipSpaces(SkipBase(core)) = num
    BY <1>6, <2>2, <2>3
  <2>5. QED
    BY <2>3, <2>4 DEF core, base, num
<1>12. CASE s.prefix \in {<<"0", "x">>, <<"\\", "x">>, <<"\\", "0">>, <<"\\", "b">>}
  <2>1. PICK c \in {"0", "\\"}, d \in {"0", "x", "b"} :
              /\ s.prefix = <<c, d>>
              /\ (c = "0" /\ d = "x") \/ (c = "\\" /\ d = "x") \/ (c = "\\" /\ d = "0") \/ (c = "\\" /\ d = "b")
    <3>1. CASE s.prefix = <<"0", "x">>
      <4>1. "0" \in {"0", "\\"} /\ "x" \in {"0", "x", "b"}
        OBVIOUS
      <4>2. QED
        BY <3>1, <4>1, Zenon
    <3>2. CASE s.prefix = <<"\\", "x">>
      <4>1. "\\" \in {"0", "\\"} /\ "x" \in {"0", "x", "b"}
        OBVIOUS
      <4>2. QED
        BY <3>2, <4>1, Zenon
    <3>3. CASE s.prefix = <<"\\", "0">>
      <4>1. "\\" \in {"0", "\\"} /\ "0" \in {"0", "x", "b"}
        OBVIOUS
      <4>2. QED
        BY <3>3, <4>1, Zenon
    <3>4. CASE s.prefix = <<"\\", "b">>
      <4>1. "\\" \in {"0", "\\"} /\ "b" \in {"0", "x", "b"}
        OBVIOUS
      <4>2. QED
        BY <3>4, <4>1, Zenon
    <3>5. QED
      BY <1>12, <3>1, <3>2, <3>3, <3>4
  <2>2. c \in Alphabet /\ d \in Alphabet /\ c # "space" /\ c # "-" /\ c # "+"
    BY <1>7
  <2>3. core \in Seq(Alphabet) /\ core # <<>> /\ core[1] = c /\ BaseOf(core) = base /\ SkipBase(core) = w
    BY <1>10, <1>12, <2>1, <2>2
  <2> HIDE DEF core
  <2>4. /\ core[1] # "space" /\ core[1] # "-" /\ core[1] # "+" /\ SkipSpaces(SkipBase(core)) = num
    BY <1>6, <2>2, <2>3
  <2>5. QED
    BY <2>3, <2>4 DEF core, base, num
<1>13. QED
  BY <1>8, <1>11, <1>12 DEF IsSentence, BasePrefixes

(* The sign is found in front of it. *)
LEMMA SignIsFound ==
    ASSUME NEW s, IsSentence(s)
    PROVE  /\ SkipSign(SkipSpaces(TextOf(s))) = CoreOf(s)
           /\ IsNeg(SkipSpaces(TextOf(s))) <=> s.sign = <<"-">>
<1> DEFINE num == NumberOf(s)
           w == s.spaces[3] \o num
           body == s.prefix \o w
           rest == s.spaces[2] \o body
           signed == s.sign \o rest
           core == CoreOf(s)
           a == SkipSpaces(TextOf(s))
<1>1. TextOf(s) = s.spaces[1] \o signed
  BY DEF TextOf
<1>2. /\ core \in Seq(Alphabet) /\ core # <<>> /\ core[1] # "space" /\ core[1] # "-" /\ core[1] # "+"
  BY CoreIsBased
<1>3. /\ \A i \in 1..3 : s.spaces[i] \in Seq(Alphabet) /\ Blank(s.spaces[i])
      /\ s.prefix \in Seq(Alphabet) /\ s.sign \in Seq(Alphabet) /\ num \in Seq(Alphabet)
  <2>1. \A i \in 1..3 : i \in 1..6
    OBVIOUS
  <2>2. QED
    BY <2>1, SentenceParts
<1>4. num # <<>> /\ num[1] # "space"
  BY NumberBegins, SentenceParts, DigitFacts
<1> HIDE DEF num
<1>5. w \in Seq(Alphabet) /\ SkipSpaces(w) = SkipSpaces(num)
  BY <1>3, Joined, SkipFront
<1>6. SkipSpaces(num) = num
  BY <1>3, <1>4, NothingToSkip
<1>7. SkipSpaces(core) = core
  BY <1>2, NothingToSkip
<1> HIDE DEF core
<1>8. body \in Seq(Alphabet) /\ SkipSpaces(body) = core
  <2>1. body \in Seq(Alphabet)
    BY <1>3, <1>5, Joined
  <2>2. CASE s.prefix = <<>>
    <3>1. body = w
      BY <1>5, <2>2, ConcatEmptySeq
    <3>2. core = num
      BY <2>2 DEF core, CoreOf, num
    <3>3. QED
      BY <1>5, <1>6, <2>1, <3>1, <3>2
  <2>3. CASE s.prefix # <<>>
    <3>1. core = body
      BY <2>3 DEF core, CoreOf, num
    <3>2. QED
      BY <1>7, <2>1, <3>1
  <2>4. QED
    BY <2>2, <2>3
<1> HIDE DEF body, w
<1>9. rest \in Seq(Alphabet) /\ SkipSpaces(rest) = core
  BY <1>3, <1>8, Joined, SkipFront
<1>10. rest # <<>>
  <2>1. SkipSpaces(<<>>) = <<>>
    <3>1. Len(<<>>) = 0 /\ 1..0 = {}
      OBVIOUS
    <3>2. NotSpace(<<>>) = {}
      BY <3>1 DEF NotSpace
    <3>3. QED
      BY <3>2 DEF SkipSpaces
  <2>2. QED
    BY <1>2, <1>9, <2>1 DEF core
<1> HIDE DEF rest
<1>11. signed \in Seq(Alphabet) /\ a = SkipSpaces(signed)
  <2>1. signed \in Seq(Alphabet)
    BY <1>3, <1>9, Joined
  <2>2. s.spaces[1] \in Seq(Alphabet) /\ Blank(s.spaces[1])
    BY <1>3
  <2> HIDE DEF signed
  <2>3. QED
    BY <1>1, <2>1, <2>2, SkipFront
<1>12. CASE s.sign = <<>>
  <2>1. signed = rest
    BY <1>9, <1>12, ConcatEmptySeq
  <2>2. a = core
    BY <1>9, <1>11, <2>1
  <2>3. ~HasSign(core) /\ SkipSign(core) = core
    BY <1>2, <1>7 DEF HasSign, SkipSign, core
  <2>4. <<>> # <<"-">>
    OBVIOUS
  <2> HIDE DEF a
  <2>5. SkipSign(a) = core /\ (IsNeg(a) <=> s.sign = <<"-">>)
    BY <1>12, <2>2, <2>3, <2>4 DEF IsNeg
  <2>6. QED
    BY <2>5 DEF a, core
<1>13. ASSUME NEW c \in Alphabet, s.sign = <<c>>, c \in {"-", "+"}
       PROVE  SkipSign(a) = core /\ (IsNeg(a) <=> s.sign = <<"-">>)
  <2>1. signed # <<>> /\ signed[1] = c /\ Tail(signed) = rest
    BY <1>9, <1>10, <1>13, OneInFront
  <2>2. c # "space"
    BY <1>13
  <2>3. a = signed
    BY <1>11, <2>1, <2>2, NothingToSkip
  <2>4. a # <<>> /\ a[1] = c /\ Tail(a) = rest
    BY <2>1, <2>3
  <2> HIDE DEF a
  <2>5. HasSign(a) /\ (IsNeg(a) <=> c = "-")
    BY <1>13, <2>4 DEF HasSign, IsNeg
  <2>6. <<c>> = <<"-">> <=> c = "-"
    OBVIOUS
  <2>7. QED
    BY <1>9, <1>13, <2>4, <2>5, <2>6 DEF SkipSign
<1>14. CASE s.sign # <<>>
  <2>1. PICK c \in {"-", "+"} : s.sign = <<c>>
    BY <1>14 DEF IsSentence
  <2>2. c \in Alphabet
    BY ArgsAssumption
  <2>3. SkipSign(a) = core /\ (IsNeg(a) <=> s.sign = <<"-">>)
    BY <1>13, <2>1, <2>2
  <2>4. QED
    BY <2>3 DEF a, core
<1>15. QED
  BY <1>12, <1>14

(* A sentence is read as the grammar says. *)
LEMMA SentenceIsRead ==
    ASSUME NEW s, IsSentence(s)
    PROVE  /\ ParseBigint(TextOf(s)).ok /\ ParseBigint(TextOf(s)).val = ValueOf(s)
           /\ ValueOf(s) \in Int /\ TextOf(s) # <<>>
<1> DEFINE num == NumberOf(s)
           base == BaseNamed(s.prefix)
           core == CoreOf(s)
           a == SkipSpaces(TextOf(s))
           m == PrefixMultiplier(num)
           number == NumberVal(s.digits, base)
           mul == MultiplierOf(s)
           parsed == ParseByBase(num, base)
<1>1. num \in Seq(Alphabet) /\ num # <<>> /\ num[1] \in DigitsOf(base) /\ s.digits[1] \in DigitsOf(base)
  BY NumberBegins
<1>2. /\ base \in 0..16 /\ s.digits \in Seq(Alphabet) /\ s.digits # <<>>
      /\ \A i \in 1..Len(s.digits) : s.digits[i] \in DigitsOf(base)
  BY SentenceParts DEF IsSentence
<1>3. m.ok /\ m.rest = s.digits /\ m.mul = mul /\ mul \in Nat
  BY MultiplierIsFound
<1>4. num[1] # "space" /\ num[1] # "-" /\ num[1] # "+" /\ s.digits[1] # "-"
  BY <1>1, <1>2, DigitFacts
<1>5. number \in Nat
  BY <1>2, NumberIsNat
<1>6. SkipSign(a) = core /\ (IsNeg(a) <=> s.sign = <<"-">>)
  BY SignIsFound
<1>7. BaseOf(core) = base /\ SkipSpaces(SkipBase(core)) = num
  BY CoreIsBased
<1> HIDE DEF num, base, core, a, m, mul
<1>8. SkipSpaces(num) = num /\ ~HasSign(num) /\ SkipSign(num) = num
  <2>1. SkipSpaces(num) = num
    BY <1>1, <1>4, NothingToSkip
  <2>2. ~HasSign(num)
    BY <1>4 DEF HasSign
  <2>3. QED
    BY <2>1, <2>2 DEF SkipSign
<1>9. ~IsNeg(num)
  BY <1>8 DEF IsNeg
<1>10. GmpDigits(s.digits) = s.digits /\ GmpValue(s.digits, base) = number /\ GmpReads(s.digits, base)
  BY <1>1, <1>2, <1>4 DEF GmpDigits, GmpMinus, GmpValue, GmpReads
<1> HIDE DEF number
<1>11. parsed = [ok |-> TRUE, val |-> number * mul]
  BY <1>1, <1>3, <1>8, <1>9, <1>10 DEF ParseByBase, m
<1>12. ParseBigint(TextOf(s)) = [ok |-> TRUE, val |-> IF IsNeg(a) THEN -(number * mul) ELSE number * mul]
  <2> HIDE DEF parsed
  <2>1. parsed.ok /\ parsed.val = number * mul
    BY <1>11
  <2>2. ParseBigint(TextOf(s)) = IF num # <<>> /\ parsed.ok THEN [ok |-> TRUE, val |-> IF IsNeg(a) THEN -parsed.val ELSE parsed.val]
                                 ELSE NotANumber
    BY <1>6, <1>7 DEF ParseBigint, a, parsed
  <2>3. QED
    BY <1>1, <2>1, <2>2
<1>13. ValueOf(s) = IF s.sign = <<"-">> THEN -(number * mul) ELSE number * mul
  <2>1. number * mul \in Int
    BY <1>3, <1>5
  <2> DEFINE v == number * mul
  <2>2. ValueOf(s) = (IF s.sign = <<"-">> THEN -1 ELSE 1) * v
    BY DEF ValueOf, number, mul, base
  <2> HIDE DEF v
  <2>3. v \in Int
    BY <2>1 DEF v
  <2>4. (-1) * v = -v /\ 1 * v = v
    BY <2>3
  <2>5. QED
    BY <2>2, <2>4 DEF v
<1>14. ValueOf(s) \in Int
  <2>1. number * mul \in Int /\ -(number * mul) \in Int
    BY <1>3, <1>5
  <2>2. QED
    BY <1>13, <2>1
<1>15. TextOf(s) # <<>>
  <2>1. SUFFICES ASSUME TextOf(s) = <<>> PROVE FALSE
    OBVIOUS
  <2>2. a = <<>>
    <3>1. Len(<<>>) = 0 /\ 1..0 = {}
      OBVIOUS
    <3>2. NotSpace(<<>>) = {}
      BY <3>1 DEF NotSpace
    <3>3. QED
      BY <2>1, <3>2 DEF SkipSpaces, a
  <2>3. SkipSign(a) = <<>>
    <3>1. Len(<<>>) = 0 /\ 1..0 = {}
      OBVIOUS
    <3>2. NotSpace(<<>>) = {}
      BY <3>1 DEF NotSpace
    <3>3. QED
      BY <2>2, <3>2 DEF SkipSpaces, SkipSign, HasSign
  <2>4. core # <<>>
    BY CoreIsBased DEF core
  <2>5. QED
    BY <1>6, <2>3, <2>4
<1>16. QED
  BY <1>6, <1>12, <1>13, <1>14, <1>15
-----------------------------------------------------------------------------
(* A call is not made yet, or its result is the one of one of the builds. *)
Called == arg \in Args /\ (res = NotYet \/ \E arch \in {32, 64} : res = Parse(arg, arch))

LEMMA CalledRight == Called => NumbersAreRead
<1> SUFFICES ASSUME Called, res # NotYet PROVE TextIsRead /\ (res.ret = "OK" => res.val = res.full)
  BY DEF NumbersAreRead
<1>1. PICK arch \in {32, 64} : res = Parse(arg, arch)
  BY DEF Called
<1>2. /\ arg.text \in Seq(Alphabet) /\ arg.base \in 0..16 /\ arg.type \in Types
      /\ arg.known => arg.base = 0 /\ IsSentence(arg.sentence) /\ arg.text = TextOf(arg.sentence)
  BY ArgsAssumption DEF Called
<1> DEFINE v == IF arg.base = 0 THEN ParseBigint(arg.text) ELSE ParseByBase(arg.text, arg.base)
           t == arg.type
<1>3. v.ok => v.val \in Int
  BY <1>2, BigintIsInt, ByBaseIsInt
<1>4. res = IF arg.text = <<>> \/ arg.base = 1 THEN [ret |-> "ANY_FAILURES", full |-> 0, val |-> 0]
            ELSE IF ~v.ok THEN [ret |-> "INVALID_ARGS", full |-> 0, val |-> 0]
            ELSE IF ~InRange(t, v.val) THEN [ret |-> "OUT_OF_RANGE", full |-> v.val, val |-> 0]
            ELSE [ret |-> "OK", full |-> v.val, val |-> Stored(t, v.val, arch)]
  BY <1>1 DEF Parse
<1>5. arg.known => v.ok /\ v.val = ValueOf(arg.sentence) /\ arg.text # <<>> /\ arg.base # 1
  BY <1>2, SentenceIsRead
<1> HIDE DEF v
<1>6. v.ok /\ InRange(t, v.val) => Stored(t, v.val, arch) = v.val
  BY <1>2, <1>3, StoredHolds
<1>7. res.ret = "OK" => res.val = res.full
  BY <1>4, <1>6
<1>8. TextIsRead
  <2> SUFFICES ASSUME arg.known
               PROVE  IF InRange(t, ValueOf(arg.sentence))
                      THEN res.ret = "OK" /\ res.val = ValueOf(arg.sentence)
                      ELSE res.ret = "OUT_OF_RANGE"
    BY DEF TextIsRead
  <2>1. v.ok /\ v.val = ValueOf(arg.sentence) /\ arg.text # <<>> /\ arg.base # 1
    BY <1>5
  <2>2. QED
    BY <1>4, <1>6, <2>1
<1>9. QED
  BY <1>7, <1>8

(* Every text of the grammar is read as the number it stands for or found   *)
(* out of range, and what is stored is the number that was read, whatever    *)
(* the calls, the multipliers and the width of the types.                  *)
THEOREM NumbersAreReadRight == NumSpec => []NumbersAreRead
<1>1. NumInit => Called
  BY DEF NumInit, Called
<1>2. Called /\ [mccp_str_parse]_numVars => Called'
  BY DEF Called, mccp_str_parse, numVars, Parse
<1>3. QED
  BY <1>1, <1>2, CalledRight, PTL DEF NumSpec
=============================================================================
