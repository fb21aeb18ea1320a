------------------------------ MODULE StrUtils ------------------------------
(***************************************************************************)
(* The string functions of src/src/lib/strutils.c that walk over a text:   *)
(* mccp_str_tokenize(), mccp_str_tokenize_quote(), mccp_str_unescape() and  *)
(* mccp_str_trim_right(). One behaviour is one call; a step is one turn of  *)
(* a loop of the code, so that the pointers of the code (p, and the index  *)
(* n into the caller's array) can be watched on the way.                   *)
(*                                                                         *)
(* A text is a sequence of characters; text is the buffer of the code, the *)
(* same characters followed by the terminator Nul.                         *)
(***************************************************************************)
EXTENDS Integers, Sequences, FiniteSets

CONSTANTS Chars,    \* the characters of a text
          Nul,      \* the terminator
          Bs,       \* the backslash
          Delm,     \* the delimiters, or the characters to trim
          Quote,    \* the quotation marks, or the characters to unescape
          Texts,    \* the texts the functions are called with
          Sizes     \* the lengths of the callers' arrays

ASSUME CharsAssumption ==
    /\ Nul \notin Chars
    /\ Bs \in Chars
    /\ Delm \subseteq Chars
    /\ Quote \subseteq Chars \ {Bs}
    /\ Texts \subseteq Seq(Chars) \ {<<>>}
    /\ Sizes \subseteq Nat

VARIABLES fn,        \* the function called
          org,       \* the text it was given
          max,       \* the length of the array tokens of the caller
          pc,        \* the loop the call is in
          text,      \* the buffer, which the tokenizers cut
          p,         \* where the scan stands in the buffer
          n,         \* the number of tokens found
          tokens,    \* the starts written into the array of the caller
          no_delm,   \* the unquoted letters of the current token
          cur_quote, \* the mark that opened the current quotation
          got_bs,    \* the last letter was a backslash
          out,       \* the buffer of mccp_str_unescape()
          ret        \* the result

call    == <<fn, org, max>>
cutter  == <<text, n, tokens, no_delm, cur_quote>>
copier  == <<got_bs, out>>
strVars == <<call, pc, text, p, n, tokens, no_delm, cur_quote, got_bs, out, ret>>

Functions_ == {"tokenize", "tokenize_quote", "unescape", "trim_right"}
Results_   == {"none", "OK", "QUOTE_NOT_CLOSED", "INVALID_ARGS"}
Loops      == {"outer", "skip", "word", "quoted", "got", "check", "copy", "trim", "done"}
Letters    == Chars \cup {Nul}
Places     == 1..(Len(org) + 1)

Buffer(s) == [i \in 1..(Len(s) + 1) |-> IF i <= Len(s) THEN s[i] ELSE Nul]

FirstLoop(f) == IF f = "unescape" THEN "check" ELSE IF f = "trim_right" THEN "trim" ELSE "outer"

(* A call with a text that is not empty, as IS_VALID_STRING() demands. *)
StrInit ==
    /\ fn \in Functions_
    /\ org \in Texts
    /\ max \in Sizes
    /\ pc = FirstLoop(fn)
    /\ text = Buffer(org)
    /\ p = IF fn = "trim_right" THEN Len(org) ELSE 1
    /\ n = 0
    /\ tokens = <<>>
    /\ no_delm = 0
    /\ cur_quote = Nul
    /\ got_bs = FALSE
    /\ out = <<>>
    /\ ret = "none"

Cut(i)     == [text EXCEPT ![i] = Nul]
Put(k, i)  == SubSeq(tokens, 1, k) \o <<i>>

Return(r) == pc' = "done" /\ ret' = r

(***************************************************************************)
(* The tokenizers.                                                         *)
(***************************************************************************)
HasRoom_OneMore == n <= max
HasRoom == n < max

(* The outer loop: is there text and room left? *)
Outer ==
    /\ pc = "outer"
    /\ IF text[p] # Nul /\ HasRoom THEN pc' = "skip" /\ UNCHANGED ret ELSE Return("OK")
    /\ UNCHANGED <<call, cutter, copier, p>>

SkipDelimiter ==
    /\ pc = "skip"
    /\ text[p] \in Delm
    /\ p' = p + 1
    /\ UNCHANGED <<call, cutter, copier, pc, ret>>

NothingLeft ==
    /\ pc = "skip"
    /\ text[p] = Nul
    /\ Return("OK")
    /\ UNCHANGED <<call, cutter, copier, p>>

BeginToken ==
    /\ pc = "skip"
    /\ text[p] \in Chars \ Delm
    /\ tokens' = Put(n, p)
    /\ no_delm' = 0
    /\ cur_quote' = Nul
    /\ pc' = "word"
    /\ UNCHANGED <<call, copier, text, p, n, ret>>

IsQuoteHere == fn = "tokenize_quote" /\ text[p] \in Quote

Letter ==
    /\ pc = "word"
    /\ text[p] \in Chars \ Delm
    /\ ~IsQuoteHere
    /\ no_delm' = no_delm + 1
    /\ p' = p + 1
    /\ UNCHANGED <<call, copier, text, n, tokens, cur_quote, pc, ret>>

(* The letters before the mark, if there are any, are a token of their own. *)
TokensAtQuote == IF no_delm > 0 /\ HasRoom THEN n + 1 ELSE n

OpenQuote ==
    /\ pc = "word"
    /\ text[p] \in Chars \ Delm
    /\ IsQuoteHere
    /\ text' = Cut(p)
    /\ cur_quote' = text[p]
    /\ p' = p + 1
    /\ IF text[p + 1] = Nul
       THEN Return("QUOTE_NOT_CLOSED") /\ UNCHANGED <<n, tokens>>
       ELSE IF no_delm > 0 /\ ~HasRoom
       THEN Return("OK") /\ UNCHANGED <<n, tokens>>
       ELSE n' = TokensAtQuote /\ tokens' = Put(TokensAtQuote, p + 1)
            /\ pc' = "quoted" /\ UNCHANGED ret
    /\ UNCHANGED <<call, copier, no_delm>>

(* strchr(buf, cur_quote) finds the place q. *)
NextMark_AnyMark(q) ==
    /\ q \in p..Len(org)
    /\ text[q] \in Quote
    /\ \A i \in p..(q - 1) : text[i] \notin Quote

NextMark(q) ==
    /\ q \in p..Len(org)
    /\ text[q] = cur_quote
    /\ \A i \in p..(q - 1) : text[i] # cur_quote

EscapedMark_InPlace ==
    /\ pc = "quoted"
    /\ text[p] # Nul
    /\ \E q \in p..Len(org) : NextMark(q) /\ text[q - 1] = Bs /\ p' = q
    /\ UNCHANGED <<call, cutter, copier, pc, ret>>

EscapedMark ==
    /\ pc = "quoted"
    /\ text[p] # Nul
    /\ \E q \in p..Len(org) : NextMark(q) /\ text[q - 1] = Bs /\ p' = q + 1
    /\ UNCHANGED <<call, cutter, copier, pc, ret>>

CloseQuote ==
    /\ pc = "quoted"
    /\ text[p] # Nul
    /\ \E q \in p..Len(org) : NextMark(q) /\ text[q - 1] # Bs /\ p' = q
    /\ no_delm' = 1
    /\ pc' = "got"
    /\ UNCHANGED <<call, copier, text, n, tokens, cur_quote, ret>>

NoMark ==
    /\ pc = "quoted"
    /\ text[p] # Nul
    /\ \A q \in p..Len(org) : ~NextMark(q)
    /\ Return("QUOTE_NOT_CLOSED")
    /\ UNCHANGED <<call, cutter, copier, p>>

(* The token ends at a delimiter or at the end of the text; the second way *)
(* is that the text ends right behind an escaped mark.                     *)
EndToken ==
    /\ \/ pc = "word" /\ text[p] \in Delm \cup {Nul}
       \/ pc = "quoted" /\ text[p] = Nul
    /\ pc' = "got"
    /\ UNCHANGED <<call, cutter, copier, p, ret>>

LastCounts_OffByOne == no_delm > 1
LastCounts == no_delm > 0

GotLast ==
    /\ pc = "got"
    /\ text[p] = Nul
    /\ n' = IF LastCounts THEN n + 1 ELSE n
    /\ Return("OK")
    /\ UNCHANGED <<call, copier, text, p, tokens, no_delm, cur_quote>>

GotToken ==
    /\ pc = "got"
    /\ text[p] # Nul
    /\ text' = Cut(p)
    /\ n' = n + 1
    /\ IF text[p + 1] = Nul
       THEN Return("OK") /\ UNCHANGED p
       ELSE pc' = "outer" /\ p' = p + 1 /\ UNCHANGED ret
    /\ UNCHANGED <<call, copier, tokens, no_delm, cur_quote>>

(***************************************************************************)
(* mccp_str_unescape().                                                    *)
(***************************************************************************)
(* A text in quotation marks is refused, unless the last one is escaped. *)
Unquoted ==
    /\ org[1] \notin Quote
    /\ \/ org[Len(org)] \notin Quote
       \/ Len(org) >= 2 /\ org[Len(org) - 1] = Bs

CheckMarks ==
    /\ pc = "check"
    /\ IF Unquoted THEN pc' = "copy" /\ UNCHANGED ret ELSE Return("INVALID_ARGS")
    /\ UNCHANGED <<call, cutter, copier, p>>

(* What is written for the letter c behind a backslash. *)
Unescaped_Kept(c) == <<Bs, c>>
Unescaped(c) == IF c \in Quote THEN <<c>> ELSE IF c = Bs THEN <<Bs, Bs>> ELSE <<Bs, c>>

CopyLetter ==
    /\ pc = "copy"
    /\ text[p] # Nul
    /\ p' = p + 1
    /\ IF got_bs THEN out' = out \o Unescaped(text[p]) /\ got_bs' = FALSE
       ELSE IF text[p] = Bs THEN got_bs' = TRUE /\ UNCHANGED out
       ELSE out' = Append(out, text[p]) /\ UNCHANGED got_bs
    /\ UNCHANGED <<call, cutter, pc, ret>>

CopyEnd ==
    /\ pc = "copy"
    /\ text[p] = Nul
    /\ Return("OK")
    /\ UNCHANGED <<call, cutter, copier, p>>

(***************************************************************************)
(* mccp_str_trim_right(): p walks from the last letter to the left, and    *)
(* the code stops it in front of the first one.                            *)
(***************************************************************************)
LettersLeft == p >= 1

TrimLetter ==
    /\ pc = "trim"
    /\ LettersLeft
    /\ text[p] \in Delm
    /\ text' = Cut(p)
    /\ p' = p - 1
    /\ UNCHANGED <<call, copier, n, tokens, no_delm, cur_quote, pc, ret>>

TrimEnd ==
    /\ pc = "trim"
    /\ LettersLeft => text[p] \notin Delm
    /\ Return("OK")
    /\ UNCHANGED <<call, cutter, copier, p>>

StrNext ==
    \/ Outer \/ SkipDelimiter \/ NothingLeft \/ BeginToken \/ Letter
    \/ OpenQuote \/ EscapedMark \/ CloseQuote \/ NoMark \/ EndToken \/ GotLast \/ GotToken
    \/ CheckMarks \/ CopyLetter \/ CopyEnd
    \/ TrimLetter \/ TrimEnd

StrSpec == StrInit /\ [][StrNext]_strVars

(* A call runs on by itself until it returns. *)
StrFairSpec == StrSpec /\ WF_strVars(StrNext)
-----------------------------------------------------------------------------
(* Every variable has its type. *)
StrTypeOK ==
    /\ fn \in Functions_
    /\ org \in Seq(Chars) /\ Len(org) > 0
    /\ max \in Nat
    /\ pc \in Loops
    /\ text \in [Places -> Letters]
    /\ p \in 0..(Len(org) + 1)
    /\ n \in Nat
    /\ tokens \in Seq(Places)
    /\ no_delm \in Nat
    /\ cur_quote \in Letters
    /\ got_bs \in BOOLEAN
    /\ out \in Seq(Chars)
    /\ ret \in Results_

(* No call leaves its memory.                                               *)
(* - The scan never passes the terminator and looks back, *(buf - 1), only  *)
(*   where a letter stands.                                                 *)
(* - mccp_str_tokenize() writes at most max starts. A quotation that opens  *)
(*   right behind unquoted letters makes two tokens in one turn of the loop *)
(*   that looked for room for one: mccp_str_tokenize_quote() may write and  *)
(*   count one more than max, never two.                                    *)
(* - What mccp_str_unescape() has written, and a backslash it holds back,   *)
(*   never exceed what it has read, so its buffer of the length of the text *)
(*   is large enough.                                                       *)
Room == IF fn = "tokenize_quote" THEN max + 1 ELSE max

InBounds ==
    /\ text[Len(org) + 1] = Nul
    /\ fn # "trim_right" => p >= 1
    /\ pc = "quoted" => p >= 2
    /\ Len(tokens) <= Room /\ n <= Room
    /\ fn = "unescape" => Len(out) + (IF got_bs THEN 1 ELSE 0) <= p - 1

(* The letters of the token that starts at i. *)
Body(i) == {j \in i..Len(org) : \A k \in i..j : text[k] # Nul}

(* A run of letters without a delimiter begins at i, and ends in front of e. *)
Begins(i)  == org[i] \notin Delm /\ (i > 1 => org[i - 1] \in Delm)
Starts     == {i \in 1..Len(org) : Begins(i)}
Run(i)     == {j \in i..Len(org) : \A k \in i..j : org[k] \notin Delm}

(* Without quotation marks both tokenizers return the runs of letters       *)
(* between delimiters, the first max of them, in their order and whole.     *)
TokensAreTheRuns ==
    fn \in {"tokenize", "tokenize_quote"} /\ ret = "OK"
    /\ (fn = "tokenize_quote" => \A i \in 1..Len(org) : org[i] \notin Quote) =>
        /\ n = (IF Cardinality(Starts) < max THEN Cardinality(Starts) ELSE max)
        /\ Len(tokens) = n
        /\ \A k \in 1..n :
              /\ tokens[k] \in Starts
              /\ Cardinality({i \in Starts : i < tokens[k]}) = k - 1
              /\ Body(tokens[k]) = Run(tokens[k])

(* The text ends with a mark that a backslash escapes.  The loop that looks   *)
(* for the closing mark then ends without a result: the call succeeds and    *)
(* the quoted letters are lost, although the comment at strutils.c:1190 says  *)
(* that we are still in the quotation.                                      *)
EndsEscaped == Len(org) > 1 /\ org[Len(org)] \in Quote /\ org[Len(org) - 1] = Bs

(* The token that starts at i stands between two equal marks. *)
Quoted(i) ==
    LET e == i + Cardinality(Body(i))
    IN  i > 1 /\ org[i - 1] \in Quote /\ e <= Len(org) /\ org[e] = org[i - 1]

(* A delimiter is part of a token only inside a closed quotation, and when   *)
(* the whole text was read no letter is lost: it is a delimiter, a mark or   *)
(* part of a token.                                                         *)
QuotesHold ==
    fn = "tokenize_quote" /\ ret = "OK" /\ ~EndsEscaped =>
        /\ \A k \in 1..n : (\E i \in Body(tokens[k]) : org[i] \in Delm) => Quoted(tokens[k])
        /\ n < max => \A i \in 1..Len(org) :
              \/ org[i] \in Delm \cup Quote
              \/ \E k \in 1..n : i \in Body(tokens[k])

(* The letters of s up to each of its places that are no backslash. *)
Kept(s) ==
    LET kept[i \in 0..Len(s)] ==
            IF i = 0 THEN <<>>
            ELSE IF s[i] = Bs THEN kept[i - 1] ELSE Append(kept[i - 1], s[i])
    IN  kept

WithoutBs(s) == Kept(s)[Len(s)]

(* mccp_str_unescape() drops, adds and moves nothing but backslashes, and   *)
(* when each of them stands in front of a mark it drops them all: the text   *)
(* that was escaped is back.                                                *)
EscapingIsUndone ==
    fn = "unescape" /\ ret = "OK" =>
        /\ WithoutBs(out) = WithoutBs(org)
        /\ (\A i \in 1..Len(org) : org[i] = Bs => i < Len(org) /\ org[i + 1] \in Quote)
           => out = WithoutBs(org)

(* How far a call is from its return at most: the letters that are left,    *)
(* each with all loops, and the loops left at this place of the text.       *)
Loop        == [done |-> 0, got |-> 1, trim |-> 1, copy |-> 1, quoted |-> 2, check |-> 2, word |-> 3, skip |-> 4, outer |-> 5]
LettersToGo == IF fn = "trim_right" THEN p ELSE (Len(org) + 1) - p
StepsLeft   == 6 * LettersToGo + Loop[pc]

(* Every step brings a call nearer to its return, whatever marks, escaped or *)
(* not, it jumps over: a call with a text of k letters takes at most 6k + 5  *)
(* steps.                                                                   *)
CallsComeNearer == [][StepsLeft' \in 0..(StepsLeft - 1)]_strVars
=============================================================================
