-------------------------------- MODULE MibScan --------------------------------
(***************************************************************************)
(* The scanner of MIB files character by character                         *)
(* (src/pkg/snmp/mibtoken/scanner.go, token.go): a split function for the  *)
(* bufio.Scanner of the library, which calls it with as much of the file   *)
(* as has arrived, and again with more when it asks for that.  Beside the  *)
(* tokens it keeps the position of the next one.                           *)
(*                                                                         *)
(* A character is its class; two classes of letters and two of bytes that  *)
(* are no ASCII are told apart because the code tells them apart.  A buffer*)
(* that cannot grow any more (64 KB) is left out.                          *)
(***************************************************************************)
EXTENDS Integers, Sequences, FiniteSets, FiniteSetsExt

CONSTANT Texts  \* of files, as sequences of characters

Letters    == {"a", "n"}          \* n is one that may be escaped
Digits     == {"1"}
Breaks     == {"LF", "CR"}
Quotes     == {"QUOTE"}
Singles    == {"-", ":", ".", "{"}
IdentChars == Letters \cup Digits \cup {"_", "-", "."}
Characters == IdentChars \cup Breaks \cup Quotes \cup Singles \cup {" ", "=", "BACKSLASH", "128", "129"}

ASSUME TextsAssumption == \A text \in Texts : text \in Seq(Characters)

VARIABLES
  text,      \* of the file; never changed
  start,     \* so many characters have been taken,
  end,       \* so many have arrived,
  eof,       \* and there are no more
  position,  \* nextPosition
  tokens,    \* what Scan has returned
  phase      \* "scanning", "ended", "failed" or "panicked"

vars == <<text, start, end, eof, position, tokens, phase>>

-----------------------------------------------------------------------------
(* The split functions.                                                     *)

More       == [is |-> "more"]
Wrong      == [is |-> "wrong"]
Panic      == [is |-> "panic"]
Take(n, p) == [is |-> "token", n |-> n, position |-> p]

Right(n) == [position EXCEPT !.column = @ + n]

\* How many characters at the beginning are of a set.
Run(data, set) == Max({n \in 0 .. Len(data) : \A i \in 1 .. n : data[i] \in set})

\* What ends before a character that is not of its kind, so that one must be seen.
\* (Mutant: the end of the buffer will do.)
UpToOrBuffer(n, data, atEOF) == Take(n, Right(n))

UpTo(n, data, atEOF) == IF n = Len(data) /\ ~ atEOF THEN More ELSE Take(n, Right(n))

SplitSpace(data, atEOF)  == UpTo(Run(data, {" "}), data, atEOF)
SplitIdent(data, atEOF)  == UpTo(Run(data, IdentChars), data, atEOF)
SplitNumber(data, atEOF) == UpTo(1 + Run(Tail(data), Digits), data, atEOF)
SplitComment(data, atEOF) == UpTo(Run(data, Characters \ Breaks), data, atEOF)

\* The places of a string that do not follow a backslash that counts.
Plain(data) ==
  LET plain[i \in 1 .. Len(data)] == i <= 2 \/ ~ (plain[i - 1] /\ data[i - 1] = "BACKSLASH")
  IN  {i \in 2 .. Len(data) : plain[i]}

\* Where the next token is after plain places of a string: breaks count as lines unless they
\* are one half of a CR LF, and end what counts as columns; the opening quote does not.
\* (Mutant: lines in a string are not counted.)
AfterStringOnOneLine(data, plain) == Right(Cardinality({i \in plain : data[i] \notin Breaks}))

AfterString(data, plain) ==
  LET lines == {i \in plain : \/ data[i] = "LF" /\ data[i - 1] # "CR"
                              \/ data[i] = "CR" /\ data[i + 1] # "LF"}
      count(places) == Cardinality({i \in places : data[i] \notin Breaks})
  IN  IF lines = {} THEN Right(count(plain))
      ELSE [line |-> position.line + Cardinality(lines),
            column |-> 1 + count({i \in plain : i > Max(lines)})]

\* The first quote that is plain ends the string.  A CR that is the last character of the buffer
\* is compared with the one after it.
SplitString(data, atEOF) ==
  LET plain == Plain(data)
      close == {i \in plain : data[i] = data[1]}
      seen  == {i \in plain : \A c \in close : i <= c}
  IN  IF Len(data) \in seen /\ data[Len(data)] = "CR" THEN Panic
      ELSE IF close # {} THEN Take(Min(close), AfterString(data, seen))
      ELSE IF atEOF THEN Wrong ELSE More

\* Symbols do not move the column.
SplitPunct(data, atEOF) ==
  CASE data[1] = "-" /\ Len(data) < 2 /\ ~ atEOF               -> More
    [] data[1] = "-" /\ Len(data) >= 2 /\ data[2] = "-"        -> SplitComment(data, atEOF)
    [] data[1] = "-" /\ Len(data) >= 2 /\ data[2] \in Digits   -> SplitNumber(data, atEOF)
    [] data[1] = ":" /\ Len(data) < 3 /\ ~ atEOF               -> More
    [] Len(data) >= 3 /\ SubSeq(data, 1, 3) = <<":", ":", "=">> -> Take(3, position)
    [] OTHER                                                   -> Take(1, position)

\* Two different characters are one end of a line, if both have arrived.
SplitEOL(data) ==
  Take(IF Len(data) > 1 /\ data[2] \in Breaks \ {data[1]} THEN 2 ELSE 1,
       [line |-> position.line + 1, column |-> 1])

\* split: by the first character.  The table has 128 entries, and 128 is not above that.
Split(data, atEOF) ==
  CASE data = <<>>            -> More
    [] data[1] = "129"        -> Wrong
    [] data[1] = "128"        -> Panic
    [] data[1] = " "          -> SplitSpace(data, atEOF)
    [] data[1] \in Breaks     -> SplitEOL(data)
    [] data[1] \in Digits     -> SplitNumber(data, atEOF)
    [] data[1] \in Letters    -> SplitIdent(data, atEOF)
    [] data[1] \in Quotes     -> SplitString(data, atEOF)
    [] data[1] \in Singles    -> SplitPunct(data, atEOF)
    [] OTHER                  -> Wrong

\* Token.Type.
Type(value) ==
  CASE value[1] \in {" "} \cup Breaks -> "WHITESPACE"
    [] value[1] = "-" /\ Len(value) > 1 -> IF value[2] = "-" THEN "COMMENT" ELSE "NUMBER"
    [] value[1] \in Quotes             -> "STRING"
    [] value[1] \in Digits             -> "NUMBER"
    [] value[1] \in Letters            -> "IDENT"
    [] OTHER                           -> "SYMBOL"

-----------------------------------------------------------------------------
(* bufio.Scanner.Scan, called again and again by refillQueue.               *)

Data   == SubSeq(text, start + 1, end)
Result == Split(Data, eof)

Scanning(result) == phase = "scanning" /\ Result.is = result

\* External: some of the file arrives, as much as the reader likes to give.
Arrive ==
  /\ Scanning("more")
  /\ \E n \in 1 .. Len(text) - end : end' = end + n
  /\ UNCHANGED <<text, start, eof, position, tokens, phase>>

\* External: the reader has no more.
ArriveEOF ==
  /\ Scanning("more")
  /\ end = Len(text)
  /\ ~ eof
  /\ eof' = TRUE
  /\ UNCHANGED <<text, start, end, position, tokens, phase>>

ScanToken ==
  /\ Scanning("token")
  /\ start' = start + Result.n
  /\ position' = Result.position
  /\ tokens' = Append(tokens, [from |-> start + 1, to |-> start + Result.n, at |-> position,
                               type |-> Type(SubSeq(Data, 1, Result.n))])
  /\ UNCHANGED <<text, end, eof, phase>>

Stop ==
  \/ Scanning("more") /\ eof /\ phase' = "ended"
  \/ Scanning("wrong") /\ phase' = "failed"
  \/ Scanning("panic") /\ phase' = "panicked"

ScanStops ==
  /\ Stop
  /\ UNCHANGED <<text, start, end, eof, position, tokens>>

Init ==
  /\ text \in Texts
  /\ start = 0
  /\ end = 0
  /\ eof = FALSE
  /\ position = [line |-> 1, column |-> 1]
  /\ tokens = <<>>
  /\ phase = "scanning"

Next == Arrive \/ ArriveEOF \/ ScanToken \/ ScanStops

Spec == Init /\ [][Next]_vars

-----------------------------------------------------------------------------
(* The text of a string.                                                    *)

Escapes == [c \in {"n", "BACKSLASH", "QUOTE"} |-> IF c = "n" THEN "LF" ELSE c]

White == Breaks \cup {" "}

\* Unquote from place i of what is left of the text: an escape becomes its character, a break and
\* the white space after it one space; what comes after that by as many places is not looked at.
\* (Mutant: a break becomes nothing.)
RECURSIVE UnquoteGlued(_, _)
UnquoteGlued(s, i) ==
  IF i > Len(s) THEN s
  ELSE IF s[i] \in Breaks
       THEN LET n == Run(SubSeq(s, i, Len(s)), White)
            IN  UnquoteGlued(SubSeq(s, 1, i - 1) \o SubSeq(s, i + n, Len(s)), i + n)
       ELSE UnquoteGlued(s, i + 1)

RECURSIVE UnquoteFrom(_, _)
UnquoteFrom(s, i) ==
  CASE i > Len(s)           -> s
    [] s[i] = "BACKSLASH"   ->
         IF i = Len(s) \/ s[i + 1] \notin DOMAIN Escapes THEN <<"invalid">>
         ELSE UnquoteFrom(SubSeq(s, 1, i - 1) \o <<Escapes[s[i + 1]]>> \o SubSeq(s, i + 2, Len(s)), i + 1)
    [] s[i] \in Breaks      ->
         LET n == Run(SubSeq(s, i, Len(s)), White)
         IN  UnquoteFrom(SubSeq(s, 1, i - 1) \o <<" ">> \o SubSeq(s, i + n, Len(s)), i + n + 1)
    [] OTHER                -> UnquoteFrom(s, i + 1)

Unquote(s) == UnquoteFrom(SubSeq(s, 2, Len(s) - 1), 1)

\* spaceFmt of the metric printer: white space is one space.
Collapse(s) ==
  LET kept == {i \in DOMAIN s : s[i] \notin White \/ i = 1 \/ s[i - 1] \notin White}
      nth(n) == CHOOSE i \in kept : Cardinality({j \in kept : j <= i}) = n
  IN  [n \in 1 .. Cardinality(kept) |-> IF s[nth(n)] \in White THEN " " ELSE s[nth(n)]]

-----------------------------------------------------------------------------
(* The lexemes of a MIB file, told from a text as a whole.                  *)

All(s, set) == \A i \in DOMAIN s : s[i] \in set

Lexeme(kind, s) ==
  CASE kind = "WHITESPACE" -> All(s, {" "}) \/ (All(s, Breaks) /\ Cardinality({s[i] : i \in DOMAIN s}) = Len(s))
    [] kind = "IDENT"      -> s[1] \in Letters /\ All(s, IdentChars)
    [] kind = "NUMBER"     -> (s[1] \in Digits \/ (s[1] = "-" /\ Len(s) > 1)) /\ All(Tail(s), Digits)
    [] kind = "COMMENT"    -> Len(s) > 1 /\ s[1] = "-" /\ s[2] = "-" /\ All(s, Characters \ Breaks)
    [] kind = "STRING"     -> s[1] \in Quotes /\ {i \in Plain(s) : s[i] = s[1]} = {Len(s)}
    [] kind = "SYMBOL"     -> s = <<":", ":", "=">> \/ (Len(s) = 1 /\ s[1] \in Singles)

Kinds == {"WHITESPACE", "IDENT", "NUMBER", "COMMENT", "STRING", "SYMBOL"}

\* Where the lexemes of a kind that begin at a place end.
Ends(kind, from) == {to \in from .. Len(text) : Lexeme(kind, SubSeq(text, from, to))}

\* How many lines end in the first characters, and where the last of them does.
Lines(n)    == Cardinality({i \in 1 .. n : text[i] = "LF"})
LineFrom(n) == Max({0} \cup {i \in 1 .. n : text[i] = "LF"})

-----------------------------------------------------------------------------
(* Properties                                                               *)

TypeOK ==
  /\ text \in Texts
  /\ start \in 0 .. end /\ end \in 0 .. Len(text)
  /\ eof \in BOOLEAN
  /\ phase \in {"scanning", "ended", "failed", "panicked"}
  /\ position.line \in Nat \ {0} /\ position.column \in Nat \ {0}
  /\ \A k \in DOMAIN tokens : tokens[k].type \in Kinds

\* The tokens are, one after the other, the longest lexemes of the file, of the type they
\* have, wherever the buffers it is read in end (the atEOF of every split function).  Only the two
\* characters of a line end may come as two tokens.
LongestLexemes ==
  \A k \in DOMAIN tokens :
    /\ tokens[k].from = (IF k = 1 THEN 1 ELSE tokens[k - 1].to + 1)
    /\ tokens[k].to \in Ends(tokens[k].type, tokens[k].from)
    /\ \/ \A kind \in Kinds : \A to \in Ends(kind, tokens[k].from) : to <= tokens[k].to
       \/ text[tokens[k].from] \in Breaks

\* The scanner ends where the file does, fails only where no lexeme begins, and panics only on a
\* file with a CR or a byte 128: where a buffer ends is no reason to give up.
StopsForAReason ==
  /\ phase = "ended" => start = Len(text)
  /\ phase = "failed" => \A kind \in Kinds : Ends(kind, start + 1) = {}
  /\ phase = "panicked" => \E i \in DOMAIN text : text[i] \in {"CR", "128"}

\* What is said of a token in error messages: in a file with LF as line end, none of them escaped,
\* the line is the one the token begins in, also after strings and comments and however the buffers
\* end; the column is right if only words, numbers and blanks are before it, and never too large.
PositionsOK ==
  (\A i \in DOMAIN text : text[i] # "CR" /\ (i > 1 /\ text[i] = "LF" => text[i - 1] # "BACKSLASH")) =>
    \A k \in DOMAIN tokens :
      LET line   == LineFrom(tokens[k].from - 1)
          before == {j \in 1 .. k - 1 : tokens[j].to > line}
      IN  /\ tokens[k].at.line = 1 + Lines(line)
          /\ tokens[k].at.column <= tokens[k].from - line
          /\ (\A j \in before : tokens[j].type \notin {"STRING", "SYMBOL"}) =>
               tokens[k].at.column = tokens[k].from - line

\* A help text is the string of the file, on one line: what Unquote does to breaks and what
\* the metric printer does to white space lose no word and join no two (in strings without
\* escapes; after a break Unquote leaves some characters as they are).
HelpAsWritten ==
  \A k \in DOMAIN tokens :
    LET string == SubSeq(text, tokens[k].from, tokens[k].to)
    IN  tokens[k].type = "STRING" /\ (\A i \in DOMAIN string : string[i] # "BACKSLASH") =>
          Collapse(Unquote(string)) = Collapse(SubSeq(string, 2, Len(string) - 1))

\* The first invariant of the run: types, and the file is cut into its longest lexemes.
ScanInv == TypeOK /\ LongestLexemes /\ StopsForAReason
=============================================================================
