------------------------------- MODULE MibTokens -------------------------------
(***************************************************************************)
(* Tokens of a MIB file (src/pkg/snmp/mibtoken): the scanner's queue, in   *)
(* which words that belong together are one token, and blocks in brackets  *)
(* taken out of a list.                                                    *)
(*                                                                         *)
(* The text of a token is a string; that of a quoted one, which is never   *)
(* the text that is looked for, stands without its quotes.                 *)
(***************************************************************************)
EXTENDS Integers, Sequences, FiniteSets, FiniteSetsExt, SequencesExt

CONSTANT Ahead  \* least number of tokens in the scanner's queue; sixteen in the program

Ident(s)  == [type |-> "IDENT", text |-> s]
Quoted(s) == [type |-> "STRING", text |-> s]
Number(s) == [type |-> "NUMBER", text |-> s]
Symbol(s) == [type |-> "SYMBOL", text |-> s]

Symbols == {"::=", "{", "}", "[", "]", "(", ")", ",", ":", ";", ".", "|", "-"}

IsText(token, text) == token.type # "STRING" /\ token.text = text

\* The first tokens of a list are these; there is a token n, and it is this one.
Has(list, n, text) == n \in DOMAIN list /\ IsText(list[n], text)

Rest(list, n) == SubSeq(list, n + 1, Len(list))

-----------------------------------------------------------------------------
(* The scanner.                                                             *)

\* specialTokens: two words that are one token.
Special ==
  <<"OBJECT", "IDENTIFIER">> :> "OBJECT IDENTIFIER" @@ <<"OCTET", "STRING">> :> "OCTET STRING"
  @@ <<"SEQUENCE", "OF">> :> "SEQUENCE OF" @@ <<"SET", "OF">> :> "SET OF"
  @@ <<"TYPE", "NOTATION">> :> "TYPE NOTATION" @@ <<"VALUE", "NOTATION">> :> "VALUE NOTATION"

\* One more word for the queue.
Add(queue, word) ==
  LET joins == {p \in DOMAIN Special : queue # <<>> /\ IsText(Last(queue), p[1]) /\ IsText(word, p[2])}
  IN  IF joins = {} THEN Append(queue, word) ELSE Append(Front(queue), Ident(Special[CHOOSE p \in joins : TRUE]))

\* refillQueue for Pop, which looks one token further than the one it takes.
Enough == IF Ahead > 2 THEN Ahead ELSE 2

Filled(queue, words) == words = <<>> \/ Len(queue) >= Enough

-----------------------------------------------------------------------------
(* Blocks.                                                                  *)

\* How many brackets are open after a list.
Level(list, open, close) ==
  Cardinality({i \in DOMAIN list : IsText(list[i], open)}) - Cardinality({i \in DOMAIN list : IsText(list[i], close)})

\* The place of the bracket that matches the first one; zero if there is none.
Match(list, open, close) ==
  LET change(token) == IF IsText(token, open) THEN 1 ELSE IF IsText(token, close) THEN -1 ELSE 0
      from[n \in 1 .. Len(list) + 1, level \in 0 .. Len(list)] ==
        IF n > Len(list) THEN 0
        ELSE IF level + change(list[n]) = 0 THEN n
        ELSE from[n + 1, level + change(list[n])]
  IN  IF Has(list, 1, open) THEN from[1, 0] ELSE 0

\* ReadBlock from a list: what is between the brackets that match, and how many tokens
\* that took.  The list may not begin with a bracket, or it may end too early.
ReadBlock(list, open, close) ==
  LET end == Match(list, open, close)
  IN  IF end = 0 THEN [ok |-> FALSE] ELSE [ok |-> TRUE, used |-> end, inside |-> SubSeq(list, 2, end - 1)]

\* The brackets of constraints.
Closing == [x \in {"{", "(", "["} |-> CASE x = "{" -> "}" [] x = "(" -> ")" [] x = "[" -> "]"]

Opens(list) == Len(list) >= 1 /\ list[1].type = "SYMBOL" /\ list[1].text \in DOMAIN Closing

Bracketed(list) == ReadBlock(list, list[1].text, Closing[list[1].text])
=============================================================================
