-------------------------------- MODULE MibMacro --------------------------------
(***************************************************************************)
(* A macro of a MIB file and a value written in its notation               *)
(* (src/pkg/snmp/mibdb/macro.go, pattern.go, type.go, value.go).  The      *)
(* scanner hands over the block of the macro and then the tokens of the    *)
(* value; the block becomes fields, each with its alternatives; and the    *)
(* value is read as the field TYPE NOTATION says, alternative after        *)
(* alternative, each one on a projection of its own.                       *)
(*                                                                         *)
(* The calls of readValue that are not finished are a stack.  Every        *)
(* definition counts how often it is on it (depth), and refuses to be      *)
(* there more than Limit times.                                            *)
(***************************************************************************)
EXTENDS MibTokens, Bags, BagsExt

CONSTANTS
  Limit,  \* a hundred in the program
  Types,  \* other types of the module: name -> the type it stands for
  Texts   \* [words, grammar]: what the scanner finds, and the macro it says

Reference(name) == [is |-> "ref", name |-> name, list |-> FALSE]
ListOf(name)    == [is |-> "ref", name |-> name, list |-> TRUE]
Word(s)         == [is |-> "word", text |-> s]
Pattern(items)  == [is |-> "sequence", items |-> items]
Choice(alts)    == [is |-> "choice", alternatives |-> alts]

NoField   == ""
NoPattern == <<Word("")>>
NoAnswer  == [is |-> "none"]
Error     == [is |-> "error"]
Ok(value) == [is |-> "ok", value |-> value]

\* Values: of tokens, of named values, a list; nil.
Tokens(list)   == [is |-> "tokens", tokens |-> [i \in DOMAIN list |-> list[i].text]]
Composite(map) == [is |-> "composite", map |-> map]
List(values)   == [is |-> "list", values |-> values]
Nil            == [is |-> "nil"]

VARIABLES
  text,                           \* \in Texts
  phase,
  words, queue,                   \* what is not scanned, and what is scanned and not read
  block,                          \* of the macro, until it has become fields
  meta,                           \* tokens of the value
  fields,                         \* MacroDefintion.fields
  field, alternatives, pattern,   \* what is being defined
  stack, depth, answer,           \* calls; how often they are there; what the last one returned
  read,                           \* tokens of the value that have been read
  before                          \* what the value was read as the first time

scanner    == <<words, queue>>
definition == <<fields, field, alternatives, pattern>>
calls      == <<stack, depth, answer, read, before>>
vars       == <<text, phase, scanner, block, meta, definition, calls>>

Phases == {"block", "fields", "meta", "reading", "done", "refused"}

Refuse ==
  /\ phase' = "refused"
  /\ UNCHANGED <<text, scanner, block, meta, definition, calls>>

-----------------------------------------------------------------------------
(* Tokens from the scanner.                                                 *)

Scanning == phase \in {"block", "meta"}

Scan ==
  /\ Scanning
  /\ ~ Filled(queue, words)
  /\ queue' = Add(queue, Head(words))
  /\ words' = Tail(words)
  /\ UNCHANGED <<text, phase, block, meta, definition, calls>>

Pop ==
  /\ Filled(queue, words)
  /\ queue # <<>>
  /\ queue' = Tail(queue)
  /\ UNCHANGED words

EndOfFile ==
  /\ Scanning
  /\ Filled(queue, words)
  /\ queue = <<>>
  /\ Refuse

\* ReadBlock(s, BEGIN, END), token by token.
PopBlock ==
  /\ phase = "block"
  /\ Pop
  /\ LET all == Append(block, Head(queue))
     IN  IF ~ Has(all, 1, "BEGIN") THEN phase' = "refused" /\ UNCHANGED block
         ELSE IF Level(all, "BEGIN", "END") = 0 THEN phase' = "fields" /\ block' = Tail(Front(all))
         ELSE block' = all /\ UNCHANGED phase
  /\ UNCHANGED <<text, meta, definition, calls>>

\* ReadUntil(s, "::="), and the value that has these tokens: after its name and that of
\* the macro.
PopMeta ==
  /\ phase = "meta"
  /\ Pop
  /\ IF IsText(Head(queue), "::=")
     THEN phase' = "reading" /\ meta' = Rest(meta, 2)
     ELSE meta' = Append(meta, Head(queue)) /\ UNCHANGED phase
  /\ UNCHANGED <<text, block, definition, calls>>

-----------------------------------------------------------------------------
(* MacroDefintion.readDefinition: the fields.                               *)

Defining == phase = "fields" /\ field # NoField /\ pattern = NoPattern

StartField ==
  /\ phase = "fields"
  /\ field = NoField
  /\ block # <<>>
  /\ IF block[1].type = "IDENT" /\ Has(block, 2, "::=")
     THEN /\ field' = block[1].text
          /\ block' = Rest(block, 2)
          /\ UNCHANGED <<text, phase, scanner, meta, fields, alternatives, pattern, calls>>
     ELSE Refuse

\* patternChoice.readDefinition: another alternative begins at the head of the block, or
\* after a bar.
NextAlternative == Defining /\ block # <<>> /\ (alternatives = <<>> \/ Has(block, 1, "|"))
Beginning       == IF alternatives = <<>> THEN block ELSE Tail(block)

AddAlternative(alternative, rest) ==
  /\ alternatives' = Append(alternatives, alternative)
  /\ block' = rest
  /\ UNCHANGED <<text, phase, scanner, meta, fields, field, pattern, calls>>

\* value(label Type): the type alone, or what stands for it.
ValueAlternative ==
  /\ NextAlternative
  /\ Has(Beginning, 1, "value")
  /\ LET brackets == ReadBlock(Tail(Beginning), "(", ")")
     IN  IF brackets.ok /\ brackets.inside # <<>>
         THEN AddAlternative(Reference(brackets.inside[IF Len(brackets.inside) > 1 THEN 2 ELSE 1].text),
                             Rest(Beginning, 1 + brackets.used))
         ELSE Refuse

\* type, or type(Type), which must be known now.
TypeAlternative ==
  /\ NextAlternative
  /\ Has(Beginning, 1, "type")
  /\ LET brackets == ReadBlock(Tail(Beginning), "(", ")")
         unclosed == Has(Beginning, 2, "(")
     IN  IF ~ brackets.ok THEN AddAlternative(Reference("type"), IF unclosed THEN <<>> ELSE Tail(Beginning))
         ELSE IF brackets.inside # <<>> /\ brackets.inside[1].text \in DOMAIN Types
         THEN AddAlternative(Reference(Types[brackets.inside[1].text]), Rest(Beginning, 1 + brackets.used))
         ELSE Refuse

\* (Mutant: the bar is left where it is.)
StartPatternAtBar ==
  /\ NextAlternative
  /\ IF Beginning = <<>> THEN Refuse
     ELSE /\ ~ Has(Beginning, 1, "value") /\ ~ Has(Beginning, 1, "type")
          /\ pattern' = <<>>
          /\ block' = block
          /\ UNCHANGED <<text, phase, scanner, meta, fields, field, alternatives, calls>>

StartPattern ==
  /\ NextAlternative
  /\ IF Beginning = <<>> THEN Refuse
     ELSE /\ ~ Has(Beginning, 1, "value") /\ ~ Has(Beginning, 1, "type")
          /\ pattern' = <<>>
          /\ block' = Beginning
          /\ UNCHANGED <<text, phase, scanner, meta, fields, field, alternatives, calls>>

\* patternSequence.readDefinition: up to a bar, or the token before the name of a field.
InPattern == phase = "fields" /\ pattern # NoPattern
Ends      == block = <<>> \/ Has(block, 2, "::=") \/ Has(block, 1, "|")

AddItem(item, rest) ==
  /\ pattern' = Append(pattern, item)
  /\ block' = rest
  /\ UNCHANGED <<text, phase, scanner, meta, fields, field, alternatives, calls>>

PatternReference ==
  /\ InPattern
  /\ ~ Ends
  /\ block[1].type = "IDENT"
  /\ LET name == IF IsText(block[1], "SEQUENCE OF") THEN 2 ELSE 1
         rest == Rest(block, name)
     IN  IF Len(block) < name \/ (Opens(rest) /\ ~ Bracketed(rest).ok) THEN Refuse
         ELSE AddItem(IF name = 2 THEN ListOf(block[2].text) ELSE Reference(block[1].text),
                      IF Opens(rest) THEN Rest(rest, Bracketed(rest).used) ELSE rest)

PatternWord ==
  /\ InPattern
  /\ ~ Ends
  /\ block[1].type = "STRING"
  /\ AddItem(Word(block[1].text), Tail(block))

PatternSymbol ==
  /\ InPattern
  /\ ~ Ends
  /\ block[1].type = "SYMBOL"
  /\ Refuse

\* A number is none of these: it stays where it is.
PatternNumber ==
  /\ InPattern
  /\ ~ Ends
  /\ block[1].type = "NUMBER"
  /\ UNCHANGED vars

\* A sequence of nothing is no alternative.
EndPattern ==
  /\ InPattern
  /\ Ends
  /\ pattern' = NoPattern
  /\ alternatives' = IF pattern = <<>> THEN alternatives ELSE Append(alternatives, Pattern(pattern))
  /\ UNCHANGED <<text, phase, scanner, block, meta, fields, field, calls>>

\* Xs ::= X | Xs "," X and Xs ::= X | X "," Xs are lists of X, which are read until there
\* is no comma.
Separated(alts) ==
  /\ Len(alts) = 2
  /\ alts[2].is = "sequence"
  /\ [i \in DOMAIN alts[2].items |-> alts[2].items[i].is] = <<"ref", "word", "ref">>

Listed(name, alts) ==
  IF ~ Separated(alts) THEN {}
  ELSE LET first == alts[2].items[1].name
           third == alts[2].items[3].name
       IN  IF first = name THEN {third} ELSE IF third = name THEN {first} ELSE {}

FieldOf(name, alts) ==
  IF Len(alts) = 1 THEN alts[1]
  ELSE IF Listed(name, alts) # {} THEN ListOf(CHOOSE x \in Listed(name, alts) : TRUE)
  ELSE Choice(alts)

EndField ==
  /\ Defining
  /\ ~ NextAlternative
  /\ IF alternatives = <<>> \/ field \in DOMAIN fields THEN Refuse
     ELSE /\ fields' = (field :> FieldOf(field, alternatives)) @@ fields
          /\ field' = NoField
          /\ alternatives' = <<>>
          /\ UNCHANGED <<text, phase, scanner, block, meta, pattern, calls>>

EndMacro ==
  /\ phase = "fields"
  /\ field = NoField
  /\ block = <<>>
  /\ phase' = "meta"
  /\ UNCHANGED <<text, scanner, block, meta, definition, calls>>
=============================================================================
