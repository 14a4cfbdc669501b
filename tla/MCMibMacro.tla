------------------------------- MODULE MCMibMacro -------------------------------
(* Three macros as the program and the RFCs have them, in small; values that  *)
(* are right, cut off anywhere, or without one of their tokens; macros that   *)
(* are not what they should be.                                               *)
EXTENDS MibValue

Token(s) == IF s \in Symbols THEN Symbol(s) ELSE IF s \in {"0", "5", "9"} THEN Number(s) ELSE Ident(s)
Line(ss) == [i \in DOMAIN ss |-> Token(ss[i])]

\* The words of a name; a value in a pattern is followed by what it is a value of.
Pieces(name) ==
  CASE name = "TYPE NOTATION" -> Line(<<"TYPE", "NOTATION">>)
    [] name = "OBJECT IDENTIFIER" -> Line(<<"OBJECT", "IDENTIFIER">>)
    [] name = "value" -> Line(<<"value", "(", "x", "OBJECT", "IDENTIFIER", ")">>)
    [] OTHER -> Line(<<name>>)

\* A field: its name, its alternatives, and whether they are value(x Type) each.
Field(name, alts)  == [name |-> name, alternatives |-> alts, value |-> FALSE]
Value(name, type)  == [name |-> name, alternatives |-> <<<<Reference(type)>>>>, value |-> TRUE]

ItemWords(item) ==
  IF item.is = "word" THEN <<Quoted(item.text)>>
  ELSE (IF item.list THEN Line(<<"SEQUENCE", "OF">>) ELSE <<>>) \o Pieces(item.name)

FieldWords(f) ==
  LET alternative(items) ==
        IF f.value THEN Line(<<"value", "(", "x">>) \o Pieces(items[1].name) \o Line(<<")">>)
        ELSE FlattenSeq([i \in DOMAIN items |-> ItemWords(items[i])])
  IN  Pieces(f.name) \o Line(<<"::=">>)
      \o FlattenSeq([i \in DOMAIN f.alternatives |-> (IF i > 1 THEN Line(<<"|">>) ELSE <<>>) \o alternative(f.alternatives[i])])

Macro(fs)   == Line(<<"BEGIN">>) \o FlattenSeq([i \in DOMAIN fs |-> FieldWords(fs[i])]) \o Line(<<"END">>)
Says(fs)    == [name \in {fs[i].name : i \in DOMAIN fs} |->
                  fs[CHOOSE i \in DOMAIN fs : fs[i].name = name].alternatives]

Text(macro, grammar, value, meant) ==
  [words |-> macro \o Line(<<"v", "M">>) \o value \o Line(<<"::=">>), grammar |-> grammar, meant |-> meant]

\* OBJECT-TYPE
ObjectType == <<
  Field("TYPE NOTATION", <<<<Word("SYNTAX"), Reference("Syntax"), Word("MAX-ACCESS"), Reference("Access"),
                             Reference("IndexPart"), Reference("DefValPart")>>>>),
  Field("Syntax", <<<<Reference("type")>>, <<Word("BITS"), Word("{"), Reference("identifier"), Word("}")>>>>),
  Field("Access", <<<<Word("ro")>>, <<Word("rw")>>>>),
  Field("IndexPart", <<<<Word("INDEX"), Word("{"), Reference("IndexTypes"), Word("}")>>,
                       <<Word("AUGMENTS"), Word("{"), Reference("Entry"), Word("}")>>,
                       <<Reference("empty")>>>>),
  Field("IndexTypes", <<<<Reference("IndexType")>>, <<Reference("IndexTypes"), Word(","), Reference("IndexType")>>>>),
  Field("IndexType", <<<<Word("IMPLIED"), Reference("Index")>>, <<Reference("Index")>>>>),
  Value("Index", "OBJECT IDENTIFIER"),
  Value("Entry", "OBJECT IDENTIFIER"),
  Field("DefValPart", <<<<Word("DEFVAL"), Word("{"), Reference("Default"), Word("}")>>, <<Reference("empty")>>>>),
  Value("Default", "Syntaxes")>>

\* TRAP-TYPE, with a text, and the list the other way round.
TrapType == <<
  Field("TYPE NOTATION", <<<<Word("ENTERPRISE"), Reference("value"), Reference("VarPart"), Reference("TextPart")>>>>),
  Field("VarPart", <<<<Word("VARIABLES"), Word("{"), Reference("VarTypes"), Word("}")>>, <<Reference("empty")>>>>),
  Field("VarTypes", <<<<Reference("VarType")>>, <<Reference("VarType"), Word(","), Reference("VarTypes")>>>>),
  Value("VarType", "OBJECT IDENTIFIER"),
  Field("TextPart", <<<<Word("DESCRIPTION"), Reference("Text")>>, <<Reference("empty")>>>>),
  Value("Text", "IA5String")>>

\* MODULE-COMPLIANCE: a list without commas.
Compliance == <<
  Field("TYPE NOTATION", <<<<Word("STATUS"), Reference("Status"), Reference("Modules")>>>>),
  Field("Status", <<<<Word("current")>>, <<Word("old")>>>>),
  Field("Modules", <<<<Reference("Part")>>, <<Reference("Modules"), Reference("Part")>>>>),
  Field("Part", <<<<Word("MODULE"), Reference("value")>>, <<Word("GROUP"), Reference("value")>>>>)>>

Is(ss)   == [is |-> "tokens", tokens |-> ss]
At0(ss)  == Composite("0" :> Is(ss))

\* A macro, a value, and what it means.
Right == {
  <<ObjectType, Line(<<"SYNTAX", "INTEGER", "(", "0", ".", "9", ")", "MAX-ACCESS", "ro">>),
    Composite([SYNTAX |-> Is(<<"INTEGER", "(", "0", ".", "9", ")">>)] @@ ("MAX-ACCESS" :> Is(<<"ro">>)))>>,
  <<ObjectType, Line(<<"SYNTAX", "SEQUENCE", "OF", "E", "ACCESS", "rw", "AUGMENTS", "{", "e", "}">>),
    Composite([SYNTAX |-> Is(<<"SEQUENCE OF", "E">>), AUGMENTS |-> Is(<<"e">>)] @@ ("MAX-ACCESS" :> Is(<<"rw">>)))>>,
  <<ObjectType, Line(<<"SYNTAX", "E", "MAX-ACCESS", "ro", "INDEX", "{", "a", ",", "b", ",", "IMPLIED", "c", "}">>),
    Composite([SYNTAX |-> Is(<<"E">>), INDEX |-> List(<<At0(<<"a">>), At0(<<"b">>), Composite([IMPLIED |-> Is(<<"c">>)])>>)]
              @@ ("MAX-ACCESS" :> Is(<<"ro">>)))>>,
  <<ObjectType, Line(<<"SYNTAX", "[", "5", "]", "IMPLICIT", "BITS", "{", "x", "}", "MAX-ACCESS", "rw", "DEFVAL", "{", "5", "}">>),
    Composite([SYNTAX |-> Is(<<"[", "5", "]", "IMPLICIT", "BITS", "{", "x", "}">>)] @@ ("MAX-ACCESS" :> Is(<<"rw">>)))>>,
  <<TrapType, Line(<<"ENTERPRISE", "{", "a", "5", "}", "VARIABLES", "{", "a", ",", "b", ",", "c", "}", "DESCRIPTION">>)
              \o <<Quoted("text")>>,
    Composite([ENTERPRISE |-> Is(<<"{", "a", "5", "}">>), DESCRIPTION |-> Is(<<"text">>)]
              @@ ("VARIABLES" :> List(<<Is(<<"a">>), Is(<<"b">>), Is(<<"c">>)>>)))>>,
  <<TrapType, Line(<<"ENTERPRISE", "a", "VARIABLES", "{", "}">>),
    Composite([ENTERPRISE |-> Is(<<"a">>)] @@ ("VARIABLES" :> List(<<>>)))>>,
  <<Compliance, Line(<<"STATUS", "old", "GROUP", "a">>),
    Composite([STATUS |-> Is(<<"old">>), GROUP |-> Is(<<"a">>)])>>,
  <<Compliance, Line(<<"STATUS", "current", "MODULE", "a", "MODULE", "b">>), Nil>>}

\* Without what follows, and without one token.
RightTexts == {Text(Macro(r[1]), Says(r[1]), r[2], r[3]) : r \in Right}
WrongTexts ==
  UNION {{Text(Macro(r[1]), Says(r[1]), SubSeq(r[2], 1, n - 1), Nil) : n \in 1 .. Len(r[2])}
         \cup {Text(Macro(r[1]), Says(r[1]), SubSeq(r[2], 1, n - 1) \o Rest(r[2], n), Nil) : n \in 1 .. Len(r[2])}
         : r \in Right}

\* Blocks that are no macro.
T == Line(<<"TYPE", "NOTATION", "::=">>)
Blocks == {
  T, Line(<<"A">>) \o T, Line(<<"5", "::=", "x">>), T \o Line(<<"value", "(", "x">>), T \o Line(<<"value", "(", ")">>),
  T \o Line(<<"type", "(", "Syntaxes", ")", "|", "type", "(", "T", ")">>), T \o Line(<<"type", "(">>), T \o Line(<<"type", "(", "Syntaxes", ")">>),
  T \o Line(<<"x", "(">>), T \o Line(<<"SEQUENCE", "OF">>), T \o Line(<<"x", "|">>), T \o Line(<<"x", ",">>), T \o Line(<<"5">>),
  T \o Line(<<"x", "|", "A", "::=", "x">>), T \o Line(<<"x">>) \o T \o Line(<<"x">>),
  T \o Line(<<"SEQUENCE", "OF", "value">>), Line(<<"A", "::=", "x">>)}

Block(b)   == Line(<<"BEGIN">>) \o b \o Line(<<"END">>)
BlockTexts == {Text(Block(b), <<>>, Line(<<"a">>), Nil) : b \in Blocks}
          \cup {[words |-> w, grammar |-> <<>>, meant |-> Nil] :
                  w \in {<<>>, Line(<<"a">>), Line(<<"BEGIN", "A">>), Block(T \o Line(<<"x">>)), Block(T \o Line(<<"x">>)) \o Line(<<"v", "M">>)}}

MCTypes == [CHOICE |-> "CHOICE", Syntaxes |-> "CHOICE"]
MCTexts == RightTexts \cup WrongTexts \cup BlockTexts
===============================================================================
