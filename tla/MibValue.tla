-------------------------------- MODULE MibValue --------------------------------
(***************************************************************************)
(* MacroDefintion.readValue: the tokens of a value, read as the macro      *)
(* says.  A value is read twice, with the counts that the first time has   *)
(* left behind, as those of one macro after the other are.                 *)
(*                                                                         *)
(* What a call has read of the tokens is forgotten when it fails.  In the  *)
(* program only choices and sequences have projections of their own; but a *)
(* reference that fails fails whatever it is in, up to a choice.           *)
(***************************************************************************)
EXTENDS MibMacro

NoTop == [is |-> "macro"]
Top   == IF stack = <<>> THEN NoTop ELSE Head(stack)

Left == Rest(meta, read)

Running(is)  == phase = "reading" /\ Top.is = is /\ answer = NoAnswer
Answered(is) == phase = "reading" /\ Top.is = is /\ answer # NoAnswer

-----------------------------------------------------------------------------
(* Values that are no macro's business.                                     *)

Leaves == {"OBJECT IDENTIFIER", "value", "IA5String", "identifier", "type", "empty"}

Take(list, n) == [ok |-> TRUE, used |-> n, value |-> Tokens(SubSeq(list, 1, n))]
Fails         == [ok |-> FALSE]

\* ConstantValue.read and Object.readOid: a token, or a block of them.  (A parenthesis in
\* the block of the latter is taken to be closed, and not to be empty.)
Constant(list) ==
  IF list = <<>> \/ (Has(list, 1, "{") /\ ~ Bracketed(list).ok) THEN Fails
  ELSE Take(list, IF Has(list, 1, "{") THEN Bracketed(list).used ELSE 1)

\* TypeReference.readDefinition: perhaps a tag, a name, perhaps a constraint; something
\* comes after the name.
TypeName(list) ==
  LET tag   == IF ~ Has(list, 1, "[") THEN 0
               ELSE Bracketed(list).used + (IF \E x \in {"IMPLICIT", "EXPLICIT"} : Has(list, Bracketed(list).used + 1, x) THEN 1 ELSE 0)
      name  == tag + (IF Has(list, tag + 1, "SEQUENCE OF") THEN 2 ELSE 1)
      after == Rest(list, name)
  IN  IF \/ Has(list, 1, "[") /\ ~ Bracketed(list).ok
         \/ after = <<>>
         \/ list[tag + 1].type # "IDENT"
         \/ Opens(after) /\ ~ Bracketed(after).ok
      THEN Fails
      ELSE Take(list, name + (IF Opens(after) THEN Bracketed(after).used ELSE 0))

Leaf(name, list) ==
  CASE name \in {"OBJECT IDENTIFIER", "value"} -> Constant(list)
    [] name = "IA5String" -> IF list # <<>> /\ list[1].type = "STRING" THEN Take(list, 1) ELSE Fails
    [] name \in {"identifier", "type"} -> TypeName(list)
    [] name = "empty" -> [ok |-> TRUE, used |-> 0, value |-> Nil]

-----------------------------------------------------------------------------
(* Calls and returns.                                                       *)

\* readValue of a definition is called.  A choice counts nothing.  What is refused has been
\* counted all the same.
Enter(id, def) ==
  /\ depth' = IF def.is = "choice" THEN depth ELSE BagAdd(depth, id)
  /\ IF def.is # "choice" /\ CopiesIn(id, depth) >= Limit
     THEN answer' = Error /\ UNCHANGED stack
     ELSE /\ stack' = <<[is |-> def.is, id |-> id, def |-> def, at |-> 1, from |-> read, values |-> <<>>, last |-> ""]>> \o stack
          /\ answer' = NoAnswer

Same == UNCHANGED <<text, phase, scanner, block, meta, definition, before>>

\* The call at the top returns.
\* (Mutants: its tokens count though it fails; it stays counted when it fails.)
ReturnKeeping(result) ==
  /\ answer' = result
  /\ stack' = Tail(stack)
  /\ depth' = IF Top.is = "choice" THEN depth ELSE BagRemove(depth, Top.id)
  /\ UNCHANGED read

ReturnCounted(result) ==
  /\ answer' = result
  /\ stack' = Tail(stack)
  /\ depth' = IF Top.is = "choice" \/ result = Error THEN depth ELSE BagRemove(depth, Top.id)
  /\ read' = IF result = Error THEN Top.from ELSE read

Return(result) ==
  /\ answer' = result
  /\ stack' = Tail(stack)
  /\ depth' = IF Top.is = "choice" THEN depth ELSE BagRemove(depth, Top.id)
  /\ read' = IF result = Error THEN Top.from ELSE read

\* The call at the top goes on, n tokens later.
Proceed(call, result, n) ==
  /\ stack' = <<call>> \o Tail(stack)
  /\ answer' = result
  /\ read' = read + n
  /\ UNCHANGED depth

-----------------------------------------------------------------------------
(* TypeReference.readValue.                                                 *)

\* Lookup: in a sequence the module is asked first, and then the macro; outside of one it
\* is the other way round.
Known(name) == name \in DOMAIN Types \cup DOMAIN fields

Resolve(name) ==
  LET inModule == [id |-> <<"module", name>>, def |-> Reference(Types[name])]
      inMacro  == [id |-> <<name>>, def |-> fields[name]]
      module   == \E i \in DOMAIN stack : stack[i].is = "sequence"
  IN  IF name \in DOMAIN Types /\ (module \/ name \notin DOMAIN fields) THEN inModule ELSE inMacro

AtList == Top.def.list /\ (Top.at = 1 \/ Left = <<>>)

\* readOneValue
ReadLeaf ==
  /\ Running("ref")
  /\ ~ AtList
  /\ Top.def.name \in Leaves
  /\ LET leaf == Leaf(Top.def.name, Left)
     IN  IF leaf.ok THEN Proceed(Top, Ok(leaf.value), leaf.used) ELSE Proceed(Top, Error, 0)
  /\ Same

ReadDefinition ==
  /\ Running("ref")
  /\ ~ AtList
  /\ Top.def.name \notin Leaves
  /\ IF Known(Top.def.name)
     THEN Enter(Resolve(Top.def.name).id, Resolve(Top.def.name).def) /\ UNCHANGED read
     ELSE Proceed(Top, Error, 0)
  /\ Same

\* A list begins, perhaps to end at once; and it ends where the tokens end.
ReadList ==
  /\ Running("ref")
  /\ AtList
  /\ IF Top.at = 1 /\ Left = <<>> THEN Return(Error)
     ELSE IF Top.at > 1 \/ Has(Left, 1, "}") THEN Return(Ok(List(Top.values)))
     ELSE Proceed([Top EXCEPT !.at = 2], NoAnswer, 0)
  /\ Same

ReadOne ==
  /\ Answered("ref")
  /\ LET values == IF answer = Error \/ answer.value = Nil THEN Top.values ELSE Append(Top.values, answer.value)
     IN  IF answer = Error \/ ~ Top.def.list THEN Return(answer)
         ELSE IF Has(Left, 1, ",") THEN Proceed([Top EXCEPT !.values = values], NoAnswer, 1)
         ELSE IF Has(Left, 1, "}") THEN Return(Ok(List(values)))
         ELSE Return(Error)
  /\ Same

-----------------------------------------------------------------------------
(* patternSequence.readValue.                                               *)

Item == Top.def.items[Top.at]

\* MAX-ACCESS was called ACCESS.
Expects(item, token) == IsText(token, item.text) \/ (item.text = "MAX-ACCESS" /\ IsText(token, "ACCESS"))

ReadWord ==
  /\ Running("sequence")
  /\ Top.at <= Len(Top.def.items)
  /\ Item.is = "word"
  /\ IF Left # <<>> /\ Expects(Item, Head(Left))
     THEN Proceed([Top EXCEPT !.at = @ + 1, !.last = IF Item.text \in Symbols THEN @ ELSE Item.text], NoAnswer, 1)
     ELSE Return(Error)
  /\ Same

ReadItem ==
  /\ Running("sequence")
  /\ Top.at <= Len(Top.def.items)
  /\ Item.is # "word"
  /\ Enter(Append(Top.id, Top.at), Item)
  /\ UNCHANGED read
  /\ Same

\* A value is called after the last word before it, and after its place if there is none;
\* what a sequence has named keeps its names.
Keep(call, value) ==
  CASE value = Nil -> call
    [] value.is = "composite" -> [call EXCEPT !.values = value.map @@ @]
    [] OTHER -> [call EXCEPT !.values = ((IF call.last = "" THEN ToString(call.at - 1) ELSE call.last) :> value) @@ @, !.last = ""]

ItemRead ==
  /\ Answered("sequence")
  /\ IF answer = Error THEN Return(Error)
     ELSE Proceed([Keep(Top, answer.value) EXCEPT !.at = @ + 1], NoAnswer, 0)
  /\ Same

SequenceRead ==
  /\ Running("sequence")
  /\ Top.at > Len(Top.def.items)
  /\ Return(Ok(IF Top.values = <<>> /\ Top.last # "" THEN [is |-> "tokens", tokens |-> <<Top.last>>] ELSE Composite(Top.values)))
  /\ Same

-----------------------------------------------------------------------------
(* patternChoice.readValue.                                                 *)

TryAlternative ==
  /\ Running("choice")
  /\ Enter(Append(Top.id, Top.at), Top.def.alternatives[Top.at])
  /\ UNCHANGED read
  /\ Same

\* (Mutant: there is no other alternative.)
AlternativeOnce ==
  /\ Answered("choice")
  /\ Return(answer)
  /\ Same

AlternativeRead ==
  /\ Answered("choice")
  /\ IF answer # Error \/ Top.at = Len(Top.def.alternatives) THEN Return(answer)
     ELSE Proceed([Top EXCEPT !.at = @ + 1], NoAnswer, 0)
  /\ Same

-----------------------------------------------------------------------------
(* MacroDefintion.readValue.                                                *)

ReadMacro ==
  /\ Running("macro")
  /\ IF "TYPE NOTATION" \in DOMAIN fields
     THEN Enter(<<"TYPE NOTATION">>, fields["TYPE NOTATION"]) /\ UNCHANGED read
     ELSE answer' = Error /\ UNCHANGED <<stack, depth, read>>
  /\ Same

\* The first time, and the second.
MacroRead ==
  /\ Answered("macro")
  /\ before = NoAnswer
  /\ before' = answer
  /\ answer' = NoAnswer
  /\ read' = 0
  /\ UNCHANGED <<text, phase, scanner, block, meta, definition, stack, depth>>

MacroReadAgain ==
  /\ Answered("macro")
  /\ before # NoAnswer
  /\ phase' = "done"
  /\ UNCHANGED <<text, scanner, block, meta, definition, calls>>

-----------------------------------------------------------------------------
Init ==
  /\ text \in Texts
  /\ phase = "block"
  /\ words = text.words
  /\ queue = <<>>
  /\ block = <<>>
  /\ meta = <<>>
  /\ fields = <<>>
  /\ field = NoField
  /\ alternatives = <<>>
  /\ pattern = NoPattern
  /\ stack = <<>>
  /\ depth = EmptyBag
  /\ answer = NoAnswer
  /\ read = 0
  /\ before = NoAnswer

ReadDefinitions ==
  \/ Scan \/ EndOfFile \/ PopBlock \/ PopMeta
  \/ StartField \/ ValueAlternative \/ TypeAlternative \/ StartPattern
  \/ PatternReference \/ PatternWord \/ PatternSymbol \/ PatternNumber \/ EndPattern
  \/ EndField \/ EndMacro

ReadValue ==
  \/ ReadLeaf \/ ReadDefinition \/ ReadList \/ ReadOne
  \/ ReadWord \/ ReadItem \/ ItemRead \/ SequenceRead
  \/ TryAlternative \/ AlternativeRead
  \/ ReadMacro \/ MacroRead \/ MacroReadAgain

Next == ReadDefinitions \/ ReadValue

Spec == Init /\ [][Next]_vars

FairSpec == Spec /\ WF_vars(Next)

-----------------------------------------------------------------------------
(* What a macro says: derived[name][i] is the set of the j for which the    *)
(* tokens i+1 .. j of the value are derived from a name, for the fields as  *)
(* they are written.                                                        *)

Grammar == text.grammar
Written == DOMAIN Grammar
Places  == 0 .. Len(meta)

\* Where the tokens of an item may end that begin after the i-th.
ItemEnds(derived, item, i) ==
  IF item.is = "word" THEN {j \in {i + 1} : j <= Len(meta) /\ Expects(item, meta[j])}
  ELSE IF item.name \in Leaves
  THEN {i + leaf.used : leaf \in {l \in {Leaf(item.name, Rest(meta, i))} : l.ok}}
  ELSE IF item.name \in DOMAIN derived THEN derived[item.name][i] ELSE {}

AllEnds(derived, items, i) ==
  FoldLeft(LAMBDA ends, item : UNION {ItemEnds(derived, item, j) : j \in ends}, {i}, items)

\* A list in braces may be empty.
Derive(derived) ==
  [name \in Written \cup DOMAIN Types |-> [i \in Places |->
     IF name \notin Written THEN ItemEnds(derived, Reference(Types[name]), i)
     ELSE UNION {AllEnds(derived, Grammar[name][n], i) : n \in DOMAIN Grammar[name]}
          \cup {j \in {i} : Len(Grammar[name]) = 2 /\ Len(Grammar[name][2]) = 3 /\ Has(meta, i, "{") /\ Has(meta, i + 1, "}")}]]

\* Nothing new after a number of steps.
Derived ==
  LET steps    == Len(meta) + Cardinality(Written)
      after[n \in 0 .. steps] == IF n = 0 THEN <<>> ELSE Derive(after[n - 1])
  IN  after[steps]

\* An alternative of a field that fits as well as an earlier one reads the same, or nothing;
\* those of a list are not tried one after the other.
FirstFits(derived) ==
  \A name \in {n \in Written : fields[n].is = "choice"} : \A i \in Places :
    \A n \in DOMAIN Grammar[name] : \A m \in 1 .. n - 1 :
      \A j \in AllEnds(derived, Grammar[name][n], i) : \A k \in AllEnds(derived, Grammar[name][m], i) : j \in {i, k}

Whole(derived) == "TYPE NOTATION" \in Written /\ Len(meta) \in derived["TYPE NOTATION"][0]

-----------------------------------------------------------------------------
(* Properties                                                               *)

TypeOK ==
  /\ phase \in Phases
  /\ read \in 0 .. Len(meta)
  /\ \A i \in DOMAIN stack : stack[i].is \in {"ref", "choice", "sequence"} /\ stack[i].from \in 0 .. read

\* No definition is being read more than Limit times at once, and each time is counted: a
\* macro that uses itself before anything else comes to an end.
RecursionBounded ==
  \A i \in DOMAIN stack :
    stack[i].is # "choice" =>
      LET times == Cardinality({j \in DOMAIN stack : stack[j].is # "choice" /\ stack[j].id = stack[i].id})
      IN  times <= Limit /\ times <= CopiesIn(stack[i].id, depth)

\* What has been read of a value is what its macro says, whatever alternatives failed
\* half-way before the ones that did not.
OnlyDerived ==
  phase = "done" /\ answer # Error /\ Written # {} => read \in Derived["TYPE NOTATION"][0]

\* A value that is as its macro says is read to its end.
WholeIsRead ==
  phase = "done" => LET derived == Derived
                    IN  Whole(derived) /\ FirstFits(derived) => answer # Error /\ read = Len(meta)

\* Of a value that is right the clauses are found under their names, and those alone;
\* however its words and those of its macro come out of the scanner's queue.
NamedAsMeant ==
  phase \in {"done", "refused"} /\ text.meant # Nil => answer = Ok(text.meant)

\* A value is read the second time as it was the first time: calls that failed have left
\* nothing behind that another one could see.
SameAgain ==
  phase = "done" => answer = before

\* A macro that is written as it should be is read, and so is a value after it.
ReadingEnds ==
  Grammar # <<>> ~> phase \in {"done", "refused"}

\* The first invariant of the run: types, recursion within its limit, and no more read than
\* the macro says.
MacroInv == TypeOK /\ RecursionBounded /\ OnlyDerived

\* What is right is read: to its end, and under its names.
ReadAsMeant == WholeIsRead /\ NamedAsMeant
=============================================================================
