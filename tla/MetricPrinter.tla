----------------------------- MODULE MetricPrinter -----------------------------
(***************************************************************************)
(* MetricPrinter (src/pkg/snmp/decoder.go, metric.go) and the loop that    *)
(* feeds it (DecodeDump of src/cmd/snmp-poc/main.go).                      *)
(*                                                                         *)
(* The variable bindings of the responses in a capture are collected into  *)
(* a block, one table or one scalar at a time, since the labels of a row   *)
(* may come after its numbers.  A block is printed, as a page here, when a *)
(* binding does not belong to it, and at the end of the capture.           *)
(*                                                                         *)
(* A binding is given by what findOID (OidTree) makes of its OID.  Its     *)
(* value is its number in the capture; names, help and layout of the lines *)
(* are left out.                                                           *)
(***************************************************************************)
EXTENDS Naturals, Sequences, FiniteSets, SequencesExt, FiniteSetsExt

CONSTANTS
  Objects,   \* what an OID can begin with: scalars, columns, the entries of tables
  Tables,    \* entries, the objects with an INDEX: the parents of columns
  NoTable,   \* the table of a scalar
  NoParent,  \* "table" of an object whose parent branch has no object
  TableOf,   \* [Objects -> Tables \cup {NoTable, NoParent}]
  IndexOf,   \* [Tables -> Seq(Objects)]: Table.index, as LookupName finds it
  Strings,   \* objects of a type that sets MetricIsString
  NotFound,  \* "object" of an OID that begins with no object's
  VarBinds,  \* variable bindings, see VarBindAssumption
  MaxInput   \* bound on the bindings of a capture

ASSUME PrinterAssumption ==
  /\ NoTable \notin Tables
  /\ NoParent \notin Tables \cup {NoTable}
  /\ NotFound \notin Objects
  /\ TableOf \in [Objects -> Tables \cup {NoTable, NoParent}]
  /\ \A entry \in Objects \cap Tables : TableOf[entry] \notin Tables
  /\ IndexOf \in [Tables -> Seq(Objects \ Tables)]
  /\ Strings \subseteq Objects
  /\ MaxInput \in Nat

\* The index is what is left of the OID, with the column when that is unknown; DecodeValue
\* decodes the value, or has an error (a type it does not know), or panics (an OID that is
\* no object's).
ASSUME VarBindAssumption ==
  \A vb \in VarBinds :
    /\ vb.object \in Objects \cup {NotFound}
    /\ vb.index \in Seq(Nat)
    /\ vb.value \in {"decodes", "fails", "panics"}

VARIABLES
  phase,    \* "reading", "done", "aborted", "crashed"
  input,    \* history: the bindings handled
  last,     \* lastPrintedMeta
  block,    \* metricBlock
  indexing, \* tables whose metadata was made, and with it the flags of their columns
  pages     \* what each Flush has printed, if anything: lines, by the places of metric and row

vars == <<phase, input, last, block, indexing, pages>>

Rows     == {vb.index : vb \in VarBinds}
NoMeta   == NotFound
NewBlock(table) == [table |-> table, rows |-> <<>>, names |-> <<>>, values |-> <<>>]

\* values: a function of (object, row), defined where AddMetric put a value.
\* It has a row at least for every name.
BlockOK(b) ==
  /\ b.table \in Tables \cup {NoTable}
  /\ b.rows \in Seq(Rows) /\ IsInjective(b.rows)
  /\ b.names \in Seq(Objects) /\ IsInjective(b.names)
  /\ DOMAIN b.values \subseteq ToSet(b.names) \X ToSet(b.rows)
  /\ \A cell \in DOMAIN b.values : b.values[cell] \in Nat

Line(metric, row, labels, value) == [metric |-> metric, row |-> row, labels |-> labels, value |-> value]

LineOK(line) ==
  /\ line.metric \in Objects \cup Tables
  /\ line.row \in Rows
  /\ DOMAIN line.labels \subseteq Objects
  /\ \A column \in DOMAIN line.labels : line.labels[column] \in Nat
  /\ line.value \in Nat

TypeOK ==
  /\ phase \in {"reading", "done", "aborted", "crashed"}
  /\ input \in Seq(VarBinds) /\ Len(input) <= MaxInput
  /\ last \in Objects \cup {NoMeta}
  /\ BlockOK(block)
  /\ indexing \subseteq Tables
  /\ \A p \in DOMAIN pages : DOMAIN pages[p] # {} /\ \A l \in DOMAIN pages[p] : LineOK(pages[p][l])

-----------------------------------------------------------------------------
(* Flush                                                                    *)

\* MetricMeta.IsLabel: an index column is one from when the metadata of its own
\* table is made.
IsLabel(object, made) ==
  \/ object \in Strings
  \/ TableOf[object] \in made /\ \E i \in DOMAIN IndexOf[TableOf[object]] : IndexOf[TableOf[object]][i] = object

\* LabelMap: the label columns of the table that have any value in the block;
\* the text is empty (0) where this row has none.
Labels(b, made, row) ==
  [column \in {c \in ToSet(b.names) : b.table \in Tables /\ TableOf[c] = b.table /\ IsLabel(c, made)} |->
     IF <<column, row>> \in DOMAIN b.values THEN b.values[<<column, row>>] ELSE 0]

\* One line for every number, metric by metric and row by row; for a table without any,
\* one line for every row.  (A metric that is no label has numeric values.)
NumberAt(b, made, m, r) == ~ IsLabel(b.names[m], made) /\ <<b.names[m], b.rows[r]>> \in DOMAIN b.values
Numbers(b, made)        == {place \in (DOMAIN b.names) \X (DOMAIN b.rows) : NumberAt(b, made, place[1], place[2])}

NumberLine(b, made, m, r) == Line(b.names[m], b.rows[r], Labels(b, made, b.rows[r]), b.values[<<b.names[m], b.rows[r]>>])
RowLine(b, made, r)       == Line(b.table, b.rows[r], Labels(b, made, b.rows[r]), 1)

Lines(b, made) ==
  IF Numbers(b, made) = {} /\ b.table # NoTable
  THEN [place \in {0} \X (DOMAIN b.rows) |-> RowLine(b, made, place[2])]
  ELSE [place \in Numbers(b, made) |-> NumberLine(b, made, place[1], place[2])]

Flushed(b, made) == IF DOMAIN Lines(b, made) = {} THEN pages ELSE Append(pages, Lines(b, made))

-----------------------------------------------------------------------------
(* queueLine                                                                *)

\* A list has nothing twice.
Added(list, e) == IF Contains(list, e) THEN list ELSE Append(list, e)

\* MetricBlock.IsNewRow, which adds the row.
AddRow(b, row) == [b EXCEPT !.rows = Added(@, row)]

\* MetricValues.AddMetric, and that of the block.
\* (Mutant: the first value of a row stays.)
PutOnce(values, cell, value) ==
  [c \in DOMAIN values \cup {cell} |-> IF c \in DOMAIN values THEN values[c] ELSE value]

Put(values, cell, value) ==
  [c \in DOMAIN values \cup {cell} |-> IF c = cell THEN value ELSE values[c]]

AddMetric(b, object, row, value) ==
  [b EXCEPT !.names = Added(@, object), !.values = Put(@, <<object, row>>, value)]

\* A new row of a table first gets its index columns, one arc for each.
AddArcs(b, columns, row) ==
  LET added[n \in 0 .. Len(columns)] == IF n = 0 THEN b ELSE AddMetric(added[n - 1], columns[n], row, row[n])
  IN  added[Len(columns)]

Truncated(b, row) == b.table # NoTable /\ ~ Contains(b.rows, row) /\ Len(row) < Len(IndexOf[b.table])

Queued(b, object, row, value) ==
  LET withIndex == IF b.table = NoTable \/ Contains(b.rows, row) THEN AddRow(b, row) ELSE AddArcs(AddRow(b, row), IndexOf[b.table], row)
  IN  AddMetric(withIndex, object, row, value)

\* The block ends where the object and its table are others than those it began with.
Switches(object) == last # object /\ (block.table # TableOf[object] \/ TableOf[object] = NoTable)

-----------------------------------------------------------------------------
(* Handle, for the next binding of a response.                              *)

Takes(vb) ==
  /\ phase = "reading"
  /\ Len(input) < MaxInput
  /\ vb \in VarBinds
  /\ input' = Append(input, vb)

\* MetaDataForBranch, for the parent and the object itself: kept from then on.
MetaData(object) == {TableOf[object], object} \cap Tables
Made(object)     == indexing \cup MetaData(object)

Parented(vb)  == vb.object # NotFound /\ TableOf[vb.object] # NoParent
Known(vb)     == Parented(vb) /\ (TableOf[vb.object] = NoTable => Len(vb.index) <= 1)

SkipNotFound(vb) ==
  /\ Takes(vb)
  /\ vb.object = NotFound
  /\ UNCHANGED <<phase, last, block, indexing, pages>>

\* The metadata of the parent is asked for before anyone looks whether it is there.
PanicWithoutParent(vb) ==
  /\ Takes(vb)
  /\ vb.object # NotFound
  /\ TableOf[vb.object] = NoParent
  /\ phase' = "crashed"
  /\ UNCHANGED <<last, block, indexing, pages>>

\* More than one arc behind a scalar, or behind an entry: an object the database does not
\* know.  The metadata of what it does know has been made by then.
SkipNotKnown(vb) ==
  /\ Takes(vb)
  /\ Parented(vb) /\ ~ Known(vb)
  /\ indexing' = Made(vb.object)
  /\ UNCHANGED <<phase, last, block, pages>>

FailDecode(vb) ==
  /\ Takes(vb)
  /\ Known(vb)
  /\ \/ vb.value = "fails"  /\ phase' = "aborted"
     \/ vb.value = "panics" /\ phase' = "crashed"
  /\ indexing' = Made(vb.object)
  /\ UNCHANGED <<last, block, pages>>

\* The block after the Flush that the binding may call for.
Open(object) == IF Switches(object) THEN NewBlock(TableOf[object]) ELSE block

FlushFor(object) ==
  /\ pages' = IF Switches(object) THEN Flushed(block, Made(object)) ELSE pages
  /\ last'  = IF Switches(object) THEN object ELSE last

QueueLine(vb) ==
  /\ Takes(vb)
  /\ Known(vb) /\ vb.value = "decodes"
  /\ ~ Truncated(Open(vb.object), vb.index)
  /\ FlushFor(vb.object)
  /\ block' = Queued(Open(vb.object), vb.object, vb.index, Len(input'))
  /\ indexing' = Made(vb.object)
  /\ UNCHANGED phase

\* The index is shorter than the INDEX of the table: the error ends the playback.
\* The row keeps the arcs there were.
FailTruncated(vb) ==
  LET open    == Open(vb.object)
      columns == SubSeq(IndexOf[TableOf[vb.object]], 1, Len(vb.index))
  IN  /\ Takes(vb)
      /\ Known(vb) /\ vb.value = "decodes"
      /\ Truncated(open, vb.index)
      /\ FlushFor(vb.object)
      /\ block' = AddArcs(AddRow(open, vb.index), columns, vb.index)
      /\ indexing' = Made(vb.object)
      /\ phase' = "aborted"

-----------------------------------------------------------------------------
(* DecodeDump                                                               *)

\* A fragment, or a frame that does not hold a message: an error, and no Flush.
FailFrame ==
  /\ phase = "reading"
  /\ phase' = "aborted"
  /\ UNCHANGED <<input, last, block, indexing, pages>>

\* The end of the capture.
\* (Mutant: the last block is not printed.)
EndWithoutFlush ==
  /\ phase = "reading"
  /\ phase' = "done"
  /\ UNCHANGED <<input, last, block, indexing, pages>>

EndCapture ==
  /\ phase = "reading"
  /\ phase' = "done"
  /\ pages' = Flushed(block, indexing)
  /\ UNCHANGED <<input, last, block, indexing>>

Init ==
  /\ phase = "reading"
  /\ input = <<>>
  /\ last = NoMeta
  /\ block = NewBlock(NoTable)
  /\ indexing = {}
  /\ pages = <<>>

Handle(vb) ==
  \/ SkipNotFound(vb) \/ PanicWithoutParent(vb) \/ SkipNotKnown(vb)
  \/ FailDecode(vb) \/ QueueLine(vb) \/ FailTruncated(vb)

Next == (\E vb \in VarBinds : Handle(vb)) \/ FailFrame \/ EndCapture

Spec == Init /\ [][Next]_vars

-----------------------------------------------------------------------------
(* What is to be printed, told from the capture as a whole.                 *)

\* The bindings that reach a block, whether all of their index does or not.
Sampled == {i \in DOMAIN input : Known(input[i]) /\ input[i].value = "decodes"}
Obj(i)  == input[i].object
Row(i)  == input[i].index
Tab(i)  == TableOf[Obj(i)]

\* A run: neighbours of one table, or of one scalar.
Together(i, j) == Tab(i) = Tab(j) /\ (Tab(i) = NoTable => Obj(i) = Obj(j))
RunOf(i) == {j \in Sampled : \A k \in Sampled : (i <= k /\ k <= j) \/ (j <= k /\ k <= i) => Together(i, k)}
Runs     == {RunOf(i) : i \in Sampled}

After(run)  == {i \in Sampled : i > Max(run)}
Printed     == {run \in Runs : After(run) # {} \/ phase = "done"}

\* The tables that had metadata when a run was printed: those of all bindings up to
\* and with the one that followed the run, used or not.
IndexingAt(run) ==
  LET to == IF After(run) = {} THEN Len(input) ELSE Min(After(run))
  IN  UNION {MetaData(Obj(i)) : i \in {j \in 1 .. to : Parented(input[j])}}

TableOfRun(run) == Tab(Max(run))

\* The samples of a cell, and the value it has in the end: the last of them, or what
\* the index says.
SamplesOf(run, object, row) == {i \in run : Obj(i) = object /\ Row(i) = row}
Arcs(run, object) ==
  IF TableOfRun(run) = NoTable THEN {}
  ELSE {k \in DOMAIN IndexOf[TableOfRun(run)] : IndexOf[TableOfRun(run)][k] = object}
HasValue(run, object, row) == SamplesOf(run, object, row) # {} \/ Arcs(run, object) # {}
ValueOf(run, object, row) ==
  IF SamplesOf(run, object, row) # {} THEN Max(SamplesOf(run, object, row)) ELSE row[Max(Arcs(run, object))]

RowsOf(run) == {Row(i) : i \in run}
LabelsOf(run, row) ==
  [column \in {c \in Objects : /\ TableOf[c] \in Tables /\ TableOf[c] = TableOfRun(run)
                               /\ IsLabel(c, IndexingAt(run))
                               /\ \E r \in RowsOf(run) : HasValue(run, c, r)} |->
     IF HasValue(run, column, row) THEN ValueOf(run, column, row) ELSE 0]

LinesOf(run) ==
  LET cells   == {cell \in Objects \X RowsOf(run) : HasValue(run, cell[1], cell[2])}
      numbers == {cell \in cells : ~ IsLabel(cell[1], IndexingAt(run))}
  IN  IF numbers = {} /\ TableOfRun(run) # NoTable
      THEN {Line(TableOfRun(run), row, LabelsOf(run, row), 1) : row \in RowsOf(run)}
      ELSE {Line(cell[1], cell[2], LabelsOf(run, cell[2]), ValueOf(run, cell[1], cell[2])) : cell \in numbers}

-----------------------------------------------------------------------------
(* Properties                                                               *)

\* The pages are those of the runs of the capture, in their order: every column of
\* every row once, with its last value and the labels of its row, even those that
\* came later (queueLine, AddMetric and Flush decide this binding by binding).
PrintsRuns ==
  LET shown     == {run \in Printed : LinesOf(run) # {}}
      place(run) == Cardinality({r \in shown : Max(r) <= Max(run)})
  IN  /\ Len(pages) = Cardinality(shown)
      /\ \A run \in shown : Range(pages[place(run)]) = LinesOf(run)
      /\ \A p \in DOMAIN pages : IsInjective(pages[p])

\* At the end of a capture every number that was read is printed with its value, or
\* the same number was read again before anything of another table or scalar.
OwnIndex(object) == TableOf[object] \in Tables /\ object \in ToSet(IndexOf[TableOf[object]])

NothingLost ==
  phase = "done" =>
    \A i \in {s \in Sampled : Obj(s) \notin Strings /\ ~ OwnIndex(Obj(s))} :
      \/ \E p \in DOMAIN pages : \E l \in Range(pages[p]) : l.metric = Obj(i) /\ l.row = Row(i) /\ l.value = i
      \/ \E j \in Sampled : /\ j > i /\ Obj(j) = Obj(i) /\ Row(j) = Row(i)
                            /\ \A k \in Sampled : i < k /\ k < j => Together(i, k)

\* A page never mixes tables or scalars: its lines are of one table, of the columns
\* its index borrows from others, or of one scalar.
PageOfOneTable ==
  \A p \in DOMAIN pages :
    LET metrics == {pages[p][l].metric : l \in DOMAIN pages[p]}
    IN  \/ \E table \in Tables : \A metric \in metrics :
             metric = table \/ metric \in ToSet(IndexOf[table]) \/ (metric \in Objects /\ TableOf[metric] = table)
        \/ \E object \in Objects : TableOf[object] = NoTable /\ metrics = {object}

\* The first invariant of the run: types, and the pages are the runs, none of them mixed.
PrinterInv == TypeOK /\ PrintsRuns /\ PageOfOneTable
=============================================================================
