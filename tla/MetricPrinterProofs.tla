-------------------------- MODULE MetricPrinterProofs --------------------------
(***************************************************************************)
(* Proofs about MetricPrinter: what is collected binding by binding is of  *)
(* one table, no number of a capture that was read to its end is lost, and *)
(* the pages are those of the runs of the capture.                         *)
(***************************************************************************)
EXTENDS MetricPrinter, SequenceTheorems, FiniteSetTheorems, WellFoundedInduction, TLAPS

-----------------------------------------------------------------------------
(* Sequences and numbers                                                    *)

LEMMA Least ==
  ASSUME NEW S \in SUBSET Nat, S # {}
  PROVE  \E x \in S : \A y \in S : x <= y
<1>1. PICK x \in S : \A y \in S : ~ <<y, x>> \in OpToRel(<, Nat)
  BY NatLessThanWellFounded, WFMin
<1>2. \A y \in S : ~ y < x
  BY <1>1 DEF OpToRel
<1> QED
  BY <1>2

\* The greatest and the least number of a set, where they are.
LEMMA MaxIs ==
  ASSUME NEW S \in SUBSET Nat, NEW x \in S, \A y \in S : y <= x
  PROVE  Max(S) = x
<1>1. x \in S /\ \A y \in S : x >= y
  OBVIOUS
<1>2. Max(S) \in S /\ \A y \in S : Max(S) >= y
  BY <1>1, Zenon DEF Max
<1>3. Max(S) >= x /\ x >= Max(S)
  BY <1>1, <1>2
<1>4. Max(S) \in Nat /\ x \in Nat
  BY <1>2
<1> QED
  BY <1>3, <1>4

LEMMA MinIs ==
  ASSUME NEW S \in SUBSET Nat, NEW x \in S, \A y \in S : x <= y
  PROVE  Min(S) = x
<1>1. Min(S) \in S /\ \A y \in S : Min(S) =< y
  BY Zenon DEF Min
<1>2. Min(S) <= x /\ x <= Min(S)
  BY <1>1
<1>3. Min(S) \in Nat /\ x \in Nat
  BY <1>1
<1> QED
  BY <1>2, <1>3

LEMMA Greatest ==
  ASSUME NEW S \in SUBSET Nat, S # {}, NEW n \in Nat, \A x \in S : x <= n
  PROVE  Max(S) \in S /\ \A x \in S : x <= Max(S)
<1> DEFINE T == {u \in Nat : \A x \in S : x <= u}
<1>1. n \in T
  OBVIOUS
<1>2. PICK u \in T : \A v \in T : u <= v
  <2>1. T \in SUBSET Nat /\ T # {}
    BY <1>1
  <2> HIDE DEF T
  <2> QED
    BY <2>1, Least
<1>3. u \in S
  <2> SUFFICES ASSUME u \notin S PROVE FALSE
    OBVIOUS
  <2>1. u \in Nat /\ \A x \in S : x \in Nat /\ x < u
    BY <1>2
  <2>2. u - 1 \in Nat /\ \A x \in S : x <= u - 1
    <3>1. PICK e \in S : TRUE
      OBVIOUS
    <3>2. e \in Nat /\ e < u
      BY <2>1
    <3>3. u - 1 \in Nat
      BY <2>1, <3>2
    <3>4. ASSUME NEW x \in S PROVE x <= u - 1
      <4>1. x \in Nat /\ x < u
        BY <2>1
      <4> QED
        BY <2>1, <4>1
    <3> QED
      BY <3>3, <3>4
  <2>3. u - 1 \in T
    BY <2>2
  <2>4. ~ u <= u - 1
    BY <2>1
  <2> QED
    BY <1>2, <2>3, <2>4, Zenon
<1>4. Max(S) = u
  BY <1>2, <1>3, MaxIs
<1> QED
  BY <1>2, <1>3, <1>4

\* A list without doubles gets an element if it is not there.
LEMMA AddNew ==
  ASSUME NEW S, NEW s \in Seq(S), IsInjective(s), NEW e \in S,
         NEW t, t = Added(s, e)
  PROVE  t \in Seq(S) /\ IsInjective(t) /\ ToSet(t) = ToSet(s) \cup {e}
<1>1. DOMAIN s = 1 .. Len(s) /\ Len(s) \in Nat /\ t = IF Contains(s, e) THEN s ELSE Append(s, e)
  BY DEF Added
<1>2. CASE Contains(s, e)
  <2>1. e \in ToSet(s)
    BY <1>1, <1>2 DEF Contains, ToSet
  <2> QED
    BY <1>1, <1>2, <2>1
<1>3. CASE ~ Contains(s, e)
  <2>1. /\ t \in Seq(S) /\ Len(t) = Len(s) + 1 /\ DOMAIN t = 1 .. Len(s) + 1
        /\ t[Len(s) + 1] = e /\ \A i \in 1 .. Len(s) : t[i] = s[i]
    BY <1>1, <1>3
  <2>2. 1 .. Len(s) + 1 = (1 .. Len(s)) \cup {Len(s) + 1}
    BY <1>1
  <2>3. \A i \in 1 .. Len(s) : s[i] # e
    BY <1>3 DEF Contains
  <2> DEFINE n == Len(s) + 1
  <2>4. /\ DOMAIN t = DOMAIN s \cup {n} /\ n \notin DOMAIN s /\ t[n] = e
        /\ \A i \in DOMAIN s : t[i] = s[i] /\ s[i] # e
    BY <1>1, <2>1, <2>2, <2>3
  <2> HIDE DEF n
  <2>5. IsInjective(t)
    BY <2>4 DEF IsInjective
  <2>6. ToSet(t) = ToSet(s) \cup {e}
    BY <2>4 DEF ToSet
  <2> QED
    BY <2>1, <2>5, <2>6
<1> QED
  BY <1>2, <1>3

-----------------------------------------------------------------------------
(* Blocks                                                                   *)

Values == UNION {[cells -> Nat] : cells \in SUBSET (Objects \X Rows)}
Blocks == [table : Tables \cup {NoTable}, rows : Seq(Rows), names : Seq(Objects), values : Values]

\* A block: no row and no name twice, and every value has both.
Good(b) == b \in Blocks /\ BlockOK(b)

LEMMA ValuesFacts ==
  ASSUME NEW v
  PROVE  v \in Values <=> v \in [DOMAIN v -> Nat] /\ DOMAIN v \subseteq Objects \X Rows
  BY DEF Values

LEMMA NewBlockGood ==
  ASSUME NEW table \in Tables \cup {NoTable}
  PROVE  /\ Good(NewBlock(table)) /\ NewBlock(table).table = table
         /\ ToSet(NewBlock(table).names) = {} /\ DOMAIN NewBlock(table).values = {}
<1> DEFINE none == <<>>
<1>1. none \in Seq(Rows) /\ none \in Seq(Objects) /\ none \in Values /\ DOMAIN none = {}
  <2>1. none \in Seq(Rows) /\ none \in Seq(Objects) /\ DOMAIN none = {}
    OBVIOUS
  <2>2. none \in [DOMAIN none -> Nat]
    BY <2>1
  <2> QED
    BY <2>1, <2>2, ValuesFacts
<1>2. IsInjective(none) /\ ToSet(none) = {}
  BY <1>1 DEF IsInjective, ToSet
<1> HIDE DEF none
<1>3. NewBlock(table) = [table |-> table, rows |-> none, names |-> none, values |-> none]
  BY DEF NewBlock, none
<1> QED
  BY <1>1, <1>2, <1>3 DEF Good, Blocks, BlockOK

LEMMA AddRowGood ==
  ASSUME NEW b, Good(b), NEW row \in Rows
  PROVE  /\ Good(AddRow(b, row))
         /\ AddRow(b, row).table = b.table /\ AddRow(b, row).names = b.names /\ AddRow(b, row).values = b.values
         /\ ToSet(AddRow(b, row).rows) = ToSet(b.rows) \cup {row}
<1> DEFINE rows == Added(b.rows, row)
           r    == AddRow(b, row)
<1>1. b \in Blocks /\ b.rows \in Seq(Rows) /\ IsInjective(b.rows)
  BY DEF Good, BlockOK
<1>2. rows \in Seq(Rows) /\ IsInjective(rows) /\ ToSet(rows) = ToSet(b.rows) \cup {row}
  BY <1>1, AddNew
<1>3. r = [b EXCEPT !.rows = rows]
  BY <1>1 DEF AddRow, Blocks
<1> HIDE DEF rows, r
<1>4. r \in Blocks /\ r.table = b.table /\ r.names = b.names /\ r.values = b.values /\ r.rows = rows
  BY <1>1, <1>2, <1>3 DEF Blocks
<1>5. BlockOK(r)
  BY <1>2, <1>4 DEF Good, BlockOK
<1> QED
  BY <1>2, <1>4, <1>5 DEF Good, r

\* What becomes of a block to which a value is added.
Adds(b, object, row, value, r) ==
  /\ Good(r) /\ r.table = b.table /\ r.rows = b.rows
  /\ ToSet(r.names) = ToSet(b.names) \cup {object}
  /\ DOMAIN r.values = DOMAIN b.values \cup {<<object, row>>}
  /\ r.values[<<object, row>>] = value
  /\ \A cell \in DOMAIN b.values : cell # <<object, row>> => r.values[cell] = b.values[cell]

LEMMA AddMetricAdds ==
  ASSUME NEW b, Good(b), NEW object \in Objects, NEW row \in ToSet(b.rows), NEW value \in Nat
  PROVE  Adds(b, object, row, value, AddMetric(b, object, row, value))
<1> DEFINE names  == Added(b.names, object)
           cell   == <<object, row>>
           values == Put(b.values, cell, value)
           r      == AddMetric(b, object, row, value)
<1>1. /\ b \in Blocks /\ b.names \in Seq(Objects) /\ IsInjective(b.names) /\ b.values \in Values
      /\ DOMAIN b.values \subseteq ToSet(b.names) \X ToSet(b.rows) /\ \A c \in DOMAIN b.values : b.values[c] \in Nat
      /\ b.rows \in Seq(Rows)
  BY DEF Good, BlockOK, Blocks
<1>2. names \in Seq(Objects) /\ IsInjective(names) /\ ToSet(names) = ToSet(b.names) \cup {object}
  BY <1>1, AddNew
<1>3. /\ values = [c \in DOMAIN values |-> values[c]]
      /\ DOMAIN values = DOMAIN b.values \cup {cell} /\ values[cell] = value
      /\ \A c \in DOMAIN b.values : c # cell => values[c] = b.values[c]
  BY DEF Put
<1>4. row \in Rows
  BY <1>1 DEF ToSet
<1>5. cell \in Objects \X Rows /\ cell \in ToSet(names) \X ToSet(b.rows)
  BY <1>2, <1>4
<1>6. r = [b EXCEPT !.names = names, !.values = values]
  BY DEF AddMetric
<1> HIDE DEF names, cell, values, r
<1>7. \A c \in DOMAIN values : values[c] \in Nat
  BY <1>1, <1>3
<1>8. values \in Values
  BY <1>1, <1>3, <1>5, <1>7, ValuesFacts
<1>9. r \in Blocks /\ r.table = b.table /\ r.rows = b.rows /\ r.names = names /\ r.values = values
  BY <1>1, <1>2, <1>6, <1>8 DEF Blocks
<1>10. DOMAIN values \subseteq ToSet(names) \X ToSet(b.rows)
  BY <1>1, <1>2, <1>3, <1>5
<1>11. BlockOK(r)
  BY <1>2, <1>7, <1>9, <1>10, Zenon DEF Good, BlockOK
<1> QED
  BY <1>2, <1>3, <1>9, <1>11 DEF Good, Adds, cell, r

\* A list of columns is added one after the other: the function that AddArcs is about.
ArcsTo(f, b, columns, row, n) ==
  f = [i \in 0 .. n |-> IF i = 0 THEN b ELSE AddMetric(f[i - 1], columns[i], row, row[i])]

LEMMA ArcsExist ==
  ASSUME NEW b, NEW columns, NEW row, NEW n \in Nat
  PROVE  \E f : ArcsTo(f, b, columns, row, n)
<1> DEFINE T == {m \in Nat : ~ \E f : ArcsTo(f, b, columns, row, m)}
<1> SUFFICES ASSUME T # {} PROVE FALSE
  OBVIOUS
<1>1. PICK m \in T : \A k \in T : m <= k
  BY Least
<1>2. m # 0
  <2> DEFINE f == [i \in {0} |-> b]
  <2>1. 0 .. 0 = {0}
    OBVIOUS
  <2>2. f = [i \in 0 .. 0 |-> IF i = 0 THEN b ELSE AddMetric(f[i - 1], columns[i], row, row[i])]
    BY <2>1
  <2> HIDE DEF f
  <2>3. ArcsTo(f, b, columns, row, 0)
    BY <2>2 DEF ArcsTo
  <2> QED
    BY <2>3
<1>3. m \in Nat /\ m - 1 \in Nat /\ m - 1 \notin T
  BY <1>1, <1>2
<1>4. PICK g : ArcsTo(g, b, columns, row, m - 1)
  BY <1>3
<1> DEFINE step(f, i) == IF i = 0 THEN b ELSE AddMetric(f[i - 1], columns[i], row, row[i])
           f == [i \in 0 .. m |-> IF i = m THEN step(g, m) ELSE g[i]]
<1>5. g = [i \in 0 .. m - 1 |-> step(g, i)]
  BY <1>4 DEF ArcsTo
<1>6. ASSUME NEW i \in 0 .. m PROVE f[i] = step(f, i)
  <2>1. CASE i = 0
    <3>1. f[i] = g[0] /\ g[0] = step(g, 0)
      BY <1>2, <1>3, <1>5, <2>1
    <3> QED
      BY <2>1, <3>1
  <2>2. CASE i # 0 /\ i # m
    <3>1. i \in 0 .. m - 1 /\ i - 1 \in 0 .. m - 1 /\ i - 1 # m /\ i - 1 \in 0 .. m
      BY <1>3, <2>2
    <3>2. f[i] = step(g, i) /\ f[i - 1] = g[i - 1]
      BY <1>5, <2>2, <3>1
    <3> QED
      BY <2>2, <3>2
  <2>3. CASE i = m
    <3>1. f[i] = step(g, m) /\ f[m - 1] = g[m - 1]
      BY <1>3, <2>3
    <3> QED
      BY <1>2, <2>3, <3>1
  <2> QED
    BY <2>1, <2>2, <2>3
<1>7. f = [i \in 0 .. m |-> step(f, i)]
  BY <1>6
<1> HIDE DEF f
<1>8. ArcsTo(f, b, columns, row, m)
  BY <1>7 DEF ArcsTo
<1> QED
  BY <1>1, <1>8

LEMMA ArcsAre ==
  ASSUME NEW b, NEW columns, NEW row, Len(columns) \in Nat
  PROVE  \E f : ArcsTo(f, b, columns, row, Len(columns)) /\ AddArcs(b, columns, row) = f[Len(columns)]
<1> DEFINE f == CHOOSE f : ArcsTo(f, b, columns, row, Len(columns))
<1>1. ArcsTo(f, b, columns, row, Len(columns))
  BY ArcsExist
<1>2. AddArcs(b, columns, row) = f[Len(columns)]
  BY DEF AddArcs, ArcsTo
<1> QED
  BY <1>1, <1>2

\* What becomes of a block to which index columns are added: no other value changes,
\* and of two arcs for one column the last stays.
LastOf(columns, k, n) == \A j \in k + 1 .. n : columns[j] # columns[k]

AddsArcs(b, columns, row, r) ==
  /\ Good(r) /\ r.table = b.table /\ r.rows = b.rows
  /\ ToSet(r.names) = ToSet(b.names) \cup ToSet(columns)
  /\ DOMAIN r.values = DOMAIN b.values \cup (ToSet(columns) \X {row})
  /\ \A cell \in DOMAIN b.values : cell \notin ToSet(columns) \X {row} => r.values[cell] = b.values[cell]
  /\ \A k \in 1 .. Len(columns) : LastOf(columns, k, Len(columns)) => r.values[<<columns[k], row>>] = row[k]

LEMMA AddArcsAdds ==
  ASSUME NEW b, Good(b), NEW columns \in Seq(Objects), NEW row \in ToSet(b.rows), row \in Seq(Nat),
         Len(columns) <= Len(row), NEW r, r = AddArcs(b, columns, row)
  PROVE  AddsArcs(b, columns, row, r)
<1> DEFINE n == Len(columns)
<1>1. PICK f : ArcsTo(f, b, columns, row, n) /\ r = f[n]
  BY ArcsAre
<1> DEFINE Upto(m) == {columns[i] : i \in 1 .. m}
           Is(m) == LET q == f[m] IN
                      /\ Good(q) /\ q.table = b.table /\ q.rows = b.rows
                      /\ ToSet(q.names) = ToSet(b.names) \cup Upto(m)
                      /\ DOMAIN q.values = DOMAIN b.values \cup (Upto(m) \X {row})
                      /\ \A cell \in DOMAIN b.values : cell \notin Upto(m) \X {row} => q.values[cell] = b.values[cell]
                      /\ \A k \in 1 .. m : LastOf(columns, k, m) => q.values[<<columns[k], row>>] = row[k]
           T == {m \in 0 .. n : ~ Is(m)}
<1>2. n \in Nat /\ \A m \in 1 .. n : columns[m] \in Objects /\ row[m] \in Nat
  OBVIOUS
<1>3. f[0] = b /\ \A m \in 1 .. n : f[m] = AddMetric(f[m - 1], columns[m], row, row[m])
  <2>1. f = [i \in 0 .. n |-> IF i = 0 THEN b ELSE AddMetric(f[i - 1], columns[i], row, row[i])]
    BY <1>1 DEF ArcsTo
  <2> HIDE DEF n
  <2>2. 0 \in 0 .. n /\ \A m \in 1 .. n : m \in 0 .. n /\ m # 0
    BY <1>2
  <2> QED
    BY <2>1, <2>2
<1>4. Upto(n) = ToSet(columns) /\ Upto(0) = {}
  BY DEF ToSet
<1>5. \A m \in 1 .. n : Upto(m) = Upto(m - 1) \cup {columns[m]}
  <2> TAKE m \in 1 .. n
  <2>1. 1 .. m = (1 .. m - 1) \cup {m}
    BY <1>2
  <2> QED
    BY <2>1
<1> HIDE DEF n, Upto
<1>6. Is(0)
  <2>1. 1 .. 0 = {}
    OBVIOUS
  <2> QED
    BY <1>3, <1>4, <2>1
<1>7. ASSUME NEW m \in 1 .. n, Is(m - 1) PROVE Is(m)
  <2> DEFINE p == f[m - 1]  q == f[m]  o == columns[m]  v == row[m]
  <2>1. q = AddMetric(p, o, row, v) /\ o \in Objects /\ v \in Nat /\ Upto(m) = Upto(m - 1) \cup {o}
    BY <1>2, <1>3, <1>5
  <2>2. /\ Good(p) /\ p.table = b.table /\ p.rows = b.rows /\ ToSet(p.names) = ToSet(b.names) \cup Upto(m - 1)
        /\ DOMAIN p.values = DOMAIN b.values \cup (Upto(m - 1) \X {row})
        /\ \A cell \in DOMAIN b.values : cell \notin Upto(m - 1) \X {row} => p.values[cell] = b.values[cell]
        /\ \A k \in 1 .. m - 1 : LastOf(columns, k, m - 1) => p.values[<<columns[k], row>>] = row[k]
    BY <1>7
  <2>9. v = row[m] /\ o = columns[m]
    OBVIOUS
  <2> HIDE DEF p, q, o, v
  <2>3. Good(p) /\ row \in ToSet(p.rows)
    BY <2>2
  <2>4. /\ Good(q) /\ q.table = p.table /\ q.rows = p.rows /\ ToSet(q.names) = ToSet(p.names) \cup {o}
        /\ DOMAIN q.values = DOMAIN p.values \cup {<<o, row>>} /\ q.values[<<o, row>>] = v
        /\ \A cell \in DOMAIN p.values : cell # <<o, row>> => q.values[cell] = p.values[cell]
    <3>1. q = AddMetric(p, o, row, v) /\ o \in Objects /\ v \in Nat
      BY <2>1
    <3>2. Adds(p, o, row, v, q)
      BY <2>3, <3>1, AddMetricAdds
    <3> QED
      BY <3>2 DEF Adds
  <2>5. ASSUME NEW cell \in DOMAIN b.values, cell \notin Upto(m) \X {row}
        PROVE  q.values[cell] = b.values[cell]
    <3>1. cell \notin Upto(m - 1) \X {row} /\ cell # <<o, row>>
      BY <2>1, <2>5
    <3> QED
      BY <2>2, <2>4, <3>1
  <2>7. DOMAIN q.values = DOMAIN b.values \cup (Upto(m) \X {row})
    <3>1. Upto(m) \X {row} = (Upto(m - 1) \X {row}) \cup {<<o, row>>}
      BY <2>1
    <3> QED
      BY <2>2, <2>4, <3>1
  <2>8. ASSUME NEW k \in 1 .. m, LastOf(columns, k, m) PROVE q.values[<<columns[k], row>>] = row[k]
    <3>1. CASE k = m
      BY <2>4, <2>9, <3>1
    <3>2. CASE k # m
      <4>1. k \in 1 .. m - 1 /\ m \in k + 1 .. m /\ \A j \in k + 1 .. m - 1 : j \in k + 1 .. m
        BY <1>2, <3>2
      <4>2. LastOf(columns, k, m - 1) /\ columns[k] # o
        BY <2>8, <2>9, <4>1 DEF LastOf
      <4>3. <<columns[k], row>> \in Upto(m - 1) \X {row} /\ <<columns[k], row>> # <<o, row>>
        BY <4>1, <4>2 DEF Upto
      <4>4. q.values[<<columns[k], row>>] = p.values[<<columns[k], row>>]
        BY <2>2, <2>4, <4>3
      <4> QED
        BY <2>2, <4>1, <4>2, <4>4
    <3> QED
      BY <3>1, <3>2
  <2>6. ToSet(q.names) = ToSet(b.names) \cup Upto(m)
    BY <2>1, <2>2, <2>4
  <2> QED
    BY <2>2, <2>4, <2>5, <2>6, <2>7, <2>8 DEF q
<1> HIDE DEF Is
<1>8. ASSUME T # {} PROVE FALSE
  <2>1. T \in SUBSET Nat
    BY <1>2
  <2>2. PICK m \in T : \A k \in T : m <= k
    BY <1>8, <2>1, Least
  <2>3. m \in 0 .. n /\ ~ Is(m)
    BY <2>2
  <2>4. m # 0
    BY <1>6, <2>3
  <2>5. m \in 1 .. n /\ m - 1 \in 0 .. n /\ m - 1 \notin T
    BY <1>2, <2>2, <2>3, <2>4
  <2>6. Is(m - 1)
    BY <2>5
  <2> QED
    BY <1>7, <2>3, <2>5, <2>6
<1>9. Is(n)
  BY <1>2, <1>8
<1> QED
  BY <1>1, <1>4, <1>9 DEF Is, AddsArcs, n

\* The columns that the index of a table borrows or has.
Borrowed(table) == IF table = NoTable THEN {} ELSE ToSet(IndexOf[table])

\* The arcs of the index that a column gets, and the columns that a row gets when it is new.
ArcsAt(table, column) == IF table = NoTable THEN {} ELSE {k \in DOMAIN IndexOf[table] : IndexOf[table][k] = column}

NewColumns(b, row) == IF row \in ToSet(b.rows) THEN {} ELSE Borrowed(b.table)

\* What becomes of a block to which a binding is added.
Queues(b, object, row, value, r) ==
  /\ Good(r) /\ r.table = b.table
  /\ ToSet(r.rows) = ToSet(b.rows) \cup {row}
  /\ ToSet(r.names) = ToSet(b.names) \cup NewColumns(b, row) \cup {object}
  /\ DOMAIN r.values = DOMAIN b.values \cup (NewColumns(b, row) \X {row}) \cup {<<object, row>>}
  /\ r.values[<<object, row>>] = value
  /\ \A cell \in DOMAIN b.values : cell # <<object, row>> => r.values[cell] = b.values[cell]
  /\ \A column \in NewColumns(b, row) :
       column # object => r.values[<<column, row>>] = row[Max(ArcsAt(b.table, column))]

LEMMA RowsAreArcs == \A row \in Rows : row \in Seq(Nat)
  BY VarBindAssumption DEF Rows

LEMMA IndexIsList == \A table \in Tables : IndexOf[table] \in Seq(Objects)
<1> SUFFICES ASSUME NEW table \in Tables PROVE IndexOf[table] \in Seq(Objects)
  OBVIOUS
<1>1. IndexOf[table] \in Seq(Objects \ Tables)
  BY PrinterAssumption
<1> QED
  BY <1>1

\* A column that the index has, has a last place in it.
LEMMA LastArc ==
  ASSUME NEW table \in Tables, NEW column \in ToSet(IndexOf[table])
  PROVE  /\ Max(ArcsAt(table, column)) \in 1 .. Len(IndexOf[table])
         /\ IndexOf[table][Max(ArcsAt(table, column))] = column
         /\ LastOf(IndexOf[table], Max(ArcsAt(table, column)), Len(IndexOf[table]))
<1> DEFINE list == IndexOf[table]  arcs == ArcsAt(table, column)
<1>1. list \in Seq(Objects) /\ Len(list) \in Nat /\ DOMAIN list = 1 .. Len(list)
  BY IndexIsList
<1>2. arcs = {k \in DOMAIN list : list[k] = column}
  BY PrinterAssumption DEF ArcsAt
<1>3. column \in ToSet(list)
  OBVIOUS
<1> SUFFICES /\ Max(arcs) \in 1 .. Len(list) /\ list[Max(arcs)] = column
             /\ LastOf(list, Max(arcs), Len(list))
  OBVIOUS
<1> HIDE DEF list, arcs
<1>4. arcs # {}
  BY <1>2, <1>3 DEF ToSet
<1>5. arcs \in SUBSET Nat /\ \A k \in arcs : k <= Len(list)
  BY <1>1, <1>2
<1>6. Max(arcs) \in arcs /\ \A k \in arcs : k <= Max(arcs)
  BY <1>1, <1>4, <1>5, Greatest
<1>7. Max(arcs) \in 1 .. Len(list) /\ list[Max(arcs)] = column
  BY <1>1, <1>2, <1>6
<1>8. ASSUME NEW j \in Max(arcs) + 1 .. Len(list) PROVE list[j] # list[Max(arcs)]
  <2>1. j \in DOMAIN list /\ ~ j <= Max(arcs)
    BY <1>1, <1>7
  <2> QED
    BY <1>2, <1>6, <1>7, <2>1
<1> QED
  BY <1>7, <1>8 DEF LastOf

LEMMA QueuedQueues ==
  ASSUME NEW b, Good(b), NEW object \in Objects, NEW row \in Rows, NEW value \in Nat, ~ Truncated(b, row)
  PROVE  Queues(b, object, row, value, Queued(b, object, row, value))
<1> DEFINE a == AddRow(b, row)
           c == IF b.table = NoTable \/ Contains(b.rows, row) THEN a ELSE AddArcs(a, IndexOf[b.table], row)
           r == Queued(b, object, row, value)
           columns == NewColumns(b, row)
<1>1. /\ Good(a) /\ a.table = b.table /\ a.names = b.names /\ a.values = b.values
      /\ ToSet(a.rows) = ToSet(b.rows) \cup {row} /\ row \in ToSet(a.rows)
  <2>1. ToSet(a.rows) = ToSet(b.rows) \cup {row}
    BY AddRowGood
  <2> QED
    BY <2>1, AddRowGood
<1>2. r = AddMetric(c, object, row, value)
  BY DEF Queued
<1>3. b.table \in Tables \cup {NoTable} /\ DOMAIN b.values \subseteq ToSet(b.names) \X ToSet(b.rows)
  BY DEF Good, BlockOK
<1>4. Contains(b.rows, row) <=> row \in ToSet(b.rows)
  <2>1. DOMAIN b.rows = 1 .. Len(b.rows)
    BY DEF Good, BlockOK
  <2> QED
    BY <2>1 DEF Contains, ToSet
<1> HIDE DEF a, r, columns
<1>5. /\ Good(c) /\ c.table = b.table /\ c.rows = a.rows
      /\ ToSet(c.names) = ToSet(b.names) \cup columns
      /\ DOMAIN c.values = DOMAIN b.values \cup (columns \X {row})
      /\ \A cell \in DOMAIN b.values : c.values[cell] = b.values[cell]
      /\ \A column \in columns : c.values[<<column, row>>] = row[Max(ArcsAt(b.table, column))]
  <2>1. CASE b.table = NoTable \/ Contains(b.rows, row)
    <3>1. c = a
      BY <2>1
    <3>2. columns = {}
      BY <1>4, <2>1 DEF columns, NewColumns, Borrowed
    <3> HIDE DEF c
    <3> QED
      BY <1>1, <3>1, <3>2
  <2>2. CASE ~ (b.table = NoTable \/ Contains(b.rows, row))
    <3> DEFINE list == IndexOf[b.table]
    <3>1. c = AddArcs(a, list, row) /\ b.table \in Tables /\ list \in Seq(Objects)
      BY <1>3, <2>2, IndexIsList
    <3>2. columns = ToSet(list) /\ row \notin ToSet(b.rows)
      BY <1>4, <2>2 DEF columns, NewColumns, Borrowed
    <3>3. row \in Seq(Nat) /\ Len(list) <= Len(row)
      <4>1. row \in Seq(Nat) /\ Len(row) \in Nat /\ Len(list) \in Nat
        BY <3>1, RowsAreArcs
      <4>2. ~ Len(row) < Len(list)
        BY <2>2 DEF Truncated
      <4> QED
        BY <4>1, <4>2
    <3> HIDE DEF c
    <3>4. AddsArcs(a, list, row, c)
      BY <1>1, <3>1, <3>3, AddArcsAdds
    <3>5. ASSUME NEW column \in columns PROVE c.values[<<column, row>>] = row[Max(ArcsAt(b.table, column))]
      <4> DEFINE k == Max(ArcsAt(b.table, column))
      <4>1. k \in 1 .. Len(list) /\ list[k] = column /\ LastOf(list, k, Len(list))
        BY <3>1, <3>2, LastArc
      <4> HIDE DEF k, list
      <4>2. c.values[<<list[k], row>>] = row[k]
        BY <3>4, <4>1 DEF AddsArcs
      <4> QED
        BY <4>1, <4>2 DEF k
    <3> HIDE DEF list
    <3>6. \A cell \in DOMAIN b.values : cell \notin columns \X {row}
      BY <1>3, <3>2
    <3>7. \A cell \in DOMAIN b.values : c.values[cell] = b.values[cell]
      BY <1>1, <3>2, <3>4, <3>6 DEF AddsArcs
    <3> QED
      BY <1>1, <3>2, <3>4, <3>5, <3>7 DEF AddsArcs
  <2> QED
    BY <2>1, <2>2
<1> HIDE DEF c
<1>6. Adds(c, object, row, value, r)
  BY <1>1, <1>2, <1>5, AddMetricAdds
<1>7. /\ Good(r) /\ r.table = c.table /\ r.rows = c.rows
      /\ ToSet(r.names) = ToSet(c.names) \cup {object}
      /\ DOMAIN r.values = DOMAIN c.values \cup {<<object, row>>}
      /\ r.values[<<object, row>>] = value
      /\ \A cell \in DOMAIN c.values : cell # <<object, row>> => r.values[cell] = c.values[cell]
  BY <1>6 DEF Adds
<1>8. /\ \A cell \in DOMAIN b.values : cell # <<object, row>> => r.values[cell] = b.values[cell]
      /\ \A column \in columns : column # object => r.values[<<column, row>>] = row[Max(ArcsAt(b.table, column))]
  <2>1. ASSUME NEW column \in columns, column # object
        PROVE  r.values[<<column, row>>] = row[Max(ArcsAt(b.table, column))]
    <3>1. <<column, row>> \in DOMAIN c.values /\ <<column, row>> # <<object, row>>
      BY <1>5, <2>1
    <3> QED
      BY <1>5, <1>7, <3>1
  <2> QED
    BY <1>5, <1>7, <2>1
<1>9. Queues(b, object, row, value, r)
  BY <1>1, <1>5, <1>7, <1>8 DEF Queues, columns
<1> QED
  BY <1>9 DEF r

\* What a row that is cut short leaves in the block.
LEMMA TruncatedGood ==
  ASSUME NEW b, Good(b), NEW row \in Rows, Truncated(b, row), NEW r,
         r = AddArcs(AddRow(b, row), SubSeq(IndexOf[b.table], 1, Len(row)), row)
  PROVE  /\ Good(r) /\ r.table = b.table
         /\ ToSet(r.names) \subseteq ToSet(b.names) \cup Borrowed(b.table)
<1> DEFINE a == AddRow(b, row)
           list == IndexOf[b.table]
           columns == SubSeq(list, 1, Len(row))
<1>1. /\ Good(a) /\ a.table = b.table /\ a.names = b.names
      /\ row \in ToSet(a.rows)
  <2>1. ToSet(a.rows) = ToSet(b.rows) \cup {row}
    BY AddRowGood
  <2> QED
    BY <2>1, AddRowGood
<1>2. b.table \in Tables /\ b.table # NoTable /\ list \in Seq(Objects) /\ row \in Seq(Nat) /\ Len(row) < Len(list)
  <2>1. b.table \in Tables \cup {NoTable}
    BY DEF Good, BlockOK
  <2> QED
    BY <2>1, IndexIsList, RowsAreArcs DEF Truncated
<1>3. Borrowed(b.table) = ToSet(list)
  BY <1>2 DEF Borrowed
<1>4. r = AddArcs(a, columns, row)
  OBVIOUS
<1> HIDE DEF a, list
<1> DEFINE n == Len(row)
<1>5. n \in Nat /\ n < Len(list) /\ Len(list) \in Nat
  BY <1>2
<1> HIDE DEF n
<1>6. /\ columns \in Seq(Objects) /\ Len(columns) = n /\ \A i \in 1 .. n : columns[i] = list[i]
  BY <1>2, <1>5 DEF n
<1>7. ToSet(columns) \subseteq ToSet(list)
  <2>1. DOMAIN columns = 1 .. n /\ DOMAIN list = 1 .. Len(list)
    BY <1>2, <1>6
  <2> HIDE DEF columns
  <2> QED
    BY <1>5, <1>6, <2>1 DEF ToSet
<1> HIDE DEF columns
<1>8. /\ Good(r) /\ r.table = a.table /\ ToSet(r.names) = ToSet(a.names) \cup ToSet(columns)
  <2>1. Len(columns) <= Len(row)
    BY <1>5, <1>6 DEF n
  <2>2. AddsArcs(a, columns, row, r)
    BY <1>1, <1>2, <1>4, <1>6, <2>1, AddArcsAdds
  <2> QED
    BY <2>2 DEF AddsArcs
<1> QED
  BY <1>1, <1>3, <1>7, <1>8

-----------------------------------------------------------------------------
(* Pages                                                                    *)

\* The columns of a block are those of its table or of its index; a scalar is alone.
Belongs(b, object) ==
  /\ object \in Objects => TableOf[object] = b.table
  /\ object = NoMeta => ToSet(b.names) = {} /\ b.table = NoTable
  /\ IF b.table = NoTable THEN ToSet(b.names) \subseteq {object}
     ELSE \A name \in ToSet(b.names) : name \in Borrowed(b.table) \/ TableOf[name] = b.table

PageTyped(page) == DOMAIN page # {} /\ \A l \in DOMAIN page : LineOK(page[l])

OfOneTable(page) ==
  \/ \E table \in Tables : \A l \in DOMAIN page :
       LET metric == page[l].metric
       IN  metric = table \/ metric \in ToSet(IndexOf[table]) \/ (metric \in Objects /\ TableOf[metric] = table)
  \/ \E object \in Objects : TableOf[object] = NoTable /\ {page[l].metric : l \in DOMAIN page} = {object}

IsList(list) == \E S : list \in Seq(S)

\* A page is added to the others, or nothing is.
LEMMA FlushAdds ==
  ASSUME IsList(pages), NEW b, NEW made, NEW lines, lines = Lines(b, made), NEW q, q = Flushed(b, made)
  PROVE  /\ IsList(q)
         /\ \A p \in DOMAIN pages : p \in DOMAIN q /\ q[p] = pages[p]
         /\ \A p \in DOMAIN q : \/ p \in DOMAIN pages /\ q[p] = pages[p]
                                \/ q[p] = lines /\ DOMAIN lines # {}
         /\ DOMAIN lines # {} => \E p \in DOMAIN q : q[p] = lines
<1>1. CASE DOMAIN lines = {}
  <2>1. q = pages
    BY <1>1 DEF Flushed
  <2> QED
    BY <1>1, <2>1
<1>2. CASE DOMAIN lines # {}
  <2>1. q = Append(pages, lines)
    BY <1>2 DEF Flushed
  <2>2. PICK S : pages \in Seq(S)
    BY DEF IsList
  <2> DEFINE T == S \cup {lines}  n == Len(pages)
  <2>3. pages \in Seq(T) /\ lines \in T
    BY <2>2
  <2> HIDE DEF T
  <2>4. /\ q \in Seq(T) /\ n \in Nat /\ DOMAIN q = 1 .. n + 1 /\ DOMAIN pages = 1 .. n
        /\ q[n + 1] = lines /\ \A p \in 1 .. n : q[p] = pages[p]
    BY <2>1, <2>3
  <2> HIDE DEF n
  <2>5. 1 .. n + 1 = (1 .. n) \cup {n + 1}
    BY <2>4
  <2>6. DOMAIN q = DOMAIN pages \cup {n + 1}
    BY <2>4, <2>5
  <2>7. \A p \in DOMAIN pages : q[p] = pages[p]
    BY <2>4
  <2>8. IsList(q)
    BY <2>4 DEF IsList
  <2> QED
    BY <1>2, <2>4, <2>6, <2>7, <2>8
<1> QED
  BY <1>1, <1>2

LEMMA LabelsTyped ==
  ASSUME NEW b, Good(b), NEW made, NEW row, NEW labels, labels = Labels(b, made, row)
  PROVE  DOMAIN labels \subseteq Objects /\ \A column \in DOMAIN labels : labels[column] \in Nat
<1>1. ToSet(b.names) \subseteq Objects /\ \A cell \in DOMAIN b.values : b.values[cell] \in Nat
  BY DEF Good, BlockOK, ToSet
<1> QED
  BY <1>1 DEF Labels

\* The lines of a block are what a page may be.
LEMMA LinesTyped ==
  ASSUME NEW b, Good(b), NEW object, Belongs(b, object), NEW made, NEW lines, lines = Lines(b, made), DOMAIN lines # {}
  PROVE  PageTyped(lines) /\ OfOneTable(lines)
<1>1. /\ b.table \in Tables \cup {NoTable}
      /\ \A r \in DOMAIN b.rows : b.rows[r] \in Rows
      /\ \A m \in DOMAIN b.names : b.names[m] \in Objects /\ b.names[m] \in ToSet(b.names)
      /\ \A cell \in DOMAIN b.values : b.values[cell] \in Nat
  BY DEF Good, BlockOK, ToSet
<1>2. CASE Numbers(b, made) = {} /\ b.table # NoTable
  <2>1. lines = [place \in {0} \X (DOMAIN b.rows) |-> RowLine(b, made, place[2])]
    BY <1>2 DEF Lines
  <2>2. ASSUME NEW l \in DOMAIN lines PROVE LineOK(lines[l]) /\ lines[l].metric = b.table
    <3>1. PICK r \in DOMAIN b.rows : lines[l] = RowLine(b, made, r)
      BY <2>1
    <3> DEFINE labels == Labels(b, made, b.rows[r])
    <3>2. DOMAIN labels \subseteq Objects /\ \A column \in DOMAIN labels : labels[column] \in Nat
      BY LabelsTyped
    <3>3. lines[l] = [metric |-> b.table, row |-> b.rows[r], labels |-> labels, value |-> 1]
      BY <3>1 DEF RowLine, Line
    <3> HIDE DEF labels
    <3> QED
      BY <1>1, <1>2, <3>2, <3>3 DEF LineOK
  <2>3. b.table \in Tables
    BY <1>1, <1>2
  <2> QED
    BY <2>2, <2>3 DEF PageTyped, OfOneTable
<1>3. CASE ~ (Numbers(b, made) = {} /\ b.table # NoTable)
  <2>1. lines = [place \in Numbers(b, made) |-> NumberLine(b, made, place[1], place[2])]
    BY <1>3 DEF Lines
  <2>2. ASSUME NEW l \in DOMAIN lines
        PROVE  LineOK(lines[l]) /\ lines[l].metric \in ToSet(b.names) /\ lines[l].metric \in Objects
    <3>1. PICK m \in DOMAIN b.names, r \in DOMAIN b.rows :
            NumberAt(b, made, m, r) /\ lines[l] = NumberLine(b, made, m, r)
      BY <2>1 DEF Numbers
    <3> DEFINE labels == Labels(b, made, b.rows[r])
               value  == b.values[<<b.names[m], b.rows[r]>>]
    <3>2. DOMAIN labels \subseteq Objects /\ \A column \in DOMAIN labels : labels[column] \in Nat
      BY LabelsTyped
    <3>3. value \in Nat
      BY <1>1, <3>1 DEF NumberAt
    <3>4. lines[l] = [metric |-> b.names[m], row |-> b.rows[r], labels |-> labels, value |-> value]
      BY <3>1 DEF NumberLine, Line
    <3> HIDE DEF labels, value
    <3> QED
      BY <1>1, <3>2, <3>3, <3>4 DEF LineOK
  <2>3. CASE b.table = NoTable
    <3>1. ToSet(b.names) \subseteq {object}
      BY <2>3 DEF Belongs
    <3>2. PICK l \in DOMAIN lines : TRUE
      OBVIOUS
    <3>3. object \in Objects /\ {lines[k].metric : k \in DOMAIN lines} = {object}
      BY <2>2, <3>1, <3>2
    <3>4. TableOf[object] = NoTable
      BY <2>3, <3>3 DEF Belongs
    <3> QED
      BY <2>2, <3>3, <3>4 DEF PageTyped, OfOneTable
  <2>4. CASE b.table # NoTable
    <3>1. b.table \in Tables /\ Borrowed(b.table) = ToSet(IndexOf[b.table])
      BY <1>1, <2>4 DEF Borrowed
    <3>2. \A name \in ToSet(b.names) : name \in ToSet(IndexOf[b.table]) \/ TableOf[name] = b.table
      BY <2>4, <3>1 DEF Belongs
    <3> QED
      BY <2>2, <3>1, <3>2 DEF PageTyped, OfOneTable
  <2> QED
    BY <2>3, <2>4
<1> QED
  BY <1>2, <1>3

\* A value that is no label is on the page of its block.
LEMMA NumberIsPrinted ==
  ASSUME NEW b, Good(b), NEW made, NEW lines, lines = Lines(b, made),
         NEW object, NEW row, <<object, row>> \in DOMAIN b.values, ~ IsLabel(object, made)
  PROVE  \E l \in Range(lines) : l.metric = object /\ l.row = row /\ l.value = b.values[<<object, row>>]
<1>1. object \in ToSet(b.names) /\ row \in ToSet(b.rows)
  BY DEF Good, BlockOK
<1>2. PICK m \in DOMAIN b.names, r \in DOMAIN b.rows : b.names[m] = object /\ b.rows[r] = row
  BY <1>1 DEF ToSet
<1>3. NumberAt(b, made, m, r)
  BY <1>2 DEF NumberAt
<1>4. <<m, r>> \in Numbers(b, made)
  BY <1>3 DEF Numbers
<1>5. lines = [place \in Numbers(b, made) |-> NumberLine(b, made, place[1], place[2])]
  BY <1>4 DEF Lines
<1>6. <<m, r>> \in DOMAIN lines /\ lines[<<m, r>>] = NumberLine(b, made, m, r)
  BY <1>4, <1>5
<1> DEFINE l == NumberLine(b, made, m, r)
<1>7. l.metric = object /\ l.row = row /\ l.value = b.values[<<object, row>>]
  BY <1>2 DEF NumberLine, Line
<1>8. l \in Range(lines)
  BY <1>6 DEF Range
<1> HIDE DEF l
<1> QED
  BY <1>7, <1>8

-----------------------------------------------------------------------------
(* The invariant                                                            *)

\* What is collected and printed is of the right types, and of one table each.
CollectedInv ==
  /\ Good(block)
  /\ Belongs(block, last)
  /\ IsList(pages)
  /\ \A p \in DOMAIN pages : PageTyped(pages[p]) /\ OfOneTable(pages[p])

StateOK ==
  /\ phase \in {"reading", "done", "aborted", "crashed"}
  /\ input \in Seq(VarBinds) /\ Len(input) <= MaxInput
  /\ last \in Objects \cup {NoMeta}
  /\ indexing \subseteq Tables

\* A number that was read is on a page, or was read again in the same run, or is in
\* the block, and everything read since belongs there too.
Numeric == {s \in Sampled : Obj(s) \notin Strings /\ ~ OwnIndex(Obj(s))}

OnPage(i) == \E p \in DOMAIN pages : \E l \in Range(pages[p]) : l.metric = Obj(i) /\ l.row = Row(i) /\ l.value = i

Again(i) == \E j \in Sampled : /\ j > i /\ Obj(j) = Obj(i) /\ Row(j) = Row(i)
                               /\ \A k \in Sampled : i < k /\ k < j => Together(i, k)

InBlock(i) ==
  /\ block.table = Tab(i)
  /\ Tab(i) = NoTable => last = Obj(i)
  /\ <<Obj(i), Row(i)>> \in DOMAIN block.values /\ block.values[<<Obj(i), Row(i)>>] = i
  /\ \A k \in Sampled : i < k => Together(i, k)

KeptInv ==
  \A i \in Numeric : \/ OnPage(i) \/ Again(i)
                     \/ phase = "reading" /\ InBlock(i)
                     \/ phase \in {"aborted", "crashed"}

PrinterInvariant == StateOK /\ CollectedInv /\ KeptInv

-----------------------------------------------------------------------------
(* The steps                                                                *)

LEMMA InitPrinter == Init => PrinterInvariant
<1> SUFFICES ASSUME Init PROVE PrinterInvariant
  OBVIOUS
<1>1. /\ phase = "reading" /\ input = <<>> /\ last = NoMeta /\ block = NewBlock(NoTable)
      /\ indexing = {} /\ pages = <<>>
  BY DEF Init
<1>2. StateOK
  <2>1. input \in Seq(VarBinds) /\ Len(input) = 0
    BY <1>1
  <2> QED
    BY <1>1, <2>1, PrinterAssumption DEF StateOK
<1>3. CollectedInv
  <2>1. Good(block) /\ block.table = NoTable /\ ToSet(block.names) = {}
    BY <1>1, NewBlockGood
  <2>2. NoMeta \notin Objects
    BY PrinterAssumption DEF NoMeta
  <2>3. Belongs(block, last)
    BY <1>1, <2>1, <2>2 DEF Belongs
  <2>4. pages \in Seq({}) /\ DOMAIN pages = {}
    BY <1>1
  <2>5. IsList(pages)
    BY <2>4 DEF IsList
  <2> QED
    BY <2>1, <2>3, <2>4, <2>5 DEF CollectedInv
<1>4. KeptInv
  <2>1. DOMAIN input = {}
    BY <1>1
  <2> QED
    BY <2>1 DEF KeptInv, Numeric, Sampled
<1> QED
  BY <1>2, <1>3, <1>4 DEF PrinterInvariant

\* What taking a binding does to the samples: the bindings before it are the same.
Sample(vb) == Known(vb) /\ vb.value = "decodes"

LEMMA TakesFacts ==
  ASSUME StateOK, NEW vb, Takes(vb), NEW n, n = Len(input) + 1
  PROVE  /\ input' \in Seq(VarBinds) /\ Len(input') = n /\ n <= MaxInput /\ n \in Nat
         /\ input'[n] = vb /\ vb \in VarBinds
         /\ \A i \in Sampled : i \in Nat /\ i < n /\ input'[i] = input[i]
         /\ Sampled' = IF Sample(vb) THEN Sampled \cup {n} ELSE Sampled
<1> DEFINE m == Len(input)
<1>1. input \in Seq(VarBinds) /\ m \in Nat /\ m < MaxInput /\ vb \in VarBinds /\ MaxInput \in Nat /\ input' = Append(input, vb)
  BY PrinterAssumption DEF StateOK, Takes
<1>2. /\ input' \in Seq(VarBinds) /\ Len(input') = n /\ input'[n] = vb
      /\ DOMAIN input = 1 .. m /\ DOMAIN input' = 1 .. n /\ \A i \in 1 .. m : input'[i] = input[i]
  BY <1>1
<1> HIDE DEF m
<1>3. n = m + 1
  BY DEF m
<1>4. DOMAIN input' = DOMAIN input \cup {n} /\ n \in Nat /\ n <= MaxInput
      /\ \A i \in DOMAIN input : i \in Nat /\ i < n
  BY <1>1, <1>2, <1>3
<1>5. Sampled = {i \in DOMAIN input : Sample(input[i])}
  BY DEF Sampled, Sample
<1>6. Sampled' = {i \in DOMAIN input' : Sample(input'[i])}
  BY DEF Sampled, Sample, Known, Parented
<1>7. \A i \in DOMAIN input : input'[i] = input[i]
  BY <1>2
<1>8. Sampled' = IF Sample(vb) THEN Sampled \cup {n} ELSE Sampled
  BY <1>2, <1>4, <1>5, <1>6, <1>7, Zenon
<1> QED
  BY <1>1, <1>2, <1>4, <1>5, <1>7, <1>8

\* A binding that is not a sample changes no number, and leaves them where they are.
LEMMA UnsampledKeeps ==
  ASSUME StateOK, KeptInv, NEW vb, Takes(vb), ~ Sample(vb), UNCHANGED <<last, block, pages>>,
         phase' = phase \/ phase' \in {"aborted", "crashed"}
  PROVE  KeptInv'
<1>1. Sampled' = Sampled /\ \A i \in Sampled : input'[i] = input[i]
  BY TakesFacts
<1>2. \A i \in Sampled : Obj(i)' = Obj(i) /\ Row(i)' = Row(i) /\ Tab(i)' = Tab(i)
  BY <1>1 DEF Obj, Row, Tab
<1>3. \A i, k \in Sampled : Together(i, k)' <=> Together(i, k)
  BY <1>2 DEF Together
<1>4. Numeric' = Numeric
  BY <1>1, <1>2 DEF Numeric, OwnIndex
<1>5. Numeric \subseteq Sampled
  BY DEF Numeric
<1> SUFFICES ASSUME NEW i \in Numeric
             PROVE  (\/ OnPage(i) \/ Again(i)
                     \/ phase = "reading" /\ InBlock(i)
                     \/ phase \in {"aborted", "crashed"})'
  BY <1>4 DEF KeptInv
<1>6. i \in Sampled
  BY <1>5
<1>7. OnPage(i) => OnPage(i)'
  BY <1>2, <1>6 DEF OnPage
<1>8. Again(i) => Again(i)'
  BY <1>1, <1>2, <1>3, <1>6 DEF Again
<1>9. InBlock(i) => InBlock(i)'
  BY <1>1, <1>2, <1>3, <1>6 DEF InBlock
<1>10. phase = "reading"
  BY DEF Takes
<1> QED
  BY <1>7, <1>8, <1>9, <1>10 DEF KeptInv

\* The block that a binding is put into is of its table, and so is what it becomes.
LEMMA OpenFacts ==
  ASSUME StateOK, CollectedInv, NEW object \in Objects, TableOf[object] \in Tables \cup {NoTable},
         NEW b, b = Open(object), NEW l, l = IF Switches(object) THEN object ELSE last
  PROVE  /\ Good(b) /\ b.table = TableOf[object]
         /\ l \in Objects /\ TableOf[l] = b.table /\ (b.table = NoTable => l = object)
         /\ \A r : /\ r.table = b.table
                   /\ ToSet(r.names) \subseteq ToSet(b.names) \cup Borrowed(b.table) \cup {object}
                   => Belongs(r, l)
<1>1. NoMeta \notin Objects
  BY PrinterAssumption DEF NoMeta
<1>2. /\ Good(b) /\ b.table = TableOf[object] /\ l \in Objects /\ TableOf[l] = b.table
      /\ (b.table = NoTable => l = object) /\ Belongs(b, l)
  <2>1. CASE Switches(object)
    <3>1. b = NewBlock(TableOf[object]) /\ l = object
      BY <2>1 DEF Open
    <3>2. Good(b) /\ b.table = TableOf[object] /\ ToSet(b.names) = {}
      BY <3>1, NewBlockGood
    <3>3. Belongs(b, l)
      BY <1>1, <3>1, <3>2 DEF Belongs
    <3> QED
      BY <3>1, <3>2, <3>3
  <2>2. CASE ~ Switches(object)
    <3>1. b = block /\ l = last /\ Good(b) /\ Belongs(b, l)
      BY <2>2 DEF Open, CollectedInv
    <3>2. last = object \/ (block.table = TableOf[object] /\ TableOf[object] # NoTable)
      BY <2>2 DEF Switches
    <3>3. last # NoMeta
      BY <1>1, <3>1, <3>2 DEF Belongs
    <3>4. last \in Objects /\ TableOf[last] = block.table
      BY <3>1, <3>3 DEF StateOK, Belongs
    <3> QED
      BY <3>1, <3>2, <3>4
  <2> QED
    BY <2>1, <2>2
<1>3. ASSUME NEW r, r.table = b.table,
             ToSet(r.names) \subseteq ToSet(b.names) \cup Borrowed(b.table) \cup {object}
      PROVE  Belongs(r, l)
  <2>1. CASE b.table = NoTable
    <3>1. Borrowed(b.table) = {} /\ ToSet(b.names) \subseteq {l} /\ l = object
      BY <1>2, <2>1 DEF Borrowed, Belongs
    <3> QED
      BY <1>1, <1>2, <1>3, <2>1, <3>1 DEF Belongs
  <2>2. CASE b.table # NoTable
    <3>1. \A name \in ToSet(b.names) : name \in Borrowed(b.table) \/ TableOf[name] = b.table
      BY <1>2, <2>2 DEF Belongs
    <3> QED
      BY <1>1, <1>2, <1>3, <2>2, <3>1 DEF Belongs
  <2> QED
    BY <2>1, <2>2
<1> QED
  BY <1>2, <1>3

\* Printing a block leaves what was printed, and adds a page that may be.
LEMMA FlushCollects ==
  ASSUME CollectedInv, NEW made, pages' = Flushed(block, made) \/ pages' = pages
  PROVE  /\ IsList(pages)'
         /\ (\A p \in DOMAIN pages : PageTyped(pages[p]) /\ OfOneTable(pages[p]))'
         /\ \A p \in DOMAIN pages : p \in DOMAIN pages' /\ pages'[p] = pages[p]
<1> DEFINE lines == Lines(block, made)
<1>1. /\ Good(block) /\ Belongs(block, last) /\ IsList(pages)
      /\ \A p \in DOMAIN pages : PageTyped(pages[p]) /\ OfOneTable(pages[p])
  BY DEF CollectedInv
<1>2. CASE pages' = Flushed(block, made)
  <2>1. DOMAIN lines # {} => PageTyped(lines) /\ OfOneTable(lines)
    BY <1>1, LinesTyped
  <2>2. /\ IsList(pages')
        /\ \A p \in DOMAIN pages : p \in DOMAIN pages' /\ pages'[p] = pages[p]
        /\ \A p \in DOMAIN pages' : \/ p \in DOMAIN pages /\ pages'[p] = pages[p]
                                    \/ pages'[p] = lines /\ DOMAIN lines # {}
    BY <1>1, <1>2, FlushAdds
  <2> HIDE DEF lines
  <2>3. \A p \in DOMAIN pages' : PageTyped(pages'[p]) /\ OfOneTable(pages'[p])
    BY <1>1, <2>1, <2>2, Zenon
  <2> QED
    BY <2>2, <2>3
<1>3. CASE pages' = pages
  BY <1>1, <1>3
<1> QED
  BY <1>2, <1>3

\* A number in the block is on a page when it has been printed.
LEMMA FlushPrints ==
  ASSUME CollectedInv, NEW made \in SUBSET Tables, pages' = Flushed(block, made),
         NEW i \in Numeric, InBlock(i)
  PROVE  \E p \in DOMAIN pages' : \E l \in Range(pages'[p]) : l.metric = Obj(i) /\ l.row = Row(i) /\ l.value = i
<1> DEFINE lines == Lines(block, made)
<1>1. Good(block) /\ IsList(pages)
  BY DEF CollectedInv
<1>2. <<Obj(i), Row(i)>> \in DOMAIN block.values /\ block.values[<<Obj(i), Row(i)>>] = i
  BY DEF InBlock
<1>3. Obj(i) \notin Strings /\ ~ OwnIndex(Obj(i))
  BY DEF Numeric
<1>4. ~ IsLabel(Obj(i), made)
  <2>1. ASSUME TableOf[Obj(i)] \in made, NEW k \in DOMAIN IndexOf[TableOf[Obj(i)]],
               IndexOf[TableOf[Obj(i)]][k] = Obj(i)
        PROVE  FALSE
    BY <1>3, <2>1 DEF OwnIndex, ToSet
  <2> QED
    BY <1>3, <2>1 DEF IsLabel
<1>5. PICK l \in Range(lines) : l.metric = Obj(i) /\ l.row = Row(i) /\ l.value = i
  BY <1>1, <1>2, <1>4, NumberIsPrinted
<1>6. DOMAIN lines # {}
  BY <1>5 DEF Range
<1>7. \E p \in DOMAIN pages' : pages'[p] = lines
  BY <1>1, <1>6, FlushAdds
<1> HIDE DEF lines
<1> QED
  BY <1>5, <1>7

\* What a known binding is.
LEMMA KnownFacts ==
  ASSUME NEW vb \in VarBinds, Known(vb)
  PROVE  /\ vb.object \in Objects /\ vb.index \in Rows
         /\ TableOf[vb.object] \in Tables \cup {NoTable}
         /\ indexing \subseteq Tables => Made(vb.object) \subseteq Tables
  BY PrinterAssumption, VarBindAssumption DEF Known, Parented, Rows, Made, MetaData

LEMMA QueueLineStep ==
  ASSUME PrinterInvariant, NEW vb \in VarBinds, QueueLine(vb)
  PROVE  PrinterInvariant'
<1> DEFINE o == vb.object  row == vb.index  b == Open(o)  made == Made(o)
           here == <<o, row>>
<1>0. PICK n : n = Len(input) + 1
  OBVIOUS
<1>1. StateOK /\ CollectedInv /\ KeptInv
  BY DEF PrinterInvariant
<1>2. /\ Takes(vb) /\ Sample(vb) /\ Known(vb) /\ ~ Truncated(b, row) /\ phase' = phase /\ phase = "reading"
      /\ pages' = IF Switches(o) THEN Flushed(block, made) ELSE pages
      /\ last' = IF Switches(o) THEN o ELSE last
      /\ block' = Queued(b, o, row, Len(input')) /\ indexing' = made
  BY DEF QueueLine, FlushFor, Sample, Takes
<1>3. o \in Objects /\ row \in Rows /\ TableOf[o] \in Tables \cup {NoTable} /\ made \subseteq Tables
  BY <1>1, <1>2, KnownFacts DEF StateOK
<1>4. /\ input' \in Seq(VarBinds) /\ Len(input') = n /\ n <= MaxInput /\ n \in Nat
      /\ input'[n] = vb
      /\ \A i \in Sampled : i \in Nat /\ i < n /\ input'[i] = input[i]
      /\ Sampled' = Sampled \cup {n}
  BY <1>0, <1>1, <1>2, TakesFacts
<1> HIDE DEF o, row, b, made
<1>5. /\ Good(b) /\ b.table = TableOf[o]
      /\ last' \in Objects /\ TableOf[last'] = b.table /\ (b.table = NoTable => last' = o)
      /\ \A r : /\ r.table = b.table
                /\ ToSet(r.names) \subseteq ToSet(b.names) \cup Borrowed(b.table) \cup {o}
                => Belongs(r, last')
  BY <1>1, <1>2, <1>3, OpenFacts DEF b
<1>6. Queues(b, o, row, n, block')
  BY <1>2, <1>3, <1>4, <1>5, QueuedQueues
<1>7. /\ Good(block') /\ block'.table = b.table
      /\ ToSet(block'.names) \subseteq ToSet(b.names) \cup Borrowed(b.table) \cup {o}
      /\ here \in DOMAIN block'.values /\ block'.values[here] = n
      /\ \A cell \in DOMAIN b.values : cell # here => cell \in DOMAIN block'.values /\ block'.values[cell] = b.values[cell]
  BY <1>6 DEF Queues, NewColumns, here
<1>8. StateOK'
  BY <1>1, <1>2, <1>3, <1>4, <1>5 DEF StateOK
<1>9. /\ IsList(pages)'
      /\ (\A p \in DOMAIN pages : PageTyped(pages[p]) /\ OfOneTable(pages[p]))'
      /\ \A p \in DOMAIN pages : p \in DOMAIN pages' /\ pages'[p] = pages[p]
  BY <1>1, <1>2, FlushCollects
<1>10. CollectedInv'
  <2>1. Belongs(block', last')
    BY <1>5, <1>7
  <2> QED
    BY <1>7, <1>9, <2>1 DEF CollectedInv
<1>11. KeptInv'
  <2>1. \A i \in Sampled : Obj(i)' = Obj(i) /\ Row(i)' = Row(i) /\ Tab(i)' = Tab(i)
    BY <1>4 DEF Obj, Row, Tab
  <2>2. Obj(n)' = o /\ Row(n)' = row /\ Tab(n)' = TableOf[o]
    BY <1>4 DEF Obj, Row, Tab, o, row
  <2>3. \A i, k \in Sampled : Together(i, k)' <=> Together(i, k)
    BY <2>1 DEF Together
  <2>4. Numeric' \subseteq Numeric \cup {n} /\ Numeric \subseteq Sampled
    BY <1>4, <2>1 DEF Numeric, OwnIndex
  <2>5. \A k \in Sampled' : k = n \/ (k \in Sampled /\ k < n /\ k \in Nat)
    BY <1>4
  <2>6. InBlock(n)'
    <3>1. Tab(n)' = NoTable => last' = Obj(n)'
      BY <1>5, <2>2
    <3>2. \A k \in Sampled' : ~ n < k
      BY <1>4, <2>5
    <3> QED
      BY <1>5, <1>7, <2>2, <3>1, <3>2 DEF InBlock
  <2>7. ASSUME NEW i \in Numeric PROVE OnPage(i)' \/ Again(i)' \/ InBlock(i)'
    <3>1. i \in Sampled /\ i \in Nat /\ i < n
      BY <1>4, <2>4
    <3>2. Obj(i)' = Obj(i) /\ Row(i)' = Row(i) /\ Tab(i)' = Tab(i)
      BY <2>1, <3>1
    <3>3. CASE OnPage(i)
      BY <1>9, <3>2, <3>3 DEF OnPage
    <3>4. CASE Again(i)
      <4>1. PICK j \in Sampled : /\ j > i /\ Obj(j) = Obj(i) /\ Row(j) = Row(i)
                                 /\ \A k \in Sampled : i < k /\ k < j => Together(i, k)
        BY <3>4 DEF Again
      <4>2. j \in Sampled' /\ Obj(j)' = Obj(j) /\ Row(j)' = Row(j) /\ j \in Nat /\ j < n
        BY <1>4, <2>1, <4>1
      <4>3. ASSUME NEW k \in Sampled', i < k, k < j PROVE Together(i, k)'
        <5>1. k \in Sampled
          BY <1>4, <2>5, <4>2, <4>3
        <5> QED
          BY <2>3, <3>1, <4>1, <4>3, <5>1
      <4> QED
        BY <3>2, <4>1, <4>2, <4>3 DEF Again
    <3>5. CASE InBlock(i) /\ Switches(o)
      <4>1. pages' = Flushed(block, made)
        BY <1>2, <3>5
      <4>2. \E p \in DOMAIN pages' : \E l \in Range(pages'[p]) : l.metric = Obj(i) /\ l.row = Row(i) /\ l.value = i
        BY <1>1, <1>3, <3>5, <4>1, FlushPrints
      <4> QED
        BY <3>2, <4>2 DEF OnPage
    <3>6. CASE InBlock(i) /\ ~ Switches(o)
      <4>1. b = block /\ last' = last
        BY <1>2, <3>6 DEF b, Open
      <4>2. /\ block.table = Tab(i) /\ (Tab(i) = NoTable => last = Obj(i))
            /\ <<Obj(i), Row(i)>> \in DOMAIN block.values /\ block.values[<<Obj(i), Row(i)>>] = i
            /\ \A k \in Sampled : i < k => Together(i, k)
        BY <3>6 DEF InBlock
      <4>3. Together(i, n)'
        BY <1>5, <2>2, <3>2, <4>1, <4>2 DEF Together
      <4>4. \A k \in Sampled' : i < k => Together(i, k)'
        BY <2>3, <2>5, <3>1, <4>2, <4>3
      <4>5. CASE <<Obj(i), Row(i)>> = here
        <5>1. n \in Sampled' /\ n > i /\ Obj(n)' = Obj(i)' /\ Row(n)' = Row(i)'
          BY <1>4, <2>2, <3>1, <3>2, <4>5
        <5> QED
          BY <4>4, <5>1 DEF Again
      <4>6. CASE <<Obj(i), Row(i)>> # here
        <5>1. /\ <<Obj(i), Row(i)>> \in DOMAIN block'.values
              /\ block'.values[<<Obj(i), Row(i)>>] = i
          BY <1>7, <4>1, <4>2, <4>6
        <5> QED
          BY <1>7, <3>2, <4>1, <4>2, <4>4, <5>1 DEF InBlock
      <4> QED
        BY <4>5, <4>6
    <3>7. OnPage(i) \/ Again(i) \/ InBlock(i)
      BY <1>1, <1>2 DEF KeptInv
    <3> QED
      BY <3>3, <3>4, <3>5, <3>6, <3>7
  <2> QED
    BY <1>2, <2>4, <2>6, <2>7 DEF KeptInv
<1> QED
  BY <1>8, <1>10, <1>11 DEF PrinterInvariant

LEMMA FailTruncatedStep ==
  ASSUME PrinterInvariant, NEW vb \in VarBinds, FailTruncated(vb)
  PROVE  PrinterInvariant'
<1> DEFINE o == vb.object  row == vb.index  n == Len(input) + 1  b == Open(o)  made == Made(o)
<1>1. StateOK /\ CollectedInv
  BY DEF PrinterInvariant
<1>2. /\ Takes(vb) /\ Known(vb) /\ Truncated(b, row) /\ phase' = "aborted"
      /\ pages' = IF Switches(o) THEN Flushed(block, made) ELSE pages
      /\ last' = IF Switches(o) THEN o ELSE last
      /\ block' = AddArcs(AddRow(b, row), SubSeq(IndexOf[TableOf[o]], 1, Len(row)), row)
      /\ indexing' = made
  BY DEF FailTruncated, FlushFor
<1>3. o \in Objects /\ row \in Rows /\ TableOf[o] \in Tables \cup {NoTable} /\ made \subseteq Tables
  BY <1>1, <1>2, KnownFacts DEF StateOK
<1>4. input' \in Seq(VarBinds) /\ Len(input') = n /\ n <= MaxInput /\ n \in Nat
  BY <1>1, <1>2, TakesFacts
<1> HIDE DEF o, row, n, b, made
<1>5. /\ Good(b) /\ b.table = TableOf[o] /\ last' \in Objects
      /\ \A r : /\ r.table = b.table
                /\ ToSet(r.names) \subseteq ToSet(b.names) \cup Borrowed(b.table) \cup {o}
                => Belongs(r, last')
  BY <1>1, <1>2, <1>3, OpenFacts DEF b
<1>6. /\ Good(block') /\ block'.table = b.table
      /\ ToSet(block'.names) \subseteq ToSet(b.names) \cup Borrowed(b.table)
  BY <1>2, <1>3, <1>5, TruncatedGood
<1>7. StateOK'
  BY <1>2, <1>3, <1>4, <1>5 DEF StateOK
<1>8. CollectedInv'
  <2>1. /\ IsList(pages)'
        /\ (\A p \in DOMAIN pages : PageTyped(pages[p]) /\ OfOneTable(pages[p]))'
    BY <1>1, <1>2, FlushCollects
  <2>2. Belongs(block', last')
    BY <1>5, <1>6
  <2> QED
    BY <1>6, <2>1, <2>2 DEF CollectedInv
<1>9. KeptInv'
  BY <1>2 DEF KeptInv
<1> QED
  BY <1>7, <1>8, <1>9 DEF PrinterInvariant

LEMMA EndCaptureStep ==
  ASSUME PrinterInvariant, EndCapture
  PROVE  PrinterInvariant'
<1>1. StateOK /\ CollectedInv /\ KeptInv
  BY DEF PrinterInvariant
<1>2. /\ phase = "reading" /\ phase' = "done" /\ pages' = Flushed(block, indexing)
      /\ UNCHANGED <<input, last, block, indexing>>
  BY DEF EndCapture
<1>3. StateOK'
  BY <1>1, <1>2 DEF StateOK
<1>4. /\ IsList(pages)'
      /\ (\A p \in DOMAIN pages : PageTyped(pages[p]) /\ OfOneTable(pages[p]))'
      /\ \A p \in DOMAIN pages : p \in DOMAIN pages' /\ pages'[p] = pages[p]
  BY <1>1, <1>2, FlushCollects
<1>5. CollectedInv'
  BY <1>1, <1>2, <1>4 DEF CollectedInv
<1>6. /\ Numeric' = Numeric /\ Sampled' = Sampled
      /\ \A i : Obj(i)' = Obj(i) /\ Row(i)' = Row(i)
      /\ \A i, k : Together(i, k)' = Together(i, k)
  BY <1>2 DEF Numeric, Sampled, Obj, Row, Tab, Together, OwnIndex, Known, Parented
<1>7. ASSUME NEW i \in Numeric PROVE OnPage(i)' \/ Again(i)'
  <2>1. CASE OnPage(i)
    BY <1>4, <1>6, <2>1 DEF OnPage
  <2>2. CASE Again(i)
    BY <1>6, <2>2 DEF Again
  <2>3. CASE InBlock(i)
    <3>1. indexing \subseteq Tables
      BY <1>1 DEF StateOK
    <3>2. \E p \in DOMAIN pages' : \E l \in Range(pages'[p]) : l.metric = Obj(i) /\ l.row = Row(i) /\ l.value = i
      BY <1>1, <1>2, <2>3, <3>1, FlushPrints
    <3> QED
      BY <1>6, <3>2 DEF OnPage
  <2>4. OnPage(i) \/ Again(i) \/ InBlock(i)
    BY <1>1, <1>2 DEF KeptInv
  <2> QED
    BY <2>1, <2>2, <2>3, <2>4
<1>8. KeptInv'
  BY <1>6, <1>7 DEF KeptInv
<1> QED
  BY <1>3, <1>5, <1>8 DEF PrinterInvariant

\* The bindings that are left out or end the playback before they reach a block.
LEMMA UnsampledStep ==
  ASSUME PrinterInvariant, NEW vb \in VarBinds,
         SkipNotFound(vb) \/ PanicWithoutParent(vb) \/ SkipNotKnown(vb) \/ FailDecode(vb)
  PROVE  PrinterInvariant'
<1>1. StateOK /\ CollectedInv /\ KeptInv
  BY DEF PrinterInvariant
<1>2. /\ Takes(vb) /\ ~ Sample(vb) /\ UNCHANGED <<last, block, pages>>
      /\ phase' = phase \/ phase' \in {"aborted", "crashed"}
      /\ indexing' = indexing \/ indexing' = Made(vb.object)
  BY DEF SkipNotFound, PanicWithoutParent, SkipNotKnown, FailDecode, Sample, Known, Parented
<1>3. KeptInv'
  BY <1>1, <1>2, UnsampledKeeps
<1>4. input' \in Seq(VarBinds) /\ Len(input') <= MaxInput
  BY <1>1, <1>2, TakesFacts
<1>5. indexing' \subseteq Tables
  BY <1>1, <1>2 DEF StateOK, Made, MetaData
<1>6. StateOK'
  BY <1>1, <1>2, <1>4, <1>5 DEF StateOK
<1>7. CollectedInv'
  BY <1>1, <1>2 DEF CollectedInv
<1> QED
  BY <1>3, <1>6, <1>7 DEF PrinterInvariant

LEMMA PrinterStep == PrinterInvariant /\ [Next]_vars => PrinterInvariant'
<1> SUFFICES ASSUME PrinterInvariant, [Next]_vars PROVE PrinterInvariant'
  OBVIOUS
<1>1. ASSUME NEW vb \in VarBinds, Handle(vb) PROVE PrinterInvariant'
  BY <1>1, UnsampledStep, QueueLineStep, FailTruncatedStep DEF Handle
<1>2. CASE EndCapture
  BY <1>2, EndCaptureStep
<1>3. CASE FailFrame \/ UNCHANGED vars
  <2>1. /\ UNCHANGED <<input, last, block, indexing, pages>>
        /\ phase' = phase \/ phase' = "aborted"
    BY <1>3 DEF FailFrame, vars
  <2>2. StateOK' /\ CollectedInv'
    BY <2>1 DEF PrinterInvariant, StateOK, CollectedInv
  <2>3. /\ Numeric' = Numeric
        /\ \A i : (OnPage(i)' <=> OnPage(i)) /\ (Again(i)' <=> Again(i)) /\ (InBlock(i)' <=> InBlock(i))
    BY <2>1 DEF Numeric, Sampled, Obj, Row, Tab, Together, OwnIndex, Known, Parented, OnPage, Again, InBlock
  <2>4. KeptInv'
    BY <2>1, <2>3 DEF PrinterInvariant, KeptInv
  <2> QED
    BY <2>2, <2>4 DEF PrinterInvariant
<1> QED
  BY <1>1, <1>2, <1>3 DEF Next

LEMMA PrinterHolds == Spec => []PrinterInvariant
<1> QED
  BY InitPrinter, PrinterStep, PTL DEF Spec

\* Whatever is read, in whatever order: the block has no row or name twice and a row
\* and a name for each of its values, and a page is of one table, the columns its index
\* borrows, or one scalar (queueLine, Flush).
THEOREM PagesAreOfOneTable == Spec => [](TypeOK /\ PageOfOneTable)
<1>1. PrinterInvariant => TypeOK
  BY DEF PrinterInvariant, StateOK, CollectedInv, Good, PageTyped, TypeOK
<1>2. ASSUME PrinterInvariant PROVE PageOfOneTable
  <2>1. \A p \in DOMAIN pages : OfOneTable(pages[p])
    BY <1>2 DEF PrinterInvariant, CollectedInv
  <2> SUFFICES ASSUME NEW p \in DOMAIN pages
               PROVE  \/ \E table \in Tables : \A metric \in {pages[p][l].metric : l \in DOMAIN pages[p]} :
                           metric = table \/ metric \in ToSet(IndexOf[table]) \/ (metric \in Objects /\ TableOf[metric] = table)
                      \/ \E object \in Objects : TableOf[object] = NoTable /\ {pages[p][l].metric : l \in DOMAIN pages[p]} = {object}
    BY DEF PageOfOneTable
  <2>2. OfOneTable(pages[p])
    BY <2>1
  <2> QED
    BY <2>2 DEF OfOneTable
<1> QED
  BY <1>1, <1>2, PrinterHolds, PTL

\* Every number of a capture read to its end is printed, or was read again in its run
\* (queueLine prints the block before it leaves it, DecodeDump the last one).
THEOREM NoNumberLost == Spec => []NothingLost
<1>1. ASSUME PrinterInvariant PROVE NothingLost
  <2>1. KeptInv
    BY <1>1 DEF PrinterInvariant
  <2> QED
    BY <2>1 DEF KeptInv, NothingLost, Numeric, OnPage, Again
<1> QED
  BY <1>1, PrinterHolds, PTL

-----------------------------------------------------------------------------
(* What a block holds of a run                                              *)

\* The samples of a cell among those of a run, the rows of the run and its cells, as
\* functions of the capture: it grows, and they do not.
SamplesAt(in, run, object, row) == {i \in run : in[i].object = object /\ in[i].index = row}
RowsAt(in, run) == {in[i].index : i \in run}
HasAt(in, run, table, object, row) == SamplesAt(in, run, object, row) # {} \/ ArcsAt(table, object) # {}
ValueAt(in, run, table, object, row) ==
  IF SamplesAt(in, run, object, row) # {} THEN Max(SamplesAt(in, run, object, row)) ELSE row[Max(ArcsAt(table, object))]

Cells(in, run, table) == {cell \in Objects \X RowsAt(in, run) : HasAt(in, run, table, cell[1], cell[2])}
CellsAt(in, run, table) == [cell \in Cells(in, run, table) |-> ValueAt(in, run, table, cell[1], cell[2])]

\* A block holds a run: its rows, and its cells with their values.
Named(b) == \A name \in ToSet(b.names) : \E row \in ToSet(b.rows) : <<name, row>> \in DOMAIN b.values

Holds(b, in, run, table) ==
  /\ Good(b) /\ Named(b) /\ b.table = table
  /\ ToSet(b.rows) = RowsAt(in, run)
  /\ b.values = CellsAt(in, run, table)

LEMMA NewHolds ==
  ASSUME NEW table \in Tables \cup {NoTable}, NEW in
  PROVE  Holds(NewBlock(table), in, {}, table)
<1> DEFINE b == NewBlock(table)
<1>1. Good(b) /\ b.table = table /\ ToSet(b.names) = {} /\ DOMAIN b.values = {}
  BY NewBlockGood
<1>2. ToSet(b.rows) = {} /\ b.values \in Values
  BY <1>1 DEF NewBlock, ToSet, Good, Blocks
<1> HIDE DEF b
<1>3. RowsAt(in, {}) = {} /\ Cells(in, {}, table) = {}
  BY DEF RowsAt, Cells
<1>4. b.values = CellsAt(in, {}, table)
  <2>1. b.values \in [{} -> Nat]
    BY <1>1, <1>2, ValuesFacts
  <2>2. CellsAt(in, {}, table) \in [{} -> Nat]
    BY <1>3 DEF CellsAt
  <2> QED
    BY <2>1, <2>2
<1> QED
  BY <1>1, <1>2, <1>3, <1>4 DEF Holds, Named, b

LEMMA ArcsBorrowed ==
  ASSUME NEW table \in Tables \cup {NoTable}, NEW column
  PROVE  ArcsAt(table, column) # {} <=> column \in Borrowed(table)
BY DEF ArcsAt, Borrowed, ToSet

\* What the capture has in other places is nothing to a run.
LEMMA SameCells ==
  ASSUME NEW in, NEW on, NEW run, \A i \in run : on[i] = in[i], NEW table
  PROVE  /\ RowsAt(on, run) = RowsAt(in, run)
         /\ CellsAt(on, run, table) = CellsAt(in, run, table)
<1>1. \A object, row : SamplesAt(on, run, object, row) = SamplesAt(in, run, object, row)
  BY DEF SamplesAt
<1>2. RowsAt(on, run) = RowsAt(in, run)
  BY DEF RowsAt
<1>3. Cells(on, run, table) = Cells(in, run, table)
  BY <1>1, <1>2 DEF Cells, HasAt
<1>4. CellsAt(on, run, table) = CellsAt(in, run, table)
  BY <1>1, <1>3 DEF CellsAt, ValueAt
<1> QED
  BY <1>2, <1>4

\* The block with a sample more holds the run with it.
LEMMA QueuesHolds ==
  ASSUME NEW b, NEW in, NEW run \in SUBSET Nat, NEW table \in Tables \cup {NoTable}, Holds(b, in, run, table),
         NEW object \in Objects, NEW row \in Rows, NEW n \in Nat, NEW on,
         \A i \in run : i < n /\ on[i] = in[i], on[n].object = object, on[n].index = row,
         NEW q, Queues(b, object, row, n, q)
  PROVE  Holds(q, on, run \cup {n}, table)
<1> DEFINE all == run \cup {n}
           here == <<object, row>>
           new == NewColumns(b, row)
<1>1. RowsAt(on, all) = RowsAt(in, run) \cup {row}
  BY DEF RowsAt
<1>2. ASSUME NEW o, NEW r
      PROVE  /\ <<o, r>> # here => SamplesAt(on, all, o, r) = SamplesAt(in, run, o, r)
             /\ <<o, r>> = here => SamplesAt(on, all, o, r) = SamplesAt(in, run, o, r) \cup {n}
  BY DEF SamplesAt
<1>3. /\ Good(b) /\ b.table = table /\ ToSet(b.rows) = RowsAt(in, run)
      /\ DOMAIN b.values = Cells(in, run, table)
      /\ \A cell \in DOMAIN b.values : b.values[cell] = ValueAt(in, run, table, cell[1], cell[2])
      /\ DOMAIN b.values \subseteq ToSet(b.names) \X ToSet(b.rows)
  BY DEF Holds, CellsAt, Good, BlockOK
<1>4. /\ Good(q) /\ q.table = table /\ ToSet(q.rows) = RowsAt(on, all)
      /\ ToSet(q.names) = ToSet(b.names) \cup new \cup {object}
      /\ DOMAIN q.values = DOMAIN b.values \cup (new \X {row}) \cup {here}
      /\ q.values[here] = n
      /\ \A cell \in DOMAIN b.values : cell # here => q.values[cell] = b.values[cell]
      /\ \A column \in new : column # object => q.values[<<column, row>>] = row[Max(ArcsAt(table, column))]
  BY <1>1, <1>3 DEF Queues
<1>5. new = IF row \in RowsAt(in, run) THEN {} ELSE Borrowed(table)
  BY <1>3 DEF NewColumns
<1> HIDE DEF all, here, new
<1>6. HasAt(on, all, table, object, row) /\ ValueAt(on, all, table, object, row) = n
  <2> DEFINE S == SamplesAt(on, all, object, row)
  <2>1. S = SamplesAt(in, run, object, row) \cup {n}
    BY <1>2 DEF here
  <2>2. S \in SUBSET Nat /\ n \in S /\ \A i \in S : i <= n
    <3>1. SamplesAt(in, run, object, row) \subseteq run
      BY DEF SamplesAt
    <3> HIDE DEF S
    <3>2. \A i \in S : i \in Nat /\ (i = n \/ i < n)
      BY <2>1, <3>1
    <3>3. \A i \in S : i <= n
      BY <3>2
    <3> QED
      BY <2>1, <3>2, <3>3
  <2> HIDE DEF S
  <2>3. Max(S) = n
    BY <2>2, MaxIs
  <2> QED
    BY <2>2, <2>3 DEF HasAt, ValueAt, S
<1>7. ASSUME NEW o \in Objects, NEW r \in RowsAt(on, all)
      PROVE  /\ HasAt(on, all, table, o, r) <=> <<o, r>> \in DOMAIN q.values
             /\ <<o, r>> \in DOMAIN q.values => q.values[<<o, r>>] = ValueAt(on, all, table, o, r)
  <2>1. CASE <<o, r>> = here
    BY <1>4, <1>6, <2>1 DEF here
  <2>2. CASE <<o, r>> # here /\ r \in RowsAt(in, run)
    <3>1. SamplesAt(on, all, o, r) = SamplesAt(in, run, o, r)
      BY <1>2, <2>2
    <3>2. <<o, r>> \in DOMAIN b.values <=> HasAt(on, all, table, o, r)
      BY <1>3, <2>2, <3>1 DEF Cells, HasAt
    <3>3. <<o, r>> \notin new \X {row}
      BY <1>5, <2>2
    <3>4. <<o, r>> \in DOMAIN b.values => q.values[<<o, r>>] = ValueAt(on, all, table, o, r)
      BY <1>3, <1>4, <2>2, <3>1 DEF ValueAt
    <3> QED
      BY <1>4, <2>2, <3>2, <3>3, <3>4
  <2>3. CASE <<o, r>> # here /\ r \notin RowsAt(in, run)
    <3>1. r = row /\ new = Borrowed(table)
      BY <1>1, <1>5, <2>3
    <3>2. SamplesAt(on, all, o, r) = {}
      <4>1. SamplesAt(in, run, o, r) = {}
        BY <2>3 DEF SamplesAt, RowsAt
      <4> QED
        BY <1>2, <2>3, <4>1
    <3>3. <<o, r>> \notin DOMAIN b.values
      BY <1>3, <2>3
    <3>4. HasAt(on, all, table, o, r) <=> o \in new
      BY <3>1, <3>2, ArcsBorrowed DEF HasAt
    <3>5. <<o, r>> \in DOMAIN q.values <=> o \in new
      BY <1>4, <2>3, <3>1, <3>3
    <3>6. o \in new => q.values[<<o, r>>] = ValueAt(on, all, table, o, r)
      <4>1. o # object
        BY <2>3, <3>1 DEF here
      <4>2. ValueAt(on, all, table, o, r) = row[Max(ArcsAt(table, o))]
        BY <3>1, <3>2 DEF ValueAt
      <4> QED
        BY <1>4, <3>1, <4>1, <4>2
    <3> QED
      BY <3>4, <3>5, <3>6
  <2> QED
    BY <2>1, <2>2, <2>3
<1>8. q.values \in [DOMAIN q.values -> Nat] /\ DOMAIN q.values \subseteq Objects \X RowsAt(on, all)
  <2>1. q.values \in Values /\ ToSet(q.names) \subseteq Objects /\ DOMAIN q.values \subseteq ToSet(q.names) \X ToSet(q.rows)
    BY <1>4 DEF Good, Blocks, BlockOK, ToSet
  <2> QED
    BY <1>4, <2>1, ValuesFacts
<1>9. DOMAIN q.values = Cells(on, all, table)
  BY <1>7, <1>8 DEF Cells
<1>10. \A cell \in DOMAIN q.values : q.values[cell] = ValueAt(on, all, table, cell[1], cell[2])
  BY <1>7, <1>8
<1>11. q.values = CellsAt(on, all, table)
  BY <1>8, <1>9, <1>10 DEF CellsAt
<1>12. Named(q)
  <2> SUFFICES ASSUME NEW name \in ToSet(q.names)
               PROVE  \E r \in ToSet(q.rows) : <<name, r>> \in DOMAIN q.values
    BY DEF Named
  <2>1. CASE name \in ToSet(b.names)
    <3>1. PICK r \in ToSet(b.rows) : <<name, r>> \in DOMAIN b.values
      BY <2>1 DEF Holds, Named
    <3> QED
      BY <1>1, <1>3, <1>4, <3>1
  <2>2. CASE name \in new \cup {object}
    <3>1. <<name, row>> \in DOMAIN q.values /\ row \in ToSet(q.rows)
      BY <1>1, <1>4, <2>2 DEF here
    <3> QED
      BY <3>1
  <2> QED
    BY <1>4, <2>1, <2>2
<1> QED
  BY <1>4, <1>11, <1>12 DEF Holds, all

-----------------------------------------------------------------------------
(* The lines of a block are those of its run                                *)

LabelsFrom(table, rows, values, made, row) ==
  [column \in {c \in Objects : /\ TableOf[c] \in Tables /\ TableOf[c] = table /\ IsLabel(c, made)
                               /\ \E r \in rows : <<c, r>> \in DOMAIN values} |->
     IF <<column, row>> \in DOMAIN values THEN values[<<column, row>>] ELSE 0]

NumbersFrom(values, made) == {cell \in DOMAIN values : ~ IsLabel(cell[1], made)}

LinesFrom(table, rows, values, made) ==
  IF NumbersFrom(values, made) = {} /\ table # NoTable
  THEN {Line(table, row, LabelsFrom(table, rows, values, made, row), 1) : row \in rows}
  ELSE {Line(cell[1], cell[2], LabelsFrom(table, rows, values, made, cell[2]), values[cell]) :
          cell \in NumbersFrom(values, made)}

LEMMA LabelsAre ==
  ASSUME NEW b, Good(b), Named(b), NEW made, NEW row
  PROVE  Labels(b, made, row) = LabelsFrom(b.table, ToSet(b.rows), b.values, made, row)
<1> DEFINE A == {c \in ToSet(b.names) : b.table \in Tables /\ TableOf[c] = b.table /\ IsLabel(c, made)}
           B == {c \in Objects : /\ TableOf[c] \in Tables /\ TableOf[c] = b.table /\ IsLabel(c, made)
                                 /\ \E r \in ToSet(b.rows) : <<c, r>> \in DOMAIN b.values}
<1>1. ToSet(b.names) \subseteq Objects /\ DOMAIN b.values \subseteq ToSet(b.names) \X ToSet(b.rows)
  BY DEF Good, BlockOK, ToSet
<1>2. A = B
  BY <1>1 DEF Named
<1> HIDE DEF A, B
<1>3. Labels(b, made, row) = [c \in A |-> IF <<c, row>> \in DOMAIN b.values THEN b.values[<<c, row>>] ELSE 0]
  BY DEF Labels, A
<1>4. LabelsFrom(b.table, ToSet(b.rows), b.values, made, row)
        = [c \in B |-> IF <<c, row>> \in DOMAIN b.values THEN b.values[<<c, row>>] ELSE 0]
  BY DEF LabelsFrom, B
<1> QED
  BY <1>2, <1>3, <1>4

\* The lines are all different, for their metrics and rows are.
LEMMA LinesAre ==
  ASSUME NEW b, Good(b), Named(b), NEW made, NEW lines, lines = Lines(b, made)
  PROVE  /\ Range(lines) = LinesFrom(b.table, ToSet(b.rows), b.values, made)
         /\ IsInjective(lines)
<1> DEFINE L(row) == LabelsFrom(b.table, ToSet(b.rows), b.values, made, row)
           N == NumbersFrom(b.values, made)
<1>1. /\ IsInjective(b.rows) /\ IsInjective(b.names)
      /\ DOMAIN b.values \subseteq ToSet(b.names) \X ToSet(b.rows)
  BY DEF Good, BlockOK
<1>2. \A row : Labels(b, made, row) = L(row)
  BY LabelsAre
<1>3. ASSUME NEW m \in DOMAIN b.names, NEW r \in DOMAIN b.rows
      PROVE  /\ <<m, r>> \in Numbers(b, made) <=> <<b.names[m], b.rows[r]>> \in N
             /\ NumberLine(b, made, m, r) = Line(b.names[m], b.rows[r], L(b.rows[r]), b.values[<<b.names[m], b.rows[r]>>])
  BY <1>2 DEF Numbers, NumberAt, NumbersFrom, NumberLine
<1>4. \A cell \in N : \E m \in DOMAIN b.names, r \in DOMAIN b.rows : cell = <<b.names[m], b.rows[r]>>
  BY <1>1 DEF NumbersFrom, ToSet
<1>5. Numbers(b, made) \subseteq (DOMAIN b.names) \X (DOMAIN b.rows)
  BY DEF Numbers
<1>6. Numbers(b, made) = {} <=> N = {}
  <2> HIDE DEF N
  <2>1. ASSUME NEW cell \in N PROVE Numbers(b, made) # {}
    <3>1. PICK m \in DOMAIN b.names, r \in DOMAIN b.rows : cell = <<b.names[m], b.rows[r]>>
      BY <1>4
    <3>2. <<m, r>> \in Numbers(b, made)
      BY <1>3, <3>1
    <3> QED
      BY <3>2
  <2>2. ASSUME NEW place \in Numbers(b, made) PROVE N # {}
    <3>1. PICK m \in DOMAIN b.names, r \in DOMAIN b.rows : place = <<m, r>>
      BY <1>5
    <3>2. <<b.names[m], b.rows[r]>> \in N
      BY <1>3, <3>1
    <3> QED
      BY <3>2
  <2> QED
    BY <2>1, <2>2
<1> HIDE DEF L, N
<1>7. CASE N = {} /\ b.table # NoTable
  <2>1. lines = [place \in {0} \X (DOMAIN b.rows) |-> RowLine(b, made, place[2])]
    BY <1>6, <1>7 DEF Lines
  <2>2. \A place \in DOMAIN lines :
          \E r \in DOMAIN b.rows : place = <<0, r>> /\ lines[place] = Line(b.table, b.rows[r], L(b.rows[r]), 1)
    BY <1>2, <2>1 DEF RowLine
  <2>3. \A r \in DOMAIN b.rows : <<0, r>> \in DOMAIN lines /\ lines[<<0, r>>] = Line(b.table, b.rows[r], L(b.rows[r]), 1)
    BY <1>2, <2>1 DEF RowLine
  <2> DEFINE A(row) == Line(b.table, row, L(row), 1)
  <2>4. LinesFrom(b.table, ToSet(b.rows), b.values, made) = {A(row) : row \in ToSet(b.rows)}
    BY <1>7 DEF LinesFrom, L, N
  <2>5. Range(lines) = {A(row) : row \in ToSet(b.rows)}
    <3>1. \A place \in DOMAIN lines : \E r \in DOMAIN b.rows : lines[place] = A(b.rows[r])
      BY <2>2
    <3>2. \A r \in DOMAIN b.rows : \E place \in DOMAIN lines : lines[place] = A(b.rows[r])
      BY <2>3
    <3> HIDE DEF A
    <3>3. \A line : line \in Range(lines) <=> \E place \in DOMAIN lines : lines[place] = line
      BY DEF Range
    <3>4. \A line : line \in {A(row) : row \in ToSet(b.rows)} <=> \E r \in DOMAIN b.rows : A(b.rows[r]) = line
      BY DEF ToSet
    <3>5. ASSUME NEW line \in Range(lines) PROVE line \in {A(row) : row \in ToSet(b.rows)}
      <4>1. PICK place \in DOMAIN lines : lines[place] = line
        BY <3>3
      <4>2. PICK r \in DOMAIN b.rows : lines[place] = A(b.rows[r])
        BY <3>1
      <4> QED
        BY <3>4, <4>1, <4>2
    <3>6. ASSUME NEW line \in {A(row) : row \in ToSet(b.rows)} PROVE line \in Range(lines)
      <4>1. PICK r \in DOMAIN b.rows : A(b.rows[r]) = line
        BY <3>4
      <4>2. PICK place \in DOMAIN lines : lines[place] = A(b.rows[r])
        BY <3>2
      <4> QED
        BY <3>3, <4>1, <4>2
    <3> QED
      BY <3>5, <3>6
  <2>6. IsInjective(lines)
    <3> SUFFICES ASSUME NEW p \in DOMAIN lines, NEW q \in DOMAIN lines, lines[p] = lines[q] PROVE p = q
      BY DEF IsInjective
    <3>1. PICK i \in DOMAIN b.rows : p = <<0, i>> /\ lines[p] = Line(b.table, b.rows[i], L(b.rows[i]), 1)
      BY <2>2
    <3>2. PICK j \in DOMAIN b.rows : q = <<0, j>> /\ lines[q] = Line(b.table, b.rows[j], L(b.rows[j]), 1)
      BY <2>2
    <3>3. lines[p].row = b.rows[i] /\ lines[q].row = b.rows[j]
      BY <3>1, <3>2 DEF Line
    <3> QED
      BY <1>1, <3>1, <3>2, <3>3 DEF IsInjective
  <2> QED
    BY <2>4, <2>5, <2>6
<1>8. CASE ~ (N = {} /\ b.table # NoTable)
  <2> DEFINE A(cell) == Line(cell[1], cell[2], L(cell[2]), b.values[cell])
  <2>1. lines = [place \in Numbers(b, made) |-> NumberLine(b, made, place[1], place[2])]
    BY <1>6, <1>8 DEF Lines
  <2>2. ASSUME NEW place \in DOMAIN lines
        PROVE  \E m \in DOMAIN b.names, r \in DOMAIN b.rows :
                 place = <<m, r>> /\ <<b.names[m], b.rows[r]>> \in N /\ lines[place] = A(<<b.names[m], b.rows[r]>>)
    <3>1. PICK m \in DOMAIN b.names, r \in DOMAIN b.rows : place = <<m, r>>
      BY <1>5, <2>1
    <3>2. <<m, r>> \in Numbers(b, made) /\ lines[place] = NumberLine(b, made, m, r)
      BY <2>1, <3>1
    <3> QED
      BY <1>3, <3>1, <3>2
  <2>3. ASSUME NEW cell \in N PROVE \E place \in DOMAIN lines : lines[place] = A(cell)
    <3>1. PICK m \in DOMAIN b.names, r \in DOMAIN b.rows : cell = <<b.names[m], b.rows[r]>>
      BY <1>4
    <3>2. <<m, r>> \in DOMAIN lines /\ lines[<<m, r>>] = A(cell)
      BY <1>3, <2>1, <3>1
    <3> QED
      BY <3>2
  <2>4. LinesFrom(b.table, ToSet(b.rows), b.values, made) = {A(cell) : cell \in N}
    BY <1>8 DEF LinesFrom, L, N
  <2>5. \A cell : A(cell).metric = cell[1] /\ A(cell).row = cell[2]
    BY DEF Line
  <2> HIDE DEF A
  <2>6. Range(lines) = {A(cell) : cell \in N}
    <3>1. \A place \in DOMAIN lines : lines[place] \in {A(cell) : cell \in N}
      BY <2>2
    <3> QED
      BY <2>3, <3>1 DEF Range
  <2>7. IsInjective(lines)
    <3> SUFFICES ASSUME NEW p \in DOMAIN lines, NEW q \in DOMAIN lines, lines[p] = lines[q] PROVE p = q
      BY DEF IsInjective
    <3>1. PICK m \in DOMAIN b.names, r \in DOMAIN b.rows : p = <<m, r>> /\ lines[p] = A(<<b.names[m], b.rows[r]>>)
      BY <2>2
    <3>2. PICK k \in DOMAIN b.names, s \in DOMAIN b.rows : q = <<k, s>> /\ lines[q] = A(<<b.names[k], b.rows[s]>>)
      BY <2>2
    <3>3. b.names[m] = b.names[k] /\ b.rows[r] = b.rows[s]
      <4> DEFINE c == <<b.names[m], b.rows[r]>>  d == <<b.names[k], b.rows[s]>>
      <4>1. A(c) = A(d)
        BY <3>1, <3>2
      <4>2. A(c).metric = c[1] /\ A(c).row = c[2] /\ A(d).metric = d[1] /\ A(d).row = d[2]
        BY <2>5
      <4>3. c[1] = d[1] /\ c[2] = d[2]
        <5> HIDE DEF c, d
        <5> QED
          BY <4>1, <4>2
      <4> QED
        BY <4>3
    <3> QED
      BY <1>1, <3>1, <3>2, <3>3 DEF IsInjective
  <2> QED
    BY <2>4, <2>6, <2>7
<1> QED
  BY <1>7, <1>8

\* The tables that have metadata after so many bindings.
MadeUpTo(in, to) == UNION {MetaData(in[i].object) : i \in {j \in 1 .. to : Parented(in[j])}}

\* The last binding before which a run is printed.
PrintedAt(run) == IF After(run) = {} THEN Len(input) ELSE Min(After(run))

\* What LinesOf says of a run, as a function of the capture.
LinesAt(run) ==
  LinesFrom(TableOfRun(run), RowsAt(input, run), CellsAt(input, run, TableOfRun(run)), MadeUpTo(input, PrintedAt(run)))

LinesAgree == \A run : LinesOf(run) = LinesAt(run)

LEMMA LinesOfRun == LinesAgree
<1> SUFFICES ASSUME NEW run PROVE LinesOf(run) = LinesAt(run)
  BY DEF LinesAgree
<1> DEFINE t == TableOfRun(run)  made == IndexingAt(run)  rows == RowsOf(run)
           values == CellsAt(input, run, t)
<1>1. RowsAt(input, run) = rows
  BY DEF RowsAt, RowsOf, Row
<1>2. MadeUpTo(input, PrintedAt(run)) = made
  BY DEF MadeUpTo, IndexingAt, PrintedAt, Obj
<1>3. \A o, r : /\ SamplesAt(input, run, o, r) = SamplesOf(run, o, r)
                /\ ArcsAt(t, o) = Arcs(run, o)
  BY DEF SamplesAt, SamplesOf, Obj, Row, ArcsAt, Arcs
<1>4. \A o, r : /\ HasAt(input, run, t, o, r) <=> HasValue(run, o, r)
                /\ ValueAt(input, run, t, o, r) = ValueOf(run, o, r)
  BY <1>3, Zenon DEF HasAt, HasValue, ValueAt, ValueOf
<1>5. /\ DOMAIN values = {cell \in Objects \X rows : HasValue(run, cell[1], cell[2])}
      /\ \A cell \in DOMAIN values : values[cell] = ValueOf(run, cell[1], cell[2])
  BY <1>1, <1>4 DEF CellsAt, Cells
<1> DEFINE numbers == NumbersFrom(values, made)
           L(row)  == LabelsFrom(t, rows, values, made, row)
<1> HIDE DEF t, made, rows, values
<1>6. ASSUME NEW row \in rows PROVE LabelsOf(run, row) = L(row)
  <2> DEFINE A == {c \in Objects : /\ TableOf[c] \in Tables /\ TableOf[c] = t
                                   /\ IsLabel(c, made)
                                   /\ \E r \in rows : HasValue(run, c, r)}
             B == {c \in Objects : /\ TableOf[c] \in Tables /\ TableOf[c] = t /\ IsLabel(c, made)
                                   /\ \E r \in rows : <<c, r>> \in DOMAIN values}
  <2>1. A = B
    BY <1>5
  <2>2. \A c \in B : /\ HasValue(run, c, row) <=> <<c, row>> \in DOMAIN values
                     /\ HasValue(run, c, row) => ValueOf(run, c, row) = values[<<c, row>>]
    BY <1>5
  <2>3. LabelsOf(run, row) = [c \in A |-> IF HasValue(run, c, row) THEN ValueOf(run, c, row) ELSE 0]
    BY DEF LabelsOf, t, made, rows
  <2>4. L(row) = [c \in B |-> IF <<c, row>> \in DOMAIN values THEN values[<<c, row>>] ELSE 0]
    BY DEF LabelsFrom
  <2> HIDE DEF A, B, L
  <2> QED
    BY <2>1, <2>2, <2>3, <2>4
<1>7. numbers = {cell \in {c \in Objects \X rows : HasValue(run, c[1], c[2])} : ~ IsLabel(cell[1], made)}
  BY <1>5 DEF NumbersFrom
<1>8. LinesOf(run) =
        IF numbers = {} /\ t # NoTable
        THEN {Line(t, row, LabelsOf(run, row), 1) : row \in rows}
        ELSE {Line(cell[1], cell[2], LabelsOf(run, cell[2]), ValueOf(run, cell[1], cell[2])) : cell \in numbers}
  BY <1>7, Zenon DEF LinesOf, t, made, rows
<1>9. LinesAt(run) =
        IF numbers = {} /\ t # NoTable
        THEN {Line(t, row, L(row), 1) : row \in rows}
        ELSE {Line(cell[1], cell[2], L(cell[2]), values[cell]) : cell \in numbers}
  BY <1>1, <1>2, Zenon DEF LinesAt, LinesFrom, t, values, made
<1>10. \A cell \in numbers : cell[2] \in rows /\ cell \in DOMAIN values
  BY <1>5 DEF NumbersFrom
<1> HIDE DEF numbers, L
<1>11. {Line(t, row, LabelsOf(run, row), 1) : row \in rows} = {Line(t, row, L(row), 1) : row \in rows}
  BY <1>6
<1>12. {Line(cell[1], cell[2], LabelsOf(run, cell[2]), ValueOf(run, cell[1], cell[2])) : cell \in numbers}
         = {Line(cell[1], cell[2], L(cell[2]), values[cell]) : cell \in numbers}
  BY <1>5, <1>6, <1>10
<1> QED
  BY <1>8, <1>9, <1>11, <1>12, Zenon

-----------------------------------------------------------------------------
(* The runs, and the last of them                                           *)

\* The samples of the last run: those that all later ones are together with.
Tip  == {i \in Sampled : \A k \in Sampled : i <= k => Together(i, k)}
Past == Sampled \ Tip

LEMMA TogetherFacts ==
  \A i, j, k : /\ Together(i, i)
               /\ Together(i, j) => Together(j, i)
               /\ Together(i, j) /\ Together(j, k) => Together(i, k)
  BY Zenon DEF Together

LEMMA SampledNat == StateOK => Sampled \in SUBSET Nat /\ \A i \in Sampled : i \in 1 .. Len(input)
  BY DEF StateOK, Sampled

\* The samples of a run are all before one that is not together with them, or the run
\* is the last.
LEMMA RunFacts ==
  ASSUME StateOK, NEW i \in Sampled
  PROVE  /\ i \in RunOf(i) /\ RunOf(i) \subseteq Sampled
         /\ i \in Tip => RunOf(i) = Tip
         /\ i \in Past => RunOf(i) \subseteq Past /\ \E k \in Sampled : \A j \in RunOf(i) : j < k
<1>1. Sampled \in SUBSET Nat
  BY SampledNat
<1>2. /\ RunOf(i) \subseteq Sampled
      /\ \A j \in Sampled : j \in RunOf(i) <=>
           \A k \in Sampled : (i <= k /\ k <= j) \/ (j <= k /\ k <= i) => Together(i, k)
  BY DEF RunOf
<1>3. i \in RunOf(i)
  <2>1. \A k \in Sampled : (i <= k /\ k <= i) => k = i
    BY <1>1
  <2> QED
    BY <1>2, <2>1, TogetherFacts, Zenon
<1>4. \A j \in RunOf(i) : Together(i, j)
  <2>1. \A j \in Sampled : (i <= j /\ j <= j) \/ (j <= j /\ j <= i)
    BY <1>1
  <2> QED
    BY <1>2, <2>1
<1>5. ASSUME i \in Tip PROVE RunOf(i) = Tip
  <2>1. \A k \in Sampled : i <= k => Together(i, k)
    BY <1>5 DEF Tip
  <2>2. ASSUME NEW j \in Tip PROVE j \in RunOf(i)
    <3>1. j \in Sampled /\ \A k \in Sampled : j <= k => Together(j, k)
      BY DEF Tip
    <3>2. ASSUME NEW k \in Sampled, (i <= k /\ k <= j) \/ (j <= k /\ k <= i) PROVE Together(i, k)
      <4>1. CASE i <= k
        BY <2>1, <4>1
      <4>2. CASE j <= k /\ k <= i
        <5>1. j <= i
          BY <1>1, <3>1, <4>2
        <5>2. Together(j, i) /\ Together(j, k)
          BY <3>1, <4>2, <5>1
        <5> QED
          BY <5>2, TogetherFacts, Zenon
      <4> QED
        BY <3>2, <4>1, <4>2
    <3> QED
      BY <1>2, <3>1, <3>2
  <2>3. ASSUME NEW j \in RunOf(i) PROVE j \in Tip
    <3>1. j \in Sampled /\ Together(i, j)
      BY <1>2, <1>4
    <3>2. ASSUME NEW k \in Sampled, j <= k PROVE Together(i, k)
      <4>1. i <= k \/ k <= i
        BY <1>1
      <4>2. CASE i <= k
        BY <2>1, <4>2
      <4>3. CASE k <= i
        BY <1>2, <3>1, <3>2, <4>3
      <4> QED
        BY <4>1, <4>2, <4>3
    <3>3. \A k \in Sampled : j <= k => Together(j, k)
      BY <3>1, <3>2, TogetherFacts, Zenon
    <3> QED
      BY <3>1, <3>3 DEF Tip
  <2> QED
    BY <2>2, <2>3
<1>6. ASSUME i \in Past PROVE RunOf(i) \subseteq Past /\ \E k \in Sampled : \A j \in RunOf(i) : j < k
  <2>1. PICK k \in Sampled : i <= k /\ ~ Together(i, k)
    BY <1>6 DEF Past, Tip
  <2>2. ASSUME NEW j \in RunOf(i) PROVE j < k /\ j \in Past
    <3>1. j \in Sampled /\ ~ (i <= k /\ k <= j)
      BY <1>2, <2>1
    <3>2. j < k /\ j <= k
      BY <1>1, <2>1, <3>1
    <3>3. ~ Together(j, k)
      BY <1>4, <2>1, TogetherFacts, Zenon
    <3> QED
      BY <3>1, <3>2, <3>3 DEF Past, Tip
  <2> QED
    BY <2>2
<1> QED
  BY <1>2, <1>3, <1>5, <1>6

\* The last sample of a run, and of the last run.
LEMMA LastFacts ==
  ASSUME StateOK, NEW i \in Sampled
  PROVE  /\ Max(RunOf(i)) \in RunOf(i) /\ Max(RunOf(i)) \in Nat
         /\ i \in Past <=> After(RunOf(i)) # {}
         /\ i \in Past => Tip # {} /\ Max(RunOf(i)) < Max(Tip)
<1>1. Sampled \in SUBSET Nat /\ Len(input) \in Nat /\ \A j \in Sampled : j <= Len(input)
  BY SampledNat DEF StateOK
<1> DEFINE run == RunOf(i)
<1>2. run # {} /\ run \in SUBSET Nat /\ run \subseteq Sampled /\ \A j \in run : j <= Len(input)
  BY <1>1, RunFacts
<1> HIDE DEF run
<1>3. Max(run) \in run /\ \A j \in run : j <= Max(run)
  BY <1>1, <1>2, Greatest
<1>4. Max(run) \in Nat
  BY <1>2, <1>3
<1>5. PICK last_ : last_ = Max(Sampled)
  OBVIOUS
<1>6. last_ \in Sampled /\ \A j \in Sampled : j <= last_
  BY <1>1, <1>5, Greatest
<1>7. last_ \in Tip
  <2>1. \A k \in Sampled : last_ <= k => k = last_
    BY <1>1, <1>6
  <2> QED
    BY <1>6, <2>1, TogetherFacts DEF Tip
<1>8. Tip \subseteq Sampled /\ Max(Tip) = last_
  <2>1. Tip \subseteq Sampled
    BY DEF Tip
  <2> QED
    BY <1>1, <1>6, <1>7, <2>1, MaxIs
<1>9. ASSUME i \in Past PROVE After(run) # {} /\ Tip # {} /\ Max(run) < Max(Tip)
  <2>1. PICK k \in Sampled : \A j \in run : j < k
    BY <1>9, RunFacts DEF run
  <2>2. Max(run) < k /\ k <= last_
    BY <1>3, <1>6, <2>1
  <2>3. k \in After(run)
    BY <1>1, <1>4, <2>2 DEF After
  <2> QED
    BY <1>1, <1>4, <1>6, <1>7, <1>8, <2>2, <2>3
<1>10. ASSUME i \notin Past PROVE After(run) = {}
  <2>1. run = Tip
    BY <1>10, RunFacts DEF run, Past
  <2>2. Max(run) = last_
    BY <1>8, <2>1
  <2>3. \A j \in Sampled : ~ j > Max(run)
    BY <1>1, <1>6, <2>2
  <2> QED
    BY <2>3 DEF After
<1> QED
  BY <1>3, <1>4, <1>9, <1>10 DEF run

LEMMA PrintedRuns ==
  StateOK => Printed = IF phase = "done" THEN {RunOf(i) : i \in Sampled} ELSE {RunOf(i) : i \in Past}
<1> SUFFICES ASSUME StateOK
             PROVE  Printed = IF phase = "done" THEN {RunOf(i) : i \in Sampled} ELSE {RunOf(i) : i \in Past}
  OBVIOUS
<1>1. \A i \in Sampled : i \in Past <=> After(RunOf(i)) # {}
  BY LastFacts
<1>2. Past \subseteq Sampled
  BY DEF Past
<1>3. CASE phase = "done"
  BY <1>3 DEF Printed, Runs
<1>4. CASE phase # "done"
  BY <1>1, <1>2, <1>4 DEF Printed, Runs
<1> QED
  BY <1>3, <1>4

LEMMA PrintedFinite == StateOK => IsFiniteSet(Printed)
<1> SUFFICES ASSUME StateOK PROVE IsFiniteSet(Printed)
  OBVIOUS
<1>1. Len(input) \in Nat /\ Sampled \subseteq 1 .. Len(input)
  BY SampledNat DEF StateOK
<1>2. IsFiniteSet(1 .. Len(input))
  BY <1>1, FS_Interval
<1>3. IsFiniteSet(SUBSET (1 .. Len(input)))
  BY <1>2, FS_SUBSET
<1>4. Printed \subseteq SUBSET (1 .. Len(input))
  BY <1>1 DEF Printed, Runs, RunOf
<1> QED
  BY <1>3, <1>4, FS_Subset

\* A sample joins the last run, or begins one and makes the last run past.
Joins(n) == \E i \in Tip : Together(i, n)'

LEMMA RunsGrow ==
  ASSUME StateOK, StateOK', NEW vb, Takes(vb), Sample(vb), NEW n, n = Len(input) + 1
  PROVE  /\ Joins(n) => Past' = Past /\ Tip' = Tip \cup {n}
         /\ ~ Joins(n) => Past' = Sampled /\ Tip' = {n}
         /\ \A i \in Past' : i \in Sampled /\ RunOf(i)' = RunOf(i)
<1>1. /\ n \in Nat /\ Sampled' = Sampled \cup {n}
      /\ \A i \in Sampled : i \in Nat /\ i < n /\ input'[i] = input[i]
  BY TakesFacts
<1>2. n \notin Sampled /\ \A i \in Sampled : i <= n /\ ~ n <= i
  BY <1>1
<1>3. \A i, k \in Sampled : Together(i, k)' <=> Together(i, k)
  BY <1>1 DEF Together, Tab, Obj
<1>4. \A i, j, k : /\ Together(i, i)'
                   /\ Together(i, j)' => Together(j, i)'
                   /\ Together(i, j)' /\ Together(j, k)' => Together(i, k)'
  BY Zenon DEF Together
<1>5. /\ \A i : i \in Tip <=> i \in Sampled /\ \A k \in Sampled : i <= k => Together(i, k)
      /\ \A i : i \in Tip' <=> i \in Sampled' /\ \A k \in Sampled' : i <= k => Together(i, k)'
  BY DEF Tip
<1>6. n \in Tip'
  <2>1. \A k \in Sampled' : n <= k => k = n
    BY <1>1, <1>2
  <2> QED
    BY <1>1, <1>4, <1>5, <2>1
<1>7. \A i \in Sampled : i \in Tip' <=> i \in Tip /\ Together(i, n)'
  <2> TAKE i \in Sampled
  <2>1. i \in Tip' <=> (\A k \in Sampled : i <= k => Together(i, k)') /\ Together(i, n)'
    BY <1>1, <1>2, <1>5
  <2> QED
    BY <1>3, <1>5, <2>1
<1>8. \A i \in Tip, j \in Tip : Together(i, j)'
  <2> TAKE i \in Tip, j \in Tip
  <2>1. i \in Sampled /\ j \in Sampled /\ (i <= j \/ j <= i)
    BY <1>1, <1>5
  <2>2. Together(i, j)' \/ Together(j, i)'
    BY <1>3, <1>5, <2>1
  <2> QED
    BY <1>4, <2>2
<1>9. /\ Joins(n) => \A i \in Tip : Together(i, n)'
      /\ ~ Joins(n) => \A i \in Tip : ~ Together(i, n)'
  BY <1>4, <1>8 DEF Joins
<1>10. Tip \subseteq Sampled /\ Tip' \subseteq Sampled \cup {n}
  BY <1>1, <1>5
<1>11. /\ Joins(n) => Tip' = Tip \cup {n}
       /\ ~ Joins(n) => Tip' = {n}
  BY <1>6, <1>7, <1>9, <1>10
<1>12. /\ Joins(n) => Past' = Past
       /\ ~ Joins(n) => Past' = Sampled
  BY <1>1, <1>2, <1>11 DEF Past
<1>13. ASSUME NEW i \in Past' PROVE i \in Sampled /\ RunOf(i)' = RunOf(i)
  <2>1. i \in Sampled' /\ i \notin Tip' /\ i \in Sampled
    BY <1>1, <1>6, <1>13 DEF Past
  <2>2. /\ \A j : j \in RunOf(i) <=> j \in Sampled /\ \A k \in Sampled : (i <= k /\ k <= j) \/ (j <= k /\ k <= i) => Together(i, k)
        /\ \A j : j \in RunOf(i)' <=> j \in Sampled' /\ \A k \in Sampled' : (i <= k /\ k <= j) \/ (j <= k /\ k <= i) => Together(i, k)'
    BY DEF RunOf
  <2>3. n \notin RunOf(i)'
    <3> SUFFICES ASSUME n \in RunOf(i)' PROVE i \in Tip'
      BY <2>1
    <3>1. \A k \in Sampled' : k <= n
      BY <1>1, <1>2
    <3>2. \A k \in Sampled' : i <= k => Together(i, k)'
      BY <2>2, <3>1
    <3> QED
      BY <1>5, <2>1, <3>2
  <2>4. ASSUME NEW j \in Sampled PROVE j \in RunOf(i)' <=> j \in RunOf(i)
    <3>1. ~ ((i <= n /\ n <= j) \/ (j <= n /\ n <= i))
      BY <1>2, <2>1
    <3>2. \A k \in Sampled : Together(i, k)' <=> Together(i, k)
      BY <1>3, <2>1
    <3> QED
      BY <1>1, <2>2, <3>1, <3>2
  <2>5. RunOf(i)' \subseteq Sampled \cup {n} /\ RunOf(i) \subseteq Sampled
    BY <1>1, <2>2
  <2> QED
    BY <2>1, <2>3, <2>4, <2>5
<1> QED
  BY <1>11, <1>12, <1>13

-----------------------------------------------------------------------------
(* The pages of the runs                                                    *)

\* Pages for a set of runs, in their order: one for each run that has lines.
Shown(runs, linesOf)      == {run \in runs : linesOf[run] # {}}
Place(runs, linesOf, run) == Cardinality({r \in Shown(runs, linesOf) : Max(r) <= Max(run)})

PagesMatch(list, runs, linesOf) ==
  /\ Len(list) = Cardinality(Shown(runs, linesOf))
  /\ \A run \in Shown(runs, linesOf) : Range(list[Place(runs, linesOf, run)]) = linesOf[run]
  /\ \A p \in DOMAIN list : IsInjective(list[p])

\* A run behind all others gets a page behind the others, or none if it has no lines.
LEMMA PageAdded ==
  ASSUME NEW list, IsList(list), NEW runs, IsFiniteSet(runs), NEW linesOf, PagesMatch(list, runs, linesOf),
         NEW tip, tip \notin runs, Max(tip) \in Nat, \A run \in runs : Max(run) \in Nat /\ Max(run) < Max(tip),
         NEW more, \A run \in runs : more[run] = linesOf[run],
         NEW page, Range(page) = more[tip], IsInjective(page),
         NEW q, q = IF DOMAIN page = {} THEN list ELSE Append(list, page)
  PROVE  PagesMatch(q, runs \cup {tip}, more)
<1> DEFINE all == runs \cup {tip}
           S   == Shown(runs, linesOf)
           T   == Shown(all, more)
           n   == Cardinality(S)
           Up(U, x) == {r \in U : Max(r) <= Max(x)}
<1>1. DOMAIN page = {} <=> more[tip] = {}
  BY DEF Range
<1>2. /\ T = IF more[tip] = {} THEN S ELSE S \cup {tip}
      /\ S \subseteq runs /\ tip \notin S
  BY DEF Shown
<1>3. IsFiniteSet(S) /\ n \in Nat
  BY <1>2, FS_Subset, FS_CardinalityType
<1>4. /\ Len(list) = n
      /\ \A run \in S : Range(list[Cardinality(Up(S, run))]) = linesOf[run]
      /\ \A p \in DOMAIN list : IsInjective(list[p])
  BY DEF PagesMatch, Place
<1>5. /\ PagesMatch(q, all, more) <=>
           /\ Len(q) = Cardinality(T)
           /\ \A run \in T : Range(q[Cardinality(Up(T, run))]) = more[run]
           /\ \A p \in DOMAIN q : IsInjective(q[p])
  BY DEF PagesMatch, Place
<1>6. ASSUME NEW run \in S PROVE /\ Up(T, run) = Up(S, run)
                                 /\ Cardinality(Up(S, run)) \in 1 .. n
                                 /\ run \in runs /\ more[run] = linesOf[run]
  <2>1. run \in runs /\ Max(run) \in Nat /\ Max(run) < Max(tip)
    BY <1>2
  <2>2. ~ Max(tip) <= Max(run)
    BY <2>1
  <2>3. Up(T, run) = Up(S, run)
    BY <1>2, <2>2
  <2> DEFINE U == Up(S, run)
  <2>4. U \subseteq S /\ run \in U
    BY <2>1
  <2> HIDE DEF U
  <2>5. IsFiniteSet(U) /\ Cardinality(U) <= n /\ Cardinality(U) \in Nat /\ Cardinality(U) # 0
    BY <1>3, <2>4, FS_Subset, FS_CardinalityType, FS_EmptySet
  <2>6. Cardinality(U) \in 1 .. n
    BY <1>3, <2>5
  <2> QED
    BY <2>1, <2>3, <2>6 DEF U
<1> HIDE DEF all, S, T, n, Up
<1>7. CASE more[tip] = {}
  <2>1. q = list /\ T = S
    BY <1>1, <1>2, <1>7
  <2> QED
    BY <1>4, <1>5, <1>6, <2>1 DEF all, n
<1>8. CASE more[tip] # {}
  <2>1. q = Append(list, page) /\ T = S \cup {tip}
    BY <1>1, <1>2, <1>8
  <2>2. PICK A : list \in Seq(A)
    BY DEF IsList
  <2>3. /\ Len(q) = n + 1 /\ DOMAIN q = 1 .. n + 1 /\ q[n + 1] = page
        /\ DOMAIN list = 1 .. n /\ \A p \in 1 .. n : q[p] = list[p]
    <3> DEFINE B == A \cup {page}
    <3>1. list \in Seq(B) /\ page \in B
      BY <2>2
    <3> HIDE DEF B
    <3> QED
      BY <1>3, <1>4, <2>1, <3>1
  <2>4. Cardinality(T) = n + 1
    BY <1>2, <1>3, <2>1, FS_AddElement DEF n
  <2>5. Up(T, tip) = T
    <3>1. \A run \in S : Max(run) <= Max(tip)
      BY <1>2
    <3> QED
      BY <2>1, <3>1 DEF Up
  <2>6. \A run \in T : Range(q[Cardinality(Up(T, run))]) = more[run]
    <3> SUFFICES ASSUME NEW run \in T PROVE Range(q[Cardinality(Up(T, run))]) = more[run]
      OBVIOUS
    <3>1. CASE run = tip
      BY <2>3, <2>4, <2>5, <3>1
    <3>2. CASE run \in S
      <4>1. PICK p \in 1 .. n : p = Cardinality(Up(S, run))
        BY <1>6, <3>2
      <4>2. Range(list[p]) = linesOf[run] /\ q[p] = list[p]
        BY <1>4, <2>3, <3>2, <4>1
      <4> QED
        BY <1>6, <3>2, <4>1, <4>2
    <3> QED
      BY <2>1, <3>1, <3>2
  <2>7. \A p \in DOMAIN q : IsInjective(q[p])
    <3> SUFFICES ASSUME NEW p \in 1 .. n + 1 PROVE IsInjective(q[p])
      BY <2>3
    <3>1. CASE p \in 1 .. n
      BY <1>4, <2>3, <3>1
    <3>2. CASE p = n + 1
      BY <2>3, <3>2
    <3>3. p \in 1 .. n \/ p = n + 1
      BY <1>3
    <3> QED
      BY <3>1, <3>2, <3>3
  <2> QED
    BY <1>5, <2>3, <2>4, <2>6, <2>7 DEF all
<1> QED
  BY <1>7, <1>8

\* LinesOf, as a function on the runs that were printed.
PrintedLines == [run \in Printed |-> LinesOf(run)]

LEMMA PagesOfRuns == PrintsRuns <=> PagesMatch(pages, Printed, PrintedLines)
<1>1. Shown(Printed, PrintedLines) = {run \in Printed : LinesOf(run) # {}}
  BY DEF Shown, PrintedLines
<1>2. \A run \in Shown(Printed, PrintedLines) : PrintedLines[run] = LinesOf(run)
  BY DEF Shown, PrintedLines
<1> QED
  BY <1>1, <1>2 DEF PrintsRuns, PagesMatch, Place

-----------------------------------------------------------------------------
(* The pages are those of the runs                                          *)

\* What the block is while the capture is read: that of the last run.
RunsInv ==
  /\ PrintsRuns
  /\ phase = "reading" =>
       /\ Holds(block, input, Tip, block.table)
       /\ Tip = {} => last = NoMeta
       /\ \A i \in Tip : Tab(i) = block.table /\ (Tab(i) = NoTable => Obj(i) = last)
       /\ indexing = MadeUpTo(input, Len(input))

LEMMA MadeGrows ==
  ASSUME StateOK, NEW vb, Takes(vb), NEW n, n = Len(input) + 1
  PROVE  /\ \A to \in 1 .. Len(input) : MadeUpTo(input', to) = MadeUpTo(input, to)
         /\ Parented(vb) => MadeUpTo(input', n) = MadeUpTo(input, Len(input)) \cup MetaData(vb.object)
         /\ ~ Parented(vb) => MadeUpTo(input', n) = MadeUpTo(input, Len(input))
<1>1. input \in Seq(VarBinds) /\ Len(input) \in Nat /\ vb \in VarBinds /\ input' = Append(input, vb)
  BY DEF StateOK, Takes
<1>2. input'[n] = vb /\ \A i \in 1 .. Len(input) : input'[i] = input[i]
  BY <1>1
<1>3. 1 .. n = (1 .. Len(input)) \cup {n} /\ \A to \in 1 .. Len(input) : 1 .. to \subseteq 1 .. Len(input)
  BY <1>1
<1>4. ASSUME NEW to \in 1 .. Len(input) PROVE MadeUpTo(input', to) = MadeUpTo(input, to)
  <2>1. \A i \in 1 .. to : input'[i] = input[i]
    BY <1>2, <1>3
  <2>2. {j \in 1 .. to : Parented(input'[j])} = {j \in 1 .. to : Parented(input[j])}
    BY <2>1
  <2> QED
    BY <2>1, <2>2 DEF MadeUpTo
<1> DEFINE A == {j \in 1 .. Len(input) : Parented(input[j])}
           B == {j \in 1 .. n : Parented(input'[j])}
<1>5. B = IF Parented(vb) THEN A \cup {n} ELSE A
  BY <1>2, <1>3
<1>6. \A i \in A : input'[i] = input[i]
  BY <1>2
<1>7. MadeUpTo(input', n) = UNION {MetaData(input'[i].object) : i \in B}
  BY DEF MadeUpTo
<1>8. MadeUpTo(input, Len(input)) = UNION {MetaData(input[i].object) : i \in A}
  BY DEF MadeUpTo
<1> HIDE DEF A, B
<1>9. \A t : t \in MadeUpTo(input', n) <=> \E i \in B : t \in MetaData(input'[i].object)
  BY <1>7
<1>10. \A t : t \in MadeUpTo(input, Len(input)) <=> \E i \in A : t \in MetaData(input[i].object)
  BY <1>8
<1>11. ASSUME Parented(vb)
       PROVE  MadeUpTo(input', n) = MadeUpTo(input, Len(input)) \cup MetaData(vb.object)
  <2>1. B = A \cup {n}
    BY <1>5, <1>11
  <2>2. \A t : t \in MadeUpTo(input', n) <=> t \in MadeUpTo(input, Len(input)) \/ t \in MetaData(vb.object)
    BY <1>2, <1>6, <1>9, <1>10, <2>1
  <2> QED
    BY <2>2
<1>12. ASSUME ~ Parented(vb)
       PROVE  MadeUpTo(input', n) = MadeUpTo(input, Len(input))
  <2>1. B = A
    BY <1>5, <1>12
  <2>2. \A t : t \in MadeUpTo(input', n) <=> t \in MadeUpTo(input, Len(input))
    BY <1>6, <1>9, <1>10, <2>1
  <2> QED
    BY <2>2
<1> QED
  BY <1>4, <1>11, <1>12

\* The lines of a run that was printed stay what they are.
LEMMA SameLines ==
  ASSUME StateOK, StateOK', NEW vb, Takes(vb), NEW i \in Past, NEW run, run = RunOf(i)
  PROVE  LinesOf(run)' = LinesOf(run)
<1>1. PICK n : n = Len(input) + 1
  OBVIOUS
<1>2. /\ n \in Nat /\ \A j \in Sampled : j \in Nat /\ j < n /\ input'[j] = input[j]
      /\ Sampled' = Sampled \/ Sampled' = Sampled \cup {n}
  BY <1>1, TakesFacts
<1>3. Sampled \in SUBSET Nat /\ \A j \in Sampled : j \in 1 .. Len(input)
  BY SampledNat
<1>4. /\ i \in Sampled /\ run \subseteq Sampled
      /\ Max(run) \in run /\ Max(run) \in Nat /\ After(run) # {}
  <2>1. i \in Sampled
    BY DEF Past
  <2> QED
    BY <2>1, RunFacts, LastFacts
<1>5. PICK k \in After(run) : \A j \in After(run) : k <= j
  <2>1. After(run) \in SUBSET Nat
    BY <1>3 DEF After
  <2> QED
    BY <1>4, <2>1, Least
<1>6. k \in Sampled /\ k \in 1 .. Len(input)
  BY <1>3, <1>5 DEF After
<1>7. Min(After(run)) = k
  <2>1. After(run) \in SUBSET Nat
    BY <1>3 DEF After
  <2> QED
    BY <1>5, <2>1, MinIs
<1>8. k \in After(run)' /\ \A j \in After(run)' : k <= j
  <2>1. After(run) = {j \in Sampled : j > Max(run)} /\ After(run)' = {j \in Sampled' : j > Max(run)}
    BY DEF After
  <2>2. \A j \in After(run)' : j \in After(run) \/ j = n
    BY <1>2, <2>1
  <2> QED
    BY <1>2, <1>5, <1>6, <2>1, <2>2
<1>9. Min(After(run)') = k
  <2>1. After(run)' \in SUBSET Nat
    BY <1>2, <1>3 DEF After
  <2> QED
    BY <1>8, <2>1, MinIs
<1>10. PrintedAt(run) = k /\ PrintedAt(run)' = k
  BY <1>4, <1>7, <1>8, <1>9 DEF PrintedAt
<1>11. MadeUpTo(input', k) = MadeUpTo(input, k)
  BY <1>1, <1>6, MadeGrows
<1>12. TableOfRun(run)' = TableOfRun(run)
  BY <1>2, <1>4 DEF TableOfRun, Tab, Obj
<1>13. \A j \in run : input'[j] = input[j]
  BY <1>2, <1>4
<1>14. /\ RowsAt(input', run) = RowsAt(input, run)
       /\ CellsAt(input', run, TableOfRun(run)) = CellsAt(input, run, TableOfRun(run))
  BY <1>13, SameCells
<1>15. LinesAt(run)' = LinesAt(run)
  BY <1>10, <1>11, <1>12, <1>14 DEF LinesAt
<1>16. LinesAgree'
  BY LinesOfRun, PTL
<1> QED
  BY <1>15, <1>16, LinesOfRun DEF LinesAgree

\* The lines of the block, when it holds the last run.
LEMMA BlockLines ==
  ASSUME Holds(block, input, Tip, block.table), NEW made, NEW lines, lines = Lines(block, made)
  PROVE  /\ Range(lines) = LinesFrom(block.table, RowsAt(input, Tip), CellsAt(input, Tip, block.table), made)
         /\ IsInjective(lines)
         /\ Tip = {} => DOMAIN lines = {}
<1>1. /\ Range(lines) = LinesFrom(block.table, RowsAt(input, Tip), CellsAt(input, Tip, block.table), made)
      /\ IsInjective(lines)
  BY LinesAre DEF Holds
<1>2. ASSUME Tip = {} PROVE DOMAIN lines = {}
  <2>1. RowsAt(input, Tip) = {} /\ DOMAIN CellsAt(input, Tip, block.table) = {}
    BY <1>2 DEF RowsAt, CellsAt, Cells
  <2>2. NumbersFrom(CellsAt(input, Tip, block.table), made) = {}
    BY <2>1 DEF NumbersFrom
  <2>3. Range(lines) = {}
    BY <1>1, <2>1, <2>2 DEF LinesFrom
  <2> QED
    BY <2>3 DEF Range
<1> QED
  BY <1>1, <1>2

\* Printing the block adds the last run to those that are printed.
LEMMA TipPrinted ==
  ASSUME StateOK, CollectedInv, RunsInv, phase = "reading",
         Printed' = {RunOf(i) : i \in Sampled}, \A run \in Printed : LinesOf(run)' = LinesOf(run),
         NEW made, pages' = Flushed(block, made),
         NEW tip, tip = Tip,
         tip # {} => LinesAt(tip)' = LinesFrom(block.table, RowsAt(input, tip), CellsAt(input, tip, block.table), made)
  PROVE  PrintsRuns'
<1> DEFINE lines == Lines(block, made)
<1>1. /\ Range(lines) = LinesFrom(block.table, RowsAt(input, Tip), CellsAt(input, Tip, block.table), made)
      /\ IsInjective(lines)
      /\ Tip = {} => DOMAIN lines = {}
  BY BlockLines DEF RunsInv
<1>2. pages' = IF DOMAIN lines = {} THEN pages ELSE Append(pages, lines)
  BY DEF Flushed
<1> HIDE DEF lines
<1>3. PagesMatch(pages, Printed, PrintedLines)
  BY PagesOfRuns DEF RunsInv
<1>4. (PrintsRuns <=> PagesMatch(pages, Printed, PrintedLines))'
  BY PagesOfRuns, PTL
<1>5. Printed = {RunOf(i) : i \in Past} /\ Past \subseteq Sampled
  BY PrintedRuns DEF Past
<1>6. CASE tip = {}
  <2>1. pages' = pages
    BY <1>1, <1>2, <1>6
  <2>2. Printed' = Printed
    BY <1>5, <1>6 DEF Past
  <2>3. PrintedLines' = PrintedLines
    BY <2>2 DEF PrintedLines
  <2> QED
    BY <1>3, <1>4, <2>1, <2>2, <2>3
<1>7. CASE tip # {}
  <2>1. PICK t \in Sampled : t \in Tip
    BY <1>7 DEF Tip
  <2>2. tip = RunOf(t) /\ Max(tip) \in Nat
    BY <2>1, RunFacts, LastFacts
  <2>3. \A run \in Printed : Max(run) \in Nat /\ Max(run) < Max(tip)
    BY <1>5, LastFacts
  <2>4. tip \notin Printed
    BY <2>2, <2>3
  <2>5. Printed' = Printed \cup {tip}
    <3>1. ASSUME NEW i \in Sampled PROVE RunOf(i) \in Printed \cup {tip}
      <4>1. CASE i \in Past
        BY <1>5, <4>1
      <4>2. CASE i \in Tip
        BY <4>2, RunFacts
      <4> QED
        BY <4>1, <4>2 DEF Past
    <3> QED
      BY <1>5, <2>2, <3>1
  <2>6. Range(lines) = LinesOf(tip)'
    <3>1. LinesAgree'
      BY LinesOfRun, PTL
    <3>2. LinesOf(tip)' = LinesAt(tip)'
      BY <3>1 DEF LinesAgree
    <3> QED
      BY <1>1, <1>7, <3>2
  <2>7. PrintedLines'[tip] = LinesOf(tip)' /\ \A run \in Printed : PrintedLines'[run] = PrintedLines[run]
    BY <2>5 DEF PrintedLines
  <2>8. PagesMatch(pages', Printed \cup {tip}, PrintedLines')
    <3>1. IsFiniteSet(Printed) /\ IsList(pages)
      BY PrintedFinite DEF CollectedInv
    <3>2. Range(lines) = PrintedLines'[tip]
      BY <2>6, <2>7
    <3> DEFINE more == PrintedLines'
    <3>3. Range(lines) = more[tip] /\ \A run \in Printed : more[run] = PrintedLines[run]
      BY <2>7, <3>2
    <3> HIDE DEF more
    <3>4. PagesMatch(pages', Printed \cup {tip}, more)
      BY <1>1, <1>2, <1>3, <2>2, <2>3, <2>4, <3>1, <3>3, PageAdded
    <3> QED
      BY <3>4 DEF more
  <2> QED
    BY <1>4, <2>5, <2>8
<1> QED
  BY <1>6, <1>7

\* The block is printed where a sample does not join the last run.
LEMMA JoinsSwitches ==
  ASSUME StateOK, CollectedInv, RunsInv, NEW vb, Takes(vb), Sample(vb), NEW n, n = Len(input) + 1
  PROVE  Joins(n) <=> ~ Switches(vb.object)
<1> DEFINE o == vb.object
<1>1. o \in Objects /\ NoMeta \notin Objects /\ vb \in VarBinds /\ phase = "reading"
  BY KnownFacts, PrinterAssumption DEF Sample, Takes, NoMeta
<1>2. /\ Tip = {} => last = NoMeta
      /\ \A i \in Tip : Tab(i) = block.table /\ (Tab(i) = NoTable => Obj(i) = last)
      /\ last \in Objects => TableOf[last] = block.table
      /\ last = NoMeta => block.table = NoTable
  BY <1>1 DEF RunsInv, CollectedInv, Belongs
<1>3. ASSUME NEW i \in Tip PROVE Together(i, n)' <=> Tab(i) = TableOf[o] /\ (Tab(i) = NoTable => Obj(i) = o)
  <2>1. i \in Sampled
    BY DEF Tip
  <2>2. Obj(i)' = Obj(i) /\ Tab(i)' = Tab(i) /\ Obj(n)' = o /\ Tab(n)' = TableOf[o]
    BY <2>1, TakesFacts DEF Obj, Tab
  <2> QED
    BY <2>2 DEF Together
<1> HIDE DEF o
<1>4. Switches(o) <=> last # o /\ (block.table # TableOf[o] \/ TableOf[o] = NoTable)
  BY DEF Switches
<1>5. CASE Tip = {}
  BY <1>1, <1>2, <1>4, <1>5 DEF Joins, o
<1>6. CASE Tip # {}
  <2>1. ASSUME NEW i \in Tip PROVE Together(i, n)' <=> ~ Switches(o)
    <3>1. Together(i, n)' <=> block.table = TableOf[o] /\ (block.table = NoTable => last = o)
      BY <1>2, <1>3
    <3>2. last = o => block.table = TableOf[o]
      BY <1>1, <1>2 DEF o
    <3> QED
      BY <1>4, <3>1, <3>2
  <2> QED
    BY <1>6, <2>1 DEF Joins, o
<1> QED
  BY <1>5, <1>6

\* What is printed for a sample.
LEMMA SamplePrints ==
  ASSUME StateOK, StateOK', CollectedInv, RunsInv, NEW vb, Takes(vb), Sample(vb), phase' # "done",
         pages' = IF Switches(vb.object) THEN Flushed(block, Made(vb.object)) ELSE pages
  PROVE  PrintsRuns'
<1>1. PICK n : n = Len(input) + 1
  OBVIOUS
<1>2. phase = "reading" /\ Known(vb) /\ vb \in VarBinds
  BY DEF Takes, Sample
<1>3. Joins(n) <=> ~ Switches(vb.object)
  BY <1>1, JoinsSwitches
<1>4. /\ Joins(n) => Past' = Past
      /\ ~ Joins(n) => Past' = Sampled /\ Tip' = {n}
      /\ \A i \in Past' : RunOf(i)' = RunOf(i)
  BY <1>1, RunsGrow
<1>5. Printed = {RunOf(i) : i \in Past}
  BY <1>2, PrintedRuns
<1>6. Printed' = {RunOf(i)' : i \in Past'}
  <2>1. (StateOK => Printed = IF phase = "done" THEN {RunOf(i) : i \in Sampled} ELSE {RunOf(i) : i \in Past})'
    BY PrintedRuns, PTL
  <2> QED
    BY <2>1
<1>7. \A run \in Printed : LinesOf(run)' = LinesOf(run)
  BY <1>5, SameLines
<1>8. CASE Joins(n)
  <2>1. Printed' = Printed /\ pages' = pages
    BY <1>3, <1>4, <1>5, <1>6, <1>8
  <2>2. PrintedLines' = PrintedLines
    BY <1>7, <2>1 DEF PrintedLines
  <2>3. (PrintsRuns <=> PagesMatch(pages, Printed, PrintedLines))'
    BY PagesOfRuns, PTL
  <2> QED
    BY <2>1, <2>2, <2>3, PagesOfRuns DEF RunsInv
<1>9. CASE ~ Joins(n)
  <2>1. Printed' = {RunOf(i) : i \in Sampled}
    BY <1>4, <1>6, <1>9
  <2>2. pages' = Flushed(block, Made(vb.object))
    BY <1>3, <1>9
  <2>3. PICK tip : tip = Tip
    OBVIOUS
  <2>4. ASSUME tip # {}
        PROVE  LinesAt(tip)' = LinesFrom(block.table, RowsAt(input, tip), CellsAt(input, tip, block.table), Made(vb.object))
    <3>1. /\ n \in Nat /\ Sampled' = Sampled \cup {n} /\ \A j \in Sampled : j \in Nat /\ j < n /\ input'[j] = input[j]
      BY <1>1, TakesFacts
    <3>2. PICK t \in Sampled : t \in tip
      BY <2>3, <2>4 DEF Tip
    <3>3. tip = RunOf(t) /\ Max(tip) \in tip /\ Max(tip) \in Nat /\ tip \subseteq Sampled
      BY <2>3, <3>2, RunFacts, LastFacts
    <3>4. After(tip) = {}
      BY <2>3, <3>2, <3>3, LastFacts DEF Past
    <3>5. After(tip)' = {n}
      <4>1. After(tip)' = {j \in Sampled' : j > Max(tip)} /\ \A j \in Sampled : ~ j > Max(tip)
        BY <3>4 DEF After
      <4> QED
        BY <3>1, <3>3, <4>1
    <3>6. PrintedAt(tip)' = n
      <4>1. Min(After(tip)') = n
        BY <3>1, <3>5, MinIs
      <4> QED
        BY <3>5, <4>1 DEF PrintedAt
    <3>7. MadeUpTo(input', n) = Made(vb.object)
      BY <1>1, <1>2, MadeGrows DEF RunsInv, Made, Sample, Known
    <3>8. TableOfRun(tip)' = block.table
      BY <1>2, <2>3, <3>1, <3>3 DEF RunsInv, TableOfRun, Tab, Obj
    <3>9. \A j \in tip : input'[j] = input[j]
      BY <3>1, <3>3
    <3>10. /\ RowsAt(input', tip) = RowsAt(input, tip)
           /\ CellsAt(input', tip, block.table) = CellsAt(input, tip, block.table)
      BY <3>9, SameCells
    <3> QED
      BY <3>6, <3>7, <3>8, <3>10 DEF LinesAt
  <2> QED
    BY <1>2, <1>7, <2>1, <2>2, <2>3, <2>4, TipPrinted
<1> QED
  BY <1>8, <1>9

-----------------------------------------------------------------------------
(* The steps, for the runs                                                  *)

LEMMA InitRuns == Init => RunsInv
<1> SUFFICES ASSUME Init PROVE RunsInv
  OBVIOUS
<1>1. /\ phase = "reading" /\ input = <<>> /\ last = NoMeta /\ block = NewBlock(NoTable)
      /\ indexing = {} /\ pages = <<>>
  BY DEF Init
<1>2. DOMAIN input = {} /\ 1 .. Len(input) = {}
  BY <1>1
<1>3. Sampled = {}
  BY <1>2 DEF Sampled
<1>4. Tip = {} /\ Printed = {}
  BY <1>3 DEF Tip, Printed, Runs
<1>5. PrintsRuns
  <2>1. Shown(Printed, PrintedLines) = {}
    BY <1>4 DEF Shown
  <2>2. Len(pages) = 0 /\ DOMAIN pages = {}
    BY <1>1
  <2>3. PagesMatch(pages, Printed, PrintedLines)
    BY <2>1, <2>2, FS_EmptySet DEF PagesMatch
  <2> QED
    BY <2>3, PagesOfRuns
<1>6. Holds(block, input, Tip, block.table)
  <2>1. block.table = NoTable
    BY <1>1, NewBlockGood
  <2> QED
    BY <1>1, <1>4, <2>1, NewHolds
<1>7. indexing = MadeUpTo(input, Len(input))
  BY <1>1, <1>2 DEF MadeUpTo
<1> QED
  BY <1>1, <1>4, <1>5, <1>6, <1>7 DEF RunsInv

LEMMA SamePages ==
  ASSUME PrintsRuns, Printed' = Printed, \A run \in Printed : LinesOf(run)' = LinesOf(run), pages' = pages
  PROVE  PrintsRuns'
<1>1. PagesMatch(pages, Printed, PrintedLines)
  BY PagesOfRuns
<1>2. PrintedLines' = PrintedLines
  BY DEF PrintedLines
<1>3. (PrintsRuns <=> PagesMatch(pages, Printed, PrintedLines))'
  BY PagesOfRuns, PTL
<1> QED
  BY <1>1, <1>2, <1>3

\* All that is told from the capture stays while nothing is read.
LEMMA SameInput ==
  ASSUME input' = input
  PROVE  /\ Sampled' = Sampled /\ Tip' = Tip /\ Past' = Past
         /\ \A i : RunOf(i)' = RunOf(i) /\ Obj(i)' = Obj(i) /\ Tab(i)' = Tab(i)
         /\ \A run : LinesAt(run)' = LinesAt(run) /\ LinesOf(run)' = LinesOf(run)
<1>1. Sampled' = Sampled /\ \A i : Obj(i)' = Obj(i) /\ Tab(i)' = Tab(i)
  BY DEF Sampled, Known, Parented, Obj, Tab
<1>2. \A i, k : Together(i, k)' <=> Together(i, k)
  BY <1>1 DEF Together
<1>3. Tip' = Tip /\ \A i : RunOf(i)' = RunOf(i)
  BY <1>1, <1>2 DEF Tip, RunOf
<1>4. Past' = Past
  BY <1>1, <1>3 DEF Past
<1>5. \A run : After(run)' = After(run) /\ TableOfRun(run)' = TableOfRun(run)
  BY <1>1 DEF After, TableOfRun
<1>6. \A run : LinesAt(run)' = LinesAt(run)
  <2>1. \A run : PrintedAt(run)' = PrintedAt(run)
    BY <1>5 DEF PrintedAt
  <2> QED
    BY <1>5, <2>1 DEF LinesAt
<1>7. LinesAgree /\ LinesAgree'
  BY LinesOfRun, PTL
<1>8. \A run : LinesOf(run)' = LinesOf(run)
  BY <1>6, <1>7 DEF LinesAgree
<1> QED
  BY <1>1, <1>3, <1>4, <1>6, <1>8

LEMMA UnsampledRuns ==
  ASSUME PrinterInvariant, PrinterInvariant', RunsInv, NEW vb \in VarBinds,
         SkipNotFound(vb) \/ PanicWithoutParent(vb) \/ SkipNotKnown(vb) \/ FailDecode(vb)
  PROVE  RunsInv'
<1>0. PICK n : n = Len(input) + 1
  OBVIOUS
<1>1. StateOK /\ StateOK'
  BY DEF PrinterInvariant
<1>2. /\ Takes(vb) /\ ~ Sample(vb) /\ UNCHANGED <<last, block, pages>> /\ phase = "reading" /\ phase' # "done"
      /\ phase' = "reading" => indexing' = IF Parented(vb) THEN Made(vb.object) ELSE indexing
  BY DEF SkipNotFound, PanicWithoutParent, SkipNotKnown, FailDecode, Sample, Known, Parented, Takes
<1>3. /\ Sampled' = Sampled /\ \A i \in Sampled : input'[i] = input[i]
      /\ Len(input') = n
  BY <1>0, <1>1, <1>2, TakesFacts
<1>4. \A i \in Sampled : Obj(i)' = Obj(i) /\ Tab(i)' = Tab(i)
  BY <1>3 DEF Obj, Tab
<1>5. \A i, k \in Sampled : Together(i, k)' <=> Together(i, k)
  BY <1>4 DEF Together
<1>6. Tip' = Tip /\ Past' = Past /\ Tip \subseteq Sampled /\ Past \subseteq Sampled
  BY <1>3, <1>5 DEF Tip, Past
<1>7. \A i \in Sampled : RunOf(i)' = RunOf(i)
  BY <1>3, <1>5 DEF RunOf
<1>8. PrintsRuns'
  <2>1. Printed = {RunOf(i) : i \in Past}
    BY <1>1, <1>2, PrintedRuns
  <2>2. Printed' = {RunOf(i)' : i \in Past'}
    <3>1. (StateOK => Printed = IF phase = "done" THEN {RunOf(i) : i \in Sampled} ELSE {RunOf(i) : i \in Past})'
      BY PrintedRuns, PTL
    <3> QED
      BY <1>1, <1>2, <3>1
  <2>3. Printed' = Printed
    BY <1>6, <1>7, <2>1, <2>2
  <2>4. \A run \in Printed : LinesOf(run)' = LinesOf(run)
    BY <1>1, <1>2, <2>1, SameLines
  <2> QED
    BY <1>2, <2>3, <2>4, SamePages DEF RunsInv
<1>9. ASSUME phase' = "reading"
      PROVE  /\ Holds(block', input', Tip', block'.table)
             /\ Tip' = {} => last' = NoMeta
             /\ \A i \in Tip' : Tab(i)' = block'.table /\ (Tab(i)' = NoTable => Obj(i)' = last')
             /\ indexing' = MadeUpTo(input', Len(input'))
  <2>1. Holds(block, input, Tip, block.table)
    BY <1>2 DEF RunsInv
  <2>2. /\ RowsAt(input', Tip) = RowsAt(input, Tip)
        /\ CellsAt(input', Tip, block.table) = CellsAt(input, Tip, block.table)
    <3>1. \A i \in Tip : input'[i] = input[i]
      BY <1>3, <1>6
    <3> QED
      BY <3>1, SameCells
  <2>3. Holds(block', input', Tip', block'.table)
    BY <1>2, <1>6, <2>1, <2>2 DEF Holds
  <2>4. indexing' = MadeUpTo(input', Len(input'))
    BY <1>0, <1>1, <1>2, <1>3, <1>9, MadeGrows DEF RunsInv, Made
  <2>5. /\ Tip' = {} => last' = NoMeta
        /\ \A i \in Tip' : Tab(i)' = block'.table /\ (Tab(i)' = NoTable => Obj(i)' = last')
    BY <1>2, <1>4, <1>6 DEF RunsInv
  <2> QED
    BY <2>3, <2>4, <2>5
<1> QED
  BY <1>8, <1>9 DEF RunsInv

LEMMA QueueLineRuns ==
  ASSUME PrinterInvariant, PrinterInvariant', RunsInv, NEW vb \in VarBinds, QueueLine(vb)
  PROVE  RunsInv'
<1> DEFINE o == vb.object  row == vb.index  b == Open(o)
<1>0. PICK n : n = Len(input) + 1
  OBVIOUS
<1>1. StateOK /\ StateOK' /\ CollectedInv
  BY DEF PrinterInvariant
<1>2. /\ Takes(vb) /\ Sample(vb) /\ Known(vb) /\ ~ Truncated(b, row) /\ phase' = "reading" /\ phase = "reading"
      /\ pages' = IF Switches(o) THEN Flushed(block, Made(o)) ELSE pages
      /\ last' = IF Switches(o) THEN o ELSE last
      /\ block' = Queued(b, o, row, Len(input')) /\ indexing' = Made(o)
  BY DEF QueueLine, FlushFor, Sample, Takes
<1>3. o \in Objects /\ row \in Rows /\ TableOf[o] \in Tables \cup {NoTable}
  BY <1>2, KnownFacts
<1>4. /\ Len(input') = n /\ n \in Nat /\ input'[n] = vb
      /\ \A i \in Sampled : i \in Nat /\ i < n /\ input'[i] = input[i]
  BY <1>0, <1>1, <1>2, TakesFacts
<1>5. PrintsRuns'
  BY <1>1, <1>2, SamplePrints
<1>6. /\ Joins(n) <=> ~ Switches(o)
      /\ Joins(n) => Tip' = Tip \cup {n}
      /\ ~ Joins(n) => Tip' = {n}
  BY <1>0, <1>1, <1>2, JoinsSwitches, RunsGrow
<1>7. indexing' = MadeUpTo(input', Len(input'))
  <2>1. MadeUpTo(input', n) = MadeUpTo(input, Len(input)) \cup MetaData(vb.object)
    BY <1>0, <1>1, <1>2, MadeGrows DEF Known
  <2> QED
    BY <1>2, <1>4, <2>1 DEF RunsInv, Made
<1>8. Obj(n)' = o /\ Tab(n)' = TableOf[o] /\ input'[n].object = o /\ input'[n].index = row
  BY <1>4 DEF Obj, Tab
<1> HIDE DEF o, row, b
<1>9. Good(b) /\ b.table = TableOf[o] /\ (b.table = NoTable => last' = o)
  BY <1>1, <1>2, <1>3, OpenFacts DEF b
<1>10. Queues(b, o, row, n, block')
  BY <1>2, <1>3, <1>4, <1>9, QueuedQueues
<1>11. block'.table = TableOf[o]
  BY <1>9, <1>10 DEF Queues
<1>12. PICK run : run = IF Switches(o) THEN {} ELSE Tip
  OBVIOUS
<1>13. Tip' = run \cup {n} /\ run \subseteq Sampled
  BY <1>6, <1>12 DEF Tip
<1>14. Holds(b, input, run, TableOf[o])
  <2>1. CASE Switches(o)
    BY <1>3, <1>12, <2>1, NewHolds DEF b, Open
  <2>2. CASE ~ Switches(o)
    <3>1. b = block /\ block.table = TableOf[o] /\ run = Tip
      BY <1>9, <1>12, <2>2 DEF b, Open
    <3> QED
      BY <1>2, <3>1 DEF RunsInv
  <2> QED
    BY <2>1, <2>2
<1>15. Holds(block', input', Tip', block'.table)
  <2>1. run \in SUBSET Nat /\ \A i \in run : i < n /\ input'[i] = input[i]
    BY <1>4, <1>13
  <2>2. Holds(block', input', run \cup {n}, TableOf[o])
    BY <1>3, <1>4, <1>8, <1>10, <1>14, <2>1, QueuesHolds
  <2> QED
    BY <1>11, <1>13, <2>2
<1>16. ASSUME NEW i \in Tip'
       PROVE  Tab(i)' = block'.table /\ (Tab(i)' = NoTable => Obj(i)' = last')
  <2>1. CASE i = n
    BY <1>8, <1>9, <1>11, <2>1
  <2>2. CASE i \in run
    <3>1. i \in Tip /\ ~ Switches(o) /\ i \in Sampled
      BY <1>12, <1>13, <2>2
    <3>2. block.table = TableOf[o] /\ last' = last
      BY <1>2, <1>9, <3>1 DEF b, Open
    <3>3. Tab(i)' = Tab(i) /\ Obj(i)' = Obj(i)
      BY <1>4, <3>1 DEF Tab, Obj
    <3>4. Tab(i) = block.table /\ (Tab(i) = NoTable => Obj(i) = last)
      BY <1>2, <3>1 DEF RunsInv
    <3> QED
      BY <1>11, <3>2, <3>3, <3>4
  <2> QED
    BY <1>13, <2>1, <2>2
<1>17. Tip' # {}
  BY <1>13
<1> QED
  BY <1>5, <1>7, <1>15, <1>16, <1>17 DEF RunsInv

LEMMA FailTruncatedRuns ==
  ASSUME PrinterInvariant, PrinterInvariant', RunsInv, NEW vb \in VarBinds, FailTruncated(vb)
  PROVE  RunsInv'
<1>1. StateOK /\ StateOK' /\ CollectedInv
  BY DEF PrinterInvariant
<1>2. /\ Takes(vb) /\ Sample(vb) /\ phase' = "aborted"
      /\ pages' = IF Switches(vb.object) THEN Flushed(block, Made(vb.object)) ELSE pages
  BY DEF FailTruncated, FlushFor, Sample
<1>3. PrintsRuns'
  BY <1>1, <1>2, SamplePrints
<1> QED
  BY <1>2, <1>3 DEF RunsInv

LEMMA EndCaptureRuns ==
  ASSUME PrinterInvariant, PrinterInvariant', RunsInv, EndCapture
  PROVE  RunsInv'
<1>1. StateOK /\ StateOK' /\ CollectedInv
  BY DEF PrinterInvariant
<1>2. /\ phase = "reading" /\ phase' = "done" /\ pages' = Flushed(block, indexing)
      /\ input' = input
  BY DEF EndCapture
<1>3. Printed' = {RunOf(i) : i \in Sampled}
  <2>1. (StateOK => Printed = IF phase = "done" THEN {RunOf(i) : i \in Sampled} ELSE {RunOf(i) : i \in Past})'
    BY PrintedRuns, PTL
  <2>2. Printed' = {RunOf(i)' : i \in Sampled'}
    BY <1>1, <1>2, <2>1
  <2> QED
    BY <1>2, <2>2, SameInput
<1>4. PICK tip : tip = Tip
  OBVIOUS
<1>5. ASSUME tip # {}
      PROVE  LinesAt(tip)' = LinesFrom(block.table, RowsAt(input, tip), CellsAt(input, tip, block.table), indexing)
  <2>1. PICK t \in Sampled : t \in tip
    BY <1>4, <1>5 DEF Tip
  <2>2. tip = RunOf(t) /\ Max(tip) \in tip /\ t \notin Past
    BY <1>1, <1>4, <2>1, RunFacts, LastFacts DEF Past
  <2>3. After(tip) = {}
    BY <1>1, <2>1, <2>2, LastFacts
  <2>4. PrintedAt(tip) = Len(input)
    BY <2>3 DEF PrintedAt
  <2>5. TableOfRun(tip) = block.table
    BY <1>2, <1>4, <2>2 DEF TableOfRun, RunsInv
  <2>6. indexing = MadeUpTo(input, Len(input))
    BY <1>2 DEF RunsInv
  <2>7. LinesAt(tip)' = LinesAt(tip)
    BY <1>2, SameInput
  <2> QED
    BY <2>4, <2>5, <2>6, <2>7 DEF LinesAt
<1>6. \A run \in Printed : LinesOf(run)' = LinesOf(run)
  BY <1>2, SameInput
<1>7. PrintsRuns'
  BY <1>1, <1>2, <1>3, <1>4, <1>5, <1>6, TipPrinted
<1> QED
  BY <1>2, <1>7 DEF RunsInv

LEMMA QuietRuns ==
  ASSUME PrinterInvariant, PrinterInvariant', RunsInv, UNCHANGED <<input, last, block, indexing, pages>>,
         phase' = phase \/ (phase = "reading" /\ phase' = "aborted")
  PROVE  RunsInv'
<1>1. StateOK /\ StateOK'
  BY DEF PrinterInvariant
<1>2. Printed' = Printed
  <2>1. (StateOK => Printed = IF phase = "done" THEN {RunOf(i) : i \in Sampled} ELSE {RunOf(i) : i \in Past})'
    BY PrintedRuns, PTL
  <2>2. Printed' = IF phase' = "done" THEN {RunOf(i)' : i \in Sampled'} ELSE {RunOf(i)' : i \in Past'}
    BY <1>1, <2>1
  <2>3. phase' = "done" <=> phase = "done"
    OBVIOUS
  <2>4. Sampled' = Sampled /\ Past' = Past /\ \A i : RunOf(i)' = RunOf(i)
    BY SameInput
  <2> QED
    BY <1>1, <2>2, <2>3, <2>4, PrintedRuns
<1>3. PrintsRuns'
  BY <1>2, SameInput, SamePages DEF RunsInv
<1>4. Tip' = Tip /\ \A i : Obj(i)' = Obj(i) /\ Tab(i)' = Tab(i)
  BY SameInput
<1>5. phase' = "reading" => phase = "reading"
  OBVIOUS
<1> QED
  BY <1>3, <1>4, <1>5 DEF RunsInv

LEMMA RunsStep == PrinterInvariant /\ RunsInv /\ [Next]_vars => RunsInv'
<1> SUFFICES ASSUME PrinterInvariant, RunsInv, [Next]_vars PROVE RunsInv'
  OBVIOUS
<1>1. PrinterInvariant'
  BY PrinterStep
<1>2. ASSUME NEW vb \in VarBinds, Handle(vb) PROVE RunsInv'
  BY <1>1, <1>2, UnsampledRuns, QueueLineRuns, FailTruncatedRuns DEF Handle
<1>3. CASE EndCapture
  BY <1>1, <1>3, EndCaptureRuns
<1>4. CASE FailFrame \/ UNCHANGED vars
  <2>1. /\ UNCHANGED <<input, last, block, indexing, pages>>
        /\ phase' = phase \/ (phase = "reading" /\ phase' = "aborted")
    BY <1>4 DEF FailFrame, vars
  <2> QED
    BY <1>1, <2>1, QuietRuns
<1> QED
  BY <1>2, <1>3, <1>4 DEF Next

\* Whatever a capture holds, and wherever it ends: the pages are those of its runs, in
\* their order, and each has every number of its run once, with the last value read and
\* all the labels of its row (queueLine, AddMetric, IsNewRow and Flush, which see one
\* binding at a time).
THEOREM PagesAreTheRuns == Spec => []PrinterInv
<1>1. RunsInv => PrintsRuns
  BY DEF RunsInv
<1>2. Spec => [](PrinterInvariant /\ RunsInv)
  BY InitPrinter, InitRuns, PrinterStep, RunsStep, PTL DEF Spec
<1>3. TypeOK /\ PageOfOneTable /\ PrintsRuns => PrinterInv
  BY DEF PrinterInv
<1> QED
  BY <1>1, <1>2, <1>3, PagesAreOfOneTable, PTL
=============================================================================
