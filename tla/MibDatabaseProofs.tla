--------------------------- MODULE MibDatabaseProofs ---------------------------
(* Theorems about MibDatabase, for any directory, of any size, in which the  *)
(* modules and their definitions come out of the maps in any order.          *)
EXTENDS MibDatabase, FiniteSetTheorems, TLAPS

Calls       == [id : Ids, at : Nat]
Length(id)  == Len(Def(id).elements)

\* The files, pass by pass: each is read, still to be read, or refused; while a pass
\* has read none, what it has refused could not be read now either.
ReadingInv ==
  /\ Builtin \in loaded /\ IsFiniteSet(loaded) /\ loaded \subseteq ModulesOf(dir)
  /\ Range(unread) \cup Range(refused) \subseteq ModulesOf(dir) \ {Builtin}
  /\ phase = "reading" => ModulesOf(dir) \subseteq loaded \cup Range(unread) \cup Range(refused)
  /\ phase = "reading" /\ ~ progress => \A m \in Range(refused) : ~ Readable(m)
  /\ phase = "reading" => /\ queue = <<>> /\ failed = <<>> /\ stack = <<>>
                          /\ compiled = [id \in Ids |-> <<>>]
  /\ phase \in {"compiling", "indexing", "ready"} => loaded = ModulesOf(dir)
  /\ compiled = [id \in Ids |-> <<>>] \/ loaded = ModulesOf(dir)

\* A call of compileValue; all but the first of the stack are at a name, which means
\* the object of the call before.
CallOK(i) ==
  LET id == stack[i].id
      at == stack[i].at
  IN  /\ id \in Defs /\ at \in 0 .. Length(id) + 1
      /\ i < Len(stack) \/ at \in 1 .. Length(id) => id \in Objects
      /\ i > 1 => /\ at \in 1 .. Length(id) /\ compiled[id] = <<>>
                  /\ Def(id).elements[at].name \notin {NoName, Iso}
                  /\ stack[i - 1].id = Resolve(Scope, Def(id).elements[at].name)
      /\ i = 1 /\ at # 0 /\ id \in Objects => (compiled[id] = <<>> <=> at = 1)

\* The stack is that of the module at the head of the queue, and nobody is called twice.
StackInv ==
  /\ Range(queue) \cup Range(failed) \subseteq loaded
  /\ phase \in {"indexing", "ready"} => stack = <<>>
  /\ stack # <<>> => queue # <<>> /\ stack[Len(stack)].id[1] = Scope
  /\ \A i \in DOMAIN stack : CallOK(i)
  /\ \A i, j \in DOMAIN stack : stack[i].id = stack[j].id => i = j

\* An object is complete when its OID is there and nobody is at work on it.
Busy(id)     == \E i \in DOMAIN stack : stack[i].id = id /\ stack[i].at \in 1 .. Length(id)
Complete(id) == compiled[id] # <<>> /\ ~ Busy(id)

\* The first k elements are compiled as module m means them, and rest on an object that
\* is complete.
RestsOn(m, id, k) ==
  LET els  == Def(id).elements
      last == LastName(els, k)
      other == Resolve(m, els[last].name)
  IN  last # 0 /\ els[last].name # Iso => other \in Objects /\ Complete(other)
RightTo(m, id, k) == CompiledTo(m, id, k) /\ RestsOn(m, id, k)

\* A module that asks for an object has had it compiled as it means it.
Meant(id) == \E m \in loaded : Asks(m, id) /\ RightTo(m, id, Length(id))

OidInv ==
  /\ \A id \in Objects : Complete(id) => Meant(id)
  /\ \A m : \A id \in Objects, k \in Nat :
       stack # <<>> /\ m = Scope /\ Call.id = id /\ Call.at = k + 1 /\ k < Length(id) => RightTo(m, id, k)

\* What there is to do for a definition, and for a module.
Stored(id) ==
  Def(id).meta # NoName =>
    \/ id \in stashed
    \/ Resolve(id[1], Def(id).meta) # NotFound /\ Def(Resolve(id[1], Def(id).meta)).kind # "macro"
Done(id)    == id \in Objects => Complete(id) /\ Stored(id)
Finished(m) == \A id \in Defs : id[1] = m => Done(id)
Ended(m)    == m \in loaded \ (Range(queue) \cup Range(failed))

DoneInv ==
  /\ phase = "compiling" => \A m \in Modules : Ended(m) => Finished(m)
  /\ phase = "compiling" /\ queue # <<>> =>
       \A id \in Defs : id[1] = Scope =>
         id[2] \in left \/ (stack # <<>> /\ stack[Len(stack)].id = id) \/ Done(id)
  /\ \A id : stack # <<>> /\ stack[Len(stack)].at # 0 /\ id = stack[Len(stack)].id => Stored(id)
  /\ phase \in {"indexing", "ready"} => \A id \in Defs : Done(id)

\* A module is ready when what it imports has ended, and the built-in module has.
Visible(m) == ImportsOf(dir, m) \cup {Builtin}
Ready(m)   == \A n \in Visible(m) \ {m} : Ended(n)

\* With a correct directory a module fails only when it is not ready yet.
CorrectInv ==
  dir \in CorrectDirectories \cap WellScopedDirectories =>
    /\ phase \notin {"failed", "crashed"}
    /\ phase = "compiling" /\ ~ progress => \A m \in Range(failed) : ~ Ready(m)

\* The tree holds the OIDs of what is indexed, and the way to them.
Indexed == Objects \ unindexed
TreeInv ==
  /\ <<>> \in DOMAIN tree
  /\ \A branch \in DOMAIN tree : \A k \in 0 .. Len(branch) : SubSeq(branch, 1, k) \in DOMAIN tree
  /\ \A branch \in DOMAIN tree :
       tree[branch] # NoDefinition <=> phase \in {"indexing", "ready"} /\ \E id \in Indexed : compiled[id] = branch
  /\ phase \in {"indexing", "ready"} => /\ \A id \in Indexed : compiled[id] \in DOMAIN tree
                                        /\ unindexed \subseteq Defs
  /\ phase = "ready" => unindexed = {}

\* Two definitions of a name are the same object, and so are two of an OID.
OneObjectPerName ==
  /\ \A a \in Objects, b \in Defs : a[2] = b[2] => b \in Objects /\ compiled[a] = compiled[b]
  /\ \A a, b \in Objects : compiled[a] = compiled[b] => a[2] = b[2]
NamesInv ==
  phase \in {"indexing", "ready"} /\ OneObjectPerName => \A id \in Indexed : tree[compiled[id]] = byName[id[2]]

Inv == TypeOK /\ ReadingInv /\ StackInv /\ OidInv /\ DoneInv /\ CorrectInv /\ TreeInv /\ NamesInv

-----------------------------------------------------------------------------
(* The directory, sequences.                                                *)

\* What the files of a directory are.
LEMMA DirectoryFacts ==
  ASSUME dir \in Directories
  PROVE  /\ Builtin \in Modules /\ Iso \in Names /\ NoName \notin Names
         /\ dir.files \in Seq(Modules \ {Builtin})
         /\ DOMAIN dir.imports[Builtin] = {}
         /\ dir.needs \in [Modules -> SUBSET Names]
         /\ \A m \in Modules : /\ DOMAIN dir.definitions[m] \subseteq Names
                               /\ DOMAIN dir.imports[m] \subseteq Names
                               /\ \A n \in DOMAIN dir.imports[m] : dir.imports[m][n] \in Modules
                               /\ \A n \in DOMAIN dir.definitions[m] :
                                    /\ dir.definitions[m][n] \in Definition
                                    /\ dir.definitions[m][n].kind = "object" => dir.definitions[m][n].elements # <<>>
<1>1. Directory(dir) /\ Builtin \in Modules /\ Iso \in Names /\ NoName \notin Names
  BY DatabaseAssumption
<1> QED
  BY <1>1 DEF Directory, PartialFunction

\* What a definition is.
LEMMA DefinitionFacts ==
  ASSUME NEW def \in Definition
  PROVE  /\ def.kind \in Kinds /\ def.meta \in Names \cup {NoName} /\ def.elements \in Seq(Element)
         /\ \A i \in 1 .. Len(def.elements) :
              def.elements[i].name \in Names \cup {NoName} /\ def.elements[i].arc \in Nat
<1>1. def.kind \in Kinds /\ def.meta \in Names \cup {NoName} /\ def.elements \in Seq(Element)
  BY DEF Definition
<1>2. \A i \in 1 .. Len(def.elements) : def.elements[i] \in Element
  BY <1>1
<1>3. \A e \in Element : e.name \in Names \cup {NoName} /\ e.arc \in Nat
  BY DEF Element
<1> QED
  BY <1>1, <1>2, <1>3

\* What is known of an id of a definition that is loaded.
LEMMA DefFacts ==
  ASSUME dir \in Directories, loaded \subseteq Modules, NEW id \in Defs
  PROVE  /\ id \in Ids /\ id[1] \in loaded /\ id[2] \in Names /\ id = <<id[1], id[2]>>
         /\ Def(id).kind \in Kinds /\ Def(id).meta \in Names \cup {NoName} /\ Def(id).elements \in Seq(Element)
         /\ Length(id) \in Nat
         /\ \A i \in 1 .. Length(id) :
              Def(id).elements[i].name \in Names \cup {NoName} /\ Def(id).elements[i].arc \in Nat
         /\ id \in Objects => Length(id) \in Nat \ {0}
<1>1. id \in Ids /\ id[1] \in loaded /\ id[2] \in Names /\ id = <<id[1], id[2]>> /\ id[2] \in DOMAIN dir.definitions[id[1]]
  BY DEF Defs, Ids
<1>2. Def(id) \in Definition /\ (Def(id).kind = "object" => Def(id).elements # <<>>)
  BY <1>1, DirectoryFacts DEF Def
<1>3. Def(id).elements \in Seq(Element)
  BY <1>2, DefinitionFacts
<1>4. id \in Objects => Len(Def(id).elements) # 0
  BY <1>2, <1>3 DEF Objects
<1> QED
  BY <1>1, <1>2, <1>3, <1>4, DefinitionFacts DEF Length

LEMMA TailRange ==
  ASSUME NEW S, NEW q \in Seq(S), q # <<>>
  PROVE  /\ Range(q) = {Head(q)} \cup Range(Tail(q)) /\ Head(q) \in S /\ Tail(q) \in Seq(S)
<1>1. Len(q) \in Nat \ {0} /\ Tail(q) \in Seq(S) /\ Len(Tail(q)) = Len(q) - 1 /\ Head(q) = q[1] /\ q[1] \in S
      /\ \A i \in 1 .. Len(Tail(q)) : Tail(q)[i] = q[i + 1]
      /\ DOMAIN q = 1 .. Len(q) /\ DOMAIN Tail(q) = 1 .. Len(Tail(q))
  OBVIOUS
<1>2. ASSUME NEW x \in Range(q) PROVE x \in {Head(q)} \cup Range(Tail(q))
  <2>1. PICK i \in 1 .. Len(q) : x = q[i]
    BY <1>1, <1>2 DEF Range
  <2>2. CASE i = 1
    BY <1>1, <2>1, <2>2
  <2>3. CASE i # 1
    <3>1. i - 1 \in 1 .. Len(Tail(q)) /\ Tail(q)[i - 1] = q[i]
      BY <1>1, <2>1, <2>3
    <3> QED
      BY <1>1, <2>1, <3>1 DEF Range
  <2> QED
    BY <2>2, <2>3
<1>3. ASSUME NEW x \in Range(Tail(q)) PROVE x \in Range(q)
  <2>1. PICK i \in 1 .. Len(Tail(q)) : x = Tail(q)[i]
    BY <1>1, <1>3 DEF Range
  <2>2. i + 1 \in 1 .. Len(q) /\ x = q[i + 1]
    BY <1>1, <2>1
  <2> QED
    BY <1>1, <2>2 DEF Range
<1>4. Head(q) \in Range(q)
  BY <1>1 DEF Range
<1> QED
  BY <1>1, <1>2, <1>3, <1>4

LEMMA AppendRange ==
  ASSUME NEW S, NEW q \in Seq(S), NEW x \in S
  PROVE  Append(q, x) \in Seq(S) /\ Range(Append(q, x)) = Range(q) \cup {x}
<1>1. /\ Append(q, x) \in Seq(S) /\ Len(Append(q, x)) = Len(q) + 1 /\ Append(q, x)[Len(q) + 1] = x
      /\ \A i \in 1 .. Len(q) : Append(q, x)[i] = q[i]
      /\ DOMAIN q = 1 .. Len(q) /\ DOMAIN Append(q, x) = 1 .. Len(q) + 1 /\ Len(q) \in Nat
  OBVIOUS
<1> DEFINE r == Append(q, x)
<1> HIDE DEF r
<1>2. \A i \in 1 .. Len(q) + 1 : i \in 1 .. Len(q) \/ i = Len(q) + 1
  BY <1>1
<1>3. \A i \in 1 .. Len(q) : i \in 1 .. Len(q) + 1
  BY <1>1
<1> QED
  BY <1>1, <1>2, <1>3 DEF Range, r

LEMMA EmptyRange == Range(<<>>) = {}
BY DEF Range

\* The members of a sequence, for a set of them.
LEMMA RangeIn == \A S : \A q \in Seq(S) : Range(q) \subseteq S
BY DEF Range

LEMMA Least ==
  ASSUME NEW S \in SUBSET Nat, S # {}
  PROVE  \E x \in S : \A y \in S : x <= y
<1>1. PICK x \in S : \A y \in S : ~ <<y, x>> \in OpToRel(<, Nat)
  BY NatLessThanWellFounded, WFMin
<1>2. \A y \in S : ~ y < x
  BY <1>1 DEF OpToRel
<1> QED
  BY <1>2

LEMMA Maximum ==
  ASSUME NEW S \in SUBSET Nat, NEW x \in S, \A y \in S : y <= x
  PROVE  Max(S) = x
<1>1. ASSUME NEW z \in S, \A y \in S : z >= y PROVE z = x
  BY <1>1
<1>2. \A y \in S : x >= y
  OBVIOUS
<1> QED
  BY <1>1, <1>2 DEF Max

\* A set of numbers that is bounded has a greatest one.
LEMMA Greatest ==
  ASSUME NEW S \in SUBSET Nat, S # {}, NEW n \in Nat, \A y \in S : y <= n
  PROVE  Max(S) \in S /\ \A y \in S : y <= Max(S)
<1> DEFINE B == {b \in Nat : \A y \in S : y <= b}
<1>1. n \in B
  OBVIOUS
<1>2. PICK b \in B : \A c \in B : b <= c
  BY <1>1, Least
<1>3. b \in S
  <2>1. SUFFICES ASSUME b \notin S PROVE FALSE
    OBVIOUS
  <2>2. b # 0
    <3>1. PICK y \in S : TRUE
      OBVIOUS
    <3> QED
      BY <2>1, <3>1
  <2>3. b - 1 \in B
    BY <2>1, <2>2
  <2>4. b <= b - 1
    BY <1>2, <2>3
  <2> QED
    BY <2>2, <2>4
<1> QED
  BY <1>3, Maximum

-----------------------------------------------------------------------------
(* Names and elements.                                                      *)

\* What Module.Lookup finds is a definition of the module itself, of the one it imports
\* the name from, or of the built-in module.
LEMMA LookupFacts ==
  ASSUME dir \in Directories, NEW present \in SUBSET Modules, Builtin \in present, NEW scope \in Modules, NEW name \in Names
  PROVE  LET r == Lookup(dir, present, scope, name)
         IN  /\ r = NotFound \/ /\ r \in Ids /\ r # NotFound /\ r = <<r[1], name>> /\ r[1] \in present \cup {scope}
                                /\ r[1] \in Visible(scope) \cup {scope}
                                /\ name \in DOMAIN dir.definitions[r[1]]
             /\ name \in DOMAIN dir.definitions[Builtin] /\ ImportsOf(dir, scope) \subseteq present => r # NotFound
<1> DEFINE from == IF name \in DOMAIN dir.imports[scope] THEN dir.imports[scope][name] ELSE Builtin
           has(m) == name \in DOMAIN dir.definitions[m]
           r == Lookup(dir, present, scope, name)
<1>1. Builtin \in Modules /\ from \in Modules /\ from \in Visible(scope)
  BY DirectoryFacts DEF Visible, ImportsOf
<1>2. \A m \in Modules : <<m, name>> \in Ids /\ <<m, name>> # NotFound /\ <<m, name>>[1] = m
  BY DEF Ids, NotFound
<1>3. r = CASE has(scope) -> <<scope, name>>
            [] ~ has(scope) /\ from \in present /\ has(from) -> <<from, name>>
            [] ~ has(scope) /\ from \in present /\ ~ has(from) /\ has(Builtin) -> <<Builtin, name>>
            [] OTHER -> NotFound
  BY DEF Lookup
<1>4. ImportsOf(dir, scope) \subseteq present => from \in present
  BY DEF ImportsOf
<1> HIDE DEF r, from
<1>5. CASE has(scope)
  BY <1>1, <1>2, <1>3, <1>5 DEF r
<1>6. CASE ~ has(scope) /\ from \in present /\ has(from)
  BY <1>1, <1>2, <1>3, <1>6 DEF r
<1>7. CASE ~ has(scope) /\ from \in present /\ ~ has(from) /\ has(Builtin)
  BY <1>1, <1>2, <1>3, <1>7 DEF r, Visible
<1>8. CASE ~ has(scope) /\ ~ (from \in present /\ (has(from) \/ has(Builtin)))
  BY <1>3, <1>4, <1>8 DEF r
<1> QED
  BY <1>5, <1>6, <1>7, <1>8

\* It does not matter which other modules are there.
LEMMA LookupAgrees ==
  ASSUME NEW present, NEW more, Builtin \in present, present \subseteq more, NEW scope, NEW name, ImportsOf(dir, scope) \subseteq present
  PROVE  Lookup(dir, present, scope, name) = Lookup(dir, more, scope, name)
<1> DEFINE from == IF name \in DOMAIN dir.imports[scope] THEN dir.imports[scope][name] ELSE Builtin
           has(m) == name \in DOMAIN dir.definitions[m]
           r(there) == CASE has(scope) -> <<scope, name>>
                         [] ~ has(scope) /\ from \in there /\ has(from) -> <<from, name>>
                         [] ~ has(scope) /\ from \in there /\ ~ has(from) /\ has(Builtin) -> <<Builtin, name>>
                         [] OTHER -> NotFound
<1>1. from \in present /\ from \in more
  BY DEF ImportsOf
<1>2. Lookup(dir, present, scope, name) = r(present) /\ Lookup(dir, more, scope, name) = r(more)
  BY DEF Lookup
<1> HIDE DEF from
<1> QED
  BY <1>1, <1>2

\* A name that is found is that of a definition, or is none.
LEMMA ResolveFacts ==
  ASSUME TypeOK, Builtin \in loaded, NEW scope \in loaded, NEW name \in Names
  PROVE  LET r == Resolve(scope, name)
         IN  /\ r = NotFound \/ (r \in Defs /\ r # NotFound /\ r[1] \in Visible(scope) \cup {scope} /\ r[2] = name)
             /\ r \notin Objects \/ r # NotFound
<1> DEFINE r == Resolve(scope, name)
<1>0. dir \in Directories /\ loaded \in SUBSET Modules
  BY DEF TypeOK
<1>1. r = NotFound \/ /\ r \in Ids /\ r # NotFound /\ r = <<r[1], name>> /\ r[1] \in loaded
                      /\ r[1] \in Visible(scope) \cup {scope} /\ name \in DOMAIN dir.definitions[r[1]]
  BY <1>0, LookupFacts DEF Resolve
<1>2. NotFound \notin Ids
  BY DEF NotFound, Ids
<1> HIDE DEF r
<1>3. r \in Ids => (r \in Defs <=> r[1] \in loaded /\ r[2] \in DOMAIN dir.definitions[r[1]])
  BY DEF Defs
<1>4. r = <<r[1], name>> => r[2] = name
  OBVIOUS
<1> QED
  BY <1>1, <1>2, <1>3, <1>4 DEF r, Objects, Defs

\* The last name of the first k elements.
LEMMA LastNameFacts ==
  ASSUME NEW els, NEW k \in Nat
  PROVE  /\ LastName(els, k) \in 0 .. k
         /\ LastName(els, k) # 0 => els[LastName(els, k)].name # NoName
         /\ LastName(els, 0) = 0
         /\ els[k + 1].name = NoName => LastName(els, k + 1) = LastName(els, k)
         /\ els[k + 1].name # NoName => LastName(els, k + 1) = k + 1
<1> DEFINE S(n) == {0} \cup {i \in 1 .. n : els[i].name # NoName}
<1>2. ASSUME NEW n \in Nat PROVE LastName(els, n) \in S(n) /\ \A y \in S(n) : y <= LastName(els, n)
  <2>1. S(n) \in SUBSET Nat /\ S(n) # {} /\ \A y \in S(n) : y <= n
    OBVIOUS
  <2> HIDE DEF S
  <2>2. Max(S(n)) \in S(n) /\ \A y \in S(n) : y <= Max(S(n))
    BY <2>1, Greatest
  <2> QED
    BY <2>2 DEF LastName, S
<1>3. LastName(els, 0) = 0
  BY <1>2
<1>4. LastName(els, k) \in 0 .. k /\ (LastName(els, k) # 0 => els[LastName(els, k)].name # NoName)
  BY <1>2
<1>5. CASE els[k + 1].name = NoName
  <2>1. S(k + 1) = S(k)
    BY <1>5
  <2> QED
    BY <1>3, <1>4, <1>5, <2>1 DEF LastName
<1>6. CASE els[k + 1].name # NoName
  <2>1. k + 1 \in S(k + 1)
    BY <1>6
  <2> QED
    BY <1>2, <1>3, <1>4, <1>6, <2>1
<1> QED
  BY <1>5, <1>6

-----------------------------------------------------------------------------
(* The stack of calls.                                                      *)

\* A call is made.
LEMMA Push ==
  ASSUME NEW s \in Seq(Calls), NEW c \in Calls
  PROVE  LET t == <<c>> \o s
         IN  /\ t \in Seq(Calls) /\ Len(t) = Len(s) + 1 /\ t # <<>> /\ t[1] = c /\ Head(t) = c
             /\ \A i \in 1 .. Len(s) : t[i + 1] = s[i]
             /\ DOMAIN t = 1 .. Len(s) + 1
OBVIOUS

\* The call at the head gets on.
LEMMA Advance ==
  ASSUME NEW s \in Seq(Calls), s # <<>>, NEW k \in Nat
  PROVE  LET t == [s EXCEPT ![1].at = k]
         IN  /\ t \in Seq(Calls) /\ Len(t) = Len(s) /\ t # <<>> /\ DOMAIN t = DOMAIN s /\ DOMAIN s = 1 .. Len(s) /\ 1 \in DOMAIN s
             /\ t[1].id = s[1].id /\ t[1].at = k /\ Head(t) = t[1] /\ Head(s) = s[1]
             /\ \A i \in 2 .. Len(s) : t[i] = s[i]
<1>1. s[1] \in Calls /\ DOMAIN s = 1 .. Len(s) /\ 1 \in DOMAIN s /\ Len(s) \in Nat
  OBVIOUS
<1> DEFINE t == [s EXCEPT ![1].at = k]
           c == [s[1] EXCEPT !.at = k]
<1>2. c \in Calls /\ c.id = s[1].id /\ c.at = k
  BY <1>1 DEF Calls
<1>3. t = [s EXCEPT ![1] = c]
  OBVIOUS
<1> HIDE DEF c
<1>4. t \in Seq(Calls) /\ Len(t) = Len(s) /\ DOMAIN t = DOMAIN s /\ t[1] = c /\ \A i \in 2 .. Len(s) : t[i] = s[i]
  BY <1>1, <1>2, <1>3
<1> HIDE DEF t
<1>5. t # <<>> /\ Head(t) = t[1]
  BY <1>1, <1>4
<1> QED
  BY <1>1, <1>2, <1>4, <1>5 DEF t

\* The call at the head returns, and the one that made it gets on.
LEMMA Pop ==
  ASSUME NEW s \in Seq(Calls), s # <<>>, Len(s) # 1
  PROVE  LET t == [Tail(s) EXCEPT ![1].at = @ + 1]
         IN  /\ t \in Seq(Calls) /\ Len(t) = Len(s) - 1 /\ t # <<>> /\ DOMAIN t = 1 .. Len(s) - 1 /\ 1 \in DOMAIN t
             /\ 2 \in DOMAIN s /\ t[1].id = s[2].id /\ t[1].at = s[2].at + 1 /\ Head(t) = t[1]
             /\ \A i \in 2 .. Len(t) : t[i] = s[i + 1]
<1>0. Len(s) \in Nat /\ Len(s) >= 2
  <2>1. Len(s) \in Nat /\ Len(s) # 0
    OBVIOUS
  <2> DEFINE n == Len(s)
  <2> HIDE DEF n
  <2>2. n \in Nat /\ n # 0 /\ n # 1
    BY <2>1 DEF n
  <2>3. n >= 2
    BY <2>2
  <2> QED
    BY <2>2, <2>3 DEF n
<1>1. /\ Tail(s) \in Seq(Calls) /\ Tail(s) # <<>> /\ Len(Tail(s)) = Len(s) - 1 /\ Tail(s)[1] = s[2] /\ 2 \in DOMAIN s
      /\ \A i \in 1 .. Len(s) - 1 : Tail(s)[i] = s[i + 1]
      /\ Tail(s)[1] \in Calls
  <2>1. Tail(s) \in Seq(Calls) /\ Len(Tail(s)) = Len(s) - 1 /\ DOMAIN s = 1 .. Len(s)
    OBVIOUS
  <2>2. ASSUME NEW i \in 1 .. Len(s) - 1 PROVE Tail(s)[i] = s[i + 1]
    OBVIOUS
  <2>3. 1 \in 1 .. Len(s) - 1 /\ 2 \in 1 .. Len(s) /\ 1 + 1 = 2
    BY <1>0
  <2>4. Tail(s)[1] = s[2]
    BY <2>2, <2>3
  <2>5. s[2] \in Calls
    BY <2>3
  <2>6. Tail(s) # <<>>
    BY <1>0, <2>1
  <2> QED
    BY <2>1, <2>2, <2>3, <2>4, <2>5, <2>6
<1> DEFINE u == Tail(s)
<1> HIDE DEF u
<1>2. u[1].at \in Nat
  BY <1>1 DEF Calls, u
<1> DEFINE k == u[1].at + 1
<1>3. k \in Nat
  BY <1>2
<1>7. [u EXCEPT ![1].at = @ + 1] = [u EXCEPT ![1].at = k]
  BY <1>1
<1> HIDE DEF u, k
<1>4. u \in Seq(Calls) /\ u # <<>>
  BY <1>1 DEF u
<1> DEFINE t == [u EXCEPT ![1].at = k]
<1>5. /\ t \in Seq(Calls) /\ Len(t) = Len(u) /\ t # <<>> /\ DOMAIN t = DOMAIN u /\ DOMAIN u = 1 .. Len(u) /\ 1 \in DOMAIN u
      /\ t[1].id = u[1].id /\ t[1].at = k /\ Head(t) = t[1]
      /\ \A i \in 2 .. Len(u) : t[i] = u[i]
  BY <1>3, <1>4, Advance
<1> HIDE DEF t
<1>6. /\ t \in Seq(Calls) /\ Len(t) = Len(s) - 1 /\ t # <<>> /\ DOMAIN t = 1 .. Len(s) - 1 /\ 1 \in DOMAIN t
      /\ t[1].id = s[2].id /\ t[1].at = s[2].at + 1 /\ Head(t) = t[1]
      /\ \A i \in 2 .. Len(t) : t[i] = s[i + 1]
  BY <1>1, <1>5 DEF u, k
<1> QED
  BY <1>1, <1>6, <1>7 DEF t, u

-----------------------------------------------------------------------------
(* Reading.                                                                 *)

\* What depends on the directory and on the modules that are loaded only.
LEMMA SameDefinitions ==
  ASSUME dir' = dir, loaded' = loaded
  PROVE  /\ Defs' = Defs /\ Objects' = Objects
         /\ \A id : Def(id)' = Def(id) /\ Length(id)' = Length(id)
         /\ \A scope, name : Resolve(scope, name)' = Resolve(scope, name)
         /\ \A m : Readable(m)' = Readable(m)
         /\ \A q : NamesOf(q)' = NamesOf(q)
         /\ \A m : Visible(m)' = Visible(m)
         /\ \A m, id : Asks(m, id)' <=> Asks(m, id)
<1>1. \A id : Def(id)' = Def(id)
  BY DEF Def
<1>2. Defs' = Defs
  BY DEF Defs
<1>3. \A scope, name : Resolve(scope, name)' = Resolve(scope, name)
  BY DEF Resolve, Lookup
<1>4. \A m : Readable(m)' = Readable(m)
  BY <1>1, <1>3 DEF Readable
<1>5. Objects' = Objects
  BY <1>1, <1>2 DEF Objects
<1>6. \A m, id : Asks(m, id)' <=> Asks(m, id)
  <2>1. \A o : References(dir, o)' = References(dir, o)
    BY DEF References, DefinitionOf
  <2>2. \A o : References(dir', o) = References(dir, o)
    OBVIOUS
  <2> QED
    BY <1>3, <1>5, <2>1, <2>2 DEF Asks
<1> QED
  BY <1>1, <1>2, <1>3, <1>4, <1>5, <1>6 DEF Length, NamesOf, Visible, ImportsOf

\* As long as nothing is compiled there is little to know.
LEMMA NothingCompiled ==
  ASSUME stack = <<>>, compiled = [id \in Ids |-> <<>>], queue \in Seq(loaded), failed = <<>>,
         phase \notin {"indexing", "ready"}
  PROVE  StackInv /\ OidInv
<1>1. \A id \in Objects : ~ Complete(id)
  BY DEF Complete, Objects, Defs
<1>2. Range(queue) \subseteq loaded /\ Range(failed) = {}
  BY RangeIn, EmptyRange
<1>3. StackInv
  BY <1>2 DEF StackInv
<1> QED
  BY <1>1, <1>3 DEF OidInv

LEMMA InitInv == Init => Inv
<1> SUFFICES ASSUME Init PROVE Inv
  OBVIOUS
<1>1. /\ dir \in Directories /\ dir.files \in Seq(Modules \ {Builtin}) /\ Builtin \in Modules
  BY DirectoryFacts DEF Init
<1>2. TypeOK
  <2>1. EmptyTree = [branch \in {<<>>} |-> NoDefinition] /\ <<>> \in Seq(Nat)
    BY DEF EmptyTree
  <2>2. unread \in Seq(Modules)
    BY <1>1 DEF Init
  <2>3. <<>> \in Seq(Modules) /\ <<>> \in Seq([id : Ids, at : Nat])
    OBVIOUS
  <2>4. /\ [id \in Ids |-> <<>>] \in [Ids -> Seq(Nat)]
        /\ [name \in Names |-> NotFound] \in [Names -> Ids \cup {NotFound}]
    OBVIOUS
  <2>5. \A branch \in DOMAIN tree : branch \in Seq(Nat) /\ tree[branch] \in Ids \cup {NoDefinition}
    BY <2>1 DEF Init
  <2> QED
    BY <1>1, <2>2, <2>3, <2>4, <2>5 DEF Init, TypeOK
<1>3. ReadingInv
  <2>1. Range(dir.files) \subseteq Modules \ {Builtin} /\ Range(dir.files) \subseteq ModulesOf(dir)
    BY <1>1, RangeIn DEF Range, ModulesOf
  <2>2. IsFiniteSet({Builtin})
    BY FS_Singleton
  <2>3. ModulesOf(dir) \subseteq {Builtin} \cup Range(dir.files) /\ Builtin \in ModulesOf(dir)
    BY DEF ModulesOf, Range
  <2> QED
    BY <2>1, <2>2, <2>3, EmptyRange DEF Init, ReadingInv
<1>4. StackInv /\ OidInv
  BY NothingCompiled DEF Init
<1>5. DoneInv /\ CorrectInv
  BY DEF Init, DoneInv, CorrectInv
<1>6. TreeInv /\ NamesInv
  <2>1. \A k \in 0 .. 0 : SubSeq(<<>>, 1, k) = <<>>
    OBVIOUS
  <2> QED
    BY <2>1 DEF Init, TreeInv, NamesInv, EmptyTree
<1> QED
  BY <1>2, <1>3, <1>4, <1>5, <1>6 DEF Inv

\* With a correct directory a pass reads one file more: of the files that are refused
\* one needs none of the others.
LEMMA SomethingIsReadable ==
  ASSUME Inv, FailReading
  PROVE  dir \notin CorrectDirectories
<1> SUFFICES ASSUME Correct(dir) PROVE FALSE
  BY DEF CorrectDirectories
<1>1. /\ dir \in Directories /\ loaded \in SUBSET Modules /\ Builtin \in loaded /\ refused \in Seq(Modules)
      /\ unread = <<>> /\ refused # <<>>
      /\ Range(refused) \subseteq ModulesOf(dir) /\ loaded \subseteq ModulesOf(dir)
      /\ ModulesOf(dir) \subseteq loaded \cup Range(unread) \cup Range(refused)
      /\ \A m \in Range(refused) : ~ Readable(m)
  BY DEF Inv, TypeOK, ReadingInv, FailReading
<1>2. Range(refused) # {} /\ Range(unread) = {}
  BY <1>1, TailRange, EmptyRange
<1>3. PICK m \in Range(refused) : ImportsOf(dir, m) \cap Range(refused) = {}
  BY <1>1, <1>2 DEF Correct
<1>4. m \in ModulesOf(dir) /\ ImportsOf(dir, m) \subseteq ModulesOf(dir)
  BY <1>1, <1>3 DEF Correct
<1>5. ImportsOf(dir, m) \subseteq loaded
  BY <1>1, <1>2, <1>3, <1>4
<1>6. ASSUME NEW n \in dir.needs[m] PROVE Resolve(m, n) # NotFound /\ Def(Resolve(m, n)).kind \in {"type", "macro"}
  <2>1. Own(dir, m, n) # NotFound /\ DefinitionOf(dir, Own(dir, m, n)).kind \in {"type", "macro"}
    BY <1>4, <1>6 DEF Correct
  <2>2. Resolve(m, n) = Own(dir, m, n)
    BY <1>1, <1>5, LookupAgrees DEF Resolve, Own
  <2> QED
    BY <2>1, <2>2 DEF Def, DefinitionOf
<1>7. Readable(m)
  BY <1>6 DEF Readable
<1> QED
  BY <1>1, <1>3, <1>7

\* Reading a directory.
LEMMA ReadingStep ==
  ASSUME Inv, Read
  PROVE Inv'
<1>1. /\ TypeOK /\ ReadingInv /\ phase = "reading"
      /\ stack = <<>> /\ compiled = [id \in Ids |-> <<>>] /\ queue = <<>> /\ failed = <<>>
  BY DEF Inv, ReadingInv, Read, ReadModule, ReadEmptyFile, RetryReading, FailReading, StartCompiling
<1>2. /\ dir' = dir /\ stack' = stack /\ compiled' = compiled /\ stashed' = stashed /\ failed' = failed
      /\ unindexed' = unindexed /\ byName' = byName /\ tree' = tree
  BY DEF Read, ReadModule, ReadEmptyFile, RetryReading, FailReading, StartCompiling, reading, compiling, index
<1>3. /\ dir \in Directories /\ loaded \in SUBSET Modules /\ unread \in Seq(Modules) /\ refused \in Seq(Modules)
      /\ progress \in BOOLEAN /\ Builtin \in Modules /\ ModulesOf(dir) \in SUBSET Modules
  <2>1. dir \in Directories /\ loaded \in SUBSET Modules /\ unread \in Seq(Modules) /\ refused \in Seq(Modules) /\ progress \in BOOLEAN
    BY <1>1 DEF TypeOK
  <2>2. dir.files \in Seq(Modules \ {Builtin}) /\ Builtin \in Modules
    BY <2>1, DirectoryFacts
  <2> QED
    BY <2>1, <2>2, RangeIn DEF ModulesOf, Range
<1>4. ASSUME phase' \notin {"indexing", "ready"} PROVE TreeInv' /\ NamesInv'
  <2>1. phase \notin {"indexing", "ready"}
    BY <1>1
  <2> QED
    BY <1>2, <1>4, <2>1 DEF Inv, TreeInv, NamesInv
<1>5. ASSUME phase' \notin {"indexing", "ready"}, queue' \in Seq(loaded') PROVE StackInv' /\ OidInv'
  <2>1. stack' = <<>> /\ compiled' = [id \in Ids |-> <<>>] /\ failed' = <<>>
    BY <1>1, <1>2
  <2>2. \A id \in Objects' : ~ Complete(id)'
    BY <2>1 DEF Complete, Objects, Defs
  <2>3. Range(queue') \subseteq loaded' /\ Range(failed') = {}
    BY <1>5, <2>1, RangeIn, EmptyRange
  <2>4. StackInv'
    BY <1>5, <2>1, <2>3 DEF StackInv
  <2> QED
    BY <2>1, <2>2, <2>4 DEF OidInv
<1>6. CASE ReadModule
  <2> DEFINE m == Head(unread)
  <2>1. /\ unread # <<>> /\ unread' = Tail(unread) /\ phase' = "reading" /\ queue' = queue /\ left' = left
        /\ \/ Readable(m) /\ loaded' = loaded \cup {m} /\ progress' = TRUE /\ refused' = refused
           \/ ~ Readable(m) /\ refused' = Append(refused, m) /\ loaded' = loaded /\ progress' = progress
    BY <1>1, <1>6 DEF ReadModule, compiling
  <2>2. Range(unread) = {m} \cup Range(unread') /\ m \in Modules /\ unread' \in Seq(Modules)
    BY <1>3, <2>1, TailRange
  <2> HIDE DEF m
  <2>3. Append(refused, m) \in Seq(Modules) /\ Range(Append(refused, m)) = Range(refused) \cup {m}
    BY <1>3, <2>2, AppendRange
  <2>4. TypeOK'
    BY <1>1, <1>2, <1>3, <2>1, <2>2, <2>3 DEF TypeOK, NamesOf
  <2>5. ReadingInv'
    <3>1. CASE Readable(m)
      <4>1. IsFiniteSet(loaded')
        BY <1>1, <2>1, <3>1, FS_AddElement DEF ReadingInv
      <4> QED
        BY <1>1, <1>2, <2>1, <2>2, <3>1, <4>1 DEF ReadingInv
    <3>2. CASE ~ Readable(m)
      <4>1. \A n : Readable(n)' = Readable(n)
        BY <1>2, <2>1, <3>2, SameDefinitions
      <4>2. /\ loaded' = loaded /\ progress' = progress /\ Range(refused') = Range(refused) \cup {m}
        BY <2>1, <2>3, <3>2
      <4>3. ~ progress' => \A n \in Range(refused') : ~ Readable(n)'
        BY <1>1, <3>2, <4>1, <4>2 DEF ReadingInv
      <4> QED
        BY <1>1, <1>2, <2>1, <2>2, <4>2, <4>3 DEF ReadingInv
    <3> QED
      BY <3>1, <3>2
  <2>6. StackInv' /\ OidInv' /\ TreeInv' /\ NamesInv'
    BY <1>1, <1>4, <1>5, <2>1
  <2>7. DoneInv' /\ CorrectInv'
    BY <1>1, <1>2, <2>1 DEF DoneInv, CorrectInv
  <2> QED
    BY <2>4, <2>5, <2>6, <2>7 DEF Inv
<1>7. CASE RetryReading
  <2>1. /\ unread' = refused /\ refused' = <<>> /\ phase' = "reading" /\ queue' = queue /\ left' = left
        /\ loaded' = loaded /\ progress' = FALSE /\ unread = <<>>
    BY <1>1, <1>7 DEF RetryReading, compiling
  <2>2. Range(unread) = {} /\ Range(refused') = {} /\ <<>> \in Seq(Modules)
    BY <2>1, EmptyRange
  <2>3. TypeOK'
    BY <1>1, <1>2, <1>3, <2>1, <2>2 DEF TypeOK, NamesOf
  <2>4. ReadingInv'
    BY <1>1, <1>2, <2>1, <2>2 DEF ReadingInv
  <2>5. StackInv' /\ OidInv' /\ TreeInv' /\ NamesInv'
    BY <1>1, <1>4, <1>5, <2>1
  <2>6. DoneInv' /\ CorrectInv'
    BY <1>1, <1>2, <2>1 DEF DoneInv, CorrectInv
  <2> QED
    BY <2>3, <2>4, <2>5, <2>6 DEF Inv
<1>8. CASE ReadEmptyFile \/ FailReading
  <2>1. /\ phase' \in {"crashed", "failed"} /\ queue' = queue /\ left' = left /\ progress' = progress
        /\ loaded' = loaded /\ unread' = unread /\ refused' = refused
    BY <1>8 DEF ReadEmptyFile, FailReading, reading, compiling
  <2>2. TypeOK'
    BY <1>1, <1>2, <1>3, <2>1 DEF TypeOK, NamesOf
  <2>3. ReadingInv'
    BY <1>1, <1>2, <2>1 DEF ReadingInv
  <2>4. StackInv' /\ OidInv' /\ TreeInv' /\ NamesInv'
    BY <1>1, <1>4, <1>5, <2>1
  <2>5. DoneInv'
    BY <1>1, <1>2, <2>1 DEF DoneInv
  <2>6. dir \notin CorrectDirectories
    <3>1. CASE ReadEmptyFile
      <4>1. unread # <<>> /\ Head(unread) \in dir.empty
        BY <3>1 DEF ReadEmptyFile
      <4>2. Head(unread) \in ModulesOf(dir) \ {Builtin}
        BY <1>1, <1>3, <4>1, TailRange DEF ReadingInv
      <4> QED
        BY <4>1, <4>2 DEF CorrectDirectories, Correct, ModulesOf
    <3>2. CASE FailReading
      BY <3>2, SomethingIsReadable
    <3> QED
      BY <1>8, <3>1, <3>2
  <2>7. CorrectInv'
    BY <1>2, <2>6 DEF CorrectInv
  <2> QED
    BY <2>2, <2>3, <2>4, <2>5, <2>7 DEF Inv
<1>9. CASE StartCompiling
  <2>1. /\ phase' = "compiling" /\ unread = <<>> /\ refused = <<>> /\ progress' = FALSE
        /\ loaded' = loaded /\ unread' = unread /\ refused' = refused
    BY <1>9 DEF StartCompiling, reading
  <2>2. PICK order \in [1 .. Cardinality(loaded) -> loaded] :
           /\ \A m \in loaded : \E i \in DOMAIN order : order[i] = m
           /\ queue' = order /\ left' = NamesOf(order)
    BY <1>9 DEF StartCompiling
  <2>3. Cardinality(loaded) \in Nat
    BY <1>1, FS_CardinalityType DEF ReadingInv
  <2>4. queue' \in Seq(loaded) /\ queue' \in Seq(Modules)
    BY <1>3, <2>2, <2>3
  <2>5. Range(queue') = loaded
    BY <2>2 DEF Range
  <2>6. left' = NamesOf(queue')
    BY <2>2
  <2>7. NamesOf(queue)' = NamesOf(queue')
    BY <1>2 DEF NamesOf
  <2>8. TypeOK'
    BY <1>1, <1>2, <1>3, <2>1, <2>4, <2>6, <2>7 DEF TypeOK
  <2>9. ReadingInv'
    <3>1. ModulesOf(dir) \subseteq loaded
      BY <1>1, <2>1, EmptyRange DEF ReadingInv
    <3> QED
      BY <1>1, <1>2, <2>1, <3>1, EmptyRange DEF ReadingInv
  <2>10. StackInv' /\ OidInv' /\ TreeInv' /\ NamesInv'
    BY <1>4, <1>5, <2>1, <2>4
  <2>11. DoneInv'
    <3>1. \A m : ~ Ended(m)'
      BY <2>1, <2>5 DEF Ended
    <3>2. queue' # <<>> => \A id \in Defs' : id[1] = Scope' => id[2] \in left'
      BY <1>1, <1>2, <2>4, <2>6 DEF Defs, Scope, NamesOf
    <3> QED
      BY <1>1, <1>2, <2>1, <3>1, <3>2 DEF DoneInv
  <2>12. CorrectInv'
    BY <1>1, <1>2, <2>1, EmptyRange DEF CorrectInv
  <2> QED
    BY <2>8, <2>9, <2>10, <2>11, <2>12 DEF Inv
<1> QED
  BY <1>6, <1>7, <1>8, <1>9 DEF Read

-----------------------------------------------------------------------------
(* Compiling: what a call does to the stack, and to what is complete.       *)

\* What is complete stays so, and stays as it is.
Kept == \A id \in Objects : Complete(id) => Complete(id)' /\ compiled'[id] = compiled[id]

LEMMA CallFacts ==
  ASSUME Inv, stack # <<>>
  PROVE  /\ dir \in Directories /\ loaded \in SUBSET Modules /\ Builtin \in loaded
         /\ stack \in Seq(Calls) /\ Len(stack) \in Nat \ {0} /\ DOMAIN stack = 1 .. Len(stack)
         /\ 1 \in DOMAIN stack /\ Len(stack) \in DOMAIN stack /\ Call = stack[1]
         /\ Call.id \in Defs /\ Call.id \in Ids /\ Call.at \in 0 .. Length(Call.id) + 1 /\ Length(Call.id) \in Nat
         /\ queue \in Seq(Modules) /\ queue # <<>> /\ Scope \in loaded
         /\ compiled \in [Ids -> Seq(Nat)]
         /\ Busy(Call.id) <=> Call.at \in 1 .. Length(Call.id)
         /\ CallOK(1) /\ (Call.id \in Objects => Length(Call.id) \in Nat \ {0})
<1>1. /\ dir \in Directories /\ loaded \in SUBSET Modules /\ Builtin \in loaded /\ stack \in Seq(Calls)
      /\ compiled \in [Ids -> Seq(Nat)] /\ queue \in Seq(Modules) /\ queue # <<>> /\ Range(queue) \subseteq loaded
  BY DEF Inv, TypeOK, ReadingInv, StackInv, Calls
<1>2. /\ Len(stack) \in Nat \ {0} /\ DOMAIN stack = 1 .. Len(stack) /\ 1 \in DOMAIN stack /\ Len(stack) \in DOMAIN stack
      /\ Call = stack[1]
  BY <1>1 DEF Call
<1>3. Scope \in loaded
  BY <1>1, TailRange DEF Scope
<1>4. CallOK(1)
  BY <1>2 DEF Inv, StackInv
<1>5. Call.id \in Defs /\ Call.at \in 0 .. Length(Call.id) + 1
  BY <1>2, <1>4 DEF CallOK
<1>6. Busy(Call.id) <=> Call.at \in 1 .. Length(Call.id)
  BY <1>2 DEF Busy, Inv, StackInv
<1> QED
  BY <1>1, <1>2, <1>3, <1>4, <1>5, <1>6, DefFacts

\* The call at the head gets to its k-th element.
LEMMA AdvanceStack ==
  ASSUME Inv, stack # <<>>, dir' = dir, loaded' = loaded, queue' = queue, failed' = failed, phase' = "compiling",
         NEW k \in 0 .. Length(Call.id) + 1, stack' = [stack EXCEPT ![1].at = k],
         \A id \in Ids : id # Call.id => compiled'[id] = compiled[id],
         k \in 1 .. Length(Call.id) => Call.id \in Objects,
         k # 0 /\ Call.id \in Objects => (compiled'[Call.id] = <<>> <=> k = 1)
  PROVE  /\ StackInv' /\ stack' \in Seq(Calls) /\ stack' # <<>> /\ Call'.id = Call.id /\ Call'.at = k
         /\ Len(stack') = Len(stack) /\ stack'[Len(stack)].id = stack[Len(stack)].id
         /\ Len(stack) # 1 => stack'[Len(stack)] = stack[Len(stack)]
         /\ \A i \in DOMAIN stack : stack'[i].id = stack[i].id
         /\ DOMAIN stack' = DOMAIN stack
         /\ \A id : id # Call.id => (Busy(id)' <=> Busy(id))
         /\ Busy(Call.id)' <=> k \in 1 .. Length(Call.id)
<1>1. /\ stack \in Seq(Calls) /\ Len(stack) \in Nat \ {0} /\ DOMAIN stack = 1 .. Len(stack) /\ Call = stack[1] /\ k \in Nat
      /\ Scope' = Scope /\ Call.id \in Defs
  BY CallFacts DEF Scope
<1>2. /\ stack' \in Seq(Calls) /\ Len(stack') = Len(stack) /\ stack' # <<>> /\ DOMAIN stack' = DOMAIN stack
      /\ stack'[1].id = stack[1].id /\ stack'[1].at = k /\ Head(stack') = stack'[1]
      /\ \A i \in 2 .. Len(stack) : stack'[i] = stack[i]
  BY <1>1, Advance
<1>3. Call' = stack'[1]
  BY <1>2 DEF Call
<1>4. \A i \in DOMAIN stack : i = 1 \/ i \in 2 .. Len(stack)
  BY <1>1
<1>5. \A i \in DOMAIN stack : stack'[i].id = stack[i].id
  BY <1>2, <1>4
<1>6. \A i \in DOMAIN stack : CallOK(i)
  BY DEF Inv, StackInv
<1>7. \A i, j \in DOMAIN stack : stack[i].id = stack[j].id => i = j
  BY DEF Inv, StackInv
<1>8. ASSUME NEW i \in 2 .. Len(stack) PROVE CallOK(i)'
  <2>1. /\ stack'[i] = stack[i] /\ i \in DOMAIN stack /\ i - 1 \in DOMAIN stack /\ stack'[i - 1].id = stack[i - 1].id
        /\ i > 1 /\ i # 1 /\ CallOK(i) /\ 1 \in DOMAIN stack
    BY <1>1, <1>2, <1>5, <1>6
  <2>2. stack[i].id \in Ids /\ stack[i].id # Call.id
    <3>1. stack[i].id \in Defs
      BY <2>1 DEF CallOK
    <3> QED
      BY <1>1, <1>7, <2>1, <3>1 DEF Defs
  <2>3. compiled'[stack[i].id] = compiled[stack[i].id]
    BY <2>2
  <2> QED
    BY <1>1, <1>2, <2>1, <2>3, SameDefinitions DEF CallOK
<1>9. CallOK(1)'
  <2>1. CallOK(1)
    BY <1>1, <1>6
  <2> QED
    BY <1>1, <1>2, <2>1, SameDefinitions DEF CallOK
<1>10. stack'[Len(stack)].id = stack[Len(stack)].id /\ (Len(stack) # 1 => stack'[Len(stack)] = stack[Len(stack)])
  BY <1>1, <1>2, <1>5
<1>11. StackInv'
  BY <1>1, <1>2, <1>4, <1>5, <1>7, <1>8, <1>9, <1>10 DEF Inv, StackInv
<1>12. \A id : Length(id)' = Length(id)
  BY SameDefinitions
<1>13. ASSUME NEW id, id # Call.id PROVE Busy(id)' <=> Busy(id)
  <2>1. \A i \in DOMAIN stack : (stack'[i].id = id <=> stack[i].id = id) /\ (stack[i].id = id => stack'[i] = stack[i])
    BY <1>1, <1>2, <1>4, <1>5, <1>13
  <2> QED
    BY <1>2, <1>12, <2>1 DEF Busy
<1>14. Busy(Call.id)' <=> k \in 1 .. Length(Call.id)
  <2>1. \A i \in DOMAIN stack : stack'[i].id = Call.id <=> i = 1
    BY <1>1, <1>5, <1>7
  <2> QED
    BY <1>1, <1>2, <1>3, <1>12, <2>1 DEF Busy
<1> QED
  BY <1>1, <1>2, <1>3, <1>5, <1>10, <1>11, <1>13, <1>14

\* The arcs after a name, one more.
LEMMA AppendArc ==
  ASSUME NEW b \in Seq(Nat), NEW els, NEW last \in Nat, NEW k \in Nat, last <= k,
         \A i \in 1 .. k + 1 : els[i].arc \in Nat
  PROVE  Append(b \o Arcs(els, last, k), els[k + 1].arc) = b \o Arcs(els, last, k + 1)
<1> DEFINE n == k - last
<1>7. n \in Nat /\ k + 1 - last = n + 1 /\ last + n + 1 = k + 1 /\ \A i \in 1 .. n + 1 : last + i \in 1 .. k + 1
  OBVIOUS
<1>8. \A i \in 1 .. n + 1 : els[last + i].arc \in Nat
  BY <1>7
<1>9. Arcs(els, last, k) = [i \in 1 .. n |-> els[last + i].arc] /\ Arcs(els, last, k + 1) = [i \in 1 .. n + 1 |-> els[last + i].arc]
  BY <1>7 DEF Arcs
<1> HIDE DEF n
<1> DEFINE arc(i) == els[last + i].arc
<1>0. n \in Nat /\ \A i \in 1 .. n + 1 : arc(i) \in Nat
  BY <1>7, <1>8
<1>1. els[k + 1].arc = arc(n + 1)
  BY <1>7
<1> HIDE DEF arc
<1> DEFINE f == [i \in 1 .. n |-> arc(i)]
           g == [i \in 1 .. n + 1 |-> arc(i)]
<1>2. /\ f \in [1 .. n -> Nat] /\ g \in [1 .. n + 1 -> Nat] /\ n + 1 \in Nat /\ arc(n + 1) \in Nat
      /\ \A i \in 1 .. n : f[i] = arc(i) /\ g[i] = arc(i)
      /\ g[n + 1] = arc(n + 1)
  BY <1>0
<1> HIDE DEF f, g
<1>3. f \in Seq(Nat) /\ g \in Seq(Nat) /\ Len(f) = n /\ Len(g) = n + 1
  BY <1>0, <1>2
<1>4. g = Append(f, arc(n + 1))
  <2> DEFINE h == Append(f, arc(n + 1))
  <2>1. h \in Seq(Nat) /\ Len(h) = n + 1 /\ h[n + 1] = arc(n + 1)
    BY <1>2, <1>3
  <2>2. ASSUME NEW i \in 1 .. n PROVE h[i] = f[i]
    BY <1>2, <1>3
  <2> HIDE DEF h
  <2>3. \A i \in 1 .. n + 1 : i \in 1 .. n \/ i = n + 1
    BY <1>0
  <2>4. \A i \in 1 .. n + 1 : h[i] = g[i]
    BY <1>2, <2>1, <2>2, <2>3
  <2> QED
    BY <1>3, <2>1, <2>4 DEF h
<1>5. Append(b \o f, arc(n + 1)) = b \o Append(f, arc(n + 1))
  <2>1. \A s \in Seq(Nat), x \in Nat : Append(b \o s, x) = b \o Append(s, x)
    OBVIOUS
  <2> QED
    BY <1>2, <1>3, <2>1
<1>6. Arcs(els, last, k) = f /\ Arcs(els, last, k + 1) = g
  BY <1>9 DEF f, g, arc
<1> QED
  BY <1>1, <1>4, <1>5, <1>6

LEMMA NoArcs == \A els, k : k \in Nat => Arcs(els, k, k) = <<>>
BY DEF Arcs

\* What is right stays right, as long as the object it rests on is kept.
LEMMA RightKept ==
  ASSUME dir' = dir, loaded' = loaded, Kept, NEW m, NEW id, NEW k, RightTo(m, id, k), compiled'[id] = compiled[id]
  PROVE  RightTo(m, id, k)'
<1> DEFINE els   == Def(id).elements
           last  == LastName(els, k)
           other == Resolve(m, els[last].name)
<1>1. Def(id)' = Def(id) /\ other' = other /\ Objects' = Objects
  <2>1. Def(id)' = Def(id) /\ \A scope, name : Resolve(scope, name)' = Resolve(scope, name)
    BY SameDefinitions
  <2> QED
    BY <2>1, SameDefinitions DEF LastName
<1>2. els' = els /\ last' = last
  BY <1>1 DEF LastName
<1>3. Base(m, id, k)' = Base(m, id, k)
  <2>1. CASE last = 0
    BY <1>2, <2>1 DEF Base
  <2>2. CASE last # 0 /\ els[last].name = Iso
    BY <1>2, <2>2 DEF Base
  <2>3. CASE last # 0 /\ els[last].name # Iso
    <3>1. compiled'[other] = compiled[other] /\ other \in Objects
      BY <2>3 DEF RightTo, RestsOn, Kept
    <3>2. Base(m, id, k) = compiled[other]
      BY <2>3, <3>1 DEF Base
    <3>3. Base(m, id, k)' = compiled'[other']
      BY <1>1, <1>2, <2>3, <3>1 DEF Base
    <3> QED
      BY <1>1, <3>1, <3>2, <3>3
  <2> QED
    BY <2>1, <2>2, <2>3
<1>4. CompiledTo(m, id, k)'
  <2>1. CompiledTo(m, id, k)
    BY DEF RightTo
  <2> QED
    BY <1>2, <1>3, <2>1 DEF CompiledTo
<1>5. RestsOn(m, id, k)'
  <2>1. RestsOn(m, id, k)
    BY DEF RightTo
  <2>2. \A o : o = other /\ last # 0 /\ els[last].name # Iso => o \in Objects /\ Complete(o)'
    BY <2>1 DEF RestsOn, Kept
  <2> QED
    BY <1>1, <1>2, <2>2 DEF RestsOn, Complete, Busy
<1> QED
  BY <1>4, <1>5 DEF RightTo

\* The consistency of OIDs, for a step that keeps what is complete and gets on with
\* one object at most.
LEMMA OidStep ==
  ASSUME Inv, dir' = dir, loaded' = loaded, Kept,
         \A id \in Objects : Complete(id)' =>
            Complete(id) \/ (/\ stack' # <<>> /\ id = Call'.id /\ Call'.at = Length(id) + 1
                             /\ \A m : m = Scope' => m \in loaded /\ Asks(m, id)),
         \A m : \A id \in Objects, k \in Nat :
            stack' # <<>> /\ m = Scope' /\ Call'.id = id /\ Call'.at = k + 1 =>
              RightTo(m, id, k)' \/ (Complete(id) /\ k = Length(id))
  PROVE  OidInv'
<1>1. /\ Objects' = Objects /\ \A id : Length(id)' = Length(id)
      /\ dir \in Directories /\ loaded \in SUBSET Modules
  BY SameDefinitions DEF Inv, TypeOK
<1>2. \A id \in Objects : Complete(id) => Meant(id)
  BY DEF Inv, OidInv
<1>3. \A id \in Objects : Length(id) \in Nat
  BY <1>1, DefFacts DEF Objects
<1>4. ASSUME NEW id \in Objects, Complete(id)'
      PROVE  \E m \in loaded : Asks(m, id) /\ \A k \in Nat : k = Length(id) => RightTo(m, id, k)'
  <2>1. CASE Complete(id)
    <3>1. PICK m \in loaded : Asks(m, id) /\ RightTo(m, id, Length(id))
      BY <1>2, <2>1 DEF Meant
    <3>2. compiled'[id] = compiled[id]
      BY <2>1 DEF Kept
    <3>3. RightTo(m, id, Length(id))'
      <4>1. \A k : k = Length(id) => RightTo(m, id, k)'
        BY <3>1, <3>2, RightKept
      <4>2. Length(id)' = Length(id)
        BY <1>1
      <4>3. PICK k : k = Length(id) /\ k = Length(id)'
        BY <4>2
      <4> QED
        BY <4>1, <4>3
    <3>4. \A k : k = Length(id) => RightTo(m, id, k)'
      BY <3>1, <3>2, RightKept
    <3> QED
      BY <3>1, <3>4
  <2>2. CASE ~ Complete(id)
    <3>1. PICK m : m = Scope'
      OBVIOUS
    <3>2. m \in loaded /\ Asks(m, id) /\ stack' # <<>> /\ id = Call'.id /\ Call'.at = Length(id) + 1
      BY <1>4, <2>2, <3>1
    <3>3. \A k \in Nat : k = Length(id) => RightTo(m, id, k)'
      BY <2>2, <3>1, <3>2
    <3> QED
      BY <3>2, <3>3
  <2> QED
    BY <2>1, <2>2
<1>5. ASSUME NEW id \in Objects, Complete(id)' PROVE Meant(id)'
  <2>1. PICK k \in Nat : k = Length(id) /\ k = Length(id)'
    BY <1>1, <1>3
  <2>2. PICK m \in loaded : Asks(m, id) /\ RightTo(m, id, k)'
    BY <1>4, <1>5, <2>1
  <2>3. Asks(m, id)' /\ m \in loaded'
    BY <2>2, SameDefinitions
  <2> QED
    BY <2>1, <2>2, <2>3 DEF Meant
<1>6. ASSUME NEW m, NEW id \in Objects, NEW k \in Nat, stack' # <<>>, m = Scope', Call'.id = id, Call'.at = k + 1, k < Length(id)
      PROVE  RightTo(m, id, k)'
  BY <1>3, <1>6
<1> QED
  BY <1>1, <1>5, <1>6 DEF OidInv

-----------------------------------------------------------------------------
(* Compiling, call by call.                                                 *)

LEMMA CompileTypes ==
  ASSUME Inv, UNCHANGED <<dir, reading, index>>, phase' \in {"compiling", "failed", "crashed"},
         queue' \in Seq(Modules), failed' \in Seq(Modules), progress' \in BOOLEAN, left' \subseteq NamesOf(queue'),
         stack' \in Seq(Calls), compiled' \in [Ids -> Seq(Nat)], stashed' \in SUBSET Ids
  PROVE  TypeOK'
<1>1. TypeOK /\ UNCHANGED <<dir, loaded, unread, refused, unindexed, byName, tree>>
  BY DEF Inv, reading, index
<1>2. NamesOf(queue)' = NamesOf(queue')
  BY <1>1 DEF NamesOf
<1> QED
  BY <1>1, <1>2 DEF TypeOK, Calls

\* What keeps everything that is complete, from what happens to the call at the head.
LEMMA KeptByHead ==
  ASSUME Inv, stack # <<>>,
         \A id \in Ids : id # Call.id => compiled'[id] = compiled[id],
         \A id : id # Call.id => (Busy(id)' <=> Busy(id)),
         \A id : id = Call.id /\ Complete(id) => ~ Busy(id)' /\ compiled'[id] = compiled[id]
  PROVE  /\ Kept
         /\ \A id \in Objects : Complete(id)' => Complete(id) \/ id = Call.id
<1>1. ASSUME NEW id \in Objects PROVE (Complete(id) => Complete(id)' /\ compiled'[id] = compiled[id]) /\ (Complete(id)' => Complete(id) \/ id = Call.id)
  <2>1. id \in Ids
    BY DEF Objects, Defs
  <2>2. CASE id = Call.id
    BY <2>2 DEF Complete
  <2>3. CASE id # Call.id
    BY <2>1, <2>3 DEF Complete
  <2> QED
    BY <2>2, <2>3
<1> QED
  BY <1>1 DEF Kept

\* Nothing of an object is compiled yet.
LEMMA RightToNone ==
  ASSUME NEW m, NEW id, compiled'[id] = <<>>
  PROVE  RightTo(m, id, 0)'
<1>1. LastName(Def(id).elements, 0)' = 0
  <2>1. \A els : LastName(els, 0) = 0
    BY LastNameFacts
  <2> QED
    BY <2>1 DEF LastName
<1>2. Base(m, id, 0)' = <<>>
  BY <1>1 DEF Base
<1>3. \A els : <<>> \o Arcs(els, 0, 0) = <<>>
  BY NoArcs
<1> QED
  BY <1>1, <1>2, <1>3 DEF RightTo, CompiledTo, RestsOn

LEMMA MetaStep ==
  ASSUME Inv, CompileMeta
  PROVE TypeOK' /\ StackInv' /\ Kept /\ OidInv'
<1> DEFINE k == IF Call.id \in Objects /\ compiled[Call.id] = <<>> THEN 1 ELSE Length(Call.id) + 1
<1>1. /\ phase = "compiling" /\ stack # <<>> /\ Call.at = 0 /\ stashed' \subseteq stashed \cup {Call.id}
      /\ UNCHANGED <<dir, phase, progress, reading, queue, failed, left, compiled, index>>
      /\ Call.id \in Defs
  BY CallFacts DEF CompileMeta
<1>2. stack' = [stack EXCEPT ![1].at = k]
  BY <1>1 DEF CompileMeta, Objects, Length
<1>3. /\ Call.id \in Ids /\ Length(Call.id) \in Nat /\ (Call.id \in Objects => Length(Call.id) # 0)
      /\ k \in 0 .. Length(Call.id) + 1 /\ k # 0
      /\ k \in 1 .. Length(Call.id) => Call.id \in Objects /\ compiled[Call.id] = <<>>
      /\ Call.id \in Objects => (compiled[Call.id] = <<>> <=> k = 1)
      /\ k = 1 \/ k = Length(Call.id) + 1
      /\ ~ Busy(Call.id)
  BY <1>1, CallFacts
<1>4. UNCHANGED <<dir, loaded, queue, failed, phase>>
  BY <1>1 DEF reading
<1> HIDE DEF k
<1>5. /\ StackInv' /\ stack' \in Seq(Calls) /\ stack' # <<>> /\ Call'.id = Call.id /\ Call'.at = k
      /\ \A id : id # Call.id => (Busy(id)' <=> Busy(id))
      /\ Busy(Call.id)' <=> k \in 1 .. Length(Call.id)
  BY <1>1, <1>2, <1>3, <1>4, AdvanceStack
<1>6. TypeOK'
  BY <1>1, <1>3, <1>5, CompileTypes DEF Inv, TypeOK, NamesOf
<1>7. \A id : id = Call.id => (Busy(id)' <=> k \in 1 .. Length(Call.id))
  BY <1>5 DEF Busy
<1>8. \A id : id = Call.id /\ Complete(id) => ~ Busy(id)'
  BY <1>3, <1>7 DEF Complete
<1>9. Kept /\ \A id \in Objects : Complete(id)' => Complete(id) \/ id = Call.id
  BY <1>1, <1>5, <1>8, KeptByHead
<1>10. \A id \in Objects : Complete(id)' => Complete(id)
  BY <1>1, <1>3, <1>9 DEF Complete
<1>11. ASSUME NEW m, NEW id \in Objects, NEW n \in Nat, Call'.id = id, Call'.at = n + 1
       PROVE  RightTo(m, id, n)' \/ (Complete(id) /\ n = Length(id))
  <2>1. id = Call.id /\ k = n + 1
    BY <1>5, <1>11
  <2>2. CASE compiled[id] = <<>>
    BY <1>1, <1>3, <2>1, <2>2, RightToNone
  <2>3. CASE compiled[id] # <<>>
    BY <1>3, <2>1, <2>3 DEF Complete
  <2> QED
    BY <2>2, <2>3
<1>12. OidInv'
  BY <1>4, <1>9, <1>10, <1>11, OidStep
<1> QED
  BY <1>5, <1>6, <1>9, <1>12

\* One number more.
LEMMA RightToNumber ==
  ASSUME Inv, dir' = dir, loaded' = loaded, Kept, NEW m, NEW id \in Objects, NEW n \in Nat, n < Length(id), RightTo(m, id, n),
         Def(id).elements[n + 1].name = NoName,
         compiled'[id] = Append(compiled[id], Def(id).elements[n + 1].arc)
  PROVE  RightTo(m, id, n + 1)'
<1> DEFINE els  == Def(id).elements
           last == LastName(els, n)
<1>1. /\ dir \in Directories /\ loaded \in SUBSET Modules /\ Builtin \in loaded /\ compiled \in [Ids -> Seq(Nat)] /\ id \in Defs
      /\ Iso # NoName
  BY DirectoryFacts DEF Inv, TypeOK, ReadingInv, Objects
<1>2. /\ Def(id)' = Def(id) /\ Objects' = Objects
      /\ \A scope, name : Resolve(scope, name)' = Resolve(scope, name)
  BY SameDefinitions
<1>3. /\ last \in 0 .. n /\ LastName(els, n + 1) = last
  BY LastNameFacts
<1>4. LastName(els, n)' = last /\ LastName(els, n + 1)' = last /\ els' = els
  BY <1>2, <1>3 DEF LastName
<1>5. \A i \in 1 .. Length(id) : els[i].arc \in Nat
  BY <1>1, DefFacts
<1>6. /\ last # 0 => Base(m, id, n) # <<>>
      /\ compiled[id] = Base(m, id, n) \o Arcs(els, last, n)
      /\ last # 0 /\ els[last].name # Iso => \A o : o = Resolve(m, els[last].name) => o \in Objects /\ Complete(o)
  BY DEF RightTo, CompiledTo, RestsOn
<1>7. last # 0 /\ els[last].name # Iso =>
        \A o : o = Resolve(m, els[last].name) => Complete(o)' /\ compiled'[o] = compiled[o] /\ o \in Ids
  BY <1>6 DEF Kept, Objects, Defs
<1>8. Base(m, id, n) \in Seq(Nat) /\ Base(m, id, n + 1)' = Base(m, id, n)
  <2>1. CASE last = 0
    BY <1>4, <2>1 DEF Base
  <2>2. CASE last # 0 /\ els[last].name = Iso
    BY <1>4, <2>2 DEF Base
  <2>3. CASE last # 0 /\ els[last].name # Iso
    <3>1. Base(m, id, n) = compiled[Resolve(m, els[last].name)]
      BY <1>6, <2>3 DEF Base
    <3>2. Base(m, id, n + 1)' = compiled'[Resolve(m, els[last].name)]
      BY <1>2, <1>4, <1>6, <2>3 DEF Base
    <3> QED
      BY <1>1, <1>7, <2>3, <3>1, <3>2
  <2> QED
    BY <2>1, <2>2, <2>3
<1>9. compiled'[id] = Base(m, id, n) \o Arcs(els, last, n + 1)
  <2>1. last \in Nat /\ last <= n /\ \A i \in 1 .. n + 1 : els[i].arc \in Nat
    BY <1>1, <1>3, <1>5, DefFacts
  <2>2. compiled'[id] = Append(compiled[id], els[n + 1].arc)
    OBVIOUS
  <2>3. Base(m, id, n) \in Seq(Nat) /\ n \in Nat
    BY <1>8
  <2> HIDE DEF els, last
  <2>4. Append(Base(m, id, n) \o Arcs(els, last, n), els[n + 1].arc) = Base(m, id, n) \o Arcs(els, last, n + 1)
    BY <2>1, <2>3, AppendArc
  <2> QED
    BY <1>6, <2>2, <2>4
<1>10. CompiledTo(m, id, n + 1)'
  BY <1>4, <1>6, <1>8, <1>9 DEF CompiledTo
<1>11. RestsOn(m, id, n + 1)'
  <2>1. last # 0 /\ els[last].name # Iso =>
          \A o : o = Resolve(m, els[last].name) => o \in Objects /\ Complete(o)'
    BY <1>6, <1>7
  <2> QED
    BY <1>2, <1>4, <2>1 DEF RestsOn, Complete, Busy
<1> QED
  BY <1>10, <1>11 DEF RightTo

\* A name, which means the OID that is there now.
LEMMA RightToName ==
  ASSUME Inv, dir' = dir, loaded' = loaded, NEW m, NEW id \in Objects, NEW n \in Nat, n < Length(id),
         Def(id).elements[n + 1].name # NoName,
         \/ Def(id).elements[n + 1].name = Iso /\ compiled'[id] = << 1 >>
         \/ /\ Def(id).elements[n + 1].name # Iso
            /\ \A o : o = Resolve(m, Def(id).elements[n + 1].name) =>
                 o \in Objects /\ Complete(o)' /\ compiled'[o] \in Seq(Nat) /\ compiled'[id] = compiled'[o]
  PROVE  RightTo(m, id, n + 1)'
<1> DEFINE els  == Def(id).elements
           name == els[n + 1].name
<1>1. /\ Def(id)' = Def(id) /\ Objects' = Objects
      /\ \A scope, x : Resolve(scope, x)' = Resolve(scope, x)
  BY SameDefinitions
<1>2. LastName(els, n + 1) = n + 1
  BY LastNameFacts
<1>3. LastName(els, n + 1)' = n + 1 /\ els' = els
  BY <1>1, <1>2 DEF LastName
<1>4. n + 1 # 0 /\ <<1>> \in Seq(Nat) /\ \A b \in Seq(Nat) : b \o Arcs(els, n + 1, n + 1) = b
  <2>1. Arcs(els, n + 1, n + 1) = <<>> /\ \A b \in Seq(Nat) : b \o <<>> = b
    BY NoArcs
  <2> QED
    BY <2>1
<1>5. CASE name = Iso
  <2>1. Base(m, id, n + 1)' = <<1>>
    BY <1>3, <1>4, <1>5 DEF Base
  <2>4. compiled'[id] = <<1>> /\ <<1>> # <<>> /\ <<1>> \o Arcs(els, n + 1, n + 1) = <<1>>
    BY <1>4, <1>5
  <2>2. CompiledTo(m, id, n + 1)'
    BY <1>3, <2>1, <2>4 DEF CompiledTo
  <2> QED
    BY <1>3, <1>5, <2>2 DEF RightTo, RestsOn
<1>6. CASE name # Iso
  <2>1. PICK o : o = Resolve(m, name)
    OBVIOUS
  <2>2. o \in Objects /\ Complete(o)' /\ compiled'[o] \in Seq(Nat) /\ compiled'[id] = compiled'[o]
    BY <1>6, <2>1
  <2>3. Resolve(m, name)' = o /\ o \in Objects'
    BY <1>1, <1>3, <2>1, <2>2
  <2>4. Base(m, id, n + 1)' = compiled'[o]
    BY <1>3, <1>4, <1>6, <2>3 DEF Base
  <2>5. compiled'[o] # <<>>
    BY <2>2 DEF Complete
  <2>6. CompiledTo(m, id, n + 1)'
    BY <1>3, <1>4, <2>2, <2>4, <2>5 DEF CompiledTo
  <2>7. RestsOn(m, id, n + 1)'
    BY <1>1, <1>3, <2>2, <2>3 DEF RestsOn, Complete, Busy
  <2> QED
    BY <2>6, <2>7 DEF RightTo
<1> QED
  BY <1>5, <1>6

\* A call that is at an element is that of an object which is not complete.
LEMMA AtElementFacts ==
  ASSUME Inv, NEW name, AtElement(name)
  PROVE  /\ phase = "compiling" /\ stack # <<>> /\ Call.at \in 1 .. Length(Call.id) /\ Call.id \in Objects
         /\ Busy(Call.id) /\ ~ Complete(Call.id)
         /\ name = Def(Call.id).elements[Call.at].name
         /\ (compiled[Call.id] = <<>> <=> Call.at = 1)
         /\ Def(Call.id).elements[Call.at].arc \in Nat /\ Call.at - 1 \in Nat /\ Call.at - 1 < Length(Call.id)
         /\ \A m : \A n \in Nat : m = Scope /\ n = Call.at - 1 => RightTo(m, Call.id, n)
<1>1. /\ phase = "compiling" /\ stack # <<>> /\ Call.at \in 1 .. Length(Call.id) /\ name = Def(Call.id).elements[Call.at].name
  BY DEF AtElement, Length
<1>2. /\ Call = stack[1] /\ Busy(Call.id) /\ CallOK(1) /\ Call.id \in Defs /\ Length(Call.id) \in Nat
      /\ dir \in Directories /\ loaded \subseteq Modules
  BY <1>1, CallFacts
<1>3. Call.id \in Objects /\ (compiled[Call.id] = <<>> <=> Call.at = 1)
  BY <1>1, <1>2 DEF CallOK
<1>4. Def(Call.id).elements[Call.at].arc \in Nat
  BY <1>1, <1>2, DefFacts
<1>5. Call.at - 1 \in Nat /\ Call.at - 1 < Length(Call.id) /\ \A n \in Nat : n = Call.at - 1 => Call.at = n + 1 /\ n < Length(Call.id)
  BY <1>1, <1>2
<1>6. \A m : \A n \in Nat : m = Scope /\ n = Call.at - 1 => RightTo(m, Call.id, n)
  BY <1>1, <1>3, <1>5 DEF Inv, OidInv
<1> QED
  BY <1>1, <1>2, <1>3, <1>4, <1>5, <1>6 DEF Complete

\* The module that is compiled asks for every object that is called for it.
LEMMA AskedFor ==
  ASSUME Inv, NEW i \in DOMAIN stack, stack[i].id \in Objects
  PROVE  Scope \in loaded /\ Asks(Scope, stack[i].id)
<1>1. /\ stack # <<>> /\ Len(stack) \in Nat \ {0} /\ DOMAIN stack = 1 .. Len(stack) /\ Scope \in loaded
      /\ dir \in Directories /\ loaded \in SUBSET Modules /\ i \in 1 .. Len(stack)
  <2>1. stack # <<>>
    BY DEF Inv, TypeOK
  <2> QED
    BY <2>1, CallFacts
<1>2. CASE i = Len(stack)
  BY <1>1, <1>2 DEF Inv, StackInv, Asks
<1>3. CASE i # Len(stack)
  <2>1. PICK j \in DOMAIN stack : j = i + 1 /\ j > 1 /\ j - 1 = i
    BY <1>1, <1>3
  <2> DEFINE o    == stack[j].id
             name == Def(o).elements[stack[j].at].name
  <2>2. CallOK(j)
    BY <2>1 DEF Inv, StackInv
  <2>3. /\ stack[j].at \in 1 .. Length(o) /\ o \in Objects /\ o \in Defs
        /\ name \notin {NoName, Iso} /\ stack[i].id = Resolve(Scope, name)
    BY <2>1, <2>2 DEF CallOK
  <2>4. name \in References(dir, o)
    <3>1. Def(o).elements \in Seq(Element)
      BY <1>1, <2>3, DefFacts
    <3>2. stack[j].at \in DOMAIN Def(o).elements
      BY <2>3, <3>1 DEF Length
    <3>3. DefinitionOf(dir, o) = Def(o)
      BY DEF DefinitionOf, Def
    <3> QED
      BY <2>3, <3>2, <3>3 DEF References
  <2> QED
    BY <1>1, <2>3, <2>4 DEF Asks
<1> QED
  BY <1>2, <1>3

LEMMA NumberOrIsoStep ==
  ASSUME Inv, CompileNumber \/ CompileIso
  PROVE TypeOK' /\ StackInv' /\ Kept /\ OidInv'
<1> DEFINE k == Call.at + 1
           arc == Def(Call.id).elements[Call.at].arc
<1>0. PICK name : AtElement(name) /\ ((CompileNumber /\ name = NoName) \/ (CompileIso /\ name = Iso))
  BY DEF CompileNumber, CompileIso
<1>1. /\ stack # <<>> /\ phase = "compiling" /\ Call.at \in 1 .. Length(Call.id) /\ Call.id \in Objects
      /\ ~ Complete(Call.id) /\ name = Def(Call.id).elements[Call.at].name /\ arc \in Nat /\ Call.at - 1 \in Nat
      /\ Call.at - 1 < Length(Call.id)
      /\ \A m : \A n \in Nat : m = Scope /\ n = Call.at - 1 => RightTo(m, Call.id, n)
  BY <1>0, AtElementFacts
<1>2. /\ UNCHANGED <<dir, phase, progress, reading, queue, failed, left, stashed, index>>
      /\ stack' = [stack EXCEPT ![1].at = @ + 1]
      /\ \/ name = NoName /\ compiled' = [compiled EXCEPT ![Call.id] = Append(@, arc)]
         \/ name = Iso /\ compiled' = [compiled EXCEPT ![Call.id] = <<1>>]
  BY <1>0 DEF CompileNumber, CompileIso
<1>3. /\ dir \in Directories /\ loaded \in SUBSET Modules /\ compiled \in [Ids -> Seq(Nat)] /\ Call.id \in Ids
      /\ Length(Call.id) \in Nat /\ Call = stack[1] /\ NoName # Iso
  BY <1>1, CallFacts, DirectoryFacts
<1>4. stack' = [stack EXCEPT ![1].at = k]
  BY <1>2, <1>3
<1>5. k \in 0 .. Length(Call.id) + 1 /\ k # 0 /\ k # 1 /\ (k \notin 1 .. Length(Call.id) => k = Length(Call.id) + 1)
  <2>1. \A n \in Nat : \A at \in 1 .. n :
          at + 1 \in 0 .. n + 1 /\ at + 1 # 0 /\ at + 1 # 1 /\ (at + 1 \notin 1 .. n => at + 1 = n + 1)
    OBVIOUS
  <2> QED
    BY <1>1, <1>3, <2>1
<1>6. /\ compiled' \in [Ids -> Seq(Nat)] /\ compiled'[Call.id] # <<>>
      /\ \A id \in Ids : id # Call.id => compiled'[id] = compiled[id]
      /\ name = NoName => compiled'[Call.id] = Append(compiled[Call.id], arc)
      /\ name = Iso => compiled'[Call.id] = <<1>>
  <2>1. Append(compiled[Call.id], arc) \in Seq(Nat) /\ Append(compiled[Call.id], arc) # <<>> /\ <<1>> \in Seq(Nat) /\ <<1>> # <<>>
    <3>1. ASSUME NEW s \in Seq(Nat), NEW x \in Nat PROVE Append(s, x) \in Seq(Nat) /\ Append(s, x) # <<>>
      <4>1. Append(s, x) \in Seq(Nat) /\ Len(Append(s, x)) = Len(s) + 1 /\ Len(s) \in Nat
        OBVIOUS
      <4>2. Len(Append(s, x)) # 0
        BY <4>1
      <4> QED
        BY <4>1, <4>2
    <3>2. <<1>> \in Seq(Nat) /\ <<1>> # <<>> /\ compiled[Call.id] \in Seq(Nat) /\ arc \in Nat
      BY <1>1, <1>3
    <3> HIDE DEF arc
    <3> QED
      BY <3>1, <3>2
  <2> HIDE DEF arc
  <2> QED
    BY <1>2, <1>3, <2>1
<1>7. UNCHANGED <<dir, loaded, queue, failed, phase>>
  BY <1>2 DEF reading
<1> HIDE DEF k, arc
<1>8. /\ StackInv' /\ stack' \in Seq(Calls) /\ stack' # <<>> /\ Call'.id = Call.id /\ Call'.at = k
      /\ \A id : id # Call.id => (Busy(id)' <=> Busy(id))
      /\ Busy(Call.id)' <=> k \in 1 .. Length(Call.id)
  BY <1>1, <1>4, <1>5, <1>6, <1>7, AdvanceStack
<1>9. TypeOK'
  BY <1>1, <1>2, <1>6, <1>8, CompileTypes DEF Inv, TypeOK, NamesOf
<1>10. \A id : id = Call.id => (Busy(id)' <=> k \in 1 .. Length(Call.id))
  BY <1>8 DEF Busy
<1>11. Kept /\ \A id \in Objects : Complete(id)' => Complete(id) \/ id = Call.id
  BY <1>1, <1>6, <1>8, KeptByHead
<1>12. \A id \in Objects : Complete(id)' => Complete(id) \/ (id = Call.id /\ k = Length(id) + 1)
  BY <1>5, <1>10, <1>11 DEF Complete
<1>15. Scope' = Scope /\ \A m : m = Scope' => m \in loaded /\ Asks(m, Call.id)
  BY <1>1, <1>2, <1>3, CallFacts, AskedFor DEF Scope
<1>13. ASSUME NEW scope, scope = Scope', NEW id \in Objects, NEW n \in Nat, Call'.id = id, Call'.at = n + 1
       PROVE  RightTo(scope, id, n)'
  <2>1. id = Call.id /\ n = Call.at /\ n - 1 \in Nat
    BY <1>1, <1>3, <1>8, <1>13 DEF k
  <2> DEFINE m == n - 1
  <2>2. m \in Nat /\ m + 1 = n /\ m < Length(id)
    BY <1>1, <2>1
  <2>3. RightTo(scope, id, m)
    BY <1>1, <1>13, <1>15, <2>1, <2>2
  <2> HIDE DEF m
  <2>4. CASE name = NoName
    <3>1. Def(id).elements[m + 1].name = NoName /\ compiled'[id] = Append(compiled[id], Def(id).elements[m + 1].arc)
      BY <1>1, <1>6, <2>1, <2>2, <2>4 DEF arc
    <3>2. RightTo(scope, id, m + 1)'
      BY <1>7, <1>11, <2>2, <2>3, <3>1, RightToNumber
    <3> QED
      BY <2>2, <3>2
  <2>5. CASE name = Iso
    <3>1. Def(id).elements[m + 1].name = Iso /\ compiled'[id] = <<1>>
      BY <1>1, <1>6, <2>1, <2>2, <2>5
    <3>2. RightTo(scope, id, m + 1)'
      BY <1>3, <1>7, <2>2, <3>1, RightToName
    <3> QED
      BY <2>2, <3>2
  <2> QED
    BY <1>2, <2>4, <2>5
<1>14. OidInv'
  BY <1>7, <1>8, <1>11, <1>12, <1>13, <1>15, OidStep
<1> QED
  BY <1>8, <1>9, <1>11, <1>14

LEMMA OtherStep ==
  ASSUME Inv, NEW name \in Names, CompileOther(name)
  PROVE TypeOK' /\ StackInv' /\ Kept /\ OidInv'
<1> DEFINE other == Resolve(Scope, name)
           c     == [id |-> other, at |-> 0]
<1>1. /\ stack # <<>> /\ phase = "compiling" /\ Call.at \in 1 .. Length(Call.id) /\ Call.id \in Objects
      /\ Busy(Call.id) /\ ~ Complete(Call.id) /\ name = Def(Call.id).elements[Call.at].name
  BY AtElementFacts DEF CompileOther
<1>2. /\ UNCHANGED <<dir, phase, progress, reading, queue, failed, left, stashed, index>>
      /\ name # Iso /\ other \in Objects /\ other \notin Called
      /\ compiled' = [compiled EXCEPT ![Call.id] = <<>>]
      /\ stack' = <<c>> \o stack
  BY DEF CompileOther
<1>3. /\ compiled \in [Ids -> Seq(Nat)] /\ Call.id \in Ids /\ Length(Call.id) \in Nat /\ Call = stack[1]
      /\ stack \in Seq(Calls) /\ Len(stack) \in Nat \ {0} /\ DOMAIN stack = 1 .. Len(stack)
      /\ NoName \notin Names /\ dir \in Directories /\ loaded \in SUBSET Modules
  BY <1>1, CallFacts, DirectoryFacts
<1>4. other \in Defs /\ other \in Ids /\ Length(other) \in Nat
  BY <1>2, <1>3, DefFacts DEF Objects
<1>5. UNCHANGED <<dir, loaded, queue, failed, phase>> /\ Scope' = Scope
  BY <1>2 DEF reading, Scope
<1>6. compiled' \in [Ids -> Seq(Nat)] /\ compiled'[Call.id] = <<>> /\ \A id \in Ids : id # Call.id => compiled'[id] = compiled[id]
  BY <1>2, <1>3
<1>7. /\ c \in Calls /\ c.id = other /\ c.at = 0
  BY <1>4 DEF Calls
<1> HIDE DEF c, other
<1>8. /\ stack' \in Seq(Calls) /\ Len(stack') = Len(stack) + 1 /\ stack' # <<>> /\ stack'[1] = c /\ Head(stack') = c
      /\ \A i \in 1 .. Len(stack) : stack'[i + 1] = stack[i]
      /\ DOMAIN stack' = 1 .. Len(stack) + 1
  BY <1>2, <1>3, <1>7, Push
<1>9. Call' = c
  BY <1>8 DEF Call
<1>10. ASSUME NEW j \in DOMAIN stack', j # 1 PROVE \E i \in DOMAIN stack : j = i + 1
  <2> DEFINE n == Len(stack)
  <2>1. n \in Nat /\ j \in 1 .. n + 1 /\ DOMAIN stack = 1 .. n
    BY <1>3, <1>8
  <2> HIDE DEF n
  <2>2. j - 1 \in DOMAIN stack /\ j = (j - 1) + 1
    BY <1>10, <2>1
  <2> QED
    BY <2>2
<1>11. /\ \A i \in DOMAIN stack : CallOK(i) /\ stack[i].id # other
       /\ \A i, j \in DOMAIN stack : stack[i].id = stack[j].id => i = j
       /\ stack[Len(stack)].id[1] = Scope
  BY <1>1, <1>2 DEF Inv, StackInv, Called
<1>12. CallOK(1)'
  BY <1>2, <1>3, <1>4, <1>5, <1>7, <1>8, SameDefinitions DEF CallOK
<1>13. ASSUME NEW i \in DOMAIN stack PROVE CallOK(i + 1)'
  <2>0. i \in Nat \ {0} /\ i + 1 > 1 /\ i + 1 # 1 /\ i + 1 - 1 = i /\ (i < Len(stack) <=> i + 1 < Len(stack'))
    <3> DEFINE n == Len(stack)
    <3>1. n \in Nat /\ i \in 1 .. n /\ Len(stack') = n + 1
      BY <1>3, <1>8
    <3> HIDE DEF n
    <3> QED
      BY <3>1 DEF n
  <2>4. stack[i].id \in Ids
    BY <1>11 DEF CallOK, Defs
  <2>1. /\ stack'[i + 1] = stack[i] /\ CallOK(i) /\ i \in Nat \ {0} /\ i + 1 > 1 /\ i + 1 # 1 /\ i + 1 - 1 = i /\ stack[i].id \in Ids
        /\ i < Len(stack) <=> i + 1 < Len(stack')
    BY <1>3, <1>8, <1>11, <2>0, <2>4
  <2>2. CASE i = 1
    <3>1. stack'[i] = c /\ stack'[i + 1].id = Call.id /\ stack'[i + 1].at = Call.at /\ name \notin {NoName, Iso}
      BY <1>2, <1>3, <1>8, <2>1, <2>2
    <3>2. \A id, at : id = Call.id /\ at = Call.at =>
            /\ Def(id)' = Def(id) /\ id \in Defs' /\ id \in Objects' /\ at \in 1 .. Length(id)'
            /\ at \in 0 .. Length(id)' + 1
            /\ Def(id)'.elements[at].name = name /\ compiled'[id] = <<>>
      <4>1. Call.id \in Defs /\ Call.at \in 0 .. Length(Call.id) + 1
        BY <1>3, <2>1, <2>2 DEF CallOK
      <4> QED
        BY <1>1, <1>5, <1>6, <4>1, SameDefinitions
    <3>3. \A scope : scope = Scope' => stack'[i].id = Resolve(scope, name)'
      <4>1. \A scope : Resolve(scope, name)' = Resolve(scope, name)
        BY <1>5, SameDefinitions
      <4> QED
        BY <1>5, <1>7, <3>1, <4>1 DEF other
    <3>4. i + 1 = 2 /\ Len(stack') \in Nat
      BY <1>3, <1>8, <2>2
    <3> HIDE DEF Length
    <3> QED
      BY <2>1, <2>2, <3>1, <3>2, <3>3, <3>4 DEF CallOK
  <2>3. CASE i # 1
    <3>1. i - 1 \in DOMAIN stack /\ stack'[i] = stack[i - 1] /\ i > 1 /\ stack[i].id # Call.id
      <4>1. i - 1 \in 1 .. Len(stack) /\ i - 1 + 1 = i /\ i > 1 /\ 1 \in DOMAIN stack
        BY <1>3, <2>1, <2>3
      <4> QED
        BY <1>3, <1>8, <1>11, <2>3, <4>1
    <3>2. compiled'[stack[i].id] = compiled[stack[i].id]
      BY <1>6, <2>1, <3>1
    <3> QED
      BY <1>5, <2>1, <2>3, <3>1, <3>2, SameDefinitions DEF CallOK
  <2> QED
    BY <2>2, <2>3
<1>14. StackInv'
  <2>1. \A j \in DOMAIN stack' : CallOK(j)'
    BY <1>10, <1>12, <1>13
  <2>5. \A i \in DOMAIN stack : stack'[i + 1].id = stack[i].id /\ stack'[i + 1].id # stack'[1].id
    BY <1>3, <1>7, <1>8, <1>11
  <2>2. ASSUME NEW j \in DOMAIN stack', NEW l \in DOMAIN stack', stack'[j].id = stack'[l].id PROVE j = l
    <3>1. CASE j = 1 \/ l = 1
      BY <1>10, <2>2, <2>5, <3>1
    <3>2. CASE j # 1 /\ l # 1
      <4>1. PICK i \in DOMAIN stack : j = i + 1
        BY <1>10, <3>2
      <4>2. PICK h \in DOMAIN stack : l = h + 1
        BY <1>10, <3>2
      <4>3. stack[i].id = stack[h].id
        BY <2>2, <2>5, <4>1, <4>2
      <4>4. i = h
        BY <1>11, <4>3
      <4> QED
        BY <4>1, <4>2, <4>4
    <3> QED
      BY <3>1, <3>2
  <2>3. stack'[Len(stack')].id[1] = Scope'
    BY <1>3, <1>5, <1>8, <1>11
  <2>4. Range(queue) \cup Range(failed) \subseteq loaded /\ queue # <<>>
    BY <1>1 DEF Inv, StackInv
  <2> QED
    BY <1>1, <1>5, <2>1, <2>2, <2>3, <2>4 DEF StackInv
<1>15. ASSUME NEW id PROVE Busy(id)' <=> Busy(id)
  <2>1. Length(id)' = Length(id)
    BY <1>5, SameDefinitions
  <2>2. 1 \in DOMAIN stack' /\ stack'[1].at = 0 /\ \A i \in DOMAIN stack : i + 1 \in DOMAIN stack' /\ stack'[i + 1] = stack[i]
    BY <1>3, <1>7, <1>8
  <2>3. Length(id) \in Nat \/ TRUE
    OBVIOUS
  <2>4. stack'[1].at \notin 1 .. Length(id)
    BY <2>2
  <2> QED
    BY <1>10, <2>1, <2>2, <2>4 DEF Busy
<1>16. TypeOK'
  BY <1>1, <1>2, <1>6, <1>8, CompileTypes DEF Inv, TypeOK, NamesOf
<1>17. Kept /\ \A id \in Objects : Complete(id)' => Complete(id) \/ id = Call.id
  BY <1>1, <1>6, <1>15, KeptByHead
<1>18. \A id \in Objects : Complete(id)' => Complete(id)
  BY <1>1, <1>15, <1>17 DEF Complete
<1>19. ASSUME NEW id \in Objects, NEW n \in Nat, Call'.id = id, Call'.at = n + 1 PROVE FALSE
  BY <1>7, <1>9, <1>19
<1>20. OidInv'
  BY <1>5, <1>17, <1>18, <1>19, OidStep
<1> QED
  BY <1>14, <1>16, <1>17, <1>20

\* What is loaded, once everything is read.
LEMMA SameAsDirectory ==
  ASSUME loaded = ModulesOf(dir)
  PROVE  /\ Defs = IdsOf(dir) /\ Objects = ObjectsOf(dir)
         /\ \A id : DefinitionOf(dir, id) = Def(id)
         /\ \A scope, name : Own(dir, scope, name) = Resolve(scope, name)
<1>1. \A id : DefinitionOf(dir, id) = Def(id)
  BY DEF DefinitionOf, Def
<1>2. Defs = IdsOf(dir)
  BY DEF Defs, IdsOf
<1> QED
  BY <1>1, <1>2 DEF Objects, ObjectsOf, Own, Resolve

\* With well-scoped modules the module that is compiled means the same object by a name
\* as the module of the object that uses it does.
LEMMA SameMeaning ==
  ASSUME TypeOK, loaded = ModulesOf(dir), dir \in WellScopedDirectories, NEW scope \in loaded,
         NEW id \in Objects, NEW k \in 1 .. Length(id), Def(id).elements[k].name \notin {NoName, Iso},
         Resolve(scope, Def(id).elements[k].name) \in Objects
  PROVE  Resolve(id[1], Def(id).elements[k].name) = Resolve(scope, Def(id).elements[k].name)
<1> DEFINE name == Def(id).elements[k].name
<1>1. id \in ObjectsOf(dir) /\ Own(dir, scope, name) \in ObjectsOf(dir) /\ WellScoped(dir)
  BY SameAsDirectory DEF WellScopedDirectories
<1>2. name \in References(dir, id)
  <2>1. Def(id).elements \in Seq(Element)
    BY DefFacts DEF TypeOK, Objects
  <2>2. k \in DOMAIN Def(id).elements
    BY <2>1 DEF Length
  <2> QED
    BY <2>2, SameAsDirectory DEF References
<1>3. Own(dir, scope, name) = Own(dir, id[1], name)
  BY <1>1, <1>2 DEF WellScoped
<1> QED
  BY <1>3, SameAsDirectory

LEMMA ReturnStep ==
  ASSUME Inv, ReturnCompiled
  PROVE TypeOK' /\ StackInv' /\ Kept /\ OidInv'
<1>1. /\ stack # <<>> /\ phase = "compiling" /\ loaded = ModulesOf(dir)
      /\ UNCHANGED <<dir, phase, progress, reading, queue, failed, left, stashed, index>>
      /\ UNCHANGED <<loaded>> /\ Scope' = Scope
  BY DEF ReturnCompiled, reading, Inv, ReadingInv, Scope
<1>2. /\ dir \in Directories /\ loaded \in SUBSET Modules /\ compiled \in [Ids -> Seq(Nat)] /\ Call.id \in Ids
      /\ Length(Call.id) \in Nat /\ Call = stack[1] /\ CallOK(1) /\ Call.id \in Defs
      /\ stack \in Seq(Calls) /\ Len(stack) \in Nat \ {0} /\ DOMAIN stack = 1 .. Len(stack) /\ 1 \in DOMAIN stack
      /\ Scope \in loaded /\ Call.at \in 0 .. Length(Call.id) + 1
      /\ (Call.id \in Objects => Length(Call.id) # 0)
  BY <1>1, CallFacts
<1>3. /\ Call.at = Length(Call.id) + 1 /\ ~ Busy(Call.id)
      /\ Call.id \in Objects => compiled[Call.id] # <<>>
  <2>1. Call.at > Length(Call.id)
    BY DEF ReturnCompiled, Length
  <2>2. Call.at = Length(Call.id) + 1 /\ Call.at \notin 1 .. Length(Call.id)
    BY <1>2, <2>1
  <2>3. Call.id \in Objects => Call.at # 0 /\ Call.at # 1
    BY <1>2, <2>2
  <2> QED
    BY <1>1, <1>2, <2>2, <2>3, CallFacts DEF CallOK
<1>4. \A i \in DOMAIN stack : CallOK(i)
  BY DEF Inv, StackInv
<1>5. \A i, j \in DOMAIN stack : stack[i].id = stack[j].id => i = j
  BY DEF Inv, StackInv
<1>6. \A id : Length(id)' = Length(id)
  BY <1>1, SameDefinitions
<1>7. CASE Len(stack) = 1
  <2>1. stack' = <<>> /\ compiled' = compiled
    BY <1>7 DEF ReturnCompiled
  <2>2. StackInv'
    BY <1>1, <2>1 DEF Inv, StackInv
  <2>3. TypeOK'
    <3>1. /\ queue' \in Seq(Modules) /\ failed' \in Seq(Modules) /\ progress' \in BOOLEAN /\ stashed' \in SUBSET Ids
          /\ left \subseteq NamesOf(queue) /\ NamesOf(queue)' = NamesOf(queue')
      BY <1>1 DEF Inv, TypeOK, NamesOf
    <3>2. stack' \in Seq(Calls) /\ compiled' \in [Ids -> Seq(Nat)] /\ left' \subseteq NamesOf(queue')
      BY <1>1, <1>2, <2>1, <3>1
    <3> QED
      BY <1>1, <3>1, <3>2, CompileTypes
  <2>4. \A id : ~ Busy(id)' /\ ~ Busy(id)
    <3>1. \A i \in DOMAIN stack : i = 1
      BY <1>2, <1>7
    <3>2. \A id : Busy(id) => id = Call.id
      BY <1>2, <3>1 DEF Busy
    <3> QED
      BY <1>3, <2>1, <3>2 DEF Busy
  <2>5. Kept /\ \A id \in Objects : Complete(id)' => Complete(id)
    BY <2>1, <2>4 DEF Kept, Complete
  <2>6. OidInv'
    BY <1>1, <2>1, <2>5, OidStep
  <2> QED
    BY <2>2, <2>3, <2>5, <2>6
<1>8. CASE Len(stack) # 1
  <2> DEFINE c  == stack[2].id
             at == stack[2].at
             name == Def(c).elements[at].name
  <2>1. /\ stack' \in Seq(Calls) /\ Len(stack') = Len(stack) - 1 /\ stack' # <<>> /\ DOMAIN stack' = 1 .. Len(stack) - 1
        /\ 1 \in DOMAIN stack' /\ 2 \in DOMAIN stack /\ stack'[1].id = c /\ stack'[1].at = at + 1 /\ Head(stack') = stack'[1]
        /\ \A i \in 2 .. Len(stack') : stack'[i] = stack[i + 1]
    <3>1. stack' = [Tail(stack) EXCEPT ![1].at = @ + 1]
      BY <1>8 DEF ReturnCompiled
    <3> DEFINE t == [Tail(stack) EXCEPT ![1].at = @ + 1]
    <3>2. /\ t \in Seq(Calls) /\ Len(t) = Len(stack) - 1 /\ t # <<>> /\ DOMAIN t = 1 .. Len(stack) - 1 /\ 1 \in DOMAIN t
          /\ 2 \in DOMAIN stack /\ t[1].id = stack[2].id /\ t[1].at = stack[2].at + 1 /\ Head(t) = t[1]
          /\ \A i \in 2 .. Len(t) : t[i] = stack[i + 1]
      <4>1. stack \in Seq(Calls) /\ stack # <<>> /\ Len(stack) # 1
        BY <1>1, <1>2, <1>8
      <4> HIDE DEF Calls
      <4> QED
        BY <4>1, Pop
    <3> HIDE DEF t
    <3> QED
      BY <3>1, <3>2 DEF t
  <2>2. Call' = stack'[1]
    BY <2>1 DEF Call
  <2>3. /\ c \in Objects /\ at \in 1 .. Length(c) /\ compiled[c] = <<>> /\ name \notin {NoName, Iso}
        /\ Call.id = Resolve(Scope, name)
    <3>1. CallOK(2) /\ 2 > 1 /\ 2 - 1 = 1
      BY <1>4, <2>1
    <3>2. \A i : i = 2 /\ CallOK(i) =>
            /\ stack[i].at \in 1 .. Length(stack[i].id) /\ compiled[stack[i].id] = <<>>
            /\ Def(stack[i].id).elements[stack[i].at].name \notin {NoName, Iso}
            /\ stack[i - 1].id = Resolve(Scope, Def(stack[i].id).elements[stack[i].at].name)
            /\ stack[i].id \in Objects
      BY <3>1 DEF CallOK
    <3> QED
      BY <1>2, <3>1, <3>2
  <2>4. Call.id \in Objects /\ c \in Defs /\ c \in Ids /\ Length(c) \in Nat \ {0} /\ c # Call.id
    <3>1. 1 < Len(stack) /\ 1 # 2
      BY <1>2, <1>8
    <3>2. Call.id \in Objects
      BY <1>2, <3>1 DEF CallOK
    <3>3. c # Call.id
      BY <1>2, <1>5, <2>1, <3>1
    <3> QED
      BY <1>2, <2>3, <3>2, <3>3, DefFacts DEF Objects, Defs
  <2>5. /\ compiled' \in [Ids -> Seq(Nat)] /\ compiled'[c] = compiled[Call.id]
        /\ \A id \in Ids : id # c => compiled'[id] = compiled[id]
    <3>1. compiled' = [compiled EXCEPT ![c] = @ \o compiled[Call.id]]
      BY <1>8 DEF ReturnCompiled
    <3>2. \A s \in Seq(Nat) : <<>> \o s = s
      OBVIOUS
    <3> HIDE DEF c
    <3> QED
      BY <1>2, <2>3, <2>4, <3>1, <3>2
  <2>6. \A i \in DOMAIN stack' : i = 1 \/ (i \in 2 .. Len(stack') /\ i + 1 \in DOMAIN stack /\ i + 1 # 2 /\ i # 1 /\ i > 1)
    BY <1>2, <2>1
  <2> HIDE DEF c, at, name
  <2>7. ASSUME NEW i \in DOMAIN stack', i # 1 PROVE CallOK(i)'
    <3> DEFINE id == stack'[i].id
    <3>1. /\ i > 1 /\ i + 1 \in DOMAIN stack /\ i + 1 > 1 /\ stack'[i] = stack[i + 1] /\ CallOK(i + 1) /\ i + 1 - 1 = i
          /\ i + 1 # 2 /\ i \in DOMAIN stack
      BY <1>2, <1>4, <2>1, <2>6, <2>7
    <3>2. id # c /\ id \in Ids
      BY <1>5, <2>1, <3>1 DEF c, CallOK, Defs
    <3>3. compiled'[id] = compiled[id]
      BY <2>5, <3>2
    <3>4. stack'[i - 1].id = stack[i].id
      <4>1. CASE i = 2
        BY <2>1, <4>1 DEF c
      <4>2. CASE i # 2
        <5>1. i - 1 \in 2 .. Len(stack') /\ i - 1 + 1 = i
          BY <1>2, <2>1, <2>7, <4>2
        <5> QED
          BY <2>1, <5>1
      <4> QED
        BY <4>1, <4>2
    <3>5. i < Len(stack') <=> i + 1 < Len(stack)
      BY <1>2, <2>1
    <3> QED
      BY <1>1, <1>6, <2>7, <3>1, <3>3, <3>4, <3>5, SameDefinitions DEF CallOK
  <2>8. CallOK(1)'
    <3>1. /\ at + 1 \in 0 .. Length(c) + 1 /\ at + 1 # 0 /\ at + 1 # 1
      BY <2>3, <2>4
    <3>2. compiled'[c] # <<>>
      BY <1>3, <2>4, <2>5
    <3> QED
      BY <1>1, <1>6, <2>1, <2>3, <2>4, <3>1, <3>2, SameDefinitions DEF CallOK
  <2>9. StackInv'
    <3>1. \A i \in DOMAIN stack' : stack'[i].id = stack[i + 1].id /\ i + 1 \in DOMAIN stack
      BY <1>2, <2>1, <2>6 DEF c
    <3>2. ASSUME NEW i \in DOMAIN stack', NEW j \in DOMAIN stack', stack'[i].id = stack'[j].id PROVE i = j
      <4>1. i + 1 = j + 1
        BY <1>5, <3>1, <3>2
      <4> QED
        BY <2>1, <4>1
    <3>3. stack'[Len(stack')].id[1] = Scope'
      <4>1. Len(stack') \in DOMAIN stack' /\ Len(stack') + 1 = Len(stack)
        BY <1>2, <1>8, <2>1
      <4> QED
        BY <1>1, <3>1, <4>1 DEF Inv, StackInv
    <3> QED
      BY <1>1, <2>7, <2>8, <3>2, <3>3 DEF Inv, StackInv
  <2>10. TypeOK'
    BY <1>1, <2>1, <2>5, CompileTypes DEF Inv, TypeOK, NamesOf
  <2>11. ASSUME NEW id, id # c PROVE Busy(id)' <=> Busy(id)
    <3>1. ASSUME Busy(id) PROVE Busy(id)'
      <4>1. PICK i \in DOMAIN stack : stack[i].id = id /\ stack[i].at \in 1 .. Length(id)
        BY <3>1 DEF Busy
      <4>2. i # 1
        BY <1>2, <1>3, <3>1, <4>1
      <4>3. i # 2
        BY <2>11, <4>1 DEF c
      <4>4. i - 1 \in 2 .. Len(stack') /\ i - 1 + 1 = i /\ i - 1 \in DOMAIN stack'
        BY <1>2, <2>1, <4>2, <4>3
      <4> QED
        BY <1>6, <2>1, <4>1, <4>4 DEF Busy
    <3>2. ASSUME Busy(id)' PROVE Busy(id)
      <4>1. PICK i \in DOMAIN stack' : stack'[i].id = id /\ stack'[i].at \in 1 .. Length(id)
        BY <1>6, <3>2 DEF Busy
      <4>2. i # 1
        BY <2>1, <2>11, <4>1
      <4> QED
        BY <2>1, <2>6, <4>1, <4>2 DEF Busy
    <3> QED
      BY <3>1, <3>2
  <2>12. Busy(c) /\ \A d : d = c => (Busy(d)' <=> at + 1 \in 1 .. Length(c))
    <3>1. Busy(c)
      BY <2>1, <2>3 DEF Busy, c, at
    <3>2. \A i \in DOMAIN stack' : stack'[i].id = c => i = 1
      <4>1. \A i, j \in DOMAIN stack' : stack'[i].id = stack'[j].id => i = j
        BY <2>9 DEF StackInv
      <4> QED
        BY <2>1, <4>1
    <3>3. \A d : d = c => (Busy(d)' <=> at + 1 \in 1 .. Length(c))
      BY <1>6, <2>1, <3>2 DEF Busy
    <3> QED
      BY <3>1, <3>3
  <2>13. ASSUME NEW id \in Objects
         PROVE  /\ Complete(id) => Complete(id)' /\ compiled'[id] = compiled[id]
                /\ Complete(id)' => Complete(id) \/ (id = c /\ at + 1 = Length(c) + 1)
    <3>1. id \in Ids
      BY DEF Objects, Defs
    <3>2. CASE id = c
      <4>1. ~ Complete(id)
        BY <2>12, <3>2 DEF Complete
      <4>2. Complete(id)' => ~ Busy(id)'
        BY DEF Complete
      <4>3. \A d : d = c => (Busy(d)' <=> at + 1 \in 1 .. Length(c))
        BY <2>12
      <4>4. at + 1 \notin 1 .. Length(c) => at + 1 = Length(c) + 1
        BY <2>3, <2>4
      <4> QED
        BY <3>2, <4>1, <4>2, <4>3, <4>4
    <3>3. CASE id # c
      BY <2>5, <2>11, <3>1, <3>3 DEF Complete
    <3> QED
      BY <3>2, <3>3
  <2>14. Kept
    BY <2>13 DEF Kept
  <2>15. ASSUME NEW scope, scope = Scope', NEW id \in Objects, NEW n \in Nat, Call'.id = id, Call'.at = n + 1
         PROVE  RightTo(scope, id, n)'
    <3>1. id = c /\ n = at
      BY <2>1, <2>2, <2>3, <2>4, <2>15
    <3> DEFINE m == n - 1
    <3>2. m \in Nat /\ m + 1 = n /\ m < Length(id)
      BY <2>3, <2>4, <3>1
    <3> HIDE DEF m
    <3>3. Resolve(scope, name) = Call.id
      BY <1>1, <2>3, <2>15
    <3>4. Complete(Call.id)
      BY <1>3, <2>4 DEF Complete
    <3>5. \A o : o = Call.id => o \in Objects /\ Complete(o)' /\ compiled'[o] \in Seq(Nat) /\ compiled'[id] = compiled'[o]
      BY <1>2, <2>4, <2>5, <2>13, <3>1, <3>4
    <3>6. Def(id).elements[m + 1].name = name
      BY <3>1, <3>2 DEF name
    <3>7. RightTo(scope, id, m + 1)'
      BY <1>1, <2>3, <3>2, <3>3, <3>5, <3>6, RightToName
    <3> QED
      BY <3>2, <3>7
  <2>16. OidInv'
    <3>2. \A m : m = Scope' => m \in loaded /\ Asks(m, c)
      BY <1>1, <2>1, <2>3, AskedFor DEF c
    <3>1. \A id \in Objects : Complete(id)' => Complete(id) \/ (/\ stack' # <<>> /\ id = Call'.id /\ Call'.at = Length(id) + 1
                                                                /\ \A m : m = Scope' => m \in loaded /\ Asks(m, id))
      BY <2>1, <2>2, <2>13, <3>2
    <3> QED
      BY <1>1, <2>14, <2>15, <3>1, OidStep
  <2> QED
    BY <2>9, <2>10, <2>14, <2>16
<1> QED
  BY <1>7, <1>8

-----------------------------------------------------------------------------
(* Compiling: what is done, and what a module waits for.                    *)

\* What is done stays so.
LEMMA DoneKept ==
  ASSUME dir' = dir, loaded' = loaded, Kept, stashed \subseteq stashed'
  PROVE  /\ Defs' = Defs
         /\ \A id : Stored(id) => Stored(id)'
         /\ \A id \in Defs : Done(id) => Done(id)'
         /\ \A m : Finished(m) => Finished(m)'
<1>1. /\ Defs' = Defs /\ Objects' = Objects /\ \A id : Def(id)' = Def(id)
      /\ \A scope, name : Resolve(scope, name)' = Resolve(scope, name)
  BY SameDefinitions
<1>2. ASSUME NEW id, Stored(id) PROVE Stored(id)'
  <2>1. ASSUME NEW r, r = Resolve(id[1], Def(id).meta) PROVE r = Resolve(id[1], Def(id).meta)' /\ Def(r)' = Def(r)
    BY <1>1, <2>1
  <2>2. \A r : r = Resolve(id[1], Def(id).meta) => r = Resolve(id[1], Def(id).meta)' /\ Def(r)' = Def(r)
    BY <2>1
  <2> QED
    BY <1>1, <1>2, <2>2 DEF Stored
<1>3. ASSUME NEW id \in Defs, Done(id) PROVE Done(id)'
  BY <1>1, <1>2, <1>3 DEF Done, Kept
<1> QED
  BY <1>1, <1>2, <1>3 DEF Finished

\* What compiling leaves alone.
LEMMA CompileFrame ==
  ASSUME Inv, phase = "compiling", phase' \in {"compiling", "failed", "crashed"}, UNCHANGED <<dir, reading, index>>
  PROVE  ReadingInv' /\ TreeInv' /\ NamesInv'
<1>1. UNCHANGED <<dir, loaded, unread, refused, unindexed, byName, tree>>
  BY DEF reading, index
<1>2. ReadingInv'
  BY <1>1 DEF Inv, ReadingInv
<1>3. TreeInv'
  BY <1>1 DEF Inv, TreeInv
<1>4. NamesInv'
  BY DEF NamesInv
<1> QED
  BY <1>2, <1>3, <1>4

\* A step inside the compilation of a module: what was called first is still there, or
\* it is done.
LEMMA WithinModule ==
  ASSUME Inv, phase = "compiling", UNCHANGED <<dir, phase, progress, reading, queue, failed, index>>,
         TypeOK', StackInv', Kept, OidInv', stashed \subseteq stashed',
         queue # <<>> =>
           \A id \in Defs :
             id[1] = Scope /\ (id[2] \in left \/ (stack # <<>> /\ stack[Len(stack)].id = id)) =>
                id[2] \in left' \/ (stack' # <<>> /\ stack'[Len(stack')].id = id) \/ Done(id)',
         \A id : stack' # <<>> /\ stack'[Len(stack')].at # 0 /\ id = stack'[Len(stack')].id => Stored(id)'
  PROVE  Inv'
<1>1. UNCHANGED <<dir, phase, progress, loaded, queue, failed>> /\ Scope' = Scope
  BY DEF reading, Scope
<1>2. /\ Defs' = Defs /\ \A id \in Defs : Done(id) => Done(id)'
      /\ \A m : Finished(m) => Finished(m)'
  BY <1>1, DoneKept
<1>3. \A m : (Ended(m)' <=> Ended(m)) /\ Visible(m)' = Visible(m)
  BY <1>1, SameDefinitions DEF Ended
<1>4. \A m : Ready(m)' <=> Ready(m)
  BY <1>3 DEF Ready
<1>5. DoneInv'
  <2>1. /\ \A m \in Modules : Ended(m) => Finished(m)
        /\ queue # <<>> =>
             \A id \in Defs : id[1] = Scope => id[2] \in left \/ (stack # <<>> /\ stack[Len(stack)].id = id) \/ Done(id)
    BY DEF Inv, DoneInv
  <2>2. \A m \in Modules : Ended(m)' => Finished(m)'
    BY <1>2, <1>3, <2>1
  <2>3. queue # <<>> =>
             \A id \in Defs : id[1] = Scope => id[2] \in left' \/ (stack' # <<>> /\ stack'[Len(stack')].id = id) \/ Done(id)'
    BY <1>2, <2>1
  <2> QED
    BY <1>1, <1>2, <2>2, <2>3 DEF DoneInv
<1>6. CorrectInv'
  BY <1>1, <1>4 DEF Inv, CorrectInv
<1>7. ReadingInv' /\ TreeInv' /\ NamesInv'
  BY CompileFrame
<1> QED
  BY <1>5, <1>6, <1>7 DEF Inv

\* The call that was made first has compiled its meta tokens, once it is at an element.
LEMMA FirstIsStored ==
  ASSUME Inv, stack # <<>>, Call.at # 0
  PROVE  Stored(stack[Len(stack)].id)
<1>1. /\ Len(stack) \in Nat \ {0} /\ DOMAIN stack = 1 .. Len(stack) /\ Call = stack[1]
      /\ Len(stack) \in DOMAIN stack
  BY CallFacts
<1>2. Len(stack) = 1 \/ Len(stack) > 1
  BY <1>1
<1>3. CASE Len(stack) > 1
  <2>1. \A i : i = Len(stack) => CallOK(i) /\ i > 1
    BY <1>1, <1>3 DEF Inv, StackInv
  <2>2. \A i : i = Len(stack) => stack[i].at # 0
    BY <2>1 DEF CallOK
  <2> QED
    BY <2>2 DEF Inv, DoneInv
<1> QED
  BY <1>1, <1>2, <1>3 DEF Inv, DoneInv

LEMMA MetaInv ==
  ASSUME Inv, CompileMeta
  PROVE Inv'
<1>1. /\ phase = "compiling" /\ stack # <<>> /\ Call.at = 0 /\ ~ MetaFails(Call.id)
      /\ UNCHANGED <<dir, phase, progress, reading, queue, failed, left, index>>
      /\ stashed \subseteq stashed'
      /\ Call.id \notin stashed /\ Def(Call.id).meta # NoName /\ Def(Meta(Call.id)).kind = "macro" => Call.id \in stashed'
  BY DEF CompileMeta
<1>2. /\ stack \in Seq(Calls) /\ Len(stack) \in Nat \ {0} /\ DOMAIN stack = 1 .. Len(stack) /\ Call = stack[1]
      /\ Len(stack) \in DOMAIN stack /\ stack[Len(stack)].id[1] = Scope
  BY <1>1, CallFacts DEF Inv, StackInv
<1>3. TypeOK' /\ StackInv' /\ Kept /\ OidInv'
  BY MetaStep
<1> DEFINE k == IF Def(Call.id).kind = "object" /\ compiled[Call.id] = <<>> THEN 1 ELSE Len(Def(Call.id).elements) + 1
<1>4. k \in Nat
  <2>1. Length(Call.id) \in Nat
    BY <1>1, CallFacts
  <2> QED
    BY <2>1 DEF Length
<1>5. stack' = [stack EXCEPT ![1].at = k]
  BY DEF CompileMeta
<1> HIDE DEF k
<1>6. /\ Len(stack') = Len(stack) /\ stack' # <<>>
      /\ stack'[1].id = stack[1].id
      /\ \A i \in 2 .. Len(stack) : stack'[i] = stack[i]
  BY <1>1, <1>2, <1>4, <1>5, Advance
<1>7. Len(stack) = 1 \/ Len(stack) \in 2 .. Len(stack)
  BY <1>2
<1>8. ASSUME NEW id, id = stack'[Len(stack')].id, stack'[Len(stack')].at # 0 PROVE Stored(id)'
  <2>1. CASE Len(stack) = 1
    <3>1. id = Call.id /\ id[1] = Scope
      BY <1>2, <1>6, <1>8, <2>1
    <3>2. \/ Def(id).meta = NoName
          \/ id \in stashed'
          \/ Resolve(id[1], Def(id).meta) # NotFound /\ Def(Resolve(id[1], Def(id).meta)).kind # "macro"
      BY <1>1, <3>1 DEF MetaFails, Meta
    <3>3. UNCHANGED <<dir, loaded>>
      BY <1>1 DEF reading
    <3>4. ASSUME NEW r, r = Resolve(id[1], Def(id).meta) PROVE r = Resolve(id[1], Def(id).meta)' /\ Def(r)' = Def(r)
      BY <3>3, <3>4, SameDefinitions
    <3>5. \A r : r = Resolve(id[1], Def(id).meta) => r = Resolve(id[1], Def(id).meta)' /\ Def(r)' = Def(r)
      BY <3>4
    <3>6. Def(id)' = Def(id)
      BY <3>3, SameDefinitions
    <3> QED
      BY <3>2, <3>5, <3>6 DEF Stored
  <2>2. CASE Len(stack) \in 2 .. Len(stack)
    <3>1. Stored(id)
      BY <1>1, <1>6, <1>8, <2>2 DEF Inv, DoneInv
    <3>2. UNCHANGED <<dir, loaded>>
      BY <1>1 DEF reading
    <3> QED
      BY <1>1, <1>3, <3>1, <3>2, DoneKept
  <2> QED
    BY <1>7, <2>1, <2>2
<1>9. stack'[Len(stack')].id = stack[Len(stack)].id
  BY <1>6, <1>7
<1> QED
  BY <1>1, <1>3, <1>6, <1>8, <1>9, WithinModule

LEMMA NumberOrIsoInv ==
  ASSUME Inv, CompileNumber \/ CompileIso
  PROVE Inv'
<1>0. PICK name : AtElement(name)
  BY DEF CompileNumber, CompileIso
<1>1. /\ phase = "compiling" /\ stack # <<>> /\ Call.at \in 1 .. Length(Call.id)
      /\ UNCHANGED <<dir, phase, progress, reading, queue, failed, left, stashed, index>>
      /\ stack' = [stack EXCEPT ![1].at = @ + 1]
  BY <1>0, AtElementFacts DEF CompileNumber, CompileIso
<1>2. /\ stack \in Seq(Calls) /\ Len(stack) \in Nat \ {0} /\ DOMAIN stack = 1 .. Len(stack) /\ Call = stack[1]
      /\ Length(Call.id) \in Nat
  BY <1>1, CallFacts
<1>3. TypeOK' /\ StackInv' /\ Kept /\ OidInv'
  BY NumberOrIsoStep
<1> DEFINE k == Call.at + 1
<1>4. k \in Nat /\ stack' = [stack EXCEPT ![1].at = k] /\ Call.at # 0
  BY <1>1, <1>2
<1> HIDE DEF k
<1>5. /\ Len(stack') = Len(stack) /\ stack' # <<>>
      /\ stack'[1].id = stack[1].id
      /\ \A i \in 2 .. Len(stack) : stack'[i] = stack[i]
  BY <1>1, <1>2, <1>4, Advance
<1>6. Len(stack) = 1 \/ Len(stack) \in 2 .. Len(stack)
  BY <1>2
<1>7. stack'[Len(stack')].id = stack[Len(stack)].id
  BY <1>5, <1>6
<1>8. \A id : id = stack'[Len(stack')].id => Stored(id)'
  <2>1. UNCHANGED <<dir, loaded>>
    BY <1>1 DEF reading
  <2>2. Stored(stack[Len(stack)].id)
    BY <1>1, <1>4, FirstIsStored
  <2> QED
    BY <1>1, <1>3, <1>7, <2>1, <2>2, DoneKept
<1> QED
  BY <1>1, <1>3, <1>5, <1>7, <1>8, WithinModule

LEMMA OtherInv ==
  ASSUME Inv, NEW name \in Names, CompileOther(name)
  PROVE Inv'
<1>0. AtElement(name)
  BY DEF CompileOther
<1>1. /\ phase = "compiling" /\ stack # <<>> /\ Call.at # 0
      /\ UNCHANGED <<dir, phase, progress, reading, queue, failed, left, stashed, index>>
      /\ stack' = <<[id |-> Resolve(Scope, name), at |-> 0]>> \o stack /\ Resolve(Scope, name) \in Objects
  BY <1>0, AtElementFacts DEF CompileOther
<1>2. stack \in Seq(Calls) /\ Len(stack) \in Nat \ {0} /\ Len(stack) \in 1 .. Len(stack)
  BY <1>1, CallFacts
<1>3. TypeOK' /\ StackInv' /\ Kept /\ OidInv'
  BY OtherStep
<1> DEFINE c == [id |-> Resolve(Scope, name), at |-> 0]
<1>4. c \in Calls
  BY <1>1 DEF Calls, Objects, Defs
<1> HIDE DEF c
<1>5. /\ Len(stack') = Len(stack) + 1 /\ stack' # <<>>
      /\ \A i \in 1 .. Len(stack) : stack'[i + 1] = stack[i]
  BY <1>1, <1>2, <1>4, Push DEF c
<1>6. stack'[Len(stack')].id = stack[Len(stack)].id
  BY <1>2, <1>5
<1>7. \A id : id = stack'[Len(stack')].id => Stored(id)'
  <2>1. UNCHANGED <<dir, loaded>>
    BY <1>1 DEF reading
  <2>2. Stored(stack[Len(stack)].id)
    BY <1>1, FirstIsStored
  <2> QED
    BY <1>1, <1>3, <1>6, <2>1, <2>2, DoneKept
<1> QED
  BY <1>1, <1>3, <1>5, <1>6, <1>7, WithinModule

LEMMA ReturnInv ==
  ASSUME Inv, ReturnCompiled
  PROVE Inv'
<1>1. /\ phase = "compiling" /\ stack # <<>> /\ Call.at > Length(Call.id)
      /\ UNCHANGED <<dir, phase, progress, reading, queue, failed, left, stashed, index>>
      /\ UNCHANGED <<dir, loaded>>
  BY DEF ReturnCompiled, Length, reading
<1>2. /\ stack \in Seq(Calls) /\ Len(stack) \in Nat \ {0} /\ DOMAIN stack = 1 .. Len(stack) /\ Call = stack[1]
      /\ Length(Call.id) \in Nat /\ Call.at \in 0 .. Length(Call.id) + 1 /\ CallOK(1)
      /\ (Call.id \in Objects => Length(Call.id) # 0)
  BY <1>1, CallFacts
<1>3. TypeOK' /\ StackInv' /\ Kept /\ OidInv'
  BY ReturnStep
<1>4. Call.at # 0 /\ Call.at = Length(Call.id) + 1
  BY <1>1, <1>2
<1>5. Stored(stack[Len(stack)].id)
  BY <1>1, <1>4, FirstIsStored
<1>6. CASE Len(stack) = 1
  <2>1. stack' = <<>>
    BY <1>6 DEF ReturnCompiled
  <2>2. Done(Call.id)
    <3>1. ~ Busy(Call.id)
      BY <1>1, <1>2, <1>4, CallFacts
    <3>2. Call.id \in Objects => compiled[Call.id] # <<>>
      <4>1. Call.id \in Objects => Call.at # 1
        BY <1>2, <1>4
      <4> QED
        BY <1>2, <1>4, <4>1 DEF CallOK
    <3> QED
      BY <1>2, <1>5, <1>6, <3>1, <3>2 DEF Done, Complete
  <2>3. \A id : id = Call.id => Done(id)'
    <3>1. Call.id \in Defs
      BY <1>1, CallFacts
    <3> QED
      BY <1>1, <1>3, <2>2, <3>1, DoneKept
  <2> QED
    BY <1>1, <1>2, <1>3, <1>6, <2>1, <2>3, WithinModule
<1>7. CASE Len(stack) # 1
  <2> DEFINE t == [Tail(stack) EXCEPT ![1].at = @ + 1]
  <2>1. stack' = t
    BY <1>7 DEF ReturnCompiled
  <2>2. /\ Len(t) = Len(stack) - 1 /\ t # <<>> /\ t[1].id = stack[2].id /\ 2 \in DOMAIN stack
        /\ \A i \in 2 .. Len(t) : t[i] = stack[i + 1]
    <3>1. stack \in Seq(Calls) /\ stack # <<>> /\ Len(stack) # 1
      BY <1>1, <1>2, <1>7
    <3> HIDE DEF Calls
    <3> QED
      BY <3>1, Pop
  <2> HIDE DEF t
  <2>3. t[Len(t)].id = stack[Len(stack)].id
    <3>1. (Len(t) = 1 /\ Len(stack) = 2) \/ (Len(t) \in 2 .. Len(t) /\ Len(t) + 1 = Len(stack))
      BY <1>2, <2>2
    <3> QED
      BY <2>2, <3>1
  <2>4. \A id : id = t[Len(t)].id => Stored(id)'
    BY <1>1, <1>3, <1>5, <2>3, DoneKept
  <2> QED
    BY <1>1, <1>3, <2>1, <2>2, <2>3, <2>4, WithinModule
<1> QED
  BY <1>6, <1>7

\* One more definition of the module.
LEMMA DefinitionInv ==
  ASSUME Inv, NEW name \in Names, CompileDefinition(name)
  PROVE Inv'
<1> DEFINE id == <<Scope, name>>
           c  == [id |-> id, at |-> 0]
<1>1. /\ phase = "compiling" /\ stack = <<>> /\ name \in left /\ left' = left \ {name}
      /\ stack' = IF Def(id).kind = "macro" THEN <<>> ELSE <<c>>
      /\ UNCHANGED <<dir, phase, progress, reading, queue, failed, compiled, stashed, index>>
      /\ UNCHANGED <<dir, loaded>> /\ Scope' = Scope
  BY DEF CompileDefinition, reading, Scope
<1>2. /\ TypeOK /\ queue \in Seq(Modules) /\ left \subseteq NamesOf(queue) /\ dir \in Directories /\ loaded \in SUBSET Modules
      /\ Range(queue) \subseteq loaded
  BY DEF Inv, TypeOK, StackInv
<1>3. queue # <<>> /\ name \in DOMAIN dir.definitions[Scope] /\ Scope \in loaded
  <2>1. queue # <<>> /\ name \in DOMAIN dir.definitions[Scope]
    BY <1>1, <1>2 DEF NamesOf, Scope
  <2> QED
    BY <1>2, <2>1, TailRange DEF Scope
<1>4. id \in Defs /\ id[1] = Scope /\ id[2] = name /\ id \in Ids
  BY <1>2, <1>3 DEF Defs, Ids
<1>5. Length(id) \in Nat
  BY <1>2, <1>4, DefFacts
<1>6. /\ c \in Calls /\ c.id = id /\ c.at = 0
  BY <1>4 DEF Calls
<1> HIDE DEF c, id
<1>7. /\ <<c>> \in Seq(Calls) /\ Len(<<c>>) = 1 /\ DOMAIN <<c>> = {1} /\ <<c>>[1] = c /\ <<c>> # <<>>
  BY <1>6
<1>8. /\ Defs' = Defs /\ Objects' = Objects /\ \A d : Length(d)' = Length(d)
  BY <1>1, SameDefinitions
<1>9. stack' \in Seq(Calls)
  BY <1>1, <1>7
<1>10. TypeOK'
  BY <1>1, <1>2, <1>9, CompileTypes DEF TypeOK
<1>11. StackInv'
  <2>1. CASE stack' = <<>>
    BY <1>1, <2>1 DEF Inv, StackInv
  <2>2. CASE stack' = <<c>>
    <3>1. CallOK(1)'
      <4>1. 0 \in 0 .. Length(id) + 1 /\ 0 \notin 1 .. Length(id)
        BY <1>5
      <4> QED
        BY <1>4, <1>6, <1>7, <1>8, <2>2, <4>1 DEF CallOK
    <3> QED
      BY <1>1, <1>3, <1>4, <1>6, <1>7, <2>2, <3>1 DEF Inv, StackInv
  <2> QED
    BY <1>1, <2>1, <2>2
<1>12. ASSUME NEW d PROVE ~ Busy(d)' /\ ~ Busy(d)
  <2>1. \A i \in DOMAIN stack' : stack'[i].at = 0
    BY <1>1, <1>6, <1>7
  <2>2. 0 \notin 1 .. Length(d)
    OBVIOUS
  <2> QED
    BY <1>1, <1>8, <2>1, <2>2 DEF Busy
<1>13. Kept /\ \A d \in Objects : Complete(d)' => Complete(d)
  BY <1>1, <1>12 DEF Kept, Complete
<1>14. stack' # <<>> => Call'.at = 0
  BY <1>1, <1>6, <1>7 DEF Call
<1>15. OidInv'
  BY <1>1, <1>13, <1>14, OidStep
<1>16. \A d \in Defs : d[1] = Scope /\ d[2] \in left => d[2] \in left' \/ (stack' # <<>> /\ stack'[Len(stack')].id = d) \/ Done(d)'
  <2>1. ASSUME NEW d \in Defs, d[1] = Scope, d[2] = name PROVE d = id
    <3>1. d = <<d[1], d[2]>>
      BY <1>2, DefFacts
    <3> QED
      BY <2>1, <3>1 DEF id
  <2>2. stack' = <<>> => id \notin Objects
    <3>1. stack' = <<>> => Def(id).kind = "macro"
      BY <1>1, <1>7
    <3> QED
      BY <3>1 DEF Objects
  <2>3. stack' = <<>> => \A d : d = id => Done(d)'
    BY <1>8, <2>2 DEF Done
  <2>4. stack' # <<>> => stack'[Len(stack')].id = id
    BY <1>1, <1>6, <1>7
  <2> QED
    BY <1>1, <2>1, <2>3, <2>4
<1>17. stack' # <<>> => stack'[Len(stack')].at = 0
  BY <1>1, <1>6, <1>7
<1> QED
  BY <1>1, <1>10, <1>11, <1>13, <1>15, <1>16, <1>17, WithinModule

\* A step that ends the compilation of a module, or begins another pass.
LEMMA BetweenModules ==
  ASSUME Inv, phase = "compiling", UNCHANGED <<dir, phase, reading, stashed, index>>,
         queue' \in Seq(Modules), failed' \in Seq(Modules), progress' \in BOOLEAN, left' = NamesOf(queue'),
         stack' = <<>>, compiled' \in [Ids -> Seq(Nat)], Kept, \A id \in Objects : Complete(id)' => Complete(id),
         Range(queue') \cup Range(failed') \subseteq loaded,
         \A m \in Modules : Ended(m)' => Finished(m),
         CorrectInv'
  PROVE  Inv'
<1>1. UNCHANGED <<dir, phase, loaded>> /\ Range(queue) \cup Range(failed) \subseteq loaded
  BY DEF reading, Inv, StackInv
<1>2. <<>> \in Seq(Calls) /\ stashed' \in SUBSET Ids
  BY DEF Inv, TypeOK
<1>3. TypeOK'
  BY <1>1, <1>2, CompileTypes
<1>4. StackInv'
  BY <1>1 DEF StackInv
<1>5. OidInv'
  BY <1>1, OidStep
<1>6. /\ Defs' = Defs /\ \A m : Finished(m) => Finished(m)'
  BY <1>1, DoneKept
<1>7. queue' # <<>> => \A id \in Defs' : id[1] = Scope' => id[2] \in left'
  BY DEF Defs, Scope, NamesOf
<1>8. DoneInv'
  BY <1>1, <1>6, <1>7 DEF DoneInv
<1>9. ReadingInv' /\ TreeInv' /\ NamesInv'
  BY CompileFrame
<1> QED
  BY <1>3, <1>4, <1>5, <1>8, <1>9 DEF Inv

LEMMA EndModuleInv ==
  ASSUME Inv, EndModule
  PROVE Inv'
<1>1. /\ phase = "compiling" /\ stack = <<>> /\ queue # <<>> /\ left = {}
      /\ progress' = TRUE /\ queue' = Tail(queue) /\ left' = NamesOf(queue')
      /\ UNCHANGED <<dir, phase, reading, failed, stack, compiled, stashed, index>>
      /\ UNCHANGED <<dir, loaded>>
  <2>1. NamesOf(queue') = NamesOf(queue)'
    BY DEF EndModule, NamesOf
  <2> QED
    BY <2>1 DEF EndModule, reading
<1>2. /\ queue \in Seq(Modules) /\ failed \in Seq(Modules) /\ compiled \in [Ids -> Seq(Nat)]
      /\ Range(queue) \cup Range(failed) \subseteq loaded
  BY DEF Inv, TypeOK, StackInv
<1>3. Range(queue) = {Scope} \cup Range(queue') /\ queue' \in Seq(Modules)
  BY <1>1, <1>2, TailRange DEF Scope
<1>4. \A id : ~ Busy(id)' /\ ~ Busy(id)
  BY <1>1 DEF Busy
<1>5. Kept /\ \A id \in Objects : Complete(id)' => Complete(id)
  BY <1>1, <1>4 DEF Kept, Complete
<1>6. ASSUME NEW m \in Modules, Ended(m)' PROVE Finished(m)
  <2>1. Finished(Scope)
    BY <1>1 DEF Inv, DoneInv, Finished
  <2>2. m # Scope => Ended(m)
    BY <1>1, <1>3, <1>6 DEF Ended
  <2> QED
    BY <1>1, <2>1, <2>2 DEF Inv, DoneInv
<1>7. CorrectInv'
  BY <1>1 DEF Inv, CorrectInv
<1> QED
  BY <1>1, <1>2, <1>3, <1>5, <1>6, <1>7, BetweenModules

LEMMA RetryInv ==
  ASSUME Inv, RetryCompiling
  PROVE Inv'
<1>1. /\ phase = "compiling" /\ queue = <<>> /\ queue' = failed /\ left' = NamesOf(queue') /\ failed' = <<>>
      /\ progress' = FALSE
      /\ UNCHANGED <<dir, phase, reading, stack, compiled, stashed, index>>
      /\ UNCHANGED <<dir, loaded>>
  BY DEF RetryCompiling, reading
<1>2. /\ failed \in Seq(Modules) /\ compiled \in [Ids -> Seq(Nat)]
      /\ Range(queue) \cup Range(failed) \subseteq loaded /\ stack = <<>>
  BY <1>1 DEF Inv, TypeOK, StackInv
<1>3. Range(queue) = {} /\ Range(failed') = {} /\ failed' \in Seq(Modules)
  BY <1>1, EmptyRange
<1>4. \A id : ~ Busy(id)' /\ ~ Busy(id)
  BY <1>1, <1>2 DEF Busy
<1>5. Kept /\ \A id \in Objects : Complete(id)' => Complete(id)
  BY <1>1, <1>4 DEF Kept, Complete
<1>6. ASSUME NEW m \in Modules, Ended(m)' PROVE Finished(m)
  <2>1. Ended(m)
    BY <1>1, <1>3, <1>6 DEF Ended
  <2> QED
    BY <1>1, <2>1 DEF Inv, DoneInv
<1>7. CorrectInv'
  BY <1>1, <1>3 DEF Inv, CorrectInv
<1> QED
  BY <1>1, <1>2, <1>3, <1>5, <1>6, <1>7, BetweenModules

LEMMA StartIndexingInv ==
  ASSUME Inv, StartIndexing
  PROVE Inv'
<1>1. /\ phase = "compiling" /\ queue = <<>> /\ failed = <<>> /\ phase' = "indexing" /\ unindexed' = Defs
      /\ UNCHANGED <<dir, progress, loaded, unread, refused, queue, failed, left, stack, compiled, stashed, byName, tree>>
  BY DEF StartIndexing, reading, compiling
<1>2. stack = <<>> /\ Range(queue) = {} /\ Range(failed) = {}
  BY <1>1, EmptyRange DEF Inv, StackInv
<1>3. Defs' = Defs /\ Objects' = Objects /\ \A q : NamesOf(q)' = NamesOf(q)
  BY <1>1, SameDefinitions
<1>4. TypeOK'
  BY <1>1 DEF Inv, TypeOK, NamesOf, Defs
<1>5. ReadingInv'
  BY <1>1 DEF Inv, ReadingInv
<1>6. StackInv'
  BY <1>1, <1>2 DEF Inv, StackInv
<1>7. Kept /\ \A id \in Objects : Complete(id)' => Complete(id)
  <2>1. \A id : ~ Busy(id)' /\ ~ Busy(id)
    BY <1>1, <1>2 DEF Busy
  <2> QED
    BY <1>1, <2>1 DEF Kept, Complete
<1>8. OidInv'
  BY <1>1, <1>2, <1>7, OidStep
<1>9. DoneInv'
  <2>1. ASSUME NEW id \in Defs PROVE Done(id)
    <3>1. Ended(id[1]) /\ id[1] \in Modules
      BY <1>2 DEF Ended, Defs, Ids
    <3> QED
      BY <1>1, <3>1 DEF Inv, DoneInv, Finished
  <2>2. \A id \in Defs : Done(id)'
    BY <1>1, <1>7, <2>1, DoneKept
  <2> QED
    BY <1>1, <1>2, <1>3, <2>2 DEF DoneInv
<1>10. CorrectInv'
  BY <1>1 DEF Inv, CorrectInv
<1>11. TreeInv' /\ NamesInv'
  <2>1. Indexed' = {}
    BY <1>1, <1>3 DEF Indexed, Objects
  <2> QED
    BY <1>1, <1>3, <2>1 DEF Inv, TreeInv, NamesInv
<1> QED
  BY <1>4, <1>5, <1>6, <1>8, <1>9, <1>10, <1>11 DEF Inv

-----------------------------------------------------------------------------
(* Correct directories.                                                     *)

\* A call that is not of a definition of the module itself is of one it sees.
LEMMA CallIsVisible ==
  ASSUME Inv, stack # <<>>
  PROVE  \/ Call.id[1] = Scope
         \/ Call.id \in Objects /\ Call.id[1] \in Visible(Scope)
<1>1. /\ Len(stack) \in Nat \ {0} /\ DOMAIN stack = 1 .. Len(stack) /\ Call = stack[1] /\ stack[Len(stack)].id[1] = Scope
      /\ Scope \in loaded /\ Builtin \in loaded /\ TypeOK
      /\ dir \in Directories /\ loaded \in SUBSET Modules
  BY CallFacts DEF Inv, StackInv
<1>2. CASE Len(stack) = 1
  BY <1>1, <1>2
<1>3. CASE Len(stack) # 1
  <2>1. 1 < Len(stack) /\ 2 \in DOMAIN stack /\ 1 \in DOMAIN stack /\ 2 > 1 /\ 2 - 1 = 1
    BY <1>1, <1>3
  <2>2. CallOK(1) /\ CallOK(2)
    BY <2>1 DEF Inv, StackInv
  <2>3. Call.id \in Objects
    BY <1>1, <2>1, <2>2 DEF CallOK
  <2>4. \A i : i = 2 /\ CallOK(i) =>
          /\ stack[i].id \in Defs /\ stack[i].at \in 1 .. Length(stack[i].id)
          /\ Def(stack[i].id).elements[stack[i].at].name # NoName
          /\ stack[i - 1].id = Resolve(Scope, Def(stack[i].id).elements[stack[i].at].name)
    BY <2>1 DEF CallOK
  <2>5. PICK name : name \in Names /\ Call.id = Resolve(Scope, name)
    BY <1>1, <2>1, <2>2, <2>4, DefFacts
  <2>6. Call.id[1] \in Visible(Scope) \cup {Scope}
    BY <1>1, <2>3, <2>5, ResolveFacts
  <2> QED
    BY <2>3, <2>6
<1> QED
  BY <1>2, <1>3

\* A module that is ready does not fail.
LEMMA FailsUnready ==
  ASSUME Inv, FailModule, dir \in CorrectDirectories
  PROVE  ~ Ready(Scope)
<1> SUFFICES ASSUME Ready(Scope) PROVE FALSE
  OBVIOUS
<1> DEFINE id == Call.id
<1>1. /\ stack # <<>> /\ phase = "compiling" /\ Correct(dir) /\ loaded = ModulesOf(dir)
  BY DEF FailModule, CorrectDirectories, Inv, ReadingInv
<1>2. /\ TypeOK /\ dir \in Directories /\ loaded \in SUBSET Modules /\ Builtin \in loaded
      /\ id \in Defs /\ Scope \in loaded /\ Scope \in Modules /\ id[1] \in loaded
  BY <1>1, CallFacts, DefFacts DEF Inv
<1>3. id[1] = Scope \/ (id \in Objects /\ Done(id))
  <2>1. id[1] = Scope \/ (id \in Objects /\ id[1] \in Visible(Scope))
    BY <1>1, CallIsVisible
  <2>2. ASSUME id[1] \in Visible(Scope), id[1] # Scope PROVE Done(id)
    <3>1. Ended(id[1])
      BY <2>2 DEF Ready
    <3> QED
      BY <1>1, <1>2, <3>1 DEF Inv, DoneInv, Finished
  <2> QED
    BY <2>1, <2>2
<1>4. ImportsOf(dir, Scope) \subseteq loaded
  BY <1>1, <1>2 DEF Correct
<1>5. /\ Def(id).sound
      /\ Def(id).meta # NoName =>
           /\ Resolve(id[1], Def(id).meta) # NotFound
           /\ Resolve(id[1], Def(id).meta)[1] = Builtin \/ Def(Resolve(id[1], Def(id).meta)).kind = "macro"
      /\ id \in Objects => \A name \in References(dir, id) : Resolve(id[1], name) \in Objects
  <2>1. /\ id \in IdsOf(dir) /\ DefinitionOf(dir, id) = Def(id) /\ (id \in Objects <=> id \in ObjectsOf(dir))
        /\ \A scope, name : Own(dir, scope, name) = Resolve(scope, name)
        /\ \A d : DefinitionOf(dir, d) = Def(d)
    BY <1>1, <1>2, SameAsDirectory
  <2>2. id \in ObjectsOf(dir) => Parents(dir, id) \subseteq ObjectsOf(dir)
    BY <1>1 DEF Correct
  <2>3. ObjectsOf(dir) = Objects
    BY <1>1, SameAsDirectory
  <2> HIDE DEF id
  <2>4. \A d \in IdsOf(dir) :
          /\ DefinitionOf(dir, d).sound
          /\ DefinitionOf(dir, d).meta # NoName =>
               /\ Own(dir, d[1], DefinitionOf(dir, d).meta) # NotFound
               /\ \/ Own(dir, d[1], DefinitionOf(dir, d).meta)[1] = Builtin
                  \/ DefinitionOf(dir, Own(dir, d[1], DefinitionOf(dir, d).meta)).kind = "macro"
    BY <1>1 DEF Correct
  <2>5. id \in ObjectsOf(dir) => \A name \in References(dir, id) : Own(dir, id[1], name) \in ObjectsOf(dir)
    BY <2>2 DEF Parents
  <2> QED
    BY <2>1, <2>3, <2>4, <2>5
<1>6. CASE MetaFails(id)
  <2>1. Def(id).meta # NoName /\ id \notin stashed /\ Resolve(Scope, Def(id).meta) = NotFound
    BY <1>5, <1>6 DEF MetaFails, Meta
  <2>2. id[1] # Scope /\ Stored(id)
    BY <1>3, <1>5, <2>1 DEF Done
  <2> DEFINE r == Resolve(id[1], Def(id).meta)
  <2>3. r # NotFound /\ r[1] = Builtin
    BY <1>5, <2>1, <2>2 DEF Stored
  <2>4. Def(id).meta \in Names
    BY <1>2, <2>1, DefFacts
  <2>5. r \in Defs /\ r[2] = Def(id).meta
    BY <1>2, <2>3, <2>4, ResolveFacts
  <2>6. Def(id).meta \in DOMAIN dir.definitions[Builtin]
    BY <2>3, <2>5 DEF Defs
  <2>7. Resolve(Scope, Def(id).meta) # NotFound
    BY <1>2, <1>4, <2>4, <2>6, LookupFacts DEF Resolve
  <2> QED
    BY <2>1, <2>7
<1>7. CASE ~ MetaFails(id)
  <2>1. PICK name \in Names \ {Iso} : AtElement(name) /\ Resolve(Scope, name) \notin Objects
    BY <1>7 DEF FailModule
  <2>2. /\ id \in Objects /\ ~ Complete(id) /\ name = Def(id).elements[Call.at].name /\ Call.at \in 1 .. Length(id)
    BY <2>1, AtElementFacts
  <2>3. id[1] = Scope
    BY <1>3, <2>2 DEF Done
  <2>4. name \in References(dir, id)
    <3>1. Def(id).elements \in Seq(Element) /\ name # NoName
      BY <1>2, DefFacts, DirectoryFacts
    <3>2. Call.at \in DOMAIN Def(id).elements
      BY <2>2, <3>1 DEF Length
    <3> QED
      BY <1>1, <2>1, <2>2, <3>1, <3>2, SameAsDirectory DEF References
  <2> QED
    BY <1>5, <2>1, <2>2, <2>3, <2>4
<1> QED
  BY <1>6, <1>7

LEMMA FailModuleInv ==
  ASSUME Inv, FailModule
  PROVE Inv'
<1>1. /\ phase = "compiling" /\ stack # <<>> /\ stack' = <<>> /\ failed' = Append(failed, Scope) /\ queue' = Tail(queue)
      /\ left' = NamesOf(queue')
      /\ UNCHANGED <<dir, phase, progress, reading, stashed, index>>
      /\ UNCHANGED <<dir, loaded>>
  <2>1. NamesOf(queue') = NamesOf(queue)'
    BY DEF FailModule, NamesOf
  <2> QED
    BY <2>1 DEF FailModule, reading
<1>2. /\ queue \in Seq(Modules) /\ queue # <<>> /\ failed \in Seq(Modules) /\ compiled \in [Ids -> Seq(Nat)]
      /\ Range(queue) \cup Range(failed) \subseteq loaded /\ progress \in BOOLEAN
      /\ Call.id \in Ids /\ Scope \in loaded /\ loaded \in SUBSET Modules
      /\ Call = stack[1] /\ (Busy(Call.id) <=> Call.at \in 1 .. Length(Call.id)) /\ DOMAIN stack = 1 .. Len(stack)
  BY <1>1, CallFacts DEF Inv, TypeOK, StackInv
<1>3. Range(queue) = {Scope} \cup Range(queue') /\ queue' \in Seq(Modules)
  BY <1>1, <1>2, TailRange DEF Scope
<1>4. Range(failed') = Range(failed) \cup {Scope} /\ failed' \in Seq(Modules)
  BY <1>1, <1>2, AppendRange
<1>5. \/ compiled' = compiled /\ ~ Busy(Call.id)
      \/ Busy(Call.id) /\ compiled' = [compiled EXCEPT ![Call.id] = <<>>]
  <2>1. CASE Call.at = 0 /\ MetaFails(Call.id) /\ UNCHANGED compiled
    <3>1. Call.at \notin 1 .. Length(Call.id)
      BY <2>1
    <3> QED
      BY <1>2, <2>1, <3>1
  <2>2. ASSUME NEW name, AtElement(name), compiled' = [compiled EXCEPT ![Call.id] = <<>>]
        PROVE  Busy(Call.id) /\ compiled' = [compiled EXCEPT ![Call.id] = <<>>]
    BY <2>2, AtElementFacts
  <2> QED
    BY <2>1, <2>2 DEF FailModule
<1>6. /\ compiled' \in [Ids -> Seq(Nat)]
      /\ \A id \in Ids : compiled'[id] = compiled[id] \/ (compiled'[id] = <<>> /\ id = Call.id /\ Busy(id))
      /\ Busy(Call.id) => compiled'[Call.id] = <<>>
  <2>1. <<>> \in Seq(Nat)
    OBVIOUS
  <2> QED
    BY <1>2, <1>5, <2>1
<1>7. \A id : ~ Busy(id)'
  BY <1>1 DEF Busy
<1>8. ASSUME NEW id \in Objects
      PROVE  /\ Complete(id) => Complete(id)' /\ compiled'[id] = compiled[id]
             /\ Complete(id)' => Complete(id)
  <2>1. id \in Ids
    BY DEF Objects, Defs
  <2>2. Complete(id) => Complete(id)' /\ compiled'[id] = compiled[id]
    BY <1>6, <1>7, <2>1 DEF Complete
  <2>3. ASSUME Busy(id) PROVE compiled'[id] = <<>>
    <3>1. PICK i \in DOMAIN stack : stack[i].id = id /\ stack[i].at \in 1 .. Length(id)
      BY <2>3 DEF Busy
    <3>2. CASE i = 1
      BY <1>2, <1>6, <2>3, <3>1, <3>2
    <3>3. CASE i # 1
      <4>1. i > 1 /\ CallOK(i)
        BY <1>2, <3>1, <3>3 DEF Inv, StackInv
      <4>2. compiled[id] = <<>>
        BY <3>1, <4>1 DEF CallOK
      <4> QED
        BY <1>6, <2>1, <4>2
    <3> QED
      BY <3>2, <3>3
  <2>4. Complete(id)' => Complete(id)
    BY <1>6, <2>1, <2>3 DEF Complete
  <2> QED
    BY <2>2, <2>4
<1>9. Kept /\ \A id \in Objects : Complete(id)' => Complete(id)
  BY <1>8 DEF Kept
<1>10. \A m : (Ended(m)' <=> Ended(m)) /\ Visible(m)' = Visible(m)
  BY <1>1, <1>3, <1>4, SameDefinitions DEF Ended
<1>11. \A m \in Modules : Ended(m)' => Finished(m)
  BY <1>1, <1>10 DEF Inv, DoneInv
<1>12. CorrectInv'
  <2>1. \A m : Ready(m)' <=> Ready(m)
    BY <1>10 DEF Ready
  <2>2. dir \in CorrectDirectories => ~ Ready(Scope)
    BY FailsUnready
  <2> QED
    BY <1>1, <1>4, <2>1, <2>2 DEF Inv, CorrectInv
<1> QED
  BY <1>1, <1>2, <1>3, <1>4, <1>6, <1>9, <1>11, <1>12, BetweenModules

\* Of the modules that have failed one is ready, if there is no circle of imports.
LEMMA SomethingCompiles ==
  ASSUME Inv, FailCompiling
  PROVE  dir \notin CorrectDirectories \cap WellScopedDirectories
<1> SUFFICES ASSUME dir \in CorrectDirectories, dir \in WellScopedDirectories PROVE FALSE
  OBVIOUS
<1> DEFINE S == Range(failed)
<1>1. /\ phase = "compiling" /\ queue = <<>> /\ failed # <<>> /\ ~ progress /\ Correct(dir)
      /\ dir \in Directories /\ failed \in Seq(Modules) /\ S \subseteq loaded /\ loaded = ModulesOf(dir) /\ Builtin \in loaded
      /\ loaded \subseteq Modules
  BY DEF FailCompiling, CorrectDirectories, Inv, TypeOK, StackInv, ReadingInv
<1>2. S # {} /\ Range(queue) = {}
  BY <1>1, TailRange, EmptyRange
<1>3. \A m \in S : ~ Ready(m)
  BY <1>1 DEF Inv, CorrectInv
<1>4. \A m \in loaded : Ended(m) <=> m \notin S
  BY <1>2 DEF Ended
<1>5. CASE Builtin \in S
  <2>1. Visible(Builtin) = {Builtin}
    BY <1>1, DirectoryFacts DEF Visible, ImportsOf
  <2> QED
    BY <1>3, <1>5, <2>1 DEF Ready
<1>6. CASE Builtin \notin S
  <2>1. PICK m \in S : ImportsOf(dir, m) \cap S = {}
    BY <1>1, <1>2 DEF Correct
  <2>2. ImportsOf(dir, m) \subseteq loaded
    BY <1>1, <2>1 DEF Correct
  <2>3. Ready(m)
    BY <1>1, <1>4, <1>6, <2>1, <2>2 DEF Ready, Visible
  <2> QED
    BY <1>3, <2>1, <2>3
<1> QED
  BY <1>5, <1>6

\* What the calls go round is a circle of objects.
LEMMA NoCircle ==
  ASSUME Inv, NEW name \in Names, CompileCircle(name)
  PROVE  dir \notin CorrectDirectories \cap WellScopedDirectories
<1> SUFFICES ASSUME dir \in CorrectDirectories, dir \in WellScopedDirectories PROVE FALSE
  OBVIOUS
<1>1. /\ stack # <<>> /\ phase = "compiling" /\ Correct(dir) /\ loaded = ModulesOf(dir) /\ TypeOK
      /\ AtElement(name) /\ name # Iso
  BY DEF CompileCircle, AtElement, CorrectDirectories, Inv, ReadingInv
<1>2. /\ Call = stack[1] /\ Scope \in loaded /\ Len(stack) \in Nat \ {0} /\ DOMAIN stack = 1 .. Len(stack)
      /\ dir \in Directories /\ loaded \in SUBSET Modules /\ NoName \notin Names
  BY <1>1, CallFacts, DirectoryFacts
<1>3. PICK j \in DOMAIN stack : stack[j].id = Resolve(Scope, name)
  BY DEF CompileCircle, Called
<1>4. \A i \in DOMAIN stack : CallOK(i)
  BY DEF Inv, StackInv
<1> DEFINE C == {stack[i].id : i \in 1 .. j}
<1>5. ASSUME NEW i \in 1 .. j
      PROVE  /\ i \in DOMAIN stack /\ stack[i].id \in Objects
             /\ \E k \in 1 .. Length(stack[i].id) :
                  /\ Def(stack[i].id).elements[k].name \notin {NoName, Iso}
                  /\ Resolve(Scope, Def(stack[i].id).elements[k].name) \in C
  <2>1. i \in DOMAIN stack /\ j \in 1 .. j /\ i >= 1
    BY <1>2
  <2>2. CASE i = 1
    <3>1. /\ Call.id \in Objects /\ name = Def(Call.id).elements[Call.at].name /\ Call.at \in 1 .. Length(Call.id)
      BY <1>1, AtElementFacts
    <3>2. Resolve(Scope, name) \in C
      BY <1>3, <2>1
    <3> HIDE DEF C
    <3> QED
      BY <1>1, <1>2, <2>1, <2>2, <3>1, <3>2
  <2>3. CASE i # 1
    <3>1. i > 1 /\ i - 1 \in 1 .. j /\ CallOK(i)
      BY <1>2, <1>4, <2>1, <2>3
    <3>2. stack[i - 1].id \in C
      BY <3>1
    <3> HIDE DEF C
    <3>3. \A h : h = i => /\ stack[h].at \in 1 .. Length(stack[h].id) /\ stack[h].id \in Objects
                          /\ Def(stack[h].id).elements[stack[h].at].name \notin {NoName, Iso}
                          /\ stack[h - 1].id = Resolve(Scope, Def(stack[h].id).elements[stack[h].at].name)
      BY <3>1 DEF CallOK
    <3> QED
      BY <2>1, <3>2, <3>3
  <2> QED
    BY <2>2, <2>3
<1>6. C # {} /\ C \subseteq Objects
  <2>1. 1 \in 1 .. j
    BY <1>2
  <2> QED
    BY <1>5, <2>1
<1>7. ASSUME NEW id \in C PROVE Parents(dir, id) \cap C # {}
  <2>1. PICK i \in 1 .. j : id = stack[i].id
    OBVIOUS
  <2> HIDE DEF C
  <2>2. id \in Objects
    BY <1>6
  <2>3. PICK k \in 1 .. Length(id) : /\ Def(id).elements[k].name \notin {NoName, Iso}
                                     /\ Resolve(Scope, Def(id).elements[k].name) \in C
    BY <1>5, <2>1
  <2>4. Resolve(id[1], Def(id).elements[k].name) = Resolve(Scope, Def(id).elements[k].name)
    BY <1>1, <1>2, <1>6, <2>2, <2>3, SameMeaning
  <2>5. Def(id).elements[k].name \in References(dir, id)
    <3>1. Def(id).elements \in Seq(Element)
      BY <1>2, <2>2, DefFacts DEF Objects
    <3>2. k \in DOMAIN Def(id).elements
      BY <2>3, <3>1 DEF Length
    <3> QED
      BY <1>1, <2>3, <3>2, SameAsDirectory DEF References
  <2>6. Own(dir, id[1], Def(id).elements[k].name) \in Parents(dir, id)
    BY <2>5 DEF Parents
  <2>7. Own(dir, id[1], Def(id).elements[k].name) = Resolve(id[1], Def(id).elements[k].name)
    BY <1>1, SameAsDirectory
  <2> QED
    BY <2>3, <2>4, <2>6, <2>7
<1> HIDE DEF C
<1>8. C \in SUBSET ObjectsOf(dir)
  BY <1>1, <1>6, SameAsDirectory
<1>9. \A S \in SUBSET ObjectsOf(dir) : S # {} => \E id \in S : Parents(dir, id) \cap S = {}
  BY <1>1 DEF Correct
<1> QED
  BY <1>6, <1>7, <1>8, <1>9

\* The program stops, or gives up.
LEMMA StopInv ==
  ASSUME Inv, phase = "compiling", phase' \in {"failed", "crashed"}, UNCHANGED <<dir, progress, reading, compiling, index>>,
         dir \notin CorrectDirectories \cap WellScopedDirectories
  PROVE  Inv'
<1>1. UNCHANGED <<dir, progress, loaded, unread, refused, queue, failed, left, stack, compiled, stashed, unindexed, byName, tree>>
  BY DEF reading, compiling, index
<1>2. TypeOK'
  BY <1>1 DEF Inv, TypeOK, NamesOf
<1>3. /\ Defs' = Defs /\ Objects' = Objects /\ Scope' = Scope
      /\ \A id : Def(id)' = Def(id) /\ Length(id)' = Length(id)
      /\ \A scope, name : Resolve(scope, name)' = Resolve(scope, name)
  BY <1>1, SameDefinitions DEF Scope
<1>4. StackInv'
  <2>1. ASSUME NEW i \in DOMAIN stack PROVE CallOK(i)'
    <3>1. CallOK(i)
      BY DEF Inv, StackInv
    <3> QED
      BY <1>1, <1>3, <3>1 DEF CallOK
  <2> QED
    BY <1>1, <1>3, <2>1 DEF Inv, StackInv
<1>5. \A id : Busy(id)' <=> Busy(id)
  BY <1>1, <1>3 DEF Busy
<1>6. Kept /\ \A id \in Objects : Complete(id)' => Complete(id)
  BY <1>1, <1>5 DEF Kept, Complete
<1>7. OidInv'
  <2>1. ASSUME NEW m, m = Scope, NEW id \in Objects, NEW k \in Nat, stack # <<>>, Call.id = id, Call.at = k + 1
        PROVE  RightTo(m, id, k)' \/ (Complete(id) /\ k = Length(id))
    <3>1. CASE k < Length(id)
      <4>1. RightTo(m, id, k)
        BY <2>1, <3>1 DEF Inv, OidInv
      <4> QED
        BY <1>1, <1>6, <4>1, RightKept
    <3>2. CASE ~ (k < Length(id))
      <4>1. /\ Length(id) \in Nat \ {0} /\ Call.at \in 0 .. Length(id) + 1 /\ CallOK(1) /\ Call = stack[1]
            /\ Busy(id) <=> Call.at \in 1 .. Length(id)
        BY <2>1, CallFacts
      <4>2. k = Length(id) /\ Call.at # 0 /\ Call.at # 1 /\ Call.at \notin 1 .. Length(id)
        BY <2>1, <3>2, <4>1
      <4>3. compiled[id] # <<>>
        BY <2>1, <4>1, <4>2 DEF CallOK
      <4> QED
        BY <4>1, <4>2, <4>3 DEF Complete
    <3> QED
      BY <3>1, <3>2
  <2>2. Call' = Call /\ Scope' = Scope
    BY <1>1, <1>3 DEF Call
  <2> QED
    BY <1>1, <1>6, <2>1, <2>2, OidStep
<1>8. DoneInv'
  <2>1. \A id : Stored(id) => Stored(id)'
    BY <1>1, <1>6, DoneKept
  <2> QED
    BY <1>1, <2>1 DEF Inv, DoneInv
<1>9. CorrectInv'
  BY <1>1 DEF CorrectInv
<1>10. ReadingInv' /\ TreeInv' /\ NamesInv'
  BY CompileFrame
<1> QED
  BY <1>2, <1>4, <1>7, <1>8, <1>9, <1>10 DEF Inv

LEMMA CompilingStep ==
  ASSUME Inv, Compile
  PROVE Inv'
<1>1. CASE CompileMeta
  BY <1>1, MetaInv
<1>2. CASE CompileNumber \/ CompileIso
  BY <1>2, NumberOrIsoInv
<1>3. CASE ReturnCompiled
  BY <1>3, ReturnInv
<1>4. CASE FailModule
  BY <1>4, FailModuleInv
<1>5. CASE EndModule
  BY <1>5, EndModuleInv
<1>6. CASE RetryCompiling
  BY <1>6, RetryInv
<1>7. CASE StartIndexing
  BY <1>7, StartIndexingInv
<1>8. CASE FailCompiling
  <2>1. phase = "compiling" /\ phase' = "failed" /\ UNCHANGED <<dir, progress, reading, compiling, index>>
    BY <1>8 DEF FailCompiling
  <2> QED
    BY <1>8, <2>1, SomethingCompiles, StopInv
<1>9. ASSUME NEW name \in Names, CompileDefinition(name) \/ CompileOther(name) \/ CompileCircle(name) PROVE Inv'
  <2>1. CASE CompileDefinition(name)
    BY <2>1, DefinitionInv
  <2>2. CASE CompileOther(name)
    BY <2>2, OtherInv
  <2>3. CASE CompileCircle(name)
    <3>1. phase = "compiling" /\ phase' = "crashed" /\ UNCHANGED <<dir, progress, reading, compiling, index>>
      BY <2>3 DEF CompileCircle, AtElement
    <3> QED
      BY <2>3, <3>1, NoCircle, StopInv
  <2> QED
    BY <1>9, <2>1, <2>2, <2>3
<1> QED
  BY <1>1, <1>2, <1>3, <1>4, <1>5, <1>6, <1>7, <1>8, <1>9 DEF Compile

-----------------------------------------------------------------------------
(* The tree of OIDs.                                                        *)

PrefixClosed(t) == \A branch \in DOMAIN t : \A k \in 0 .. Len(branch) : SubSeq(branch, 1, k) \in DOMAIN t

\* The first arcs of the first arcs.
LEMMA PrefixFacts ==
  ASSUME NEW oid \in Seq(Nat), NEW k \in 0 .. Len(oid)
  PROVE  /\ SubSeq(oid, 1, k) \in Seq(Nat) /\ Len(SubSeq(oid, 1, k)) = k
         /\ SubSeq(oid, 1, Len(oid)) = oid
         /\ \A j \in 0 .. k : SubSeq(SubSeq(oid, 1, k), 1, j) = SubSeq(oid, 1, j)
<1>1. SubSeq(oid, 1, k) \in Seq(Nat) /\ Len(SubSeq(oid, 1, k)) = k /\ SubSeq(oid, 1, Len(oid)) = oid
  OBVIOUS
<1>2. ASSUME NEW j \in 0 .. k PROVE SubSeq(SubSeq(oid, 1, k), 1, j) = SubSeq(oid, 1, j)
  OBVIOUS
<1> QED
  BY <1>1, <1>2

\* addDefinition makes the way to the definition, and changes nothing else.
LEMMA AddFacts ==
  ASSUME NEW t, PrefixClosed(t), \A branch \in DOMAIN t : branch \in Seq(Nat), NEW oid \in Seq(Nat), NEW def
  PROVE  LET u == AddDefinition(t, oid, def)
         IN  /\ DOMAIN t \subseteq DOMAIN u /\ oid \in DOMAIN u /\ u[oid] = def
             /\ \A branch \in DOMAIN t : branch # oid => u[branch] = t[branch]
             /\ \A branch \in DOMAIN u : branch \notin DOMAIN t /\ branch # oid => u[branch] = NoDefinition
             /\ \A branch \in DOMAIN u : branch \in Seq(Nat)
             /\ PrefixClosed(u)
<1> DEFINE u == AddDefinition(t, oid, def)
<1>1. DOMAIN u = DOMAIN t \cup Prefixes(oid)
  BY DEF AddDefinition
<1>2. Len(oid) \in 0 .. Len(oid) /\ Len(oid) \in Nat
  OBVIOUS
<1>3. oid \in Prefixes(oid) /\ \A p \in Prefixes(oid) : p \in Seq(Nat)
  BY <1>2, PrefixFacts DEF Prefixes
<1>4. \A branch \in DOMAIN u : u[branch] = CASE branch = oid -> def
                                              [] branch \in DOMAIN t \ {oid} -> t[branch]
                                              [] OTHER -> NoDefinition
  BY DEF AddDefinition
<1> HIDE DEF u
<1>5. ASSUME NEW branch \in DOMAIN u, NEW k \in 0 .. Len(branch) PROVE SubSeq(branch, 1, k) \in DOMAIN u
  <2>1. CASE branch \in DOMAIN t
    BY <1>1, <1>5, <2>1 DEF PrefixClosed
  <2>2. CASE branch \in Prefixes(oid)
    <3>1. PICK n \in 0 .. Len(oid) : branch = SubSeq(oid, 1, n)
      BY <2>2 DEF Prefixes
    <3>2. k \in 0 .. n /\ n \in Nat
      BY <1>2, <3>1, PrefixFacts
    <3>3. SubSeq(branch, 1, k) = SubSeq(oid, 1, k) /\ k \in 0 .. Len(oid)
      BY <1>2, <3>1, <3>2, PrefixFacts
    <3> QED
      BY <1>1, <3>3 DEF Prefixes
  <2> QED
    BY <1>1, <2>1, <2>2
<1>6. PrefixClosed(u)
  BY <1>5 DEF PrefixClosed
<1> QED
  BY <1>1, <1>3, <1>4, <1>6 DEF u

\* findOID answers with the longest prefix of an OID that has a definition.
LEMMA FindFacts ==
  ASSUME NEW t, PrefixClosed(t), NEW oid \in Seq(Nat), NEW defined,
         \A branch \in DOMAIN t : branch \in defined <=> t[branch] # NoDefinition,
         defined \subseteq DOMAIN t
  PROVE  FindOID(t, oid) = LongestDefined(defined, oid)
<1> DEFINE n == Len(oid)
           p(k) == SubSeq(oid, 1, k)
           way(k) == p(k) \in DOMAIN t
           def(k) == p(k) \in defined
           S(k) == {k} \cup {j \in k + 1 .. n : def(j)}
           longest(k) == Max(S(k))
           step(g, k) == IF k = n \/ p(k + 1) \notin DOMAIN t THEN k
                         ELSE IF t[p(g[k + 1])] = NoDefinition THEN k ELSE g[k + 1]
           find == CHOOSE f : f = [k \in 0 .. n |-> step(f, k)]
<1>1. FindOID(t, oid) = find[0]
  BY DEF FindOID
<1>2. n \in Nat
  OBVIOUS
<1>3. ASSUME NEW j \in 0 .. n, NEW i \in 0 .. j, way(j) PROVE way(i)
  <2>1. Len(p(j)) = j /\ SubSeq(p(j), 1, i) = p(i)
    BY <1>3, PrefixFacts
  <2>2. SubSeq(p(j), 1, i) \in DOMAIN t
    BY <1>3, <2>1 DEF PrefixClosed
  <2> QED
    BY <2>1, <2>2
<1>4. \A k : (def(k) => way(k)) /\ (way(k) => (def(k) <=> t[p(k)] # NoDefinition))
  OBVIOUS
<1>5. LongestDefined(defined, oid) = longest(0)
  <2>1. {0} \cup {k \in 1 .. Len(oid) : SubSeq(oid, 1, k) \in defined} = S(0)
    BY DEF S
  <2> QED
    BY <2>1 DEF LongestDefined
<1> HIDE DEF n, p, way, def
<1>6. ASSUME NEW k \in 0 .. n
      PROVE  /\ longest(k) \in k .. n /\ (longest(k) = k \/ def(longest(k)))
             /\ \A j \in k + 1 .. n : def(j) => j <= longest(k)
  <2>1. S(k) \in SUBSET Nat /\ S(k) # {} /\ \A y \in S(k) : y <= n
    BY <1>2
  <2>2. Max(S(k)) \in S(k) /\ \A y \in S(k) : y <= Max(S(k))
    <3> HIDE DEF S
    <3> QED
      BY <1>2, <2>1, Greatest
  <2> QED
    BY <1>2, <2>2
<1> HIDE DEF longest
<1>7. ASSUME NEW k \in 0 .. n, NEW g, k # n => g[k + 1] = longest(k + 1)
      PROVE  step(g, k) = longest(k)
  <2>1. CASE k = n
    BY <1>2, <1>6, <2>1
  <2>2. CASE k # n /\ ~ way(k + 1)
    <3>1. step(g, k) = k
      BY <2>2 DEF way
    <3>2. longest(k) = k
      <4>1. SUFFICES ASSUME longest(k) # k PROVE FALSE
        OBVIOUS
      <4>2. way(longest(k)) /\ longest(k) \in 0 .. n /\ k + 1 \in 0 .. longest(k)
        BY <1>2, <1>4, <1>6, <4>1
      <4> QED
        BY <1>3, <2>2, <4>2
    <3> QED
      BY <3>1, <3>2
  <2>3. CASE k # n /\ way(k + 1)
    <3> DEFINE f == longest(k + 1)
    <3>1. k + 1 \in 0 .. n /\ k \in Nat
      BY <1>2, <2>3
    <3>2. f \in k + 1 .. n /\ (f = k + 1 \/ def(f)) /\ \A j \in k + 1 + 1 .. n : def(j) => j <= f
      BY <1>6, <3>1
    <3>3. longest(k) \in k .. n /\ (longest(k) = k \/ def(longest(k))) /\ \A j \in k + 1 .. n : def(j) => j <= longest(k)
      BY <1>6
    <3>4. step(g, k) = IF t[p(f)] = NoDefinition THEN k ELSE f
      BY <1>7, <2>3 DEF way
    <3>5. way(f)
      BY <1>4, <2>3, <3>2
    <3> HIDE DEF f, step
    <3>6. CASE def(f)
      <4>1. f <= longest(k) /\ longest(k) \in k + 1 .. n /\ def(longest(k))
        BY <1>2, <3>1, <3>2, <3>3, <3>6
      <4>2. longest(k) <= f
        BY <1>2, <3>1, <3>2, <4>1
      <4> QED
        BY <1>2, <1>4, <3>1, <3>2, <3>4, <3>5, <3>6, <4>1, <4>2
    <3>7. CASE ~ def(f)
      <4>1. longest(k) = k
        BY <1>2, <3>1, <3>2, <3>3, <3>7
      <4> QED
        BY <1>4, <3>4, <3>5, <3>7, <4>1
    <3> QED
      BY <3>6, <3>7
  <2> QED
    BY <2>1, <2>2, <2>3
<1>8. find = [k \in 0 .. n |-> step(find, k)]
  <2> DEFINE g == [k \in 0 .. n |-> longest(k)]
  <2>1. \A k \in 0 .. n : k # n => g[k + 1] = longest(k + 1)
    BY <1>2
  <2>2. \A k \in 0 .. n : step(g, k) = longest(k)
    <3> HIDE DEF g, step
    <3> QED
      BY <1>7, <2>1
  <2>3. g = [k \in 0 .. n |-> step(g, k)]
    <3> HIDE DEF step
    <3> QED
      BY <2>2
  <2> HIDE DEF g, step
  <2> QED
    BY <2>3
<1>9. find[0] = longest(0)
  <2> HIDE DEF find
  <2>1. \A k \in 0 .. n : find[k] = step(find, k)
    <3> HIDE DEF step
    <3> QED
      BY <1>8
  <2> HIDE DEF step
  <2> DEFINE bad == {m \in 0 .. n : find[n - m] # longest(n - m)}
  <2>2. bad = {}
    <3>1. SUFFICES ASSUME bad # {} PROVE FALSE
      OBVIOUS
    <3>7. bad \in SUBSET Nat
      BY <1>2
    <3>2. PICK m \in bad : \A l \in bad : m <= l
      <4> HIDE DEF bad
      <4> QED
        BY <3>1, <3>7, Least
    <3>3. n - m \in 0 .. n /\ (n - m # n => m - 1 \in 0 .. n /\ n - (m - 1) = n - m + 1 /\ m - 1 \notin bad)
      <4>1. m \in 0 .. n
        OBVIOUS
      <4>2. m - 1 \notin bad
        <5>1. m - 1 \in bad => m <= m - 1
          BY <3>2
        <5> HIDE DEF bad
        <5> QED
          BY <1>2, <4>1, <5>1
      <4> HIDE DEF bad
      <4> QED
        BY <1>2, <4>1, <4>2
    <3>4. n - m # n => find[n - m + 1] = longest(n - m + 1)
      BY <3>3
    <3>5. step(find, n - m) = longest(n - m)
      BY <1>7, <3>3, <3>4
    <3>6. find[n - m] = longest(n - m)
      BY <2>1, <3>3, <3>5
    <3> QED
      BY <3>2, <3>6
  <2>3. n \in 0 .. n /\ n - n = 0
    BY <1>2
  <2> QED
    BY <2>2, <2>3
<1> QED
  BY <1>1, <1>5, <1>9

-----------------------------------------------------------------------------
(* Indexing.                                                                *)

\* What indexing leaves alone.
LEMMA IndexFrame ==
  ASSUME Inv, phase = "indexing", phase' \in {"indexing", "ready"}, UNCHANGED <<dir, progress, reading, compiling>>
  PROVE  /\ ReadingInv' /\ StackInv' /\ OidInv' /\ DoneInv' /\ CorrectInv'
         /\ Defs' = Defs /\ Objects' = Objects /\ compiled' = compiled
<1>1. /\ UNCHANGED <<dir, progress, loaded, unread, refused, queue, failed, left, stack, compiled, stashed>>
      /\ stack = <<>>
  BY DEF Inv, StackInv, reading, compiling
<1>2. ReadingInv'
  BY <1>1 DEF Inv, ReadingInv
<1>3. StackInv'
  BY <1>1 DEF Inv, StackInv
<1>4. Kept /\ \A id \in Objects : Complete(id)' => Complete(id)
  <2>1. \A id : ~ Busy(id)' /\ ~ Busy(id)
    BY <1>1 DEF Busy
  <2> QED
    BY <1>1, <2>1 DEF Kept, Complete
<1>5. OidInv'
  BY <1>1, <1>4, OidStep
<1>6. DoneInv'
  <2>1. Defs' = Defs /\ \A id \in Defs : Done(id) => Done(id)'
    BY <1>1, <1>4, DoneKept
  <2> QED
    BY <1>1, <2>1 DEF Inv, DoneInv
<1>7. CorrectInv'
  BY <1>1 DEF Inv, CorrectInv
<1> QED
  BY <1>1, <1>2, <1>3, <1>5, <1>6, <1>7, SameDefinitions

LEMMA IndexStep ==
  ASSUME Inv, NEW id \in Ids, IndexDefinition(id)
  PROVE Inv'
<1>1. /\ phase = "indexing" /\ phase' = "indexing" /\ id \in unindexed /\ unindexed' = unindexed \ {id}
      /\ byName' = [byName EXCEPT ![id[2]] = id]
      /\ tree' = IF id \in Objects THEN AddDefinition(tree, compiled[id], id) ELSE tree
      /\ UNCHANGED <<dir, progress, reading, compiling>>
      /\ UNCHANGED <<dir, progress, loaded, unread, refused, queue, failed, left, stack, compiled, stashed>>
  BY DEF IndexDefinition, reading, compiling
<1>2. /\ ReadingInv' /\ StackInv' /\ OidInv' /\ DoneInv' /\ CorrectInv'
      /\ Defs' = Defs /\ Objects' = Objects /\ compiled' = compiled
  BY <1>1, IndexFrame
<1>3. /\ TypeOK /\ TreeInv /\ NamesInv /\ compiled \in [Ids -> Seq(Nat)] /\ byName \in [Names -> Ids \cup {NotFound}]
      /\ id[2] \in Names /\ id \in Defs /\ NoDefinition \notin Ids
      /\ \A branch \in DOMAIN tree : branch \in Seq(Nat) /\ tree[branch] \in Ids \cup {NoDefinition}
      /\ PrefixClosed(tree) /\ unindexed \subseteq Defs
  BY <1>1, DatabaseAssumption DEF Inv, TypeOK, TreeInv, PrefixClosed, Ids
<1>4. \A q : NamesOf(q)' = NamesOf(q)
  BY <1>1, SameDefinitions
<1> DEFINE oid == compiled[id]
<1>5. oid \in Seq(Nat)
  BY <1>3
<1>6. CASE id \in Objects
  <2>1. /\ tree' = AddDefinition(tree, oid, id)
        /\ DOMAIN tree \subseteq DOMAIN tree' /\ oid \in DOMAIN tree' /\ tree'[oid] = id
        /\ \A branch \in DOMAIN tree : branch # oid => tree'[branch] = tree[branch]
        /\ \A branch \in DOMAIN tree' : branch \notin DOMAIN tree /\ branch # oid => tree'[branch] = NoDefinition
        /\ \A branch \in DOMAIN tree' : branch \in Seq(Nat)
        /\ PrefixClosed(tree')
    <3>1. tree' = AddDefinition(tree, oid, id)
      BY <1>1, <1>6
    <3> HIDE DEF oid
    <3> QED
      BY <1>3, <1>5, <3>1, AddFacts
  <2>2. Indexed' = Indexed \cup {id}
    BY <1>1, <1>2, <1>6 DEF Indexed
  <2>3. TypeOK'
    <3>1. \A branch \in DOMAIN tree' : branch \in Seq(Nat) /\ tree'[branch] \in Ids \cup {NoDefinition}
      BY <1>3, <2>1
    <3>2. byName' \in [Names -> Ids \cup {NotFound}]
      BY <1>1, <1>3
    <3>3. unindexed' \in SUBSET Ids
      BY <1>1, <1>3 DEF Defs
    <3> QED
      BY <1>1, <1>3, <1>4, <3>1, <3>2, <3>3 DEF TypeOK
  <2>4. ASSUME NEW branch \in DOMAIN tree' PROVE tree'[branch] # NoDefinition <=> \E d \in Indexed' : compiled[d] = branch
    <3>1. CASE branch = oid
      BY <1>3, <2>1, <2>2, <3>1
    <3>2. CASE branch # oid /\ branch \in DOMAIN tree
      BY <1>1, <1>3, <2>1, <2>2, <3>2 DEF TreeInv
    <3>3. CASE branch # oid /\ branch \notin DOMAIN tree
      <4>1. \A d \in Indexed : compiled[d] \in DOMAIN tree
        BY <1>1, <1>3 DEF TreeInv
      <4> QED
        BY <2>1, <2>2, <3>3, <4>1
    <3> QED
      BY <3>1, <3>2, <3>3
  <2>5. TreeInv'
    <3>1. \A d \in Indexed' : compiled[d] \in DOMAIN tree'
      BY <1>1, <1>3, <2>1, <2>2 DEF TreeInv
    <3>2. <<>> \in DOMAIN tree'
      BY <1>3, <2>1 DEF TreeInv
    <3>3. \A branch \in DOMAIN tree' : \A k \in 0 .. Len(branch) : SubSeq(branch, 1, k) \in DOMAIN tree'
      BY <2>1 DEF PrefixClosed
    <3> QED
      BY <1>1, <1>2, <1>3, <2>4, <3>1, <3>2, <3>3 DEF TreeInv
  <2>6. ASSUME OneObjectPerName, NEW d \in Indexed' PROVE tree'[compiled[d]] = byName'[d[2]]
    <3>1. d \in Objects /\ d \in Defs /\ d[2] \in Names
      BY <1>2, <2>6 DEF Indexed, Objects, Defs, Ids
    <3>2. d[2] = id[2] <=> compiled[d] = oid
      BY <1>3, <1>6, <2>6, <3>1 DEF OneObjectPerName
    <3>3. CASE d[2] = id[2]
      BY <1>1, <1>3, <2>1, <3>2, <3>3
    <3>4. CASE d[2] # id[2]
      <4>1. d \in Indexed /\ compiled[d] \in DOMAIN tree
        BY <1>1, <1>3, <2>2, <2>6, <3>4 DEF TreeInv
      <4>2. tree[compiled[d]] = byName[d[2]]
        BY <1>1, <1>3, <2>6, <4>1 DEF NamesInv
      <4>3. tree'[compiled[d]] = tree[compiled[d]]
        BY <2>1, <3>2, <3>4, <4>1
      <4>4. byName'[d[2]] = byName[d[2]]
        BY <1>1, <1>3, <3>1, <3>4
      <4> QED
        BY <4>2, <4>3, <4>4
    <3> QED
      BY <3>3, <3>4
  <2>7. NamesInv'
    BY <1>2, <2>6 DEF NamesInv, OneObjectPerName
  <2> QED
    BY <1>2, <2>3, <2>5, <2>7 DEF Inv
<1>7. CASE id \notin Objects
  <2>1. tree' = tree /\ Indexed' = Indexed
    BY <1>1, <1>2, <1>7 DEF Indexed
  <2>2. TypeOK'
    <3>1. byName' \in [Names -> Ids \cup {NotFound}]
      BY <1>1, <1>3
    <3>2. unindexed' \in SUBSET Ids
      BY <1>1, <1>3 DEF Defs
    <3> QED
      BY <1>1, <1>3, <1>4, <2>1, <3>1, <3>2 DEF TypeOK
  <2>3. TreeInv'
    BY <1>1, <1>2, <1>3, <2>1 DEF TreeInv
  <2>4. ASSUME OneObjectPerName, NEW d \in Indexed PROVE tree'[compiled[d]] = byName'[d[2]]
    <3>1. d \in Objects /\ d[2] \in Names /\ d[2] # id[2]
      BY <1>3, <1>7, <2>4 DEF Indexed, Objects, Defs, Ids, OneObjectPerName
    <3>2. byName'[d[2]] = byName[d[2]]
      BY <1>1, <1>3, <3>1
    <3> QED
      BY <1>1, <1>3, <2>1, <2>4, <3>2 DEF NamesInv
  <2>5. NamesInv'
    BY <1>2, <2>1, <2>4 DEF NamesInv, OneObjectPerName
  <2> QED
    BY <1>2, <2>2, <2>3, <2>5 DEF Inv
<1> QED
  BY <1>6, <1>7

LEMMA EndIndexingStep ==
  ASSUME Inv, EndIndexing
  PROVE Inv'
<1>1. /\ phase = "indexing" /\ phase' = "ready" /\ unindexed = {}
      /\ UNCHANGED <<dir, progress, reading, compiling, unindexed, byName, tree>>
      /\ UNCHANGED <<dir, progress, loaded, unread, refused, queue, failed, left, stack, compiled, stashed>>
  BY DEF EndIndexing, reading, compiling, index
<1>2. /\ ReadingInv' /\ StackInv' /\ OidInv' /\ DoneInv' /\ CorrectInv'
      /\ Defs' = Defs /\ Objects' = Objects /\ compiled' = compiled
  BY <1>1, IndexFrame
<1>3. TypeOK'
  BY <1>1 DEF Inv, TypeOK, NamesOf
<1>4. Indexed' = Indexed
  BY <1>1, <1>2 DEF Indexed
<1>5. TreeInv'
  BY <1>1, <1>2, <1>4 DEF Inv, TreeInv
<1>6. NamesInv'
  BY <1>1, <1>2, <1>4 DEF Inv, NamesInv, OneObjectPerName
<1> QED
  BY <1>2, <1>3, <1>5, <1>6 DEF Inv

\* Nothing happens.
LEMMA StutterStep ==
  ASSUME Inv, UNCHANGED vars
  PROVE Inv'
<1>1. UNCHANGED <<dir, phase, progress, loaded, unread, refused, queue, failed, left, stack, compiled, stashed, unindexed, byName, tree>>
  BY DEF vars, reading, compiling, index
<1>2. /\ Defs' = Defs /\ Objects' = Objects /\ Scope' = Scope
      /\ \A id : Def(id)' = Def(id) /\ Length(id)' = Length(id)
      /\ \A scope, name : Resolve(scope, name)' = Resolve(scope, name)
      /\ \A m : Readable(m)' = Readable(m) /\ Visible(m)' = Visible(m)
  BY <1>1, SameDefinitions DEF Scope
<1>3. TypeOK' /\ ReadingInv'
  BY <1>1, <1>2 DEF Inv, TypeOK, NamesOf, ReadingInv
<1>4. StackInv'
  <2>1. ASSUME NEW i \in DOMAIN stack PROVE CallOK(i)'
    <3>1. CallOK(i)
      BY DEF Inv, StackInv
    <3> QED
      BY <1>1, <1>2, <3>1 DEF CallOK
  <2> QED
    BY <1>1, <1>2, <2>1 DEF Inv, StackInv
<1>5. Kept /\ (\A id \in Objects : Complete(id)' => Complete(id)) /\ Call' = Call
  <2>1. \A id : Busy(id)' <=> Busy(id)
    BY <1>1, <1>2 DEF Busy
  <2> QED
    BY <1>1, <2>1 DEF Kept, Complete, Call
<1>6. OidInv'
  <2>1. ASSUME NEW id \in Objects, Complete(id) PROVE Meant(id)'
    <3>1. PICK m \in loaded : Asks(m, id) /\ RightTo(m, id, Length(id))
      BY <2>1 DEF Inv, OidInv, Meant
    <3>2. \A k : k = Length(id) => RightTo(m, id, k)'
      BY <1>1, <1>5, <3>1, RightKept
    <3>3. PICK k : k = Length(id) /\ k = Length(id)'
      BY <1>2
    <3>4. Asks(m, id)' /\ m \in loaded'
      BY <1>1, <3>1, SameDefinitions
    <3> QED
      BY <3>2, <3>3, <3>4 DEF Meant
  <2>2. ASSUME NEW m, m = Scope, NEW id \in Objects, NEW k \in Nat, stack # <<>>, Call.id = id, Call.at = k + 1, k < Length(id)
        PROVE  RightTo(m, id, k)'
    <3>1. RightTo(m, id, k)
      BY <2>2 DEF Inv, OidInv
    <3> QED
      BY <1>1, <1>5, <3>1, RightKept
  <2> QED
    BY <1>1, <1>2, <1>5, <2>1, <2>2 DEF OidInv
<1>7. DoneInv'
  <2>1. /\ Defs' = Defs /\ \A id : Stored(id) => Stored(id)'
        /\ \A id \in Defs : Done(id) => Done(id)'
        /\ \A m : Finished(m) => Finished(m)'
    BY <1>1, <1>5, DoneKept
  <2>2. \A m : Ended(m)' <=> Ended(m)
    BY <1>1 DEF Ended
  <2> QED
    BY <1>1, <1>2, <2>1, <2>2 DEF Inv, DoneInv
<1>8. CorrectInv'
  <2>1. \A m : Ready(m)' <=> Ready(m)
    BY <1>1, <1>2 DEF Ready, Ended
  <2> QED
    BY <1>1, <2>1 DEF Inv, CorrectInv
<1>9. TreeInv' /\ NamesInv'
  <2>1. Indexed' = Indexed
    BY <1>1, <1>2 DEF Indexed
  <2> QED
    BY <1>1, <1>2, <2>1 DEF Inv, TreeInv, NamesInv, OneObjectPerName
<1> QED
  BY <1>3, <1>4, <1>6, <1>7, <1>8, <1>9 DEF Inv

LEMMA InvNext == Inv /\ [Next]_vars => Inv'
<1> SUFFICES ASSUME Inv, [Next]_vars PROVE Inv'
  OBVIOUS
<1>1. CASE Read
  BY <1>1, ReadingStep
<1>2. CASE Compile
  BY <1>2, CompilingStep
<1>3. CASE \E id \in Ids : IndexDefinition(id)
  BY <1>3, IndexStep
<1>4. CASE EndIndexing
  BY <1>4, EndIndexingStep
<1>5. CASE UNCHANGED vars
  BY <1>5, StutterStep
<1> QED
  BY <1>1, <1>2, <1>3, <1>4, <1>5 DEF Next

LEMMA InvHolds == Spec => []Inv
BY InitInv, InvNext, PTL DEF Spec

-----------------------------------------------------------------------------
(* The theorems.                                                            *)

\* Types; and when all modules are compiled without an error every object has its
\* OID and every macro has read its tokens (Database.compileValues).
THEOREM DatabaseCorrect == Spec => []DatabaseInv
<1>1. ASSUME Inv PROVE DatabaseInv
  <2>1. ASSUME phase \in {"indexing", "ready"}, NEW id \in Defs
        PROVE  /\ id \in Objects => compiled[id] # <<>>
               /\ id \in Objects /\ Def(id).meta # NoName /\ Def(Resolve(id[1], Def(id).meta)).kind = "macro"
                    => id \in stashed
    <3>1. Done(id)
      BY <1>1, <2>1 DEF Inv, DoneInv
    <3> QED
      BY <3>1 DEF Done, Complete, Stored
  <2> QED
    BY <1>1, <2>1 DEF Inv, DatabaseInv, IndexedIsComplete
<1> QED
  BY <1>1, InvHolds, PTL

\* With well-scoped modules whoever asks for an object means by it what its own module does.
LEMMA OwnMeaning ==
  ASSUME TypeOK, loaded = ModulesOf(dir), dir \in WellScopedDirectories, NEW m \in loaded, NEW id \in Objects, NEW k \in Nat,
         k = Length(id), RightTo(m, id, k)
  PROVE  CompiledTo(id[1], id, k)
<1> DEFINE els  == Def(id).elements
           last == LastName(els, k)
<1>1. els \in Seq(Element) /\ last \in 0 .. k
  BY DefFacts, LastNameFacts DEF TypeOK, Objects
<1>2. last # 0 => els[last].name # NoName
  BY LastNameFacts
<1>3. last # 0 /\ els[last].name # Iso => Resolve(id[1], els[last].name) = Resolve(m, els[last].name)
  <2>1. ASSUME last # 0, els[last].name # Iso PROVE Resolve(id[1], els[last].name) = Resolve(m, els[last].name)
    <3>1. Resolve(m, els[last].name) \in Objects
      BY <2>1 DEF RightTo, RestsOn
    <3>2. last \in 1 .. Length(id)
      BY <1>1, <2>1
    <3> QED
      BY <1>2, <2>1, <3>1, <3>2, SameMeaning
  <2> QED
    BY <2>1
<1>4. Base(id[1], id, k) = Base(m, id, k)
  BY <1>3 DEF Base
<1> QED
  BY <1>4 DEF RightTo, CompiledTo

\* An OID that is there and not at work is the one a module means that asks for the object,
\* its own where all mean the same, whichever module it was compiled for and however often
\* that failed (Object.compileValue).
THEOREM OidsAreConsistent == Spec => []OidsConsistent
<1>1. ASSUME Inv PROVE OidsConsistent
  <2>1. ASSUME NEW id \in Objects \ Called, compiled[id] # <<>>, NEW k, k = Len(Def(id).elements)
        PROVE  /\ \E m \in loaded : Asks(m, id) /\ CompiledTo(m, id, k)
               /\ dir \in WellScopedDirectories => CompiledTo(id[1], id, k)
    <3>1. ~ Busy(id)
      BY <2>1 DEF Busy, Called
    <3>2. PICK m \in loaded : Asks(m, id) /\ RightTo(m, id, k)
      BY <1>1, <2>1, <3>1 DEF Inv, OidInv, Complete, Meant, Length
    <3>3. /\ TypeOK /\ loaded = ModulesOf(dir) /\ k = Length(id) /\ k \in Nat
      <4>1. /\ TypeOK /\ (compiled = [d \in Ids |-> <<>>] \/ loaded = ModulesOf(dir))
            /\ dir \in Directories /\ loaded \in SUBSET Modules /\ id \in Ids
        BY <1>1 DEF Inv, ReadingInv, TypeOK, Objects, Defs
      <4> QED
        BY <2>1, <4>1, DefFacts DEF Length, Objects
    <3>4. dir \in WellScopedDirectories => CompiledTo(id[1], id, k)
      BY <3>2, <3>3, OwnMeaning
    <3> QED
      BY <3>2, <3>4 DEF RightTo
  <2> QED
    BY <2>1 DEF OidsConsistent
<1> QED
  BY <1>1, InvHolds, PTL

\* Modules that are correct, each by itself, are read and compiled in any order of the
\* maps: the passes make up for it (Database.readDefintions, Database.compileValues).
THEOREM CorrectModulesCompile == Spec => []CorrectIsIndexed
<1>1. Inv => CorrectIsIndexed
  BY DEF Inv, CorrectInv, CorrectIsIndexed
<1> QED
  BY <1>1, InvHolds, PTL

\* The index by OID finds the longest prefix that is an object, and it agrees with the
\* index by name (OidBranch.findOID, Database.CreateIndex).
THEOREM IndexIsCorrect == Spec => []IndexIsRight
<1>1. ASSUME Inv PROVE FindIsLongest
  <2>1. ASSUME phase = "ready", NEW oid \in Queries
        PROVE  FindOID(tree, oid) = LongestDefined({compiled[id] : id \in Objects}, oid)
    <3> DEFINE defined == {compiled[id] : id \in Objects}
    <3>1. TypeOK /\ TreeInv
      BY <1>1 DEF Inv
    <3>2. Indexed = Objects
      BY <2>1, <3>1 DEF TreeInv, Indexed
    <3>3. /\ PrefixClosed(tree) /\ defined \subseteq DOMAIN tree
          /\ \A branch \in DOMAIN tree : branch \in defined <=> tree[branch] # NoDefinition
      BY <2>1, <3>1, <3>2 DEF TreeInv, PrefixClosed
    <3>4. oid \in Seq(Nat)
      <4>1. PICK branch \in DOMAIN tree, tail \in Tails : oid = branch \o tail
        BY <2>1 DEF Queries
      <4>2. branch \in Seq(Nat) /\ tail \in Seq(Nat)
        <5>1. <<>> \in Seq(Nat) /\ <<1>> \in Seq(Nat) /\ <<9>> \in Seq(Nat) /\ <<1, 1>> \in Seq(Nat) /\ <<9, 1>> \in Seq(Nat)
          OBVIOUS
        <5>2. tail \in Seq(Nat)
          BY <5>1 DEF Tails
        <5> QED
          BY <3>1, <5>2 DEF TypeOK
      <4> QED
        BY <4>1, <4>2
    <3> HIDE DEF defined
    <3>5. FindOID(tree, oid) = LongestDefined(defined, oid)
      BY <3>3, <3>4, FindFacts
    <3> QED
      BY <3>5 DEF defined
  <2> QED
    BY <2>1 DEF FindIsLongest
<1>2. ASSUME Inv PROVE IndexAgrees
  <2>1. phase = "ready" => Indexed = Objects
    BY <1>2 DEF Inv, TreeInv, Indexed
  <2> QED
    BY <1>2, <2>1 DEF Inv, NamesInv, OneObjectPerName, IndexAgrees
<1>3. Inv => IndexIsRight
  BY <1>1, <1>2 DEF IndexIsRight
<1> QED
  BY <1>3, InvHolds, PTL
================================================================================
