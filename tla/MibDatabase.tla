------------------------------ MODULE MibDatabase ------------------------------
(***************************************************************************)
(* Database.CreateIndex (src/pkg/snmp/mibdb): the MIB files of a directory *)
(* are read, retrying those that need a module not read yet; then every    *)
(* module compiles its definitions, again with retries; then all objects   *)
(* are indexed by name and by OID.                                         *)
(*                                                                         *)
(* The order of modules and definitions is that of Go's maps: any order.   *)
(* compileValue of an object calls compileValue of the object it is        *)
(* defined by, in whatever module that is, but names are always resolved   *)
(* in the module that started (the lookup context).  The stack of those    *)
(* calls is explicit here, the definition being compiled at its head.      *)
(***************************************************************************)
EXTENDS OidTree, FiniteSets

CONSTANTS
  Modules,      \* names of modules, Builtin among them
  Builtin,
  Names,        \* names of definitions
  Iso,          \* "iso"
  NoName,       \* the name of an element that is a number, of missing meta tokens
  Directories   \* contents of a directory, see Directory

\* A definition as Module.read leaves it: an element of an object is a name, or
\* a number.  A definition that is not sound fails to compile in any case: its
\* text does not match its macro, or its type is not a simple one.
Kinds   == {"object", "value", "type", "macro"}
Element == [name : Names \cup {NoName}, arc : Nat]
Definition ==
  [kind : Kinds, meta : Names \cup {NoName}, elements : Seq(Element), sound : BOOLEAN]

PartialFunction(f, S, T) == DOMAIN f \subseteq S /\ \A x \in DOMAIN f : f[x] \in T

\* The files in the order of the directory, each with one module; files without
\* a token; the types and macros a module needs when it is read.  An
\* object has an element: "{ }" is no object identifier in any MIB.  The built-in
\* module imports nothing (New).
Directory(d) ==
  /\ d.files \in Seq(Modules \ {Builtin})
  /\ d.empty \in SUBSET Modules
  /\ d.needs \in [Modules -> SUBSET Names]
  /\ DOMAIN d.imports[Builtin] = {}
  /\ \A m \in Modules : /\ PartialFunction(d.imports[m], Names, Modules)
                        /\ PartialFunction(d.definitions[m], Names, Definition)
                        /\ \A n \in DOMAIN d.definitions[m] :
                             d.definitions[m][n].kind = "object" => d.definitions[m][n].elements # <<>>

ASSUME DatabaseAssumption ==
  /\ Builtin \in Modules
  /\ Iso \in Names
  /\ NoName \notin Names
  /\ NoDefinition \notin Modules \X Names
  /\ \A d \in Directories : Directory(d)

VARIABLES
  dir,       \* the directory, never changed
  phase,     \* "reading", "compiling", "indexing", "ready", "failed", "crashed"
  loaded,    \* modules in Database.modules
  unread,    \* files still to be read in this pass
  refused,   \* files that could not be read in this pass
  queue,     \* "compile": modules still to be compiled in this pass
  failed,    \* "failedCompile"
  progress,  \* a file was read, a module compiled in this pass
  left,      \* names of the module at the head of the queue still to be compiled
  stack,     \* calls of compileValue: [id, at], at = 0 before compileMeta
  compiled,  \* [Ids -> Seq(Nat)]: Object.compiled
  stashed,   \* definitions whose meta tokens were read by a macro
  unindexed, \* definitions still to be indexed
  byName,    \* [Names -> Ids \cup {NotFound}]: Database.definitions
  tree       \* Database.root

reading   == <<loaded, unread, refused>>
compiling == <<queue, failed, left, stack, compiled, stashed>>
index     == <<unindexed, byName, tree>>
vars      == <<dir, phase, progress, reading, compiling, index>>

Ids      == Modules \X Names
NotFound == <<>>

Defs        == {id \in Ids : id[1] \in loaded /\ id[2] \in DOMAIN dir.definitions[id[1]]}
Def(id)     == dir.definitions[id[1]][id[2]]
Objects     == {id \in Defs : Def(id).kind = "object"}

\* Module.Lookup: own definitions, then the import (a name that is not imported
\* is looked for in the built-in module), then the built-in module.
Lookup(d, present, scope, name) ==
  LET has(m)  == name \in DOMAIN d.definitions[m]
      from    == IF name \in DOMAIN d.imports[scope] THEN d.imports[scope][name] ELSE Builtin
  IN  CASE has(scope) -> <<scope, name>>
        [] ~ has(scope) /\ from \in present /\ has(from) -> <<from, name>>
        [] ~ has(scope) /\ from \in present /\ ~ has(from) /\ has(Builtin) -> <<Builtin, name>>
        [] OTHER -> NotFound

Resolve(scope, name) == Lookup(dir, loaded, scope, name)

\* The names compileValues of the module at the head of a queue ranges over.
NamesOf(q) == IF q = <<>> THEN {} ELSE DOMAIN dir.definitions[Head(q)]

TypeOK ==
  /\ dir \in Directories
  /\ phase \in {"reading", "compiling", "indexing", "ready", "failed", "crashed"}
  /\ loaded \in SUBSET Modules
  /\ unread \in Seq(Modules)
  /\ refused \in Seq(Modules)
  /\ queue \in Seq(Modules)
  /\ failed \in Seq(Modules)
  /\ progress \in BOOLEAN
  /\ left \subseteq NamesOf(queue)
  /\ stack \in Seq([id : Ids, at : Nat])
  /\ compiled \in [Ids -> Seq(Nat)]
  /\ stashed \in SUBSET Ids
  /\ unindexed \in SUBSET Ids
  /\ byName \in [Names -> Ids \cup {NotFound}]
  /\ \A branch \in DOMAIN tree : branch \in Seq(Nat) /\ tree[branch] \in Ids \cup {NoDefinition}

-----------------------------------------------------------------------------
(* readDefintions: passes over the files, as long as one more can be read.  *)

\* The types and macros of its value assignments can be looked up.
Readable(m) ==
  \A n \in dir.needs[m] :
    LET id == Resolve(m, n) IN id # NotFound /\ Def(id).kind \in {"type", "macro"}

\* readModuleFromFile, with a module or an error.
ReadModule ==
  /\ phase = "reading"
  /\ unread # <<>>
  /\ Head(unread) \notin dir.empty
  /\ unread' = Tail(unread)
  /\ IF Readable(Head(unread))
     THEN /\ loaded' = loaded \cup {Head(unread)}
          /\ progress' = TRUE
          /\ UNCHANGED refused
     ELSE /\ refused' = Append(refused, Head(unread))
          /\ UNCHANGED <<loaded, progress>>
  /\ UNCHANGED <<dir, phase, compiling, index>>

\* For a file without a token readModuleFromFile returns neither a module nor an
\* error, and the name of the missing module is taken.
ReadEmptyFile ==
  /\ phase = "reading"
  /\ unread # <<>>
  /\ Head(unread) \in dir.empty
  /\ phase' = "crashed"
  /\ UNCHANGED <<dir, progress, reading, compiling, index>>

\* (Mutant: progress stays set from pass to pass.)
RetryReadingForEver ==
  /\ phase = "reading"
  /\ unread = <<>>
  /\ refused # <<>>
  /\ progress
  /\ unread' = refused
  /\ refused' = <<>>
  /\ UNCHANGED <<dir, phase, loaded, progress, compiling, index>>

RetryReading ==
  /\ phase = "reading"
  /\ unread = <<>>
  /\ refused # <<>>
  /\ progress
  /\ unread' = refused
  /\ refused' = <<>>
  /\ progress' = FALSE
  /\ UNCHANGED <<dir, phase, loaded, compiling, index>>

FailReading ==
  /\ phase = "reading"
  /\ unread = <<>>
  /\ refused # <<>>
  /\ ~ progress
  /\ phase' = "failed"
  /\ UNCHANGED <<dir, progress, reading, compiling, index>>

\* The modules come out of a map in any order.
StartCompiling ==
  /\ phase = "reading"
  /\ unread = <<>>
  /\ refused = <<>>
  /\ phase' = "compiling"
  /\ \E order \in [1 .. Cardinality(loaded) -> loaded] :
       /\ \A m \in loaded : \E i \in DOMAIN order : order[i] = m
       /\ queue' = order
       /\ left' = NamesOf(order)
  /\ progress' = FALSE
  /\ UNCHANGED <<dir, reading, failed, stack, compiled, stashed, index>>

-----------------------------------------------------------------------------
(* compileValues: passes over the modules, as long as one more compiles.    *)

Scope == Head(queue)
Call  == Head(stack)

\* The loop of Module.compileValues calls compileValue of one more definition;
\* macros have none.
CompileDefinition(name) ==
  /\ phase = "compiling"
  /\ stack = <<>>
  /\ name \in left
  /\ left' = left \ {name}
  /\ stack' = IF Def(<<Scope, name>>).kind = "macro" THEN <<>>
              ELSE <<[id |-> <<Scope, name>>, at |-> 0]>>
  /\ UNCHANGED <<dir, phase, progress, reading, queue, failed, compiled, stashed, index>>

\* The definition the meta tokens begin with: a macro, a type, or something else.
Meta(id) == Resolve(Scope, Def(id).meta)

MetaFails(id) ==
  \/ ~ Def(id).sound
  \/ Def(id).meta # NoName /\ id \notin stashed /\ Meta(id) = NotFound

\* compileMeta, whose result is kept when a macro has read the tokens; then an
\* object that is compiled already returns.
\* (Mutant: the result is not kept.)
CompileMetaAgain ==
  /\ phase = "compiling"
  /\ stack # <<>>
  /\ Call.at = 0
  /\ ~ MetaFails(Call.id)
  /\ stack' = [stack EXCEPT ![1].at =
                 IF Def(Call.id).kind = "object" /\ compiled[Call.id] = <<>> THEN 1
                 ELSE Len(Def(Call.id).elements) + 1]
  /\ UNCHANGED <<dir, phase, progress, reading, queue, failed, left, compiled, stashed, index>>

CompileMeta ==
  /\ phase = "compiling"
  /\ stack # <<>>
  /\ Call.at = 0
  /\ ~ MetaFails(Call.id)
  /\ stashed' = IF /\ Def(Call.id).meta # NoName
                   /\ Call.id \notin stashed
                   /\ Def(Meta(Call.id)).kind = "macro"
                THEN stashed \cup {Call.id} ELSE stashed
  /\ stack' = [stack EXCEPT ![1].at =
                 IF Def(Call.id).kind = "object" /\ compiled[Call.id] = <<>> THEN 1
                 ELSE Len(Def(Call.id).elements) + 1]
  /\ UNCHANGED <<dir, phase, progress, reading, queue, failed, left, compiled, index>>

\* The call has an element of its object before it.
AtElement(name) ==
  /\ phase = "compiling"
  /\ stack # <<>>
  /\ Call.at \in 1 .. Len(Def(Call.id).elements)
  /\ name = Def(Call.id).elements[Call.at].name

CompileNumber ==
  /\ AtElement(NoName)
  /\ compiled' = [compiled EXCEPT ![Call.id] = Append(@, Def(Call.id).elements[Call.at].arc)]
  /\ stack' = [stack EXCEPT ![1].at = @ + 1]
  /\ UNCHANGED <<dir, phase, progress, reading, queue, failed, left, stashed, index>>

\* A name takes the place of everything before it.
CompileIso ==
  /\ AtElement(Iso)
  /\ compiled' = [compiled EXCEPT ![Call.id] = <<1>>]
  /\ stack' = [stack EXCEPT ![1].at = @ + 1]
  /\ UNCHANGED <<dir, phase, progress, reading, queue, failed, left, stashed, index>>

Called == {stack[i].id : i \in DOMAIN stack}

\* The object that is named is compiled first, in the scope of this module.
\* (Mutant: what was compiled so far is kept.)
CompileOtherAppending(name) ==
  LET other == Resolve(Scope, name)
  IN  /\ AtElement(name)
      /\ name # Iso
      /\ other \in Objects \ Called
      /\ stack' = <<[id |-> other, at |-> 0]>> \o stack
      /\ UNCHANGED <<dir, phase, progress, reading, queue, failed, left, compiled, stashed, index>>

CompileOther(name) ==
  LET other == Resolve(Scope, name)
  IN  /\ AtElement(name)
      /\ name # Iso
      /\ other \in Objects \ Called
      /\ compiled' = [compiled EXCEPT ![Call.id] = <<>>]
      /\ stack' = <<[id |-> other, at |-> 0]>> \o stack
      /\ UNCHANGED <<dir, phase, progress, reading, queue, failed, left, stashed, index>>

\* An object that is being compiled already: the calls go round until the stack
\* of the goroutine is used up and the program ends.
CompileCircle(name) ==
  /\ AtElement(name)
  /\ name # Iso
  /\ Resolve(Scope, name) \in Called
  /\ phase' = "crashed"
  /\ UNCHANGED <<dir, progress, reading, compiling, index>>

\* compileValue returns its object and the caller appends its OID.
ReturnCompiled ==
  /\ phase = "compiling"
  /\ stack # <<>>
  /\ Call.at > Len(Def(Call.id).elements)
  /\ IF Len(stack) = 1
     THEN /\ stack' = <<>>
          /\ UNCHANGED compiled
     ELSE /\ stack' = [Tail(stack) EXCEPT ![1].at = @ + 1]
          /\ compiled' = [compiled EXCEPT ![stack[2].id] = @ \o compiled[Call.id]]
  /\ UNCHANGED <<dir, phase, progress, reading, queue, failed, left, stashed, index>>

\* An error ends all the calls and the compilation of the module in this pass.
FailModule ==
  /\ phase = "compiling"
  /\ stack # <<>>
  /\ \/ Call.at = 0 /\ MetaFails(Call.id) /\ UNCHANGED compiled
     \/ \E name \in Names \ {Iso} :
          /\ AtElement(name)
          /\ Resolve(Scope, name) \notin Objects
          /\ compiled' = [compiled EXCEPT ![Call.id] = <<>>]
  /\ stack' = <<>>
  /\ failed' = Append(failed, Scope)
  /\ queue' = Tail(queue)
  /\ left' = NamesOf(queue')
  /\ UNCHANGED <<dir, phase, progress, reading, stashed, index>>

EndModule ==
  /\ phase = "compiling"
  /\ stack = <<>>
  /\ queue # <<>>
  /\ left = {}
  /\ progress' = TRUE
  /\ queue' = Tail(queue)
  /\ left' = NamesOf(queue')
  /\ UNCHANGED <<dir, phase, reading, failed, stack, compiled, stashed, index>>

RetryCompiling ==
  /\ phase = "compiling"
  /\ queue = <<>>
  /\ failed # <<>>
  /\ progress
  /\ queue' = failed
  /\ left' = NamesOf(failed)
  /\ failed' = <<>>
  /\ progress' = FALSE
  /\ UNCHANGED <<dir, phase, reading, stack, compiled, stashed, index>>

FailCompiling ==
  /\ phase = "compiling"
  /\ queue = <<>>
  /\ failed # <<>>
  /\ ~ progress
  /\ phase' = "failed"
  /\ UNCHANGED <<dir, progress, reading, compiling, index>>

\* (Mutant: the errors of the last pass are lost.)
StartIndexingAnyway ==
  /\ phase = "compiling"
  /\ queue = <<>>
  /\ failed # <<>> => ~ progress
  /\ phase' = "indexing"
  /\ unindexed' = Defs
  /\ UNCHANGED <<dir, progress, reading, compiling, byName, tree>>

StartIndexing ==
  /\ phase = "compiling"
  /\ queue = <<>>
  /\ failed = <<>>
  /\ phase' = "indexing"
  /\ unindexed' = Defs
  /\ UNCHANGED <<dir, progress, reading, compiling, byName, tree>>

-----------------------------------------------------------------------------
(* The index: module by module, in any order, and so the definitions of each. *)

\* The module whose definitions are being indexed, if one is half done.
HalfIndexed(m) ==
  {id \in Defs : id[1] = m} \ unindexed # {} /\ {id \in unindexed : id[1] = m} # {}

IndexDefinition(id) ==
  /\ phase = "indexing"
  /\ id \in unindexed
  /\ \A m \in loaded : HalfIndexed(m) => id[1] = m
  /\ unindexed' = unindexed \ {id}
  /\ byName' = [byName EXCEPT ![id[2]] = id]
  /\ tree' = IF id \in Objects THEN AddDefinition(tree, compiled[id], id) ELSE tree
  /\ UNCHANGED <<dir, phase, progress, reading, compiling>>

EndIndexing ==
  /\ phase = "indexing"
  /\ unindexed = {}
  /\ phase' = "ready"
  /\ UNCHANGED <<dir, progress, reading, compiling, index>>

-----------------------------------------------------------------------------
Init ==
  /\ dir \in Directories
  /\ phase = "reading"
  /\ loaded = {Builtin}
  /\ unread = dir.files
  /\ refused = <<>>
  /\ queue = <<>>
  /\ failed = <<>>
  /\ progress = FALSE
  /\ left = {}
  /\ stack = <<>>
  /\ compiled = [id \in Ids |-> <<>>]
  /\ stashed = {}
  /\ unindexed = {}
  /\ byName = [name \in Names |-> NotFound]
  /\ tree = EmptyTree

Read == ReadModule \/ ReadEmptyFile \/ RetryReading \/ FailReading \/ StartCompiling

Compile ==
  \/ CompileMeta \/ CompileNumber \/ CompileIso
  \/ \E name \in Names : CompileDefinition(name) \/ CompileOther(name) \/ CompileCircle(name)
  \/ ReturnCompiled \/ FailModule \/ EndModule
  \/ RetryCompiling \/ FailCompiling \/ StartIndexing

Next == Read \/ Compile \/ (\E id \in Ids : IndexDefinition(id)) \/ EndIndexing

Spec == Init /\ [][Next]_vars

\* One goroutine, which never waits.
FairSpec == Spec /\ WF_vars(Next)

-----------------------------------------------------------------------------
(* Directories that could be compiled module by module.                     *)

ModulesOf(d)    == {Builtin} \cup {d.files[i] : i \in DOMAIN d.files}
IdsOf(d)        == {id \in Ids : id[1] \in ModulesOf(d) /\ id[2] \in DOMAIN d.definitions[id[1]]}
DefinitionOf(d, id) == d.definitions[id[1]][id[2]]
ObjectsOf(d)    == {id \in IdsOf(d) : DefinitionOf(d, id).kind = "object"}
ImportsOf(d, m) == {d.imports[m][n] : n \in DOMAIN d.imports[m]}
Own(d, scope, name) == Lookup(d, ModulesOf(d), scope, name)

\* The names an object refers to, and what they are in its own module.
References(d, id) ==
  LET els == DefinitionOf(d, id).elements
  IN  {els[i].name : i \in DOMAIN els} \ {NoName, Iso}
Parents(d, id) == {Own(d, id[1], name) : name \in References(d, id)}

\* No module resolves a name used by an object differently than the module of
\* the object does.
WellScoped(d) ==
  \A id \in ObjectsOf(d) : \A name \in References(d, id) : \A m \in ModulesOf(d) :
    Own(d, m, name) \in ObjectsOf(d) => Own(d, m, name) = Own(d, id[1], name)

\* Every module is complete and correct, taken by itself; there is no circle of
\* imports and none of objects.
Correct(d) ==
  /\ \A i \in DOMAIN d.files : d.files[i] \notin d.empty
  /\ \A m \in ModulesOf(d) :
       /\ ImportsOf(d, m) \subseteq ModulesOf(d)
       /\ \A n \in d.needs[m] : Own(d, m, n) # NotFound /\ DefinitionOf(d, Own(d, m, n)).kind \in {"type", "macro"}
  /\ \A id \in IdsOf(d) : LET def == DefinitionOf(d, id) IN
       /\ def.sound
       /\ def.meta # NoName =>
            LET meta == Own(d, id[1], def.meta)
            IN  meta # NotFound /\ (meta[1] = Builtin \/ DefinitionOf(d, meta).kind = "macro")
  /\ \A id \in ObjectsOf(d) : Parents(d, id) \subseteq ObjectsOf(d)
  /\ \A S \in SUBSET ModulesOf(d) : S # {} => \E m \in S : ImportsOf(d, m) \cap S = {}
  /\ \A S \in SUBSET ObjectsOf(d) : S # {} => \E id \in S : Parents(d, id) \cap S = {}

CorrectDirectories    == {d \in Directories : Correct(d)}
WellScopedDirectories == {d \in Directories : WellScoped(d)}

-----------------------------------------------------------------------------
(* Properties                                                               *)

\* The last name among the first k elements.
LastName(els, k) == Max({0} \cup {i \in 1 .. k : els[i].name # NoName})

\* What the last name stands for in module m, when the first k elements are compiled.
Base(m, id, k) ==
  LET els   == Def(id).elements
      last  == LastName(els, k)
      other == Resolve(m, els[last].name)
  IN  CASE last = 0 -> <<>>
        [] last # 0 /\ els[last].name = Iso -> <<1>>
        [] last # 0 /\ els[last].name # Iso /\ other \in Objects -> compiled[other]
        [] OTHER -> <<>>

Arcs(els, last, k) == [i \in 1 .. k - last |-> els[last + i].arc]

CompiledTo(m, id, k) ==
  LET els  == Def(id).elements
      last == LastName(els, k)
  IN  /\ last # 0 => Base(m, id, k) # <<>>
      /\ compiled[id] = Base(m, id, k) \o Arcs(els, last, k)

\* Module m asks for an object: it has it, or means it by a name some object refers to.
Asks(m, id) == m = id[1] \/ \E o \in Objects : \E name \in References(dir, o) : Resolve(m, name) = id

\* An OID is that of the object its definition begins with, followed by its numbers, as
\* one module means the definition, and that module asks for the object.  Which one that
\* is depends on the order of the maps, since names are looked up for whoever asks first
\* (object.go:91) and the result is kept (object.go:76): nothing promises that it is the
\* object's own, unless no name means different objects to different modules.  But it is
\* never a mixture of two meanings, of two attempts, or what a failed one has left.
OidsConsistent ==
  \A id \in Objects \ Called : compiled[id] # <<>> =>
    LET k == Len(Def(id).elements)
    IN  /\ \E m \in loaded : Asks(m, id) /\ CompiledTo(m, id, k)
        /\ dir \in WellScopedDirectories => CompiledTo(id[1], id, k)

\* What is indexed is complete: when compileValues has returned without an error
\* every object of every module has its OID and every macro has read its tokens.
IndexedIsComplete ==
  phase \in {"indexing", "ready"} =>
    \A id \in Defs :
      /\ id \in Objects => compiled[id] # <<>>
      /\ id \in Objects /\ Def(id).meta # NoName /\ Def(Resolve(id[1], Def(id).meta)).kind = "macro"
           => id \in stashed

\* Modules that are correct compile, whatever the order of the maps: passing over
\* them again is enough to make up for every order.
CorrectIsIndexed ==
  dir \in CorrectDirectories \cap WellScopedDirectories => phase \notin {"failed", "crashed"}

\* findOID answers with the longest prefix that is an object, in a tree made in
\* any order.
Tails   == {<<>>, <<1>>, <<9>>, <<1, 1>>, <<9, 1>>}
Queries == {branch \o tail : branch \in DOMAIN tree, tail \in Tails}

FindIsLongest ==
  phase = "ready" =>
    \A oid \in Queries : FindOID(tree, oid) = LongestDefined({compiled[id] : id \in Objects}, oid)

\* Both indexes name the same object, even where two modules define the same
\* objects (CreateIndex writes both, the last module wins).
IndexAgrees ==
  /\ phase = "ready"
  /\ \A a \in Objects, b \in Defs : a[2] = b[2] => b \in Objects /\ compiled[a] = compiled[b]
  /\ \A a, b \in Objects : compiled[a] = compiled[b] => a[2] = b[2]
  => \A id \in Objects : tree[compiled[id]] = byName[id[2]]

\* Reading and compiling end, for every directory: each retry needs progress.
IndexingEnds == <>(phase \in {"ready", "failed", "crashed"})

\* The first invariant of the runs: types, and what is indexed is complete.
DatabaseInv == TypeOK /\ IndexedIsComplete

\* Both indexes, by OID and by name, answer for what the files define.
IndexIsRight == FindIsLongest /\ IndexAgrees
=============================================================================
