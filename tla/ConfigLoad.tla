------------------------------ MODULE ConfigLoad ------------------------------
(***************************************************************************)
(* From a configuration to the graph of plugins that the scan engine runs  *)
(* (ReloadConfig in src/cmd/dsnet-mapper/manager.go, NewTarget in          *)
(* targets.go, PluginMap in src/internal/framework/plugin.go).             *)
(*                                                                         *)
(* Lists of the configuration are worked through in their order, the maps  *)
(* made from them in any order.  A plugin's other settings are right or    *)
(* not; the graph of the dsflow library is external: an edge needs both of *)
(* its nodes, and a plan holds what the publishers need, without a circle. *)
(***************************************************************************)
EXTENDS Integers, Sequences, FiniteSets

CONSTANTS
  Names,          \* of plugins and of targets
  NoName,         \* a plugin without a name
  Numbered,       \* Seq(Names): "#1", "#2", ..., one for every publisher of a list
  Configurations  \* [good, sources: Seq(Plugins), targets: Seq(TargetConfigs)]

\* What is said of a plugin: its name, whether it is a root or a filter (of a
\* source), whether its kind and its settings are right, and the plugins it names.
Plugins == [name : Names \cup {NoName}, kind : {"root", "filter"}, good : BOOLEAN, uses : SUBSET Names]

TargetConfigs == [name : Names, sources : SUBSET Names, reports : Seq(Plugins), publishers : Seq(Plugins)]

ASSUME ConfigAssumption ==
  /\ NoName \notin Names
  /\ Numbered \in Seq(Names)
  /\ \A c \in Configurations :
       /\ c.good \in BOOLEAN
       /\ c.sources \in Seq(Plugins)
       /\ c.targets \in Seq(TargetConfigs)
       /\ \A i \in DOMAIN c.targets : Len(c.targets[i].publishers) <= Len(Numbered)

\* Plugin.id.
Id(class, target, name) == [class |-> class, target |-> target, name |-> name]
SourceId(name)          == Id("source", NoName, name)
ReportId(t, name)       == Id("report", t, name)
PublisherId(t, name)    == Id("publisher", t, name)

Ids == [class : {"source", "report", "publisher"}, target : Names \cup {NoName}, name : Names]

VARIABLES
  config,      \* the file; never changed
  phase,       \* how far ReloadConfig is
  left,        \* plugins of the list at hand that are not loaded yet
  rest,        \* target configurations that are not loaded yet
  todo,        \* what the ForEach at hand has not come to
  sources,     \* a PluginMap: a function on the names that are loaded
  reports,     \* the maps of the target at hand
  publishers,
  targets,     \* the targets that are complete, by name
  graph,       \* the nodes, each with its precursors
  wrong,       \* errorList is not empty
  planned      \* what PlanNodes returned

maps  == <<sources, reports, publishers, targets>>
plans == <<graph, wrong, planned>>
vars  == <<config, phase, left, rest, todo, maps, plans>>

Phases == {"opening", "sources", "checking", "targets", "reports", "publishers", "checkingPublishers",
           "nodes", "precursors", "wiring", "planning", "running", "failed"}

Empty       == [n \in {} |-> NoName]
IsMap(map)  == DOMAIN map \subseteq Names /\ \A n \in DOMAIN map : map[n] \in Plugins

TypeOK ==
  /\ config \in Configurations
  /\ phase \in Phases
  /\ left \in Seq(Plugins)
  /\ rest \in Seq(TargetConfigs)
  /\ todo \subseteq Names
  /\ IsMap(sources) /\ IsMap(reports) /\ IsMap(publishers)
  /\ DOMAIN targets \subseteq Names
  /\ \A t \in DOMAIN targets : /\ targets[t].sources \subseteq Names
                               /\ IsMap(targets[t].reports) /\ IsMap(targets[t].publishers)
  /\ DOMAIN graph \subseteq Ids
  /\ \A id \in DOMAIN graph : graph[id] \subseteq DOMAIN graph
  /\ wrong \in BOOLEAN
  /\ planned \subseteq DOMAIN graph

Fail ==
  /\ phase' = "failed"
  /\ UNCHANGED <<config, left, rest, todo, maps, plans>>

-----------------------------------------------------------------------------
(* PluginMap.Load                                                           *)

\* A plugin without a name is called after its number.
Name(map, plugin) == IF plugin.name = NoName THEN Numbered[Cardinality(DOMAIN map) + 1] ELSE plugin.name

Loads(map, plugin) ==
  /\ phase = "publishers" \/ plugin.name # NoName  \* RequireName
  /\ Name(map, plugin) \notin DOMAIN map
  /\ plugin.good

Extend(map, name, value) == [n \in DOMAIN map \cup {name} |-> IF n = name THEN value ELSE map[n]]

Map == CASE phase = "sources" -> sources
         [] phase = "reports" -> reports
         [] OTHER -> publishers

LoadPlugin ==
  /\ phase \in {"sources", "reports", "publishers"}
  /\ left # <<>>
  /\ Loads(Map, Head(left))
  /\ left' = Tail(left)
  /\ LET loaded == Extend(Map, Name(Map, Head(left)), Head(left))
     IN  /\ sources'    = IF phase = "sources" THEN loaded ELSE sources
         /\ reports'    = IF phase = "reports" THEN loaded ELSE reports
         /\ publishers' = IF phase = "publishers" THEN loaded ELSE publishers
  /\ UNCHANGED <<config, phase, rest, todo, targets, plans>>

RefusePlugin ==
  /\ phase \in {"sources", "reports", "publishers"}
  /\ left # <<>>
  /\ ~ Loads(Map, Head(left))
  /\ Fail

-----------------------------------------------------------------------------
(* ReloadConfig: the sources                                                *)

\* The file, the durations.
Open ==
  /\ phase = "opening"
  /\ config.good
  /\ phase' = "sources"
  /\ left' = config.sources
  /\ UNCHANGED <<config, rest, todo, maps, plans>>

RefuseFile ==
  /\ phase = "opening"
  /\ ~ config.good
  /\ Fail

EndSources ==
  /\ phase = "sources"
  /\ left = <<>>
  /\ phase' = "checking"
  /\ todo' = DOMAIN sources
  /\ UNCHANGED <<config, left, rest, maps, plans>>

\* A filter has precursors and all of them are there, a root has none.
\* (Mutants: a root may have some; a filter may have none.)
SourceOKOrRoot(name) ==
  sources[name].kind = "filter" => sources[name].uses # {} /\ sources[name].uses \subseteq DOMAIN sources
SourceOKOrAlone(name) ==
  IF sources[name].kind = "filter" THEN sources[name].uses \subseteq DOMAIN sources ELSE sources[name].uses = {}

SourceOK(name) ==
  IF sources[name].kind = "filter"
  THEN sources[name].uses # {} /\ sources[name].uses \subseteq DOMAIN sources
  ELSE sources[name].uses = {}

CheckSource(name) ==
  /\ phase = "checking"
  /\ name \in todo
  /\ SourceOK(name)
  /\ todo' = todo \ {name}
  /\ UNCHANGED <<config, phase, left, rest, maps, plans>>

RefuseSource(name) ==
  /\ phase = "checking"
  /\ name \in todo
  /\ ~ SourceOK(name)
  /\ Fail

EndChecking ==
  /\ phase = "checking"
  /\ todo = {}
  /\ phase' = "targets"
  /\ rest' = config.targets
  /\ UNCHANGED <<config, left, todo, maps, plans>>

-----------------------------------------------------------------------------
(* NewTarget, for each target of the list                                   *)

TargetOK(t) == t.name \notin DOMAIN targets /\ t.sources # {} /\ t.reports # <<>>

StartTarget ==
  /\ phase = "targets"
  /\ rest # <<>>
  /\ TargetOK(Head(rest))
  /\ phase' = "reports"
  /\ left' = Head(rest).reports
  /\ reports' = Empty
  /\ publishers' = Empty
  /\ UNCHANGED <<config, rest, todo, sources, targets, plans>>

RefuseTarget ==
  /\ phase = "targets"
  /\ rest # <<>>
  /\ ~ TargetOK(Head(rest))
  /\ Fail

EndReports ==
  /\ phase = "reports"
  /\ left = <<>>
  /\ phase' = "publishers"
  /\ left' = Head(rest).publishers
  /\ UNCHANGED <<config, rest, todo, maps, plans>>

EndPublishers ==
  /\ phase = "publishers"
  /\ left = <<>>
  /\ phase' = "checkingPublishers"
  /\ todo' = DOMAIN publishers
  /\ UNCHANGED <<config, left, rest, maps, plans>>

\* A publisher has reports, and they are of its own target.
PublisherOK(name) == publishers[name].uses # {} /\ publishers[name].uses \subseteq DOMAIN reports

CheckPublisher(name) ==
  /\ phase = "checkingPublishers"
  /\ name \in todo
  /\ PublisherOK(name)
  /\ todo' = todo \ {name}
  /\ UNCHANGED <<config, phase, left, rest, maps, plans>>

RefusePublisher(name) ==
  /\ phase = "checkingPublishers"
  /\ name \in todo
  /\ ~ PublisherOK(name)
  /\ Fail

EndTarget ==
  /\ phase = "checkingPublishers"
  /\ todo = {}
  /\ phase' = "targets"
  /\ rest' = Tail(rest)
  /\ targets' = Extend(targets, Head(rest).name,
                       [sources |-> Head(rest).sources, reports |-> reports, publishers |-> publishers])
  /\ UNCHANGED <<config, left, todo, sources, reports, publishers, plans>>

-----------------------------------------------------------------------------
(* ReloadConfig: the graph                                                  *)

EndTargets ==
  /\ phase = "targets"
  /\ rest = <<>>
  /\ phase' = "nodes"
  /\ todo' = DOMAIN sources
  /\ UNCHANGED <<config, left, rest, maps, plans>>

\* (Mutant: the precursors are set in the same pass.)
AddNodeWithPrecursors(name) ==
  /\ phase = "nodes"
  /\ name \in todo
  /\ todo' = todo \ {name}
  /\ graph' = Extend(graph, SourceId(name), {SourceId(s) : s \in sources[name].uses} \cap DOMAIN graph)
  /\ wrong' = (wrong \/ \E s \in sources[name].uses : SourceId(s) \notin DOMAIN graph)
  /\ UNCHANGED <<config, phase, left, rest, maps, planned>>

AddNode(name) ==
  /\ phase = "nodes"
  /\ name \in todo
  /\ todo' = todo \ {name}
  /\ graph' = Extend(graph, SourceId(name), {})
  /\ UNCHANGED <<config, phase, left, rest, maps, wrong, planned>>

EndNodes ==
  /\ phase = "nodes"
  /\ todo = {}
  /\ phase' = "precursors"
  /\ todo' = DOMAIN sources
  /\ UNCHANGED <<config, left, rest, maps, plans>>

\* The precursors that are there are set, the others are errors.
SetPrecursors(name) ==
  /\ phase = "precursors"
  /\ name \in todo
  /\ todo' = todo \ {name}
  /\ graph' = Extend(graph, SourceId(name), {SourceId(s) : s \in sources[name].uses} \cap DOMAIN graph)
  /\ wrong' = (wrong \/ \E s \in sources[name].uses : SourceId(s) \notin DOMAIN graph)
  /\ UNCHANGED <<config, phase, left, rest, maps, planned>>

EndPrecursors ==
  /\ phase = "precursors"
  /\ todo = {}
  /\ phase' = "wiring"
  /\ todo' = DOMAIN targets
  /\ UNCHANGED <<config, left, rest, maps, plans>>

\* A target's reports are made from its sources, which nobody has looked up before,
\* whatever sources a report names itself.
TargetNodes(t) ==
  {ReportId(t, r) : r \in DOMAIN targets[t].reports} \cup {PublisherId(t, p) : p \in DOMAIN targets[t].publishers}

TargetPrecursors(t, id) ==
  IF id.class = "report" THEN {SourceId(s) : s \in targets[t].sources} \cap DOMAIN graph
  ELSE {ReportId(t, r) : r \in targets[t].publishers[id.name].uses}

WireTarget(t) ==
  /\ phase = "wiring"
  /\ t \in todo
  /\ todo' = todo \ {t}
  /\ graph' = [id \in DOMAIN graph \cup TargetNodes(t) |->
                 IF id \in TargetNodes(t) THEN TargetPrecursors(t, id) ELSE graph[id]]
  /\ wrong' = (wrong \/ \E s \in targets[t].sources : SourceId(s) \notin DOMAIN graph)
  /\ UNCHANGED <<config, phase, left, rest, maps, planned>>

\* (Mutant: the errors are forgotten.)
EndWiringAnyway ==
  /\ phase = "wiring"
  /\ todo = {}
  /\ phase' = "planning"
  /\ UNCHANGED <<config, left, rest, todo, maps, plans>>

EndWiring ==
  /\ phase = "wiring"
  /\ todo = {}
  /\ ~ wrong
  /\ phase' = "planning"
  /\ UNCHANGED <<config, left, rest, todo, maps, plans>>

RefuseGraph ==
  /\ phase = "wiring"
  /\ todo = {}
  /\ wrong
  /\ Fail

Nodes(class) == {id \in DOMAIN graph : id.class = class}

ClosedIn(g, S)  == \A id \in S : g[id] \subseteq S
AcyclicIn(g, S) == \A C \in SUBSET S : C # {} => {id \in C : g[id] \cap C = {}} # {}

\* External: the publishers and what they need, the smallest such set.
Needed ==
  {id \in DOMAIN graph : \A S \in SUBSET DOMAIN graph :
     Nodes("publisher") \subseteq S /\ ClosedIn(graph, S) => id \in S}

\* PlanNodes; then the background loop is started.
Plan ==
  /\ phase = "planning"
  /\ AcyclicIn(graph, Needed)
  /\ planned' = Needed
  /\ phase' = "running"
  /\ UNCHANGED <<config, left, rest, todo, maps, graph, wrong>>

\* A circle that no publisher needs may be refused or not.
RefuseCircle ==
  /\ phase = "planning"
  /\ ~ AcyclicIn(graph, DOMAIN graph)
  /\ Fail

-----------------------------------------------------------------------------
Init ==
  /\ config \in Configurations
  /\ phase = "opening"
  /\ left = <<>>
  /\ rest = <<>>
  /\ todo = {}
  /\ sources = Empty
  /\ reports = Empty
  /\ publishers = Empty
  /\ targets = Empty
  /\ graph = Empty
  /\ wrong = FALSE
  /\ planned = {}

Load == LoadPlugin \/ RefusePlugin \/ Open \/ RefuseFile \/ EndSources \/ EndChecking

Target == StartTarget \/ RefuseTarget \/ EndReports \/ EndPublishers \/ EndTarget \/ EndTargets

Wire == EndNodes \/ EndPrecursors \/ EndWiring \/ RefuseGraph \/ Plan \/ RefuseCircle

ForEach(name) ==
  \/ CheckSource(name) \/ RefuseSource(name)
  \/ CheckPublisher(name) \/ RefusePublisher(name)
  \/ AddNode(name) \/ SetPrecursors(name) \/ WireTarget(name)

Next == Load \/ Target \/ Wire \/ \E name \in Names : ForEach(name)

Spec == Init /\ [][Next]_vars

-----------------------------------------------------------------------------
(* What a configuration declares, told from the file as a whole.            *)

NameAt(list, i) == IF list[i].name = NoName THEN Numbered[i] ELSE list[i].name
NamesIn(list)   == {NameAt(list, i) : i \in DOMAIN list}
PluginOf(list, name) == list[CHOOSE i \in DOMAIN list : NameAt(list, i) = name]

ListSound(list) ==
  /\ \A i \in DOMAIN list : list[i].good
  /\ \A i, j \in DOMAIN list : NameAt(list, i) = NameAt(list, j) => i = j
AllNamed(list) == \A i \in DOMAIN list : list[i].name # NoName

SourceSound(c, plugin) ==
  /\ plugin.uses \subseteq NamesIn(c.sources)
  /\ plugin.kind = "root" <=> plugin.uses = {}

TargetSound(c, t) ==
  /\ t.sources # {} /\ t.sources \subseteq NamesIn(c.sources)
  /\ t.reports # <<>> /\ ListSound(t.reports) /\ AllNamed(t.reports)
  /\ ListSound(t.publishers)
  /\ \A i \in DOMAIN t.publishers : t.publishers[i].uses # {} /\ t.publishers[i].uses \subseteq NamesIn(t.reports)

Sound(c) ==
  /\ c.good
  /\ ListSound(c.sources) /\ AllNamed(c.sources)
  /\ \A i \in DOMAIN c.sources : SourceSound(c, c.sources[i])
  /\ \A i \in DOMAIN c.targets : TargetSound(c, c.targets[i])
  /\ \A i, j \in DOMAIN c.targets : c.targets[i].name = c.targets[j].name => i = j

TargetNamed(c, name) == c.targets[CHOOSE i \in DOMAIN c.targets : c.targets[i].name = name]

DeclaredOf(t) == {ReportId(t.name, r) : r \in NamesIn(t.reports)} \cup {PublisherId(t.name, p) : p \in NamesIn(t.publishers)}
DeclaredIds(c) ==
  {SourceId(s) : s \in NamesIn(c.sources)} \cup UNION {DeclaredOf(c.targets[i]) : i \in DOMAIN c.targets}

DeclaredEdges(c, id) ==
  CASE id.class = "source" -> {SourceId(s) : s \in PluginOf(c.sources, id.name).uses}
    [] id.class = "report" -> {SourceId(s) : s \in TargetNamed(c, id.target).sources}
    [] OTHER -> {ReportId(id.target, r) : r \in PluginOf(TargetNamed(c, id.target).publishers, id.name).uses}

Declared(c) == [id \in DeclaredIds(c) |-> DeclaredEdges(c, id)]

-----------------------------------------------------------------------------
(* Properties                                                               *)

Roots   == {id \in Nodes("source") : sources[id.name].kind = "root"}
Filters == Nodes("source") \ Roots

\* What is handed to backgroundLoop is a graph the scan engine can run (the
\* assumptions of ScanEngine): every edge goes between the right kinds, a filter, a
\* report and a publisher have something to work on, a plan is complete and has no
\* circle.  The checks are spread over three functions.
RunnableGraph ==
  phase = "running" =>
    /\ \A id \in planned \cap Roots : graph[id] = {}
    /\ \A id \in planned \cap (Filters \cup Nodes("report")) : graph[id] # {} /\ graph[id] \subseteq Nodes("source")
    /\ \A id \in planned \cap Nodes("publisher") : graph[id] # {} /\ graph[id] \subseteq Nodes("report")
    /\ Nodes("publisher") \subseteq planned
    /\ ClosedIn(graph, planned)
    /\ AcyclicIn(graph, planned)

\* Whatever is run is fed by a root in the end: no filter, report or publisher works
\* for ever on hosts that nobody discovers.
FedByRoot ==
  phase = "running" =>
    \A S \in SUBSET planned : S # {} /\ ClosedIn(graph, S) => S \cap Roots # {}

\* What runs is what the file says, all of it: nothing wrong in the file goes
\* unnoticed, and every edge is one it declares, whatever the order of the maps.
AcceptedAsDeclared ==
  phase = "running" => Sound(config) /\ graph = Declared(config)

\* A sound file is never refused, whatever the order of the maps (the two passes of
\* ReloadConfig over the sources), except for a circle.
SoundIsAccepted ==
  phase = "failed" => ~ Sound(config) \/ ~ AcyclicIn(Declared(config), DOMAIN Declared(config))

\* The first invariant of the run: types, and what runs is what the file says.
LoadInv == TypeOK /\ AcceptedAsDeclared
=============================================================================
