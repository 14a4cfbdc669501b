--------------------------- MODULE ConfigLoadProofs ---------------------------
(* Theorems about ConfigLoad, for any configuration, of any size.            *)
EXTENDS ConfigLoad, FiniteSetTheorems, TLAPS

Building == {"nodes", "precursors", "wiring", "planning", "running"}
Loading  == Phases \ (Building \cup {"failed"})

\* What is known of the sources: checked one by one, and all of them from then on.
SourcesInv ==
  /\ config \in Configurations
  /\ phase = "sources" => left \in Seq(Plugins)
  /\ \A n \in DOMAIN sources : sources[n].kind \in {"root", "filter"}
  /\ phase = "checking" => \A n \in DOMAIN sources \ todo : SourceOK(n)
  /\ phase \in Phases \ {"opening", "sources", "checking", "failed"} => \A n \in DOMAIN sources : SourceOK(n)

\* What is known of the target at hand, and of those that are complete.
TargetInv ==
  /\ phase \in {"reports", "publishers", "checkingPublishers"} => Head(rest).sources # {}
  /\ phase = "checkingPublishers" => \A n \in DOMAIN publishers \ todo : PublisherOK(n)
  /\ \A t \in DOMAIN targets :
       /\ targets[t].sources # {}
       /\ \A p \in DOMAIN targets[t].publishers :
            LET uses == targets[t].publishers[p].uses
            IN  uses # {} /\ uses \subseteq DOMAIN targets[t].reports

\* A node stands for a plugin that was loaded.
Known(id) ==
  \/ id = SourceId(id.name) /\ id.name \in DOMAIN sources
  \/ /\ id.target \in DOMAIN targets
     /\ \/ id = ReportId(id.target, id.name) /\ id.name \in DOMAIN targets[id.target].reports
        \/ id = PublisherId(id.target, id.name) /\ id.name \in DOMAIN targets[id.target].publishers

SourceIds(names) == {SourceId(n) : n \in names}

\* What is known of the edges of a node that is wired.
ReportWired(id) ==
  /\ graph[id] = SourceIds(targets[id.target].sources) \cap SourceIds(DOMAIN sources)
  /\ ~ wrong => targets[id.target].sources \subseteq DOMAIN sources

PublisherWired(id) ==
  /\ graph[id] = {ReportId(id.target, r) : r \in targets[id.target].publishers[id.name].uses}
  /\ \A r \in DOMAIN targets[id.target].reports : ReportId(id.target, r) \in DOMAIN graph

\* The graph, step by step: nothing, nodes, their edges, the targets.
GraphInv ==
  /\ phase \in Loading => DOMAIN graph = {}
  /\ \A id \in DOMAIN graph : Known(id)
  /\ phase = "nodes" => SourceIds(DOMAIN sources \ todo) \subseteq DOMAIN graph
  /\ phase \in Building \ {"nodes"} => SourceIds(DOMAIN sources) \subseteq DOMAIN graph
  /\ phase = "precursors" => \A n \in DOMAIN sources \ todo : graph[SourceId(n)] = SourceIds(sources[n].uses)
  /\ phase \in {"wiring", "planning", "running"} =>
       \A n \in DOMAIN sources : graph[SourceId(n)] = SourceIds(sources[n].uses)
  /\ \A id \in DOMAIN graph : id.class = "report" => ReportWired(id)
  /\ \A id \in DOMAIN graph : id.class = "publisher" => PublisherWired(id)

\* What the ForEach at hand has not come to.
TodoInv ==
  /\ phase \in {"checking", "nodes", "precursors"} => todo \subseteq DOMAIN sources
  /\ phase = "wiring" => todo \subseteq DOMAIN targets

PlanInv ==
  /\ wrong \in BOOLEAN
  /\ phase \in {"planning", "running"} => ~ wrong
  /\ phase = "running" => planned = Needed /\ AcyclicIn(graph, planned)

Inv == phase \in Phases /\ TodoInv /\ SourcesInv /\ TargetInv /\ GraphInv /\ PlanInv

-----------------------------------------------------------------------------
\* Ids of different plugins differ.
LEMMA IdsDiffer ==
  \A a, b, t, u :
    /\ SourceId(a) # ReportId(t, b) /\ SourceId(a) # PublisherId(t, b) /\ ReportId(t, a) # PublisherId(u, b)
    /\ SourceId(a) = SourceId(b) => a = b
    /\ ReportId(t, a) = ReportId(u, b) => t = u /\ a = b
    /\ PublisherId(t, a) = PublisherId(u, b) => t = u /\ a = b
    /\ SourceId(a).class = "source" /\ SourceId(a).name = a
    /\ ReportId(t, a).class = "report" /\ ReportId(t, a).target = t /\ ReportId(t, a).name = a
    /\ PublisherId(t, a).class = "publisher" /\ PublisherId(t, a).target = t /\ PublisherId(t, a).name = a
<1>1. ASSUME NEW a, NEW b, NEW t, NEW u
      PROVE  /\ SourceId(a) # ReportId(t, b) /\ SourceId(a) # PublisherId(t, b) /\ ReportId(t, a) # PublisherId(u, b)
             /\ SourceId(a) = SourceId(b) => a = b
             /\ ReportId(t, a) = ReportId(u, b) => t = u /\ a = b
             /\ PublisherId(t, a) = PublisherId(u, b) => t = u /\ a = b
             /\ SourceId(a).class = "source" /\ SourceId(a).name = a
             /\ ReportId(t, a).class = "report" /\ ReportId(t, a).target = t /\ ReportId(t, a).name = a
             /\ PublisherId(t, a).class = "publisher" /\ PublisherId(t, a).target = t /\ PublisherId(t, a).name = a
  BY <1>1 DEF SourceId, ReportId, PublisherId, Id
<1> QED
  BY <1>1

\* A source is a root or a filter.
LEMMA PluginKind == \A p \in Plugins : p.kind \in {"root", "filter"}
BY DEF Plugins

\* Before the file is opened nothing is known, and nothing is there.
LEMMA InitInv == Init => Inv
<1> SUFFICES ASSUME Init PROVE Inv
  OBVIOUS
<1>1. DOMAIN graph = {} /\ DOMAIN targets = {} /\ DOMAIN sources = {} /\ phase = "opening" /\ wrong = FALSE
      /\ config \in Configurations
  BY DEF Init, Empty
<1> QED
  BY <1>1 DEF Inv, SourcesInv, TargetInv, GraphInv, PlanInv, TodoInv, Phases, Loading, Building

\* The steps before the graph is begun leave it empty; those that change what a step
\* has to look through change what is known of it.
LEMMA LoadingStep ==
  ASSUME Inv, Load \/ Target \/ \E n \in Names : CheckSource(n) \/ RefuseSource(n) \/ CheckPublisher(n) \/ RefusePublisher(n)
  PROVE  Inv'
<1> USE DEF Inv, Phases, Loading, Building
<1>1. ASSUME UNCHANGED <<config, maps, plans>>, phase \in Phases, phase' = "failed" PROVE Inv'
  BY <1>1 DEF SourcesInv, TargetInv, GraphInv, PlanInv, TodoInv, maps, plans, Known, ReportWired, PublisherWired
<1>2. ASSUME Fail PROVE Inv'
  BY <1>1, <1>2 DEF Fail
<1>3. CASE LoadPlugin
  <2>1. phase' = phase /\ phase \in {"sources", "reports", "publishers"} /\ UNCHANGED <<config, rest, targets, graph, wrong, planned>>
    BY <1>3 DEF LoadPlugin, plans
  <2>2. phase # "sources" => UNCHANGED sources
    BY <1>3 DEF LoadPlugin
  <2>3. SourcesInv'
    <3>1. CASE phase = "sources"
      <4>1. left # <<>> /\ left' = Tail(left) /\ sources' = Extend(sources, Name(sources, Head(left)), Head(left))
        BY <3>1, <1>3 DEF LoadPlugin, Map
      <4>2. left' \in Seq(Plugins) /\ Head(left) \in Plugins
        BY <3>1, <4>1 DEF SourcesInv
      <4>3. Head(left).kind \in {"root", "filter"}
        BY <4>2, PluginKind
      <4>4. \A n \in DOMAIN sources' : sources'[n] = Head(left) \/ (n \in DOMAIN sources /\ sources'[n] = sources[n])
        BY <4>1 DEF Extend
      <4> QED
        BY <2>1, <3>1, <4>2, <4>3, <4>4 DEF SourcesInv
    <3>2. CASE phase # "sources"
      BY <2>1, <2>2, <3>2 DEF SourcesInv, SourceOK
    <3> QED
      BY <3>1, <3>2
  <2>4. TargetInv' /\ GraphInv' /\ PlanInv' /\ TodoInv'
    BY <2>1 DEF TargetInv, GraphInv, PlanInv, TodoInv
  <2> QED
    BY <2>1, <2>3, <2>4
<1>4. CASE RefusePlugin
  BY <1>4, <1>2 DEF RefusePlugin
<1>5. CASE Open
  BY <1>5, ConfigAssumption DEF Open, SourcesInv, TargetInv, GraphInv, PlanInv, TodoInv, plans, maps
<1>6. CASE RefuseFile
  BY <1>6, <1>2 DEF RefuseFile
<1>7. CASE EndSources
  BY <1>7 DEF EndSources, SourcesInv, TargetInv, GraphInv, PlanInv, TodoInv, plans, maps
<1>8. CASE EndChecking
  BY <1>8 DEF EndChecking, SourcesInv, TargetInv, GraphInv, PlanInv, TodoInv, plans, maps, SourceOK
<1>9. CASE StartTarget
  BY <1>9 DEF StartTarget, TargetOK, SourcesInv, TargetInv, GraphInv, PlanInv, TodoInv, plans, SourceOK
<1>10. CASE RefuseTarget
  BY <1>10, <1>2 DEF RefuseTarget
<1>11. CASE EndReports
  BY <1>11 DEF EndReports, SourcesInv, TargetInv, GraphInv, PlanInv, TodoInv, plans, maps, SourceOK
<1>12. CASE EndPublishers
  BY <1>12 DEF EndPublishers, SourcesInv, TargetInv, GraphInv, PlanInv, TodoInv, plans, maps, SourceOK
<1>13. CASE EndTarget
  <2>1. targets' = Extend(targets, Head(rest).name,
                          [sources |-> Head(rest).sources, reports |-> reports, publishers |-> publishers])
    BY <1>13 DEF EndTarget
  <2>2. Head(rest).sources # {} /\ \A n \in DOMAIN publishers : PublisherOK(n)
    BY <1>13 DEF EndTarget, TargetInv
  <2>3. TargetInv'
    BY <1>13, <2>1, <2>2 DEF EndTarget, TargetInv, Extend, PublisherOK
  <2> QED
    BY <1>13, <2>3 DEF EndTarget, SourcesInv, GraphInv, PlanInv, TodoInv, plans, SourceOK
<1>14. CASE EndTargets
  BY <1>14 DEF EndTargets, SourcesInv, TargetInv, GraphInv, PlanInv, TodoInv, plans, maps, SourceOK, SourceIds, Known, ReportWired, PublisherWired
<1>15. ASSUME NEW n \in Names, CheckSource(n) PROVE Inv'
  BY <1>15 DEF CheckSource, SourcesInv, TargetInv, GraphInv, PlanInv, TodoInv, plans, maps, SourceOK
<1>16. ASSUME NEW n \in Names, RefuseSource(n) PROVE Inv'
  BY <1>16, <1>2 DEF RefuseSource
<1>17. ASSUME NEW n \in Names, CheckPublisher(n) PROVE Inv'
  BY <1>17 DEF CheckPublisher, SourcesInv, TargetInv, GraphInv, PlanInv, TodoInv, plans, maps, SourceOK, PublisherOK
<1>18. ASSUME NEW n \in Names, RefusePublisher(n) PROVE Inv'
  BY <1>18, <1>2 DEF RefusePublisher
<1> QED
  BY <1>3, <1>4, <1>5, <1>6, <1>7, <1>8, <1>9, <1>10, <1>11, <1>12, <1>13, <1>14, <1>15, <1>16, <1>17, <1>18 DEF Load, Target

\* The nodes of the sources.
LEMMA NodeStep ==
  ASSUME Inv, NEW n \in Names, AddNode(n)
  PROVE Inv'
<1> USE DEF Inv, Phases, Loading, Building
<1>1. /\ phase = "nodes" /\ phase' = "nodes" /\ todo' = todo \ {n}
      /\ UNCHANGED <<config, sources, reports, publishers, targets, rest, wrong, planned>>
      /\ graph' = Extend(graph, SourceId(n), {})
  BY DEF AddNode, maps
<1>2. n \in DOMAIN sources
  <2>1. TodoInv
    OBVIOUS
  <2> QED
    BY <2>1, <1>1 DEF TodoInv, AddNode
<1>3. DOMAIN graph' = DOMAIN graph \cup {SourceId(n)}
  BY <1>1 DEF Extend
<1>4. \A id \in DOMAIN graph : id # SourceId(n) => graph'[id] = graph[id]
  BY <1>1 DEF Extend
<1>5. SourcesInv' /\ TargetInv' /\ PlanInv' /\ TodoInv'
  BY <1>1 DEF SourcesInv, TargetInv, PlanInv, SourceOK, TodoInv
<1>6. \A id \in DOMAIN graph' : Known(id)'
  <2>1. Known(SourceId(n))'
    BY <1>1, <1>2, IdsDiffer DEF Known
  <2>2. ASSUME NEW id \in DOMAIN graph PROVE Known(id)'
    BY <1>1 DEF Known, GraphInv
  <2> QED
    BY <2>1, <2>2, <1>3
<1>7. SourceIds(DOMAIN sources \ todo)' \subseteq DOMAIN graph'
  BY <1>1, <1>3 DEF GraphInv, SourceIds
<1>8. \A id \in DOMAIN graph' : id.class \in {"report", "publisher"} => id \in DOMAIN graph /\ graph'[id] = graph[id]
  BY <1>3, <1>4, IdsDiffer
<1>9. \A id \in DOMAIN graph' : id.class = "report" => ReportWired(id)'
  BY <1>1, <1>8 DEF GraphInv, ReportWired, SourceIds
<1>10. \A id \in DOMAIN graph' : id.class = "publisher" => PublisherWired(id)'
  BY <1>1, <1>3, <1>8 DEF GraphInv, PublisherWired
<1>11. GraphInv'
  BY <1>1, <1>6, <1>7, <1>9, <1>10 DEF GraphInv
<1> QED
  BY <1>1, <1>5, <1>11

\* Their edges: every precursor of a checked source is there.
LEMMA PrecursorStep ==
  ASSUME Inv, NEW n \in Names, SetPrecursors(n)
  PROVE Inv'
<1> USE DEF Inv, Phases, Loading, Building
<1>1. /\ phase = "precursors" /\ phase' = "precursors" /\ todo' = todo \ {n}
      /\ UNCHANGED <<config, sources, reports, publishers, targets, rest, planned>>
      /\ graph' = Extend(graph, SourceId(n), SourceIds(sources[n].uses) \cap DOMAIN graph)
      /\ wrong' = (wrong \/ \E s \in sources[n].uses : SourceId(s) \notin DOMAIN graph)
  BY DEF SetPrecursors, maps, SourceIds
<1>2. n \in DOMAIN sources
  <2>1. TodoInv
    OBVIOUS
  <2> QED
    BY <2>1, <1>1 DEF TodoInv, SetPrecursors
<1>3. SourceIds(DOMAIN sources) \subseteq DOMAIN graph
  BY <1>1 DEF GraphInv
<1>4. sources[n].uses \subseteq DOMAIN sources
  BY <1>1, <1>2 DEF SourcesInv, SourceOK
<1>5. SourceIds(sources[n].uses) \cap DOMAIN graph = SourceIds(sources[n].uses)
  BY <1>3, <1>4 DEF SourceIds
<1>6. wrong' = wrong
  <2>1. ~ \E s \in sources[n].uses : SourceId(s) \notin DOMAIN graph
    BY <1>3, <1>4 DEF SourceIds
  <2> QED
    BY <2>1, <1>1 DEF PlanInv
<1>7. DOMAIN graph' = DOMAIN graph /\ graph'[SourceId(n)] = SourceIds(sources[n].uses)
  BY <1>1, <1>2, <1>3, <1>5 DEF Extend, SourceIds
<1>8. \A id \in DOMAIN graph : id # SourceId(n) => graph'[id] = graph[id]
  BY <1>1 DEF Extend
<1>9. SourcesInv' /\ TargetInv' /\ PlanInv' /\ TodoInv'
  BY <1>1 DEF SourcesInv, TargetInv, PlanInv, SourceOK, TodoInv
<1>10. \A m \in DOMAIN sources \ todo' : graph'[SourceId(m)] = SourceIds(sources[m].uses)
  <2> SUFFICES ASSUME NEW m \in DOMAIN sources \ todo' PROVE graph'[SourceId(m)] = SourceIds(sources[m].uses)
    OBVIOUS
  <2>1. CASE m = n
    BY <2>1, <1>7
  <2>2. CASE m # n
    BY <2>2, <1>1, <1>3, <1>8, IdsDiffer DEF GraphInv, SourceIds
  <2> QED
    BY <2>1, <2>2
<1>11. \A id \in DOMAIN graph' : id.class \in {"report", "publisher"} => id \in DOMAIN graph /\ graph'[id] = graph[id]
  BY <1>7, <1>8, IdsDiffer
<1>12. \A id \in DOMAIN graph' : id.class = "report" => ReportWired(id)'
  BY <1>1, <1>6, <1>11 DEF GraphInv, ReportWired, SourceIds
<1>13. \A id \in DOMAIN graph' : id.class = "publisher" => PublisherWired(id)'
  BY <1>1, <1>7, <1>11 DEF GraphInv, PublisherWired
<1>14. \A id \in DOMAIN graph' : Known(id)'
  BY <1>1, <1>7 DEF Known, GraphInv
<1>15. GraphInv'
  BY <1>1, <1>3, <1>7, <1>10, <1>12, <1>13, <1>14 DEF GraphInv, SourceIds
<1> QED
  BY <1>1, <1>9, <1>15


\* A target's nodes: its reports on those of its sources that are there, its
\* publishers on its reports.
LEMMA WiringStep ==
  ASSUME Inv, NEW t \in Names, WireTarget(t)
  PROVE Inv'
<1> USE DEF Inv, Phases, Loading, Building
<1>1. /\ phase = "wiring" /\ phase' = "wiring" /\ todo' = todo \ {t} /\ t \in todo
      /\ UNCHANGED <<config, sources, reports, publishers, targets, rest, planned>>
      /\ graph' = [id \in DOMAIN graph \cup TargetNodes(t) |->
                     IF id \in TargetNodes(t) THEN TargetPrecursors(t, id) ELSE graph[id]]
      /\ wrong' = (wrong \/ \E s \in targets[t].sources : SourceId(s) \notin DOMAIN graph)
  BY DEF WireTarget, maps
<1>2. t \in DOMAIN targets
  <2>1. TodoInv
    OBVIOUS
  <2> QED
    BY <2>1, <1>1 DEF TodoInv
<1>3. DOMAIN graph' = DOMAIN graph \cup TargetNodes(t)
  BY <1>1
<1>4. \A id \in TargetNodes(t) : graph'[id] = TargetPrecursors(t, id)
  BY <1>1
<1>5. \A id \in DOMAIN graph \ TargetNodes(t) : graph'[id] = graph[id]
  BY <1>1
<1>6. \A s : SourceId(s) \in DOMAIN graph <=> s \in DOMAIN sources
  <2>1. ASSUME NEW s, SourceId(s) \in DOMAIN graph PROVE s \in DOMAIN sources
    BY <2>1, IdsDiffer DEF GraphInv, Known
  <2>2. ASSUME NEW s, s \in DOMAIN sources PROVE SourceId(s) \in DOMAIN graph
    BY <2>2, <1>1 DEF GraphInv, SourceIds
  <2> QED
    BY <2>1, <2>2
<1>7. \A id \in TargetNodes(t) :
        \/ id = ReportId(t, id.name) /\ id.name \in DOMAIN targets[t].reports
        \/ id = PublisherId(t, id.name) /\ id.name \in DOMAIN targets[t].publishers
  BY IdsDiffer DEF TargetNodes
<1>8. SourcesInv' /\ TargetInv' /\ PlanInv' /\ TodoInv'
  BY <1>1 DEF SourcesInv, TargetInv, PlanInv, SourceOK, TodoInv
<1>9. \A id \in DOMAIN graph' : Known(id)'
  <2>1. ASSUME NEW id \in TargetNodes(t) PROVE Known(id)'
    <3>1. id.target = t
      BY <1>7, IdsDiffer
    <3> QED
      BY <3>1, <1>1, <1>2, <1>7 DEF Known
  <2>2. ASSUME NEW id \in DOMAIN graph PROVE Known(id)'
    BY <1>1 DEF Known, GraphInv
  <2> QED
    BY <2>1, <2>2, <1>3
<1>10. \A n \in DOMAIN sources : graph'[SourceId(n)] = SourceIds(sources[n].uses)
  <2> SUFFICES ASSUME NEW n \in DOMAIN sources PROVE graph'[SourceId(n)] = SourceIds(sources[n].uses)
    OBVIOUS
  <2>1. SourceId(n) \in DOMAIN graph \ TargetNodes(t)
    BY <1>6, IdsDiffer DEF TargetNodes
  <2> QED
    BY <2>1, <1>1, <1>5 DEF GraphInv
<1>11. ~ wrong' => ~ wrong /\ targets[t].sources \subseteq DOMAIN sources
  BY <1>1, <1>6
<1>12. ASSUME NEW id \in DOMAIN graph', id.class = "report" PROVE ReportWired(id)'
  <2>1. CASE id \in TargetNodes(t)
    <3>1. id.target = t
      BY <2>1, <1>7, IdsDiffer
    <3>2. graph'[id] = {SourceId(s) : s \in targets[t].sources} \cap DOMAIN graph
      BY <2>1, <1>4, <1>12 DEF TargetPrecursors
    <3>3. graph'[id] = SourceIds(targets[t].sources) \cap SourceIds(DOMAIN sources)
      BY <3>2, <1>6 DEF SourceIds
    <3> QED
      BY <3>1, <3>3, <1>1, <1>11 DEF ReportWired, SourceIds
  <2>2. CASE id \in DOMAIN graph \ TargetNodes(t)
    BY <2>2, <1>1, <1>5, <1>11, <1>12 DEF GraphInv, ReportWired, SourceIds
  <2> QED
    BY <2>1, <2>2, <1>3
<1>13. ASSUME NEW id \in DOMAIN graph', id.class = "publisher" PROVE PublisherWired(id)'
  <2>1. CASE id \in TargetNodes(t)
    <3>1. id.target = t
      BY <2>1, <1>7, IdsDiffer
    <3>2. graph'[id] = {ReportId(t, r) : r \in targets[t].publishers[id.name].uses}
      BY <2>1, <1>4, <1>13 DEF TargetPrecursors
    <3>3. \A r \in DOMAIN targets[t].reports : ReportId(t, r) \in DOMAIN graph'
      BY <1>3 DEF TargetNodes
    <3> QED
      BY <3>1, <3>2, <3>3, <1>1 DEF PublisherWired
  <2>2. CASE id \in DOMAIN graph \ TargetNodes(t)
    BY <2>2, <1>1, <1>3, <1>5, <1>13 DEF GraphInv, PublisherWired
  <2> QED
    BY <2>1, <2>2, <1>3
<1>14. GraphInv'
  BY <1>1, <1>3, <1>6, <1>9, <1>10, <1>12, <1>13 DEF GraphInv, SourceIds
<1> QED
  BY <1>1, <1>8, <1>14

\* The steps between the passes, the plan, the refusals.
LEMMA BuildingStep ==
  ASSUME Inv, Wire
  PROVE Inv'
<1> USE DEF Inv, Phases, Loading, Building
<1>1. ASSUME Fail PROVE Inv'
  <2>1. phase' = "failed" /\ UNCHANGED <<config, sources, targets, graph, wrong>>
    BY <1>1 DEF Fail, maps, plans
  <2>2. SourcesInv' /\ TargetInv' /\ PlanInv' /\ TodoInv'
    BY <2>1 DEF SourcesInv, TargetInv, PlanInv, TodoInv
  <2>3. GraphInv'
    BY <2>1 DEF GraphInv, Known, ReportWired, PublisherWired, SourceIds
  <2> QED
    BY <2>1, <2>2, <2>3
<1>2. ASSUME UNCHANGED <<config, maps, plans, rest>>, phase' \in Building,
             \/ phase = "nodes" /\ phase' = "precursors" /\ todo = {} /\ todo' = DOMAIN sources
             \/ phase = "precursors" /\ phase' = "wiring" /\ todo = {}
             \/ phase = "wiring" /\ phase' = "planning",
             TodoInv', PlanInv'
      PROVE  Inv'
  <2>1. SourcesInv' /\ TargetInv'
    BY <1>2 DEF SourcesInv, TargetInv, SourceOK, maps
  <2>2. UNCHANGED <<sources, targets, graph, wrong>>
    BY <1>2 DEF maps, plans
  <2>3. \A id \in DOMAIN graph : Known(id)' = Known(id) /\ ReportWired(id)' = ReportWired(id)
                                /\ PublisherWired(id)' = PublisherWired(id)
    BY <2>2 DEF Known, ReportWired, PublisherWired, SourceIds
  <2>4. GraphInv'
    <3>1. CASE phase = "nodes"
      BY <3>1, <1>2, <2>2, <2>3 DEF GraphInv, SourceIds
    <3>2. CASE phase = "precursors"
      BY <3>2, <1>2, <2>2, <2>3 DEF GraphInv, SourceIds
    <3>3. CASE phase = "wiring"
      BY <3>3, <1>2, <2>2, <2>3 DEF GraphInv, SourceIds
    <3> QED
      BY <1>2, <3>1, <3>2, <3>3
  <2> QED
    BY <1>2, <2>1, <2>4
<1>3. CASE EndNodes
  BY <1>3, <1>2 DEF EndNodes, TodoInv, PlanInv, maps, plans
<1>4. CASE EndPrecursors
  BY <1>4, <1>2 DEF EndPrecursors, TodoInv, PlanInv, maps, plans
<1>5. CASE EndWiring
  BY <1>5, <1>2 DEF EndWiring, TodoInv, PlanInv, maps, plans
<1>6. CASE RefuseGraph
  BY <1>6, <1>1 DEF RefuseGraph
<1>7. CASE Plan
  <2>1. /\ phase = "planning" /\ phase' = "running" /\ planned' = Needed /\ AcyclicIn(graph, Needed)
        /\ UNCHANGED <<config, sources, reports, publishers, targets, rest, graph, wrong>>
    BY <1>7 DEF Plan, maps
  <2>2. Needed' = Needed /\ AcyclicIn(graph, planned)'
    BY <2>1 DEF Needed, Nodes, ClosedIn, AcyclicIn
  <2>3. PlanInv' /\ TodoInv'
    BY <2>1, <2>2 DEF PlanInv, TodoInv
  <2>4. SourcesInv' /\ TargetInv'
    BY <2>1 DEF SourcesInv, TargetInv, SourceOK
  <2>5. GraphInv'
    BY <2>1 DEF GraphInv, SourceIds, Known, ReportWired, PublisherWired
  <2> QED
    BY <2>1, <2>3, <2>4, <2>5
<1>8. CASE RefuseCircle
  BY <1>8, <1>1 DEF RefuseCircle
<1> QED
  BY <1>3, <1>4, <1>5, <1>6, <1>7, <1>8 DEF Wire

\* Every step of ReloadConfig keeps what is known.
LEMMA StepInv == Inv /\ [Next]_vars => Inv'
<1> SUFFICES ASSUME Inv, [Next]_vars PROVE Inv'
  OBVIOUS
<1>1. CASE UNCHANGED vars
  BY <1>1 DEF vars, maps, plans, Inv, SourcesInv, TargetInv, GraphInv, PlanInv, TodoInv, SourceOK, PublisherOK,
              Known, ReportWired, PublisherWired, SourceIds, Needed, Nodes, ClosedIn, AcyclicIn
<1>2. CASE Next
  BY <1>2, LoadingStep, NodeStep, PrecursorStep, WiringStep, BuildingStep DEF Next, ForEach
<1> QED
  BY <1>1, <1>2

\* What ReloadConfig has checked so far, and what it has built of the graph.
THEOREM InvHolds == Spec => []Inv
<1>1. Inv /\ [Next]_vars => Inv'
  BY StepInv
<1> QED
  BY InitInv, <1>1, PTL DEF Spec


-----------------------------------------------------------------------------
\* In the end every node that is planned is wired as the scan engine needs it.
LEMMA PlannedIsWired ==
  ASSUME Inv, phase = "running", NEW id \in planned
  PROVE  /\ id \in DOMAIN graph
         /\ id \in Roots => graph[id] = {}
         /\ id \in Filters \cup Nodes("report") => graph[id] # {} /\ graph[id] \subseteq Nodes("source")
         /\ id \in Nodes("publisher") => graph[id] # {} /\ graph[id] \subseteq Nodes("report")
         /\ id \in Roots \cup Filters \cup Nodes("report") \cup Nodes("publisher")
<1>1. planned = Needed /\ ~ wrong /\ SourcesInv /\ TargetInv /\ GraphInv
  BY DEF Inv, PlanInv
<1>2. id \in DOMAIN graph /\ Known(id)
  BY <1>1 DEF Needed, GraphInv
<1>3. \A n \in DOMAIN sources : SourceOK(n) /\ SourceId(n) \in Nodes("source") /\ graph[SourceId(n)] = SourceIds(sources[n].uses)
  BY <1>1, IdsDiffer DEF SourcesInv, GraphInv, Phases, Building, SourceIds, Nodes
<1>4. CASE id = SourceId(id.name) /\ id.name \in DOMAIN sources
  <2>1. id.class = "source"
    BY <1>4, IdsDiffer
  <2>2. sources[id.name].kind # "filter" => graph[id] = {}
    BY <1>3, <1>4 DEF SourceOK, SourceIds
  <2>3. sources[id.name].kind = "filter" => graph[id] # {} /\ graph[id] \subseteq Nodes("source")
    BY <1>3, <1>4 DEF SourceOK, SourceIds
  <2>4. sources[id.name].kind \in {"root", "filter"}
    BY <1>1, <1>4 DEF SourcesInv
  <2> QED
    BY <1>2, <2>1, <2>2, <2>3, <2>4 DEF Roots, Filters, Nodes

<1>5. CASE id.target \in DOMAIN targets /\ id = ReportId(id.target, id.name)
  <2>1. id.class = "report"
    BY <1>5, IdsDiffer
  <2>2. targets[id.target].sources # {} /\ targets[id.target].sources \subseteq DOMAIN sources
    BY <1>1, <1>2, <1>5, <2>1 DEF TargetInv, GraphInv, ReportWired
  <2>3. graph[id] = SourceIds(targets[id.target].sources)
    BY <1>1, <1>2, <2>1, <2>2 DEF GraphInv, ReportWired, SourceIds
  <2>4. graph[id] # {} /\ graph[id] \subseteq Nodes("source")
    BY <1>3, <2>2, <2>3 DEF SourceIds
  <2> QED
    BY <1>2, <2>1, <2>4 DEF Roots, Filters, Nodes
<1>6. CASE id.target \in DOMAIN targets /\ id = PublisherId(id.target, id.name) /\ id.name \in DOMAIN targets[id.target].publishers
  <2> DEFINE uses == targets[id.target].publishers[id.name].uses
  <2>1. id.class = "publisher"
    BY <1>6, IdsDiffer
  <2>2. /\ uses # {} /\ graph[id] = {ReportId(id.target, r) : r \in uses}
        /\ \A r \in uses : ReportId(id.target, r) \in DOMAIN graph
    BY <1>1, <1>2, <1>6, <2>1 DEF TargetInv, GraphInv, PublisherWired
  <2>3. \A r \in uses : ReportId(id.target, r) \in Nodes("report")
    BY <2>2 DEF Nodes, ReportId, Id
  <2>4. graph[id] # {} /\ graph[id] \subseteq Nodes("report")
    BY <2>2, <2>3
  <2> QED
    BY <1>2, <2>1, <2>4 DEF Roots, Filters, Nodes
<1> QED
  BY <1>2, <1>4, <1>5, <1>6 DEF Known

\* The library's smallest set is closed, because an edge never leaves the graph.
LEMMA NeededIsClosed ==
  ASSUME Inv, phase = "running"
  PROVE  Nodes("publisher") \subseteq planned /\ ClosedIn(graph, planned)
<1>1. planned = Needed
  BY DEF Inv, PlanInv
<1>2. Nodes("publisher") \subseteq Needed
  BY DEF Needed, Nodes
<1>3. ASSUME NEW id \in planned, NEW e \in graph[id] PROVE e \in Needed
  <2>1. e \in DOMAIN graph
    BY <1>3, PlannedIsWired DEF Nodes
  <2>2. ASSUME NEW S \in SUBSET DOMAIN graph, Nodes("publisher") \subseteq S, ClosedIn(graph, S) PROVE e \in S
    <3>1. id \in S
      BY <1>1, <1>3, <2>2 DEF Needed
    <3> QED
      BY <1>3, <2>2, <3>1 DEF ClosedIn
  <2> QED
    BY <2>1, <2>2 DEF Needed
<1> QED
  BY <1>1, <1>2, <1>3 DEF ClosedIn

\* Whatever ReloadConfig hands to the background loop, for any configuration and any
\* order of its maps, is a graph that the scan engine is made for.
THEOREM GraphIsRunnable == Spec => []RunnableGraph
<1>1. Inv => RunnableGraph
  <2> SUFFICES ASSUME Inv, phase = "running" PROVE RunnableGraph
    BY DEF RunnableGraph
  <2>1. AcyclicIn(graph, planned)
    BY DEF Inv, PlanInv
  <2> QED
    BY <2>1, PlannedIsWired, NeededIsClosed DEF RunnableGraph
<1> QED
  BY InvHolds, <1>1, PTL

\* And everything in it is fed by a root: a part of it that needs nothing else has,
\* without a circle, a member without precursors, which only a root may be.
THEOREM EverythingIsFed == Spec => []FedByRoot
<1>1. Inv => FedByRoot
  <2> SUFFICES ASSUME Inv, phase = "running",
                      NEW S \in SUBSET planned, S # {}, ClosedIn(graph, S)
               PROVE  S \cap Roots # {}
    BY DEF FedByRoot
  <2>1. PICK id \in S : graph[id] \cap S = {}
    BY DEF Inv, PlanInv, AcyclicIn
  <2>2. graph[id] = {}
    BY <2>1 DEF ClosedIn
  <2>3. id \in Roots
    BY <2>2, PlannedIsWired
  <2> QED
    BY <2>3
<1> QED
  BY InvHolds, <1>1, PTL

-----------------------------------------------------------------------------
(* What is loaded is what the file says, list by list.                      *)

\* What is left of a list, and how many of it are taken.
Taken(rem, list)  == Len(list) - Len(rem)
RestOf(rem, list) == Len(rem) <= Len(list) /\ \A i \in 1 .. Len(rem) : rem[i] = list[Taken(rem, list) + i]

\* A map holds the first k plugins of a list, each under its name.
Holds(map, list, k) ==
  /\ DOMAIN map = {NameAt(list, i) : i \in 1 .. k}
  /\ IsFiniteSet(DOMAIN map) /\ Cardinality(DOMAIN map) = k
  /\ \A i \in 1 .. k : map[NameAt(list, i)] = list[i] /\ list[i].good
  /\ \A i, j \in 1 .. k : NameAt(list, i) = NameAt(list, j) => i = j

Named(list, k)     == \A i \in 1 .. k : list[i].name # NoName
HoldsAll(map, list) == Holds(map, list, Len(list))
Reading(map, list) == RestOf(left, list) /\ Holds(map, list, Taken(left, list))

OfTarget == {"reports", "publishers", "checkingPublishers"}

\* What has been loaded of the file: the sources,
FileInv ==
  /\ phase \notin {"opening", "failed"} => config.good
  /\ phase = "opening" => sources = Empty
  /\ phase = "sources" => Reading(sources, config.sources) /\ Named(config.sources, Taken(left, config.sources))
  /\ phase \in {"checking", "targets"} \cup OfTarget \cup Building =>
       HoldsAll(sources, config.sources) /\ AllNamed(config.sources)

\* and the targets, of which the one at hand is the first that is left.
TargetDone(t) ==
  /\ t.sources # {} /\ t.reports # <<>>
  /\ targets[t.name].sources = t.sources
  /\ HoldsAll(targets[t.name].reports, t.reports) /\ AllNamed(t.reports)
  /\ HoldsAll(targets[t.name].publishers, t.publishers)

TargetsInv ==
  /\ phase \in {"opening", "sources", "checking"} => DOMAIN targets = {}
  /\ phase \in {"targets"} \cup OfTarget \cup Building =>
       /\ RestOf(rest, config.targets)
       /\ DOMAIN targets = {config.targets[i].name : i \in 1 .. Taken(rest, config.targets)}
       /\ \A i \in 1 .. Taken(rest, config.targets) : TargetDone(config.targets[i])
       /\ \A i, j \in 1 .. Taken(rest, config.targets) : config.targets[i].name = config.targets[j].name => i = j
  /\ phase \in Building => rest = <<>>

AtHandInv ==
  /\ phase \in OfTarget => rest # <<>> /\ TargetOK(Head(rest))
  /\ phase = "reports" =>
       /\ Reading(reports, Head(rest).reports) /\ Named(Head(rest).reports, Taken(left, Head(rest).reports))
       /\ publishers = Empty
  /\ phase \in OfTarget \ {"reports"} => HoldsAll(reports, Head(rest).reports) /\ AllNamed(Head(rest).reports)
  /\ phase = "publishers" => Reading(publishers, Head(rest).publishers)
  /\ phase = "checkingPublishers" => HoldsAll(publishers, Head(rest).publishers) /\ todo \subseteq DOMAIN publishers

\* Every target has its nodes in the end; an error is one of the file.
WiringInv ==
  /\ graph = [id \in DOMAIN graph |-> graph[id]]
  /\ phase = "wiring" => \A t \in DOMAIN targets \ todo : TargetNodes(t) \subseteq DOMAIN graph
  /\ phase \in {"planning", "running"} => \A t \in DOMAIN targets : TargetNodes(t) \subseteq DOMAIN graph
  /\ wrong => /\ phase \in {"wiring", "failed"}
              /\ \E t \in DOMAIN targets : ~ targets[t].sources \subseteq DOMAIN sources

DeclaredInv == FileInv /\ TargetsInv /\ AtHandInv /\ WiringInv /\ SoundIsAccepted

\* The head of what is left is the next of the list.
LEMMA RestTail ==
  ASSUME NEW S, NEW list \in Seq(S), NEW rem \in Seq(S), RestOf(rem, list), rem # <<>>
  PROVE  /\ Tail(rem) \in Seq(S) /\ RestOf(Tail(rem), list)
         /\ Taken(rem, list) \in Nat /\ Taken(rem, list) + 1 \in 1 .. Len(list)
         /\ Taken(Tail(rem), list) = Taken(rem, list) + 1
         /\ Head(rem) = list[Taken(rem, list) + 1] /\ Head(rem) \in S
<1>1. /\ Tail(rem) \in Seq(S) /\ Len(Tail(rem)) = Len(rem) - 1 /\ Len(rem) \in Nat \ {0} /\ Len(list) \in Nat
      /\ Head(rem) = rem[1] /\ rem[1] \in S /\ \A i \in 1 .. Len(rem) - 1 : Tail(rem)[i] = rem[i + 1]
  OBVIOUS
<1> DEFINE k == Taken(rem, list)
<1>2. k \in Nat /\ k + 1 \in 1 .. Len(list) /\ Taken(Tail(rem), list) = k + 1
  BY <1>1 DEF Taken, RestOf
<1>3. Head(rem) = list[k + 1]
  BY <1>1 DEF RestOf
<1>4. RestOf(Tail(rem), list)
  <2>1. Len(Tail(rem)) <= Len(list)
    BY <1>1 DEF RestOf
  <2>2. ASSUME NEW i \in 1 .. Len(Tail(rem)) PROVE Tail(rem)[i] = list[k + 1 + i]
    <3>1. i + 1 \in 1 .. Len(rem) /\ Tail(rem)[i] = rem[i + 1]
      BY <1>1, <2>2
    <3>2. rem[i + 1] = list[k + (i + 1)]
      BY <3>1 DEF RestOf
    <3>3. k + (i + 1) = k + 1 + i
      BY <1>2
    <3> QED
      BY <3>1, <3>2, <3>3
  <2> QED
    BY <1>2, <2>1, <2>2 DEF RestOf
<1> QED
  BY <1>1, <1>2, <1>3, <1>4

\* At first all of a list is left, in the end nothing.
LEMMA RestEnds ==
  ASSUME NEW S, NEW list \in Seq(S)
  PROVE  RestOf(list, list) /\ Taken(list, list) = 0 /\ Taken(<<>>, list) = Len(list)
BY DEF RestOf, Taken

LEMMA HoldsNone ==
  ASSUME NEW list
  PROVE Holds(Empty, list, 0)
BY FS_EmptySet DEF Holds, Empty

\* Loading the next plugin of a list.
LEMMA HoldsNext ==
  ASSUME NEW list \in Seq(Plugins), NEW k \in Nat, k + 1 \in 1 .. Len(list), NEW map, Holds(map, list, k)
  PROVE  /\ Name(map, list[k + 1]) = NameAt(list, k + 1)
         /\ Name(map, list[k + 1]) \notin DOMAIN map /\ list[k + 1].good =>
              Holds(Extend(map, Name(map, list[k + 1]), list[k + 1]), list, k + 1)
         /\ Name(map, list[k + 1]) \in DOMAIN map \/ ~ list[k + 1].good => ~ ListSound(list)
<1> DEFINE name == NameAt(list, k + 1)
           new == Extend(map, name, list[k + 1])
<1>1. Name(map, list[k + 1]) = name
  BY DEF Name, NameAt, Holds
<1>2. \A i \in 1 .. k + 1 : i \in 1 .. k \/ i = k + 1
  OBVIOUS
<1>3. ASSUME name \notin DOMAIN map, list[k + 1].good PROVE Holds(new, list, k + 1)
  <2>1. DOMAIN new = DOMAIN map \cup {name} /\ new[name] = list[k + 1] /\ \A n \in DOMAIN map : new[n] = map[n]
    BY <1>3 DEF Extend
  <2>2. DOMAIN map = {NameAt(list, i) : i \in 1 .. k}
    BY DEF Holds
  <2> HIDE DEF new, name
  <2>3. DOMAIN new = {NameAt(list, i) : i \in 1 .. k + 1}
    BY <1>2, <2>1, <2>2 DEF name
  <2>4. IsFiniteSet(DOMAIN new) /\ Cardinality(DOMAIN new) = k + 1
    <3>1. IsFiniteSet(DOMAIN map) /\ Cardinality(DOMAIN map) = k
      BY DEF Holds
    <3> QED
      BY <1>3, <2>1, <3>1, FS_AddElement
  <2>5. \A i \in 1 .. k + 1 : new[NameAt(list, i)] = list[i] /\ list[i].good
    <3>1. \A i \in 1 .. k : NameAt(list, i) \in DOMAIN map
      BY <2>2
    <3> QED
      BY <1>2, <1>3, <2>1, <3>1 DEF Holds, name
  <2>6. \A i, j \in 1 .. k + 1 : NameAt(list, i) = NameAt(list, j) => i = j
    <3>1. \A i \in 1 .. k : NameAt(list, i) # NameAt(list, k + 1)
      BY <1>3, <2>2 DEF name
    <3> QED
      BY <1>2, <3>1 DEF Holds
  <2> QED
    BY <2>3, <2>4, <2>5, <2>6 DEF Holds
<1>4. ASSUME name \in DOMAIN map PROVE ~ ListSound(list)
  <2>1. PICK i \in 1 .. k : name = NameAt(list, i)
    BY <1>4 DEF Holds
  <2>2. i \in DOMAIN list /\ k + 1 \in DOMAIN list /\ i # k + 1
    OBVIOUS
  <2> QED
    BY <2>1, <2>2 DEF ListSound
<1>5. ASSUME ~ list[k + 1].good PROVE ~ ListSound(list)
  BY <1>5 DEF ListSound
<1> HIDE DEF new
<1> QED
  BY <1>1, <1>3, <1>4, <1>5 DEF new

\* A list that is held by a map is sound, and its plugins are the map's.
LEMMA HoldsAllSound ==
  ASSUME NEW list \in Seq(Plugins), NEW map, HoldsAll(map, list)
  PROVE  /\ ListSound(list) /\ DOMAIN map = NamesIn(list)
         /\ \A i \in DOMAIN list : NameAt(list, i) \in DOMAIN map /\ map[NameAt(list, i)] = list[i]
         /\ \A n \in DOMAIN map : /\ map[n] = PluginOf(list, n)
                                 /\ \E i \in DOMAIN list : n = NameAt(list, i) /\ map[n] = list[i]
<1>1. DOMAIN list = 1 .. Len(list)
  OBVIOUS
<1>2. ListSound(list) /\ DOMAIN map = NamesIn(list)
  BY <1>1 DEF HoldsAll, Holds, ListSound, NamesIn
<1>3. \A i \in DOMAIN list : NameAt(list, i) \in DOMAIN map /\ map[NameAt(list, i)] = list[i]
  BY <1>1 DEF HoldsAll, Holds
<1>4. ASSUME NEW n \in DOMAIN map
      PROVE  map[n] = PluginOf(list, n) /\ \E i \in DOMAIN list : n = NameAt(list, i) /\ map[n] = list[i]
  <2>1. PICK i \in DOMAIN list : n = NameAt(list, i)
    BY <1>2 DEF NamesIn
  <2>2. (CHOOSE j \in DOMAIN list : NameAt(list, j) = n) = i
    BY <1>2, <2>1 DEF ListSound
  <2> QED
    BY <1>3, <2>1, <2>2 DEF PluginOf
<1> QED
  BY <1>2, <1>3, <1>4

\* One more plugin of the list at hand.
LEMMA LoadNext ==
  ASSUME NEW list \in Seq(Plugins), left \in Seq(Plugins), left # <<>>, RestOf(left, list),
         NEW map, IsMap(map), Holds(map, list, Taken(left, list)), Loads(map, Head(left)),
         phase = "publishers" => Len(list) <= Len(Numbered)
  PROVE  LET new == Extend(map, Name(map, Head(left)), Head(left))
         IN  /\ Tail(left) \in Seq(Plugins) /\ RestOf(Tail(left), list)
             /\ IsMap(new) /\ Holds(new, list, Taken(Tail(left), list))
             /\ phase # "publishers" /\ Named(list, Taken(left, list)) => Named(list, Taken(Tail(left), list))
<1> DEFINE k == Taken(left, list)
           name == Name(map, Head(left))
           new == Extend(map, name, Head(left))
<1>1. /\ Tail(left) \in Seq(Plugins) /\ RestOf(Tail(left), list) /\ Taken(Tail(left), list) = k + 1
      /\ k \in Nat /\ k + 1 \in 1 .. Len(list) /\ Head(left) = list[k + 1] /\ Head(left) \in Plugins
  BY RestTail
<1> HIDE DEF k
<1>2. Holds(map, list, k) /\ name \notin DOMAIN map /\ list[k + 1].good
  BY <1>1 DEF Loads, k
<1>3. Holds(new, list, k + 1) /\ name = NameAt(list, k + 1)
  BY <1>1, <1>2, HoldsNext
<1>4. name \in Names
  <2>1. CASE Head(left).name = NoName
    <3>1. k + 1 \in 1 .. Len(Numbered)
      BY <1>1, <2>1, ConfigAssumption DEF Loads
    <3> QED
      BY <1>1, <1>3, <2>1, <3>1, ConfigAssumption DEF NameAt
  <2>2. CASE Head(left).name # NoName
    BY <1>1, <1>3, <2>2 DEF NameAt, Plugins
  <2> QED
    BY <2>1, <2>2
<1> HIDE DEF name
<1>5. IsMap(new)
  BY <1>1, <1>4 DEF IsMap, Extend
<1>6. ASSUME phase # "publishers", Named(list, k) PROVE Named(list, k + 1)
  <2>1. list[k + 1].name # NoName
    BY <1>1, <1>6 DEF Loads
  <2>2. \A i \in 1 .. k + 1 : i \in 1 .. k \/ i = k + 1
    BY <1>1
  <2> QED
    BY <1>6, <2>1, <2>2 DEF Named
<1> QED
  BY <1>1, <1>3, <1>5, <1>6 DEF name, k

\* A plugin that is refused is wrong in its list.
LEMMA RefuseNext ==
  ASSUME NEW list \in Seq(Plugins), left \in Seq(Plugins), left # <<>>, RestOf(left, list),
         NEW map, Holds(map, list, Taken(left, list)), ~ Loads(map, Head(left))
  PROVE  ~ ListSound(list) \/ (phase # "publishers" /\ ~ AllNamed(list))
<1> DEFINE k == Taken(left, list)
<1>1. k \in Nat /\ k + 1 \in 1 .. Len(list) /\ Head(left) = list[k + 1] /\ Holds(map, list, k)
  BY RestTail
<1> HIDE DEF k
<1>2. CASE phase # "publishers" /\ Head(left).name = NoName
  BY <1>1, <1>2 DEF AllNamed
<1>3. CASE Name(map, Head(left)) \in DOMAIN map \/ ~ Head(left).good
  <2>1. Name(map, list[k + 1]) \in DOMAIN map \/ ~ list[k + 1].good
    BY <1>1, <1>3
  <2>2. Name(map, list[k + 1]) \in DOMAIN map \/ ~ list[k + 1].good => ~ ListSound(list)
    BY <1>1, HoldsNext, Zenon
  <2> QED
    BY <2>1, <2>2
<1> QED
  BY <1>2, <1>3 DEF Loads

-----------------------------------------------------------------------------
FullInv == TypeOK /\ Inv /\ DeclaredInv

\* The file has the form that the YAML decoder gives it.
LEMMA FileTypes ==
  ASSUME TypeOK
  PROVE  /\ config.good \in BOOLEAN /\ config.sources \in Seq(Plugins) /\ config.targets \in Seq(TargetConfigs)
         /\ \A i \in DOMAIN config.targets :
              /\ config.targets[i].name \in Names /\ config.targets[i].sources \subseteq Names
              /\ config.targets[i].reports \in Seq(Plugins) /\ config.targets[i].publishers \in Seq(Plugins)
              /\ Len(config.targets[i].publishers) <= Len(Numbered)
<1>1. /\ config.good \in BOOLEAN /\ config.sources \in Seq(Plugins) /\ config.targets \in Seq(TargetConfigs)
      /\ \A i \in DOMAIN config.targets : Len(config.targets[i].publishers) <= Len(Numbered)
  BY ConfigAssumption DEF TypeOK
<1>2. \A i \in DOMAIN config.targets : config.targets[i] \in TargetConfigs
  BY <1>1
<1>3. \A t \in TargetConfigs : /\ t.name \in Names /\ t.sources \subseteq Names
                              /\ t.reports \in Seq(Plugins) /\ t.publishers \in Seq(Plugins)
  BY DEF TargetConfigs
<1> QED
  BY <1>1, <1>2, <1>3

\* The target at hand is the next of the file.
LEMMA TargetAtHand ==
  ASSUME FullInv, phase \in {"targets"} \cup OfTarget, rest # <<>>
  PROVE  LET k == Taken(rest, config.targets)
         IN  /\ k \in Nat /\ k + 1 \in DOMAIN config.targets /\ Head(rest) = config.targets[k + 1]
             /\ Tail(rest) \in Seq(TargetConfigs) /\ RestOf(Tail(rest), config.targets)
             /\ Taken(Tail(rest), config.targets) = k + 1
             /\ Head(rest).name \in Names /\ Head(rest).sources \subseteq Names
             /\ Head(rest).reports \in Seq(Plugins) /\ Head(rest).publishers \in Seq(Plugins)
             /\ Len(Head(rest).publishers) <= Len(Numbered)
<1>1. rest \in Seq(TargetConfigs) /\ config.targets \in Seq(TargetConfigs) /\ RestOf(rest, config.targets)
  BY FileTypes DEF FullInv, TypeOK, DeclaredInv, TargetsInv
<1> DEFINE k == Taken(rest, config.targets)
<1>2. /\ k \in Nat /\ k + 1 \in 1 .. Len(config.targets) /\ Head(rest) = config.targets[k + 1]
      /\ Tail(rest) \in Seq(TargetConfigs) /\ RestOf(Tail(rest), config.targets)
      /\ Taken(Tail(rest), config.targets) = k + 1
  BY <1>1, RestTail
<1>3. k + 1 \in DOMAIN config.targets
  BY <1>1, <1>2
<1> HIDE DEF k
<1> QED
  BY <1>2, <1>3, FileTypes DEF FullInv, k

\* Loading a plugin.
LEMMA LoadPluginDeclared ==
  ASSUME FullInv, LoadPlugin
  PROVE  TypeOK' /\ DeclaredInv'
<1>1. /\ phase \in {"sources", "reports", "publishers"} /\ left # <<>> /\ left' = Tail(left)
      /\ UNCHANGED <<config, phase, rest, todo, targets, graph, wrong, planned>>
  BY DEF LoadPlugin, plans
<1>2. TypeOK /\ left \in Seq(Plugins)
  BY DEF FullInv, TypeOK
<1>3. CASE phase = "sources"
  <2>1. /\ Loads(sources, Head(left)) /\ UNCHANGED <<reports, publishers>>
        /\ sources' = Extend(sources, Name(sources, Head(left)), Head(left))
    BY <1>3 DEF LoadPlugin, Map
  <2>2. RestOf(left, config.sources) /\ Holds(sources, config.sources, Taken(left, config.sources)) /\ IsMap(sources)
    BY <1>3 DEF FullInv, DeclaredInv, FileInv, Reading, TypeOK
  <2>3. /\ Tail(left) \in Seq(Plugins) /\ RestOf(Tail(left), config.sources)
        /\ IsMap(sources') /\ Holds(sources', config.sources, Taken(Tail(left), config.sources))
        /\ Named(config.sources, Taken(left, config.sources)) => Named(config.sources, Taken(Tail(left), config.sources))
    BY <1>1, <1>2, <1>3, <2>1, <2>2, FileTypes, LoadNext
  <2>4. TypeOK'
    BY <1>1, <2>1, <2>3 DEF FullInv, TypeOK, IsMap
  <2>5. FileInv'
    BY <1>1, <1>3, <2>3 DEF FullInv, DeclaredInv, FileInv, Reading, Building, OfTarget
  <2>6. DOMAIN targets = {}
    BY <1>3 DEF FullInv, DeclaredInv, TargetsInv
  <2>7. TargetsInv' /\ AtHandInv' /\ WiringInv' /\ SoundIsAccepted'
    BY <1>1, <1>3, <2>6 DEF FullInv, DeclaredInv, TargetsInv, AtHandInv, WiringInv, SoundIsAccepted, OfTarget, Building
  <2> QED
    BY <2>4, <2>5, <2>7 DEF DeclaredInv
<1>4. ASSUME phase \in {"reports", "publishers"}
      PROVE  /\ Head(rest).reports \in Seq(Plugins) /\ Head(rest).publishers \in Seq(Plugins)
             /\ Len(Head(rest).publishers) <= Len(Numbered)
             /\ sources' = sources /\ WiringInv' /\ FileInv' /\ SoundIsAccepted' /\ TargetsInv'
             /\ rest # <<>> /\ TargetOK(Head(rest))' /\ TargetOK(Head(rest))
  <2>1. sources' = sources
    BY <1>4 DEF LoadPlugin
  <2>2. rest # <<>> /\ TargetOK(Head(rest))
    BY <1>4 DEF FullInv, DeclaredInv, AtHandInv, OfTarget
  <2>3. /\ Head(rest).reports \in Seq(Plugins) /\ Head(rest).publishers \in Seq(Plugins)
        /\ Len(Head(rest).publishers) <= Len(Numbered)
    BY <1>4, <2>2, TargetAtHand DEF OfTarget
  <2>4. WiringInv' /\ FileInv' /\ SoundIsAccepted' /\ TargetOK(Head(rest))'
    BY <1>1, <1>4, <2>1, <2>2 DEF FullInv, DeclaredInv, WiringInv, FileInv, SoundIsAccepted, TargetOK, OfTarget, Building
  <2>5. TargetsInv'
    BY <1>1, <1>4 DEF FullInv, DeclaredInv, TargetsInv, TargetDone, OfTarget, Building
  <2> QED
    BY <2>1, <2>2, <2>3, <2>4, <2>5
<1>5. CASE phase = "reports"
  <2> DEFINE list == Head(rest).reports
  <2>1. /\ Loads(reports, Head(left)) /\ UNCHANGED <<sources, publishers>>
        /\ reports' = Extend(reports, Name(reports, Head(left)), Head(left))
    BY <1>5 DEF LoadPlugin, Map
  <2>2. RestOf(left, list) /\ Holds(reports, list, Taken(left, list)) /\ IsMap(reports)
    BY <1>5 DEF FullInv, DeclaredInv, AtHandInv, Reading, TypeOK
  <2>3. /\ Tail(left) \in Seq(Plugins) /\ RestOf(Tail(left), list)
        /\ IsMap(reports') /\ Holds(reports', list, Taken(Tail(left), list))
        /\ Named(list, Taken(left, list)) => Named(list, Taken(Tail(left), list))
    BY <1>1, <1>2, <1>4, <1>5, <2>1, <2>2, LoadNext
  <2>4. TypeOK'
    BY <1>1, <2>1, <2>3 DEF FullInv, TypeOK, IsMap
  <2>5. AtHandInv'
    BY <1>1, <1>4, <1>5, <2>1, <2>3 DEF FullInv, DeclaredInv, AtHandInv, Reading, OfTarget
  <2> QED
    BY <1>4, <1>5, <2>4, <2>5 DEF DeclaredInv
<1>6. CASE phase = "publishers"
  <2> DEFINE list == Head(rest).publishers
  <2>1. /\ Loads(publishers, Head(left)) /\ UNCHANGED <<sources, reports>>
        /\ publishers' = Extend(publishers, Name(publishers, Head(left)), Head(left))
    BY <1>6 DEF LoadPlugin, Map
  <2>2. RestOf(left, list) /\ Holds(publishers, list, Taken(left, list)) /\ IsMap(publishers)
    BY <1>6 DEF FullInv, DeclaredInv, AtHandInv, Reading, TypeOK
  <2>3. /\ Tail(left) \in Seq(Plugins) /\ RestOf(Tail(left), list)
        /\ IsMap(publishers') /\ Holds(publishers', list, Taken(Tail(left), list))
    BY <1>1, <1>2, <1>4, <1>6, <2>1, <2>2, LoadNext
  <2>4. TypeOK'
    BY <1>1, <2>1, <2>3 DEF FullInv, TypeOK, IsMap
  <2>5. AtHandInv'
    BY <1>1, <1>4, <1>6, <2>1, <2>3 DEF FullInv, DeclaredInv, AtHandInv, Reading, OfTarget
  <2> QED
    BY <1>4, <1>6, <2>4, <2>5 DEF DeclaredInv
<1> QED
  BY <1>1, <1>3, <1>5, <1>6

\* What refuses a file is wrong in it.
LEMMA Refusals ==
  ASSUME FullInv,
         \/ RefusePlugin \/ RefuseFile \/ RefuseTarget \/ RefuseGraph
         \/ \E n \in Names : RefuseSource(n) \/ RefusePublisher(n)
  PROVE  Fail /\ ~ Sound(config)
<1>1. CASE RefuseFile
  BY <1>1 DEF RefuseFile, Sound
<1>2. CASE RefusePlugin
  <2>1. /\ phase \in {"sources", "reports", "publishers"} /\ left # <<>> /\ ~ Loads(Map, Head(left)) /\ Fail
        /\ TypeOK /\ left \in Seq(Plugins)
    BY <1>2 DEF RefusePlugin, FullInv, TypeOK
  <2>2. CASE phase = "sources"
    <3>1. RestOf(left, config.sources) /\ Holds(sources, config.sources, Taken(left, config.sources))
      BY <2>2 DEF FullInv, DeclaredInv, FileInv, Reading
    <3>2. ~ ListSound(config.sources) \/ ~ AllNamed(config.sources)
      BY <2>1, <2>2, <3>1, FileTypes, RefuseNext DEF Map
    <3> QED
      BY <2>1, <3>2 DEF Sound
  <2>3. CASE phase \in {"reports", "publishers"}
    <3>1. /\ Head(rest) \in {config.targets[i] : i \in DOMAIN config.targets}
          /\ Head(rest).reports \in Seq(Plugins) /\ Head(rest).publishers \in Seq(Plugins)
      BY <2>3, TargetAtHand DEF OfTarget, FullInv, DeclaredInv, AtHandInv
    <3>2. CASE phase = "reports"
      <4>1. RestOf(left, Head(rest).reports) /\ Holds(reports, Head(rest).reports, Taken(left, Head(rest).reports))
        BY <3>2 DEF FullInv, DeclaredInv, AtHandInv, Reading
      <4>2. ~ ListSound(Head(rest).reports) \/ ~ AllNamed(Head(rest).reports)
        BY <2>1, <3>1, <3>2, <4>1, RefuseNext DEF Map
      <4> QED
        BY <2>1, <3>1, <4>2 DEF Sound, TargetSound
    <3>3. CASE phase = "publishers"
      <4>1. RestOf(left, Head(rest).publishers) /\ Holds(publishers, Head(rest).publishers, Taken(left, Head(rest).publishers))
        BY <3>3 DEF FullInv, DeclaredInv, AtHandInv, Reading
      <4>2. ~ ListSound(Head(rest).publishers)
        BY <2>1, <3>1, <3>3, <4>1, RefuseNext DEF Map
      <4> QED
        BY <2>1, <3>1, <4>2 DEF Sound, TargetSound
    <3> QED
      BY <2>3, <3>2, <3>3
  <2> QED
    BY <2>1, <2>2, <2>3
<1>3. ASSUME NEW n \in Names, RefuseSource(n) PROVE Fail /\ ~ Sound(config)
  <2>1. phase = "checking" /\ n \in DOMAIN sources /\ ~ SourceOK(n) /\ Fail /\ HoldsAll(sources, config.sources)
    BY <1>3 DEF RefuseSource, FullInv, Inv, TodoInv, DeclaredInv, FileInv
  <2>2. config.sources \in Seq(Plugins) /\ DOMAIN sources = NamesIn(config.sources)
    BY <2>1, FileTypes, HoldsAllSound DEF FullInv
  <2>3. PICK i \in DOMAIN config.sources : sources[n] = config.sources[i]
    BY <2>1, <2>2, HoldsAllSound
  <2>4. config.sources[i].kind \in {"root", "filter"}
    BY <2>2, PluginKind
  <2>5. ~ SourceSound(config, config.sources[i])
    BY <2>1, <2>2, <2>3, <2>4 DEF SourceOK, SourceSound
  <2> QED
    BY <2>1, <2>5 DEF Sound
<1>4. CASE RefuseTarget
  <2>1. phase = "targets" /\ rest # <<>> /\ ~ TargetOK(Head(rest)) /\ Fail
    BY <1>4 DEF RefuseTarget
  <2> DEFINE k == Taken(rest, config.targets)
  <2>2. k \in Nat /\ k + 1 \in DOMAIN config.targets /\ Head(rest) = config.targets[k + 1]
    BY <2>1, TargetAtHand
  <2>3. DOMAIN targets = {config.targets[i].name : i \in 1 .. k} /\ \A i \in 1 .. k : i \in DOMAIN config.targets
    BY <2>1, <2>2, FileTypes DEF FullInv, DeclaredInv, TargetsInv
  <2> HIDE DEF k
  <2>4. CASE Head(rest).name \in DOMAIN targets
    <3>1. PICK i \in 1 .. k : config.targets[i].name = config.targets[k + 1].name
      BY <2>2, <2>3, <2>4
    <3>2. i # k + 1
      BY <2>2
    <3> QED
      BY <2>1, <2>2, <2>3, <3>1, <3>2 DEF Sound
  <2>5. CASE Head(rest).sources = {} \/ Head(rest).reports = <<>>
    BY <2>1, <2>2, <2>5 DEF Sound, TargetSound
  <2> QED
    BY <2>1, <2>4, <2>5 DEF TargetOK
<1>5. ASSUME NEW n \in Names, RefusePublisher(n) PROVE Fail /\ ~ Sound(config)
  <2>1. phase = "checkingPublishers" /\ n \in todo /\ ~ PublisherOK(n) /\ Fail
    BY <1>5 DEF RefusePublisher
  <2>2. /\ HoldsAll(reports, Head(rest).reports) /\ HoldsAll(publishers, Head(rest).publishers) /\ n \in DOMAIN publishers
        /\ rest # <<>>
    BY <2>1 DEF FullInv, DeclaredInv, AtHandInv, OfTarget
  <2>3. /\ Head(rest).reports \in Seq(Plugins) /\ Head(rest).publishers \in Seq(Plugins)
        /\ Head(rest) \in {config.targets[i] : i \in DOMAIN config.targets}
    BY <2>1, <2>2, TargetAtHand DEF OfTarget
  <2>4. DOMAIN reports = NamesIn(Head(rest).reports)
    BY <2>2, <2>3, HoldsAllSound
  <2>5. PICK i \in DOMAIN Head(rest).publishers : publishers[n] = Head(rest).publishers[i]
    BY <2>2, <2>3, HoldsAllSound
  <2>6. ~ TargetSound(config, Head(rest))
    BY <2>1, <2>4, <2>5 DEF PublisherOK, TargetSound
  <2> QED
    BY <2>1, <2>3, <2>6 DEF Sound
<1>6. CASE RefuseGraph
  <2>1. Fail /\ wrong /\ phase = "wiring"
    BY <1>6 DEF RefuseGraph
  <2>2. PICK t \in DOMAIN targets : ~ targets[t].sources \subseteq DOMAIN sources
    BY <2>1 DEF FullInv, DeclaredInv, WiringInv
  <2>3. /\ HoldsAll(sources, config.sources)
        /\ RestOf(rest, config.targets) /\ rest = <<>>
        /\ DOMAIN targets = {config.targets[i].name : i \in 1 .. Taken(rest, config.targets)}
        /\ \A i \in 1 .. Taken(rest, config.targets) : targets[config.targets[i].name].sources = config.targets[i].sources
    BY <2>1 DEF FullInv, DeclaredInv, FileInv, TargetsInv, TargetDone, Building
  <2>4. Taken(rest, config.targets) = Len(config.targets) /\ DOMAIN sources = NamesIn(config.sources)
    BY <2>3, FileTypes, RestEnds, HoldsAllSound DEF FullInv
  <2>5. PICK i \in DOMAIN config.targets : targets[t].sources = config.targets[i].sources
    BY <2>2, <2>3, <2>4, FileTypes DEF FullInv
  <2>6. ~ TargetSound(config, config.targets[i])
    BY <2>2, <2>4, <2>5 DEF TargetSound
  <2> QED
    BY <2>1, <2>6 DEF Sound
<1> QED
  BY <1>1, <1>2, <1>3, <1>4, <1>5, <1>6
\* What holds of all but the one that is changed holds of nothing less: a step that leaves
\* the maps and the graph alone.
LEMMA TypesKept ==
  ASSUME TypeOK, UNCHANGED <<config, sources, reports, publishers, targets, graph, wrong, planned>>,
         phase' \in Phases, left' \in Seq(Plugins), rest' \in Seq(TargetConfigs), todo' \subseteq Names
  PROVE  TypeOK'
BY DEF TypeOK, IsMap

\* The other steps until the graph is begun.
LEMMA LoadingDeclared ==
  ASSUME FullInv,
         \/ Open \/ EndSources \/ EndChecking \/ StartTarget \/ EndReports \/ EndPublishers \/ EndTarget \/ EndTargets
         \/ \E n \in Names : CheckSource(n) \/ CheckPublisher(n)
  PROVE  TypeOK' /\ DeclaredInv'
<1>0. /\ TypeOK /\ DeclaredInv /\ left \in Seq(Plugins) /\ rest \in Seq(TargetConfigs) /\ todo \subseteq Names
      /\ DOMAIN sources \subseteq Names /\ DOMAIN publishers \subseteq Names
      /\ config.sources \in Seq(Plugins) /\ config.targets \in Seq(TargetConfigs)
  BY FileTypes DEF FullInv, TypeOK, IsMap
<1> USE DEF Phases
<1>1. CASE Open
  <2>1. /\ phase = "opening" /\ phase' = "sources" /\ left' = config.sources /\ config.good
        /\ UNCHANGED <<config, rest, todo, sources, reports, publishers, targets, graph, wrong, planned>>
    BY <1>1 DEF Open, maps, plans
  <2>2. TypeOK'
    BY <1>0, <2>1, TypesKept
  <2>3. FileInv'
    <3>1. sources = Empty
      BY <1>0, <2>1 DEF DeclaredInv, FileInv
    <3>2. RestOf(config.sources, config.sources) /\ Taken(config.sources, config.sources) = 0
      BY <1>0, RestEnds
    <3> QED
      BY <2>1, <3>1, <3>2, HoldsNone DEF FileInv, Reading, Named, OfTarget, Building
  <2>4. DOMAIN targets = {} /\ ~ wrong /\ graph = [id \in DOMAIN graph |-> graph[id]]
    BY <1>0, <2>1 DEF DeclaredInv, TargetsInv, WiringInv
  <2>5. TargetsInv' /\ AtHandInv' /\ WiringInv' /\ SoundIsAccepted'
    BY <2>1, <2>4 DEF TargetsInv, AtHandInv, WiringInv, SoundIsAccepted, OfTarget, Building
  <2> QED
    BY <2>2, <2>3, <2>5 DEF DeclaredInv
<1>2. CASE EndSources \/ \E n \in Names : CheckSource(n)
  <2>1. /\ phase' = "checking" /\ UNCHANGED <<config, left, rest, sources, reports, publishers, targets, graph, wrong, planned>>
        /\ todo' \subseteq Names
        /\ \/ phase = "sources" /\ left = <<>>
           \/ phase = "checking"
    BY <1>0, <1>2 DEF EndSources, CheckSource, maps, plans
  <2>2. TypeOK'
    BY <1>0, <2>1, TypesKept
  <2>3. FileInv'
    <3>1. CASE phase = "sources"
      <4>1. Holds(sources, config.sources, Len(config.sources)) /\ Named(config.sources, Len(config.sources)) /\ config.good
        BY <1>0, <2>1, <3>1, RestEnds DEF DeclaredInv, FileInv, Reading
      <4>2. AllNamed(config.sources)
        BY <1>0, <4>1 DEF Named, AllNamed
      <4> QED
        BY <2>1, <4>1, <4>2 DEF FileInv, HoldsAll, OfTarget, Building
    <3>2. CASE phase = "checking"
      BY <1>0, <2>1, <3>2 DEF DeclaredInv, FileInv, OfTarget, Building
    <3> QED
      BY <2>1, <3>1, <3>2
  <2>4. DOMAIN targets = {} /\ ~ wrong /\ graph = [id \in DOMAIN graph |-> graph[id]]
    BY <1>0, <2>1 DEF DeclaredInv, TargetsInv, WiringInv
  <2>5. TargetsInv' /\ AtHandInv' /\ WiringInv' /\ SoundIsAccepted'
    BY <2>1, <2>4 DEF TargetsInv, AtHandInv, WiringInv, SoundIsAccepted, OfTarget, Building
  <2> QED
    BY <2>2, <2>3, <2>5 DEF DeclaredInv
<1>3. CASE EndChecking
  <2>1. /\ phase = "checking" /\ phase' = "targets" /\ rest' = config.targets
        /\ UNCHANGED <<config, left, todo, sources, reports, publishers, targets, graph, wrong, planned>>
    BY <1>3 DEF EndChecking, maps, plans
  <2>2. TypeOK'
    BY <1>0, <2>1, TypesKept
  <2>3. DOMAIN targets = {} /\ ~ wrong
    BY <1>0, <2>1 DEF DeclaredInv, TargetsInv, WiringInv
  <2>4. RestOf(rest, config.targets)' /\ Taken(rest, config.targets)' = 0
    BY <1>0, <2>1, RestEnds
  <2>5. TargetsInv'
    BY <2>1, <2>3, <2>4 DEF TargetsInv, OfTarget, Building
  <2>6. FileInv' /\ AtHandInv' /\ WiringInv' /\ SoundIsAccepted'
    BY <1>0, <2>1, <2>3 DEF DeclaredInv, FileInv, AtHandInv, WiringInv, SoundIsAccepted, OfTarget, Building
  <2> QED
    BY <2>2, <2>5, <2>6 DEF DeclaredInv
<1>4. CASE StartTarget
  <2>1. /\ phase = "targets" /\ phase' = "reports" /\ rest # <<>> /\ TargetOK(Head(rest))
        /\ left' = Head(rest).reports /\ reports' = Empty /\ publishers' = Empty
        /\ UNCHANGED <<config, rest, todo, sources, targets, graph, wrong, planned>>
    BY <1>4 DEF StartTarget, plans
  <2>2. Head(rest).reports \in Seq(Plugins)
    BY <2>1, TargetAtHand
  <2>3. TypeOK'
    BY <1>0, <2>1, <2>2 DEF TypeOK, IsMap, Empty
  <2>4. RestOf(left, Head(rest).reports)' /\ Taken(left, Head(rest).reports)' = 0
    BY <2>1, <2>2, RestEnds
  <2>5. AtHandInv'
    BY <2>1, <2>4, HoldsNone DEF AtHandInv, Reading, Named, OfTarget, TargetOK
  <2>6. TargetsInv'
    <3>1. \A t : TargetDone(t)' = TargetDone(t)
      BY <2>1 DEF TargetDone
    <3> QED
      BY <1>0, <2>1, <3>1 DEF DeclaredInv, TargetsInv, OfTarget, Building
  <2>7. FileInv' /\ WiringInv' /\ SoundIsAccepted'
    BY <1>0, <2>1 DEF DeclaredInv, FileInv, WiringInv, SoundIsAccepted, OfTarget, Building
  <2> QED
    BY <2>3, <2>5, <2>6, <2>7 DEF DeclaredInv
<1>5. CASE EndReports
  <2>1. /\ phase = "reports" /\ phase' = "publishers" /\ left = <<>> /\ left' = Head(rest).publishers
        /\ UNCHANGED <<config, rest, todo, sources, reports, publishers, targets, graph, wrong, planned>>
    BY <1>5 DEF EndReports, maps, plans
  <2>2. rest # <<>> /\ TargetOK(Head(rest)) /\ publishers = Empty
    BY <1>0, <2>1 DEF DeclaredInv, AtHandInv, OfTarget
  <2>3. Head(rest).reports \in Seq(Plugins) /\ Head(rest).publishers \in Seq(Plugins)
    BY <2>1, <2>2, TargetAtHand DEF OfTarget
  <2>4. TypeOK'
    BY <1>0, <2>1, <2>3, TypesKept
  <2>5. HoldsAll(reports, Head(rest).reports) /\ AllNamed(Head(rest).reports)
    <3>1. Holds(reports, Head(rest).reports, Len(Head(rest).reports)) /\ Named(Head(rest).reports, Len(Head(rest).reports))
      BY <1>0, <2>1, <2>3, RestEnds DEF DeclaredInv, AtHandInv, Reading
    <3> QED
      BY <2>3, <3>1 DEF HoldsAll, Named, AllNamed
  <2>6. Reading(publishers, Head(rest).publishers)'
    <3>1. RestOf(left, Head(rest).publishers)' /\ Taken(left, Head(rest).publishers)' = 0
      BY <2>1, <2>3, RestEnds
    <3> QED
      BY <2>1, <2>2, <3>1, HoldsNone DEF Reading
  <2>7. AtHandInv'
    BY <2>1, <2>2, <2>5, <2>6 DEF AtHandInv, OfTarget, TargetOK
  <2>8. TargetsInv'
    BY <1>0, <2>1 DEF DeclaredInv, TargetsInv, TargetDone, OfTarget, Building
  <2>9. FileInv' /\ WiringInv' /\ SoundIsAccepted'
    BY <1>0, <2>1 DEF DeclaredInv, FileInv, WiringInv, SoundIsAccepted, OfTarget, Building
  <2> QED
    BY <2>4, <2>7, <2>8, <2>9 DEF DeclaredInv
<1>6. CASE EndPublishers \/ \E n \in Names : CheckPublisher(n)
  <2>1. /\ phase' = "checkingPublishers" /\ UNCHANGED <<config, left, rest, sources, reports, publishers, targets, graph, wrong, planned>>
        /\ \/ phase = "publishers" /\ left = <<>> /\ todo' = DOMAIN publishers
           \/ phase = "checkingPublishers" /\ todo' \subseteq todo
    BY <1>6 DEF EndPublishers, CheckPublisher, maps, plans
  <2>2. TypeOK'
    BY <1>0, <2>1, TypesKept
  <2>3. rest # <<>> /\ TargetOK(Head(rest)) /\ HoldsAll(reports, Head(rest).reports) /\ AllNamed(Head(rest).reports)
    BY <1>0, <2>1 DEF DeclaredInv, AtHandInv, OfTarget
  <2>4. Head(rest).publishers \in Seq(Plugins)
    BY <2>1, <2>3, TargetAtHand DEF OfTarget
  <2>5. HoldsAll(publishers, Head(rest).publishers) /\ todo' \subseteq DOMAIN publishers
    BY <1>0, <2>1, <2>4, RestEnds DEF DeclaredInv, AtHandInv, Reading, HoldsAll
  <2>6. AtHandInv'
    BY <2>1, <2>3, <2>5 DEF AtHandInv, OfTarget, TargetOK
  <2>7. TargetsInv'
    BY <1>0, <2>1 DEF DeclaredInv, TargetsInv, TargetDone, OfTarget, Building
  <2>8. FileInv' /\ WiringInv' /\ SoundIsAccepted'
    BY <1>0, <2>1 DEF DeclaredInv, FileInv, WiringInv, SoundIsAccepted, OfTarget, Building
  <2> QED
    BY <2>2, <2>6, <2>7, <2>8 DEF DeclaredInv
<1>7. CASE EndTarget
  <2> DEFINE t    == Head(rest)
             k    == Taken(rest, config.targets)
             done == [sources |-> t.sources, reports |-> reports, publishers |-> publishers]
  <2>1. /\ phase = "checkingPublishers" /\ phase' = "targets" /\ rest' = Tail(rest) /\ targets' = Extend(targets, t.name, done)
        /\ UNCHANGED <<config, left, todo, sources, reports, publishers, graph, wrong, planned>>
    BY <1>7 DEF EndTarget, plans
  <2>2. /\ rest # <<>> /\ TargetOK(t) /\ HoldsAll(reports, t.reports) /\ AllNamed(t.reports)
        /\ HoldsAll(publishers, t.publishers)
    BY <1>0, <2>1 DEF DeclaredInv, AtHandInv, OfTarget
  <2>3. /\ k \in Nat /\ k + 1 \in DOMAIN config.targets /\ t = config.targets[k + 1]
        /\ Tail(rest) \in Seq(TargetConfigs) /\ RestOf(Tail(rest), config.targets)
        /\ Taken(Tail(rest), config.targets) = k + 1 /\ t.name \in Names /\ t.sources \subseteq Names
    BY <2>1, <2>2, TargetAtHand DEF OfTarget
  <2>4. /\ DOMAIN targets' = DOMAIN targets \cup {t.name} /\ targets'[t.name] = done
        /\ \A n \in DOMAIN targets : n # t.name => targets'[n] = targets[n]
    BY <2>1 DEF Extend
  <2>5. /\ DOMAIN targets = {config.targets[i].name : i \in 1 .. k}
        /\ \A i \in 1 .. k : TargetDone(config.targets[i])
        /\ \A i, j \in 1 .. k : config.targets[i].name = config.targets[j].name => i = j
    BY <1>0, <2>1 DEF DeclaredInv, TargetsInv, OfTarget
  <2>6. t.name \notin DOMAIN targets /\ t.sources # {} /\ t.reports # <<>>
    BY <2>2 DEF TargetOK
  <2>7. done.sources = t.sources /\ done.reports = reports /\ done.publishers = publishers
    OBVIOUS
  <2> HIDE DEF t, k, done
  <2>8. \A i \in 1 .. k + 1 : i \in 1 .. k \/ i = k + 1
    BY <2>3
  <2>9. TypeOK'
    <3>1. IsMap(reports) /\ IsMap(publishers) /\ IsMap(sources)
      BY <1>0 DEF TypeOK
    <3>2. DOMAIN targets' \subseteq Names
      BY <1>0, <2>3, <2>4 DEF TypeOK
    <3>3. ASSUME NEW n \in DOMAIN targets'
          PROVE  targets'[n].sources \subseteq Names /\ IsMap(targets'[n].reports) /\ IsMap(targets'[n].publishers)
      BY <1>0, <2>3, <2>4, <2>7, <3>1 DEF TypeOK
    <3> QED
      BY <1>0, <2>1, <2>3, <3>1, <3>2, <3>3 DEF TypeOK, IsMap
  <2>10. DOMAIN targets' = {config.targets[i].name : i \in 1 .. k + 1}
    BY <2>3, <2>4, <2>5, <2>8
  <2>11. \A i, j \in 1 .. k + 1 : config.targets[i].name = config.targets[j].name => i = j
    BY <2>3, <2>5, <2>6, <2>8
  <2>12. ASSUME NEW i \in 1 .. k + 1 PROVE TargetDone(config.targets[i])'
    <3>1. CASE i = k + 1
      BY <2>1, <2>2, <2>3, <2>4, <2>6, <2>7, <3>1 DEF TargetDone
    <3>2. CASE i \in 1 .. k
      <4>1. config.targets[i].name \in DOMAIN targets /\ config.targets[i].name # t.name
        BY <2>5, <2>6, <3>2
      <4> QED
        BY <2>1, <2>4, <2>5, <3>2, <4>1 DEF TargetDone
    <3> QED
      BY <2>8, <3>1, <3>2
  <2>13. TargetsInv'
    BY <2>1, <2>3, <2>10, <2>11, <2>12 DEF TargetsInv, OfTarget, Building
  <2>14. ~ wrong
    BY <1>0, <2>1 DEF DeclaredInv, WiringInv
  <2>15. FileInv' /\ AtHandInv' /\ WiringInv' /\ SoundIsAccepted'
    BY <1>0, <2>1, <2>14 DEF DeclaredInv, FileInv, AtHandInv, WiringInv, SoundIsAccepted, OfTarget, Building
  <2> QED
    BY <2>9, <2>13, <2>15 DEF DeclaredInv
<1>8. CASE EndTargets
  <2>1. /\ phase = "targets" /\ phase' = "nodes" /\ rest = <<>> /\ todo' = DOMAIN sources
        /\ UNCHANGED <<config, left, rest, sources, reports, publishers, targets, graph, wrong, planned>>
    BY <1>8 DEF EndTargets, maps, plans
  <2>2. TypeOK'
    BY <1>0, <2>1, TypesKept
  <2>3. TargetsInv'
    <3>1. \A t : TargetDone(t)' = TargetDone(t)
      BY <2>1 DEF TargetDone
    <3>2. phase' \in Building /\ phase' \notin {"opening", "sources", "checking"}
      BY <2>1 DEF Building
    <3> QED
      BY <1>0, <2>1, <3>1, <3>2 DEF DeclaredInv, TargetsInv
  <2>4. FileInv' /\ AtHandInv' /\ WiringInv' /\ SoundIsAccepted'
    BY <1>0, <2>1 DEF DeclaredInv, FileInv, AtHandInv, WiringInv, SoundIsAccepted, OfTarget, Building
  <2> QED
    BY <2>2, <2>3, <2>4 DEF DeclaredInv
<1> QED
  BY <1>1, <1>2, <1>3, <1>4, <1>5, <1>6, <1>7, <1>8
-----------------------------------------------------------------------------
\* The graph when it is handed over is the one the file declares.
LEMMA DeclaredGraph ==
  ASSUME FullInv, phase \in {"planning", "running"}
  PROVE  Sound(config) /\ graph = Declared(config)
<1>0. /\ TypeOK /\ SourcesInv /\ TargetInv /\ GraphInv /\ ~ wrong
      /\ phase \in Building /\ phase \in Phases \ {"opening", "sources", "checking", "failed"}
  BY DEF FullInv, Inv, PlanInv, Building, Phases
\* The sources.
<1>1. /\ config.good /\ config.sources \in Seq(Plugins) /\ HoldsAll(sources, config.sources) /\ AllNamed(config.sources)
      /\ \A i \in DOMAIN config.targets :
            config.targets[i].reports \in Seq(Plugins) /\ config.targets[i].publishers \in Seq(Plugins)
  BY <1>0, FileTypes DEF FullInv, DeclaredInv, FileInv, Building
<1>2. /\ ListSound(config.sources) /\ DOMAIN sources = NamesIn(config.sources)
      /\ \A i \in DOMAIN config.sources : NameAt(config.sources, i) \in DOMAIN sources /\ sources[NameAt(config.sources, i)] = config.sources[i]
      /\ \A n \in DOMAIN sources : sources[n] = PluginOf(config.sources, n)
  BY <1>1, HoldsAllSound
<1>3. ASSUME NEW i \in DOMAIN config.sources PROVE SourceSound(config, config.sources[i])
  <2>1. SourceOK(NameAt(config.sources, i)) /\ sources[NameAt(config.sources, i)] = config.sources[i]
    BY <1>0, <1>2 DEF SourcesInv
  <2>2. config.sources[i].kind \in {"root", "filter"}
    BY <1>1, PluginKind
  <2> QED
    BY <1>2, <2>1, <2>2 DEF SourceOK, SourceSound
\* The targets.
<1>4. /\ Taken(rest, config.targets) = Len(config.targets) /\ config.targets \in Seq(TargetConfigs)
      /\ DOMAIN config.targets = 1 .. Len(config.targets)
  BY <1>0, FileTypes, RestEnds DEF FullInv, DeclaredInv, TargetsInv
<1>5. /\ DOMAIN targets = {config.targets[i].name : i \in DOMAIN config.targets}
      /\ \A i \in DOMAIN config.targets : TargetDone(config.targets[i])
      /\ \A i, j \in DOMAIN config.targets : config.targets[i].name = config.targets[j].name => i = j
  BY <1>0, <1>4 DEF FullInv, DeclaredInv, TargetsInv
<1>6. ASSUME NEW i \in DOMAIN config.targets
      PROVE  LET t == config.targets[i]
             IN  /\ t.name \in DOMAIN targets /\ targets[t.name].sources = t.sources /\ t.sources # {} /\ t.reports # <<>>
                 /\ AllNamed(t.reports) /\ ListSound(t.reports) /\ ListSound(t.publishers)
                 /\ DOMAIN targets[t.name].reports = NamesIn(t.reports)
                 /\ DOMAIN targets[t.name].publishers = NamesIn(t.publishers)
                 /\ \A j \in DOMAIN t.publishers : /\ NameAt(t.publishers, j) \in DOMAIN targets[t.name].publishers
                                                   /\ targets[t.name].publishers[NameAt(t.publishers, j)] = t.publishers[j]
                 /\ \A p \in DOMAIN targets[t.name].publishers : targets[t.name].publishers[p] = PluginOf(t.publishers, p)
  <2> DEFINE t == config.targets[i]
  <2>1. /\ t.sources # {} /\ t.reports # <<>> /\ targets[t.name].sources = t.sources
        /\ HoldsAll(targets[t.name].reports, t.reports) /\ AllNamed(t.reports)
        /\ HoldsAll(targets[t.name].publishers, t.publishers) /\ t.name \in DOMAIN targets
    BY <1>5 DEF TargetDone
  <2>2. t.reports \in Seq(Plugins) /\ t.publishers \in Seq(Plugins)
    BY <1>1
  <2> HIDE DEF t
  <2>3. ListSound(t.reports) /\ DOMAIN targets[t.name].reports = NamesIn(t.reports)
    BY <2>1, <2>2, HoldsAllSound
  <2>4. /\ ListSound(t.publishers) /\ DOMAIN targets[t.name].publishers = NamesIn(t.publishers)
        /\ \A j \in DOMAIN t.publishers : /\ NameAt(t.publishers, j) \in DOMAIN targets[t.name].publishers
                                          /\ targets[t.name].publishers[NameAt(t.publishers, j)] = t.publishers[j]
        /\ \A p \in DOMAIN targets[t.name].publishers : targets[t.name].publishers[p] = PluginOf(t.publishers, p)
    BY <2>1, <2>2, HoldsAllSound
  <2> QED
    BY <2>1, <2>3, <2>4 DEF t
<1>7. \A s : SourceId(s) \in DOMAIN graph <=> s \in DOMAIN sources
  <2>1. ASSUME NEW s, SourceId(s) \in DOMAIN graph PROVE s \in DOMAIN sources
    BY <1>0, <2>1, IdsDiffer DEF GraphInv, Known
  <2>2. ASSUME NEW s, s \in DOMAIN sources PROVE SourceId(s) \in DOMAIN graph
    BY <1>0, <2>2 DEF GraphInv, SourceIds
  <2> QED
    BY <2>1, <2>2
<1>8. \A t \in DOMAIN targets : TargetNodes(t) \subseteq DOMAIN graph
  BY DEF FullInv, DeclaredInv, WiringInv
<1>9. ASSUME NEW i \in DOMAIN config.targets PROVE TargetSound(config, config.targets[i])
  <2> DEFINE t == config.targets[i]
  <2>1. t.sources \subseteq NamesIn(config.sources)
    <3>1. PICK r \in NamesIn(t.reports) : TRUE
      <4>1. 1 \in DOMAIN t.reports
        BY <1>1, <1>6
      <4> QED
        BY <4>1 DEF NamesIn
    <3>2. ReportId(t.name, r) \in DOMAIN graph
      BY <1>6, <1>8, <3>1 DEF TargetNodes
    <3> QED
      BY <1>0, <1>2, <1>6, <3>2, IdsDiffer DEF GraphInv, ReportWired
  <2>2. ASSUME NEW j \in DOMAIN t.publishers
        PROVE  t.publishers[j].uses # {} /\ t.publishers[j].uses \subseteq NamesIn(t.reports)
    BY <1>0, <1>6 DEF TargetInv
  <2> QED
    BY <1>6, <2>1, <2>2 DEF TargetSound
<1>10. Sound(config)
  BY <1>1, <1>2, <1>3, <1>5, <1>9 DEF Sound
\* The nodes, one by one.
<1> DEFINE target(id) == config.targets[CHOOSE i \in DOMAIN config.targets : config.targets[i].name = id.target]
           sourceIds == {SourceId(s) : s \in NamesIn(config.sources)}
           reportIds(i) == {ReportId(config.targets[i].name, r) : r \in NamesIn(config.targets[i].reports)}
           publisherIds(i) == {PublisherId(config.targets[i].name, p) : p \in NamesIn(config.targets[i].publishers)}
           allReports == UNION {reportIds(i) : i \in DOMAIN config.targets}
           allPublishers == UNION {publisherIds(i) : i \in DOMAIN config.targets}
           ids == sourceIds \cup allReports \cup allPublishers
           edges(id) == CASE id.class = "source" -> {SourceId(s) : s \in PluginOf(config.sources, id.name).uses}
                          [] id.class = "report" -> {SourceId(s) : s \in target(id).sources}
                          [] OTHER -> {ReportId(id.target, r) : r \in PluginOf(target(id).publishers, id.name).uses}
<1>11. ASSUME NEW i \in DOMAIN config.targets, NEW id, id.target = config.targets[i].name PROVE target(id) = config.targets[i]
  <2>1. \A j \in DOMAIN config.targets : config.targets[j].name = id.target <=> j = i
    BY <1>5, <1>11
  <2>2. (CHOOSE j \in DOMAIN config.targets : config.targets[j].name = id.target) = i
    BY <2>1
  <2> QED
    BY <2>2
<1>17. ASSUME NEW id
       PROVE  id \in ids <=> \/ id \in sourceIds
                             \/ \E i \in DOMAIN config.targets : id \in reportIds(i) \/ id \in publisherIds(i)
  <2> HIDE DEF sourceIds, reportIds, publisherIds
  <2>1. id \in allReports <=> \E i \in DOMAIN config.targets : id \in reportIds(i)
    OBVIOUS
  <2>2. id \in allPublishers <=> \E i \in DOMAIN config.targets : id \in publisherIds(i)
    OBVIOUS
  <2> HIDE DEF allReports, allPublishers
  <2> QED
    BY <2>1, <2>2
<1>12. DOMAIN graph = ids
  <2>1. ASSUME NEW id \in DOMAIN graph PROVE id \in ids
    <3>1. Known(id)
      BY <1>0 DEF GraphInv
    <3>2. CASE id = SourceId(id.name) /\ id.name \in DOMAIN sources
      BY <1>2, <3>2
    <3>3. CASE id.target \in DOMAIN targets
      <4>1. PICK i \in DOMAIN config.targets : id.target = config.targets[i].name
        BY <1>5, <3>3
      <4>2. CASE id = ReportId(id.target, id.name) /\ id.name \in DOMAIN targets[id.target].reports
        <5>1. id \in reportIds(i)
          BY <1>6, <4>1, <4>2
        <5> HIDE DEF ids, sourceIds, reportIds, publisherIds
        <5> QED
          BY <1>17, <5>1
      <4>3. CASE id = PublisherId(id.target, id.name) /\ id.name \in DOMAIN targets[id.target].publishers
        <5>1. id \in publisherIds(i)
          BY <1>6, <4>1, <4>3
        <5> HIDE DEF ids, sourceIds, reportIds, publisherIds
        <5> QED
          BY <1>17, <5>1
      <4>4. CASE id = SourceId(id.name) /\ id.name \in DOMAIN sources
        BY <3>2, <4>4
      <4> QED
        BY <3>1, <4>2, <4>3, <4>4 DEF Known
    <3> QED
      BY <3>1, <3>2, <3>3 DEF Known
  <2>2. sourceIds \subseteq DOMAIN graph
    BY <1>2, <1>7
  <2>3. ASSUME NEW i \in DOMAIN config.targets PROVE reportIds(i) \subseteq DOMAIN graph /\ publisherIds(i) \subseteq DOMAIN graph
    BY <1>6, <1>8 DEF TargetNodes
  <2> HIDE DEF ids, sourceIds, reportIds, publisherIds
  <2>4. ids \subseteq DOMAIN graph
    BY <1>17, <2>2, <2>3
  <2> QED
    BY <2>1, <2>4
<1>13. ASSUME NEW id \in DOMAIN graph PROVE graph[id] = edges(id)
  <2>1. Known(id)
    BY <1>0 DEF GraphInv
  <2>2. CASE id = SourceId(id.name) /\ id.name \in DOMAIN sources
    <3>1. id.class = "source"
      BY <2>2, IdsDiffer
    <3>2. graph[id] = {SourceId(s) : s \in sources[id.name].uses}
      BY <1>0, <2>2 DEF GraphInv, SourceIds, Building
    <3> QED
      BY <1>2, <2>2, <3>1, <3>2
  <2>3. CASE id.target \in DOMAIN targets /\ id = ReportId(id.target, id.name)
    <3>1. id.class = "report"
      BY <2>3, IdsDiffer
    <3>2. PICK i \in DOMAIN config.targets : id.target = config.targets[i].name
      BY <1>5, <2>3
    <3>3. target(id) = config.targets[i]
      BY <1>11, <3>2
    <3>4. targets[id.target].sources = target(id).sources
      BY <1>6, <3>2, <3>3
    <3> HIDE DEF target
    <3>5. graph[id] = {SourceId(s) : s \in target(id).sources}
      BY <1>0, <3>1, <3>4 DEF GraphInv, ReportWired, SourceIds
    <3> QED
      BY <3>1, <3>5
  <2>4. CASE id.target \in DOMAIN targets /\ id = PublisherId(id.target, id.name) /\ id.name \in DOMAIN targets[id.target].publishers
    <3>1. id.class = "publisher"
      BY <2>4, IdsDiffer
    <3>2. PICK i \in DOMAIN config.targets : id.target = config.targets[i].name
      BY <1>5, <2>4
    <3>3. target(id) = config.targets[i]
      BY <1>11, <3>2
    <3>4. targets[id.target].publishers[id.name] = PluginOf(target(id).publishers, id.name)
      BY <1>6, <2>4, <3>2, <3>3
    <3> HIDE DEF target
    <3>5. graph[id] = {ReportId(id.target, r) : r \in PluginOf(target(id).publishers, id.name).uses}
      BY <1>0, <3>1, <3>4 DEF GraphInv, PublisherWired
    <3> QED
      BY <3>1, <3>5
  <2> QED
    BY <2>1, <2>2, <2>3, <2>4 DEF Known
<1>18. ids = DeclaredIds(config)
  <2>1. ASSUME NEW i \in DOMAIN config.targets PROVE DeclaredOf(config.targets[i]) = reportIds(i) \cup publisherIds(i)
    BY DEF DeclaredOf
  <2>2. ASSUME NEW id PROVE id \in DeclaredIds(config) <=> \/ id \in sourceIds
                                                          \/ \E i \in DOMAIN config.targets : id \in DeclaredOf(config.targets[i])
    BY DEF DeclaredIds
  <2> HIDE DEF ids, sourceIds, reportIds, publisherIds
  <2> QED
    BY <1>17, <2>1, <2>2
<1>19. ASSUME NEW id PROVE edges(id) = DeclaredEdges(config, id)
  BY DEF DeclaredEdges, TargetNamed
<1>15. graph = [id \in DOMAIN graph |-> graph[id]]
  BY DEF FullInv, DeclaredInv, WiringInv
<1> HIDE DEF ids, edges
<1>16. graph = Declared(config)
  BY <1>12, <1>13, <1>15, <1>18, <1>19 DEF Declared
<1> QED
  BY <1>10, <1>16

\* A step of the graph keeps the types, when it keeps what is known of the nodes and
\* no edge leads out of the graph.
LEMMA GraphTypes ==
  ASSUME FullInv, Inv', UNCHANGED <<config, left, rest, sources, reports, publishers, targets>>,
         phase' \in Building, todo' \subseteq Names,
         \A id \in DOMAIN graph' : graph'[id] \subseteq DOMAIN graph', planned' \subseteq DOMAIN graph'
  PROVE  TypeOK'
<1>1. TypeOK /\ IsMap(sources) /\ \A t \in DOMAIN targets : IsMap(targets[t].reports) /\ IsMap(targets[t].publishers)
  BY DEF FullInv, TypeOK
<1>2. ASSUME NEW id \in DOMAIN graph' PROVE id \in Ids
  <2>1. Known(id)'
    BY DEF Inv, GraphInv
  <2>2. CASE id = SourceId(id.name) /\ id.name \in DOMAIN sources
    <3>1. id.name \in Names
      BY <1>1, <2>2 DEF IsMap
    <3> DEFINE n == id.name
    <3>2. SourceId(n) \in Ids
      BY <3>1 DEF SourceId, Id, Ids
    <3> QED
      BY <2>2, <3>2
  <2>3. CASE /\ id.target \in DOMAIN targets
             /\ \/ id = ReportId(id.target, id.name) /\ id.name \in DOMAIN targets[id.target].reports
                \/ id = PublisherId(id.target, id.name) /\ id.name \in DOMAIN targets[id.target].publishers
    <3> DEFINE n == id.name
               t == id.target
    <3>1. n \in Names /\ t \in Names
      BY <1>1, <2>3 DEF IsMap, TypeOK
    <3>2. ReportId(t, n) \in Ids /\ PublisherId(t, n) \in Ids
      BY <3>1 DEF ReportId, PublisherId, Id, Ids
    <3> QED
      BY <2>3, <3>2
  <2> QED
    BY <2>1, <2>2, <2>3 DEF Known
<1>3. wrong' \in BOOLEAN /\ phase' \in Phases
  BY DEF Inv, PlanInv
<1> QED
  BY <1>1, <1>2, <1>3 DEF TypeOK, IsMap

\* The steps that build the graph and plan it.
LEMMA BuildingDeclared ==
  ASSUME FullInv, Inv',
         \/ EndNodes \/ EndPrecursors \/ EndWiring \/ Plan
         \/ \E n \in Names : AddNode(n) \/ SetPrecursors(n) \/ WireTarget(n)
  PROVE  TypeOK' /\ DeclaredInv'
<1>0. /\ TypeOK /\ DeclaredInv /\ phase \in Building /\ todo \subseteq Names
      /\ DOMAIN sources \subseteq Names /\ DOMAIN targets \subseteq Names
      /\ planned \subseteq DOMAIN graph /\ \A id \in DOMAIN graph : graph[id] \subseteq DOMAIN graph
  BY DEF FullInv, TypeOK, IsMap, Building, EndNodes, EndPrecursors, EndWiring, Plan, AddNode, SetPrecursors, WireTarget
<1>1. /\ phase' \in Building /\ todo' \subseteq Names
      /\ UNCHANGED <<config, left, rest, sources, reports, publishers, targets>>
  BY <1>0 DEF EndNodes, EndPrecursors, EndWiring, Plan, AddNode, SetPrecursors, WireTarget, maps, plans, Building
<1>2. FileInv' /\ TargetsInv' /\ AtHandInv' /\ SoundIsAccepted'
  <2>1. FileInv'
    BY <1>0, <1>1 DEF DeclaredInv, FileInv, OfTarget, Building
  <2>2. TargetsInv'
    BY <1>0, <1>1 DEF DeclaredInv, TargetsInv, TargetDone, OfTarget, Building
  <2>3. AtHandInv' /\ SoundIsAccepted'
    BY <1>0, <1>1 DEF AtHandInv, SoundIsAccepted, OfTarget, Building
  <2> QED
    BY <2>1, <2>2, <2>3
<1>3. CASE EndNodes \/ EndPrecursors \/ EndWiring
  <2>1. UNCHANGED <<graph, wrong, planned>>
    BY <1>3 DEF EndNodes, EndPrecursors, EndWiring, plans
  <2>2. TypeOK'
    BY <1>0, <1>1, <2>1, GraphTypes
  <2>3. WiringInv'
    <3>1. CASE EndNodes
      BY <1>0, <1>1, <2>1, <3>1 DEF EndNodes, DeclaredInv, WiringInv, TargetNodes
    <3>2. CASE EndPrecursors
      BY <1>0, <1>1, <2>1, <3>2 DEF EndPrecursors, DeclaredInv, WiringInv, TargetNodes
    <3>3. CASE EndWiring
      BY <1>0, <1>1, <2>1, <3>3 DEF EndWiring, DeclaredInv, WiringInv, TargetNodes
    <3> QED
      BY <1>3, <3>1, <3>2, <3>3
  <2> QED
    BY <1>2, <2>2, <2>3 DEF DeclaredInv
<1>4. CASE Plan
  <2>1. /\ phase = "planning" /\ phase' = "running" /\ planned' = Needed /\ UNCHANGED <<graph, wrong>>
    BY <1>4 DEF Plan
  <2>2. planned' \subseteq DOMAIN graph
    BY <2>1 DEF Needed
  <2>3. TypeOK'
    BY <1>0, <1>1, <2>1, <2>2, GraphTypes
  <2>4. WiringInv'
    BY <1>0, <1>1, <2>1 DEF DeclaredInv, WiringInv, TargetNodes
  <2> QED
    BY <1>2, <2>3, <2>4 DEF DeclaredInv
<1>5. ASSUME NEW n \in Names, AddNode(n) \/ SetPrecursors(n) PROVE TypeOK' /\ DeclaredInv'
  <2> DEFINE here == {SourceId(s) : s \in sources[n].uses} \cap DOMAIN graph
  <2>1. /\ phase \in {"nodes", "precursors"} /\ phase' = phase /\ n \in todo /\ planned' = planned
        /\ \/ phase = "nodes" /\ graph' = Extend(graph, SourceId(n), {}) /\ wrong' = wrong
           \/ /\ phase = "precursors" /\ graph' = Extend(graph, SourceId(n), here)
              /\ wrong' = (wrong \/ \E s \in sources[n].uses : SourceId(s) \notin DOMAIN graph)
    BY <1>5 DEF AddNode, SetPrecursors
  <2>2. here \subseteq DOMAIN graph
    OBVIOUS
  <2>3. ~ wrong /\ n \in DOMAIN sources /\ SourceOK(n) /\ sources[n].kind \in {"root", "filter"}
    BY <1>0, <2>1 DEF FullInv, Inv, TodoInv, SourcesInv, DeclaredInv, WiringInv, Phases
  <2>4. sources[n].uses \subseteq DOMAIN sources
    BY <2>3 DEF SourceOK
  <2>5. phase = "precursors" => \A s \in sources[n].uses : SourceId(s) \in DOMAIN graph
    BY <2>4 DEF FullInv, Inv, GraphInv, SourceIds, Building
  <2>6. ~ wrong'
    BY <2>1, <2>3, <2>5
  <2> HIDE DEF here
  <2>7. /\ DOMAIN graph' = DOMAIN graph \cup {SourceId(n)}
        /\ graph'[SourceId(n)] \subseteq DOMAIN graph
        /\ \A id \in DOMAIN graph : id # SourceId(n) => graph'[id] = graph[id]
        /\ graph' = [id \in DOMAIN graph' |-> graph'[id]]
    BY <2>1, <2>2 DEF Extend
  <2>8. TypeOK'
    BY <1>0, <1>1, <2>1, <2>7, GraphTypes
  <2>9. WiringInv'
    BY <2>1, <2>6, <2>7 DEF WiringInv
  <2> QED
    BY <1>2, <2>8, <2>9 DEF DeclaredInv
<1>6. ASSUME NEW t \in Names, WireTarget(t) PROVE TypeOK' /\ DeclaredInv'
  <2>1. /\ phase = "wiring" /\ phase' = "wiring" /\ t \in todo /\ todo' = todo \ {t} /\ planned' = planned
        /\ graph' = [id \in DOMAIN graph \cup TargetNodes(t) |->
                        IF id \in TargetNodes(t) THEN TargetPrecursors(t, id) ELSE graph[id]]
        /\ wrong' = (wrong \/ \E s \in targets[t].sources : SourceId(s) \notin DOMAIN graph)
    BY <1>6 DEF WireTarget
  <2>2. t \in DOMAIN targets
    BY <2>1 DEF FullInv, Inv, TodoInv
  <2>3. /\ DOMAIN graph' = DOMAIN graph \cup TargetNodes(t)
        /\ \A id \in TargetNodes(t) : graph'[id] = TargetPrecursors(t, id)
        /\ \A id \in DOMAIN graph : id \notin TargetNodes(t) => graph'[id] = graph[id]
        /\ graph' = [id \in DOMAIN graph' |-> graph'[id]]
    BY <2>1
  <2>4. ASSUME NEW id \in TargetNodes(t) PROVE TargetPrecursors(t, id) \subseteq DOMAIN graph'
    <3>1. CASE id.class = "report"
      BY <2>3, <3>1 DEF TargetPrecursors
    <3>2. CASE id.class # "report"
      <4>1. PICK p \in DOMAIN targets[t].publishers : id = PublisherId(t, p)
        BY <2>4, <3>2, IdsDiffer DEF TargetNodes
      <4>2. id.name = p
        BY <4>1, IdsDiffer
      <4>3. targets[t].publishers[p].uses \subseteq DOMAIN targets[t].reports
        BY <2>2 DEF FullInv, Inv, TargetInv
      <4>4. TargetPrecursors(t, id) \subseteq TargetNodes(t)
        BY <3>2, <4>2, <4>3 DEF TargetPrecursors, TargetNodes
      <4> QED
        BY <2>3, <4>4
    <3> QED
      BY <3>1, <3>2
  <2>5. \A id \in DOMAIN graph' : graph'[id] \subseteq DOMAIN graph'
    BY <1>0, <2>3, <2>4
  <2>6. TypeOK'
    BY <1>0, <1>1, <2>1, <2>3, <2>5, GraphTypes
  <2>7. \A u \in DOMAIN targets \ todo' : TargetNodes(u) \subseteq DOMAIN graph'
    BY <1>0, <2>1, <2>3 DEF DeclaredInv, WiringInv
  <2>8. wrong' => \E u \in DOMAIN targets : ~ targets[u].sources \subseteq DOMAIN sources
    <3>1. CASE wrong
      BY <1>0, <3>1 DEF DeclaredInv, WiringInv
    <3>2. CASE \E s \in targets[t].sources : SourceId(s) \notin DOMAIN graph
      <4>1. SourceIds(DOMAIN sources) \subseteq DOMAIN graph
        BY <2>1 DEF FullInv, Inv, GraphInv, Building
      <4> QED
        BY <2>2, <3>2, <4>1 DEF SourceIds
    <3> QED
      BY <2>1, <3>1, <3>2
  <2>9. \A u : TargetNodes(u)' = TargetNodes(u)
    BY <1>1 DEF TargetNodes
  <2>10. WiringInv'
    BY <1>1, <2>1, <2>3, <2>7, <2>8, <2>9 DEF WiringInv
  <2> QED
    BY <1>2, <2>6, <2>10 DEF DeclaredInv
<1> QED
  BY <1>3, <1>4, <1>5, <1>6

\* The steps that refuse: whoever refuses names something that is wrong.
LEMMA FailingDeclared ==
  ASSUME FullInv,
         \/ RefusePlugin \/ RefuseFile \/ RefuseTarget \/ RefuseGraph \/ RefuseCircle
         \/ \E n \in Names : RefuseSource(n) \/ RefusePublisher(n)
  PROVE  TypeOK' /\ DeclaredInv'
<1>1. Fail /\ (~ Sound(config) \/ ~ AcyclicIn(Declared(config), DOMAIN Declared(config)))
  <2>1. CASE RefuseCircle
    <3>1. Fail /\ phase = "planning" /\ ~ AcyclicIn(graph, DOMAIN graph)
      BY <2>1 DEF RefuseCircle
    <3>2. graph = Declared(config)
      BY <3>1, DeclaredGraph
    <3> QED
      BY <3>1, <3>2
  <2> QED
    BY <2>1, Refusals
<1>2. phase' = "failed" /\ UNCHANGED <<config, left, rest, todo, sources, reports, publishers, targets, graph, wrong, planned>>
  BY <1>1 DEF Fail, maps, plans
<1>3. TypeOK'
  BY <1>2, TypesKept DEF FullInv, TypeOK, Phases
<1>4. FileInv' /\ TargetsInv' /\ AtHandInv'
  BY <1>2 DEF FileInv, TargetsInv, AtHandInv, OfTarget, Building
<1>5. WiringInv'
  BY <1>2 DEF FullInv, DeclaredInv, WiringInv
<1>6. SoundIsAccepted'
  <2> HIDE DEF Sound, Declared, AcyclicIn
  <2>1. config' = config
    BY <1>2
  <2> QED
    BY <1>1, <2>1 DEF SoundIsAccepted
<1> QED
  BY <1>3, <1>4, <1>5, <1>6 DEF DeclaredInv

LEMMA DeclaredInitially == Init => FullInv
<1> SUFFICES ASSUME Init PROVE FullInv
  OBVIOUS
<1>1. Inv
  BY InitInv
<1>2. TypeOK
  <2>1. DOMAIN Empty = {} /\ IsMap(Empty)
    BY DEF Empty, IsMap
  <2>2. <<>> \in Seq(Plugins) /\ <<>> \in Seq(TargetConfigs)
    OBVIOUS
  <2> HIDE DEF Empty
  <2> QED
    BY <2>1, <2>2 DEF Init, TypeOK, Phases
<1>3. FileInv /\ TargetsInv /\ AtHandInv /\ SoundIsAccepted
  BY DEF Init, FileInv, TargetsInv, AtHandInv, SoundIsAccepted, OfTarget, Building, Empty
<1>4. WiringInv
  BY DEF Init, WiringInv, Empty
<1> QED
  BY <1>1, <1>2, <1>3, <1>4 DEF FullInv, DeclaredInv

\* Every step of ReloadConfig keeps the types and what is loaded of the file.
LEMMA FullInvKept == FullInv /\ [Next]_vars => FullInv'
<1> SUFFICES ASSUME FullInv, [Next]_vars PROVE FullInv'
  OBVIOUS
<1>1. Inv'
  BY StepInv DEF FullInv
<1>2. TypeOK' /\ DeclaredInv'
  <2>1. CASE UNCHANGED vars
    <3>1. UNCHANGED <<config, phase, left, rest, todo, sources, reports, publishers, targets, graph, wrong, planned>>
      BY <2>1 DEF vars, maps, plans
    <3>2. TypeOK'
      BY <3>1 DEF FullInv, TypeOK, IsMap
    <3>3. FileInv'
      BY <3>1 DEF FullInv, DeclaredInv, FileInv, Reading
    <3>4. TargetsInv'
      BY <3>1 DEF FullInv, DeclaredInv, TargetsInv, TargetDone
    <3>5. AtHandInv'
      BY <3>1 DEF FullInv, DeclaredInv, AtHandInv, Reading, TargetOK
    <3>6. WiringInv' /\ SoundIsAccepted'
      BY <3>1 DEF FullInv, DeclaredInv, WiringInv, TargetNodes, SoundIsAccepted
    <3> QED
      BY <3>2, <3>3, <3>4, <3>5, <3>6 DEF DeclaredInv
  <2>2. CASE LoadPlugin
    BY <2>2, LoadPluginDeclared
  <2>3. CASE \/ RefusePlugin \/ RefuseFile \/ RefuseTarget \/ RefuseGraph \/ RefuseCircle
             \/ \E n \in Names : RefuseSource(n) \/ RefusePublisher(n)
    BY <2>3, FailingDeclared
  <2>4. CASE \/ Open \/ EndSources \/ EndChecking \/ StartTarget \/ EndReports \/ EndPublishers \/ EndTarget \/ EndTargets
             \/ \E n \in Names : CheckSource(n) \/ CheckPublisher(n)
    BY <2>4, LoadingDeclared
  <2>5. CASE \/ EndNodes \/ EndPrecursors \/ EndWiring \/ Plan
             \/ \E n \in Names : AddNode(n) \/ SetPrecursors(n) \/ WireTarget(n)
    BY <1>1, <2>5, BuildingDeclared
  <2> QED
    BY <2>1, <2>2, <2>3, <2>4, <2>5 DEF Next, Load, Target, Wire, ForEach
<1> QED
  BY <1>1, <1>2 DEF FullInv

\* What a configuration is turned into has the types of a graph of plugins, and the
\* graph that is run is the one the file declares: nothing that is wrong in the file
\* goes unnoticed by ReloadConfig and NewTarget, whatever the order of the maps.
THEOREM LoadCorrect == Spec => []LoadInv
<1>1. FullInv => LoadInv
  <2> SUFFICES ASSUME FullInv PROVE LoadInv
    OBVIOUS
  <2>1. AcceptedAsDeclared
    BY DeclaredGraph DEF AcceptedAsDeclared
  <2> QED
    BY <2>1 DEF FullInv, LoadInv
<1> QED
  BY DeclaredInitially, FullInvKept, <1>1, PTL DEF Spec

\* ReloadConfig refuses no file in which everything is right, but for a circle among
\* the plugins: the two passes over the sources need no particular order of the map.
THEOREM SoundFileAccepted == Spec => []SoundIsAccepted
<1>1. FullInv => SoundIsAccepted
  BY DEF FullInv, DeclaredInv
<1> QED
  BY DeclaredInitially, FullInvKept, <1>1, PTL DEF Spec
===============================================================================
