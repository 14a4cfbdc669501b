--------------------------- MODULE ScanEngineProofs ---------------------------
(* Theorems about ScanEngine, for every graph of plugins, every set of hosts *)
(* and every frequency.                                                      *)
EXTENDS ScanEngine, FiniteSetTheorems, TLAPS

USE DEF Never

\* Times and ages stay within the horizon.
LEMMA OlderBounded ==
  \A t \in 0 .. Horizon : Older(t) \in 0 .. Horizon /\ Older(t) >= t
BY TimeAssumption DEF Older

\* The timer is never set beyond the horizon: neither the frequency nor a minute
\* exceeds it.
LEMMA SleepBounded ==
  ASSUME elapsed \in 0 .. Horizon
  PROVE  SleepTime \in 0 .. Horizon
BY TimeAssumption DEF SleepTime, Max

\* Every variable keeps its type, in every step of the loop and of every node.
LEMMA TypeInductive == TypeOK /\ [Next]_vars => TypeOK'
<1> SUFFICES ASSUME TypeOK, [Next]_vars PROVE TypeOK'
  OBVIOUS
<1>1. ASSUME NEW n \in Nodes, Launch(n) PROVE TypeOK'
  BY <1>1, GraphAssumption DEF TypeOK, Launch, Status, Readers, Sources, Nodes, memory, times
<1>2. ASSUME NEW n \in Nodes, Skip(n) PROVE TypeOK'
  BY <1>2 DEF TypeOK, Skip, Status, memory, times
<1>3. ASSUME NEW n \in Readers, NEW p \in Precursors[n], GetHostsFromSource(n, p)
      PROVE  TypeOK'
  BY <1>3 DEF TypeOK, GetHostsFromSource, Status, Known, memory, times
<1>4. ASSUME NEW r \in Roots, Discover(r) PROVE TypeOK'
  <2>1. DiscoverList(r) \in SUBSET Hosts
    BY HostsAssumption DEF DiscoverList
  <2> QED
    BY <1>4, <2>1 DEF TypeOK, Discover, Status, Sources, memory, times
<1>5. ASSUME NEW f \in Filters, Filter(f) PROVE TypeOK'
  <2>1. PICK out \in SUBSET inputs[f] : found' = [found EXCEPT ![f] = out]
    BY <1>5 DEF Filter
  <2>2. out \in SUBSET Hosts
    BY DEF TypeOK, Readers
  <2> QED
    BY <1>5, <2>1, <2>2 DEF TypeOK, Filter, Status, memory, times
<1>6. ASSUME NEW n \in Reports \cup Publishers, GenerateOrPublish(n) PROVE TypeOK'
  BY <1>6 DEF TypeOK, GenerateOrPublish, Status, memory, times
<1>7. ASSUME NEW n \in Nodes, StepFails(n) PROVE TypeOK'
  BY <1>7 DEF TypeOK, StepFails, Status, memory, times
<1>8. ASSUME NEW s \in Sources, UpdateHostsFromSource(s) PROVE TypeOK'
  <2> DEFINE fresh == found[s] \ Known(s)
             all == Known(s) \cup found[s]
  <2>1. fresh \in SUBSET Hosts /\ all \in SUBSET Hosts
    BY DEF TypeOK, Known
  <2>2. Cardinality(fresh) \in Nat /\ Cardinality(all) \in Nat
    BY <2>1, HostsAssumption, FS_Subset, FS_CardinalityType
  <2>3. Remembered(s, found[s]) \in [Hosts -> {Never} \cup (0 .. Horizon)]
    BY TimeAssumption DEF Remembered, TypeOK
  <2>4. age' \in [Sources -> [Hosts -> {Never} \cup (0 .. Horizon)]]
    BY <1>8, <2>3 DEF UpdateHostsFromSource, TypeOK
  <2>5. discovered' \in [Sources -> Nat] /\ active' \in [Sources -> Nat]
    BY <1>8, <2>2 DEF UpdateHostsFromSource, TypeOK
  <2> QED
    BY <1>8, <2>4, <2>5 DEF UpdateHostsFromSource, TypeOK, Status, times
<1>9. BackgroundRunEnds => TypeOK'
  BY SleepBounded, TimeAssumption DEF BackgroundRunEnds, TypeOK, run, memory
<1>10. BackgroundRunStarts => TypeOK'
  BY TimeAssumption DEF BackgroundRunStarts, TypeOK, Status, memory
<1>11. Tick => TypeOK'
  <2> SUFFICES ASSUME Tick PROVE TypeOK'
    OBVIOUS
  <2>1. elapsed' \in 0 .. Horizon /\ rested' \in 0 .. Horizon
    BY OlderBounded DEF Tick, TypeOK
  <2>2. timer' \in 0 .. Horizon
    BY TimeAssumption DEF Tick, TypeOK, Max
  <2>3. age' \in [Sources -> [Hosts -> {Never} \cup (0 .. Horizon)]]
    BY OlderBounded DEF Tick, TypeOK
  <2> QED
    BY <2>1, <2>2, <2>3 DEF Tick, TypeOK, run
<1>12. UNCHANGED vars => TypeOK'
  BY DEF vars, TypeOK, run, memory, times
<1>13. ASSUME NEW f \in Filters, FilterPanics(f) PROVE TypeOK'
  BY <1>13 DEF TypeOK, FilterPanics, Status, memory, times
<1> QED
  BY <1>1, <1>2, <1>3, <1>4, <1>5, <1>6, <1>7, <1>8, <1>9, <1>10, <1>11, <1>12, <1>13 DEF Next, Call

\* A manager starts with variables of the right types.
LEMMA TypeInit == Init => TypeOK
BY TimeAssumption DEF Init, TypeOK, Status

\* Type correctness: the variables of Manager, Hosts, the loop and the steps
\* have the types TypeOK gives them in every behaviour.
THEOREM TypeCorrect == Spec => []TypeOK
BY TypeInit, TypeInductive, PTL DEF Spec

-----------------------------------------------------------------------------
(* Provenance                                                               *)

\* Hosts are only ever added to the memory of a source.
LEMMA KnownGrows ==
  ASSUME TypeOK, [Next]_vars, NEW s \in Sources
  PROVE  Known(s) \subseteq Known(s)'
<1>1. ASSUME NEW z \in Sources, UpdateHostsFromSource(z) PROVE Known(s) \subseteq Known(s)'
  BY <1>1 DEF UpdateHostsFromSource, Remembered, Known, TypeOK
<1>2. Tick => Known(s) \subseteq Known(s)'
  <2> SUFFICES ASSUME Tick, NEW h \in Hosts, age[s][h] # Never
               PROVE  age'[s][h] # Never
    BY DEF Known
  <2>1. age[s][h] \in 0 .. Horizon /\ age'[s][h] = Older(age[s][h])
    BY DEF Tick, TypeOK
  <2> QED
    BY <2>1, OlderBounded
<1>3. age' = age => Known(s) \subseteq Known(s)'
  BY DEF Known
<1> QED
  BY <1>1, <1>2, <1>3 DEF Next, Call, Launch, Skip, GetHostsFromSource, Discover, Filter,
     GenerateOrPublish, FilterPanics, StepFails, BackgroundRunEnds, BackgroundRunStarts, vars, memory

\* What precursors know together only grows.
LEMMA UpstreamGrows ==
  ASSUME TypeOK, [Next]_vars, NEW n \in Readers
  PROVE  UNION {Known(p) : p \in Precursors[n]} \subseteq
           (UNION {Known(p) : p \in Precursors[n]})'
<1>1. \A p \in Precursors[n] : p \in Sources
  BY GraphAssumption
<1>2. \A p \in Precursors[n] : Known(p) \subseteq Known(p)'
  BY <1>1, KnownGrows
<1> QED
  BY <1>2

\* The inputs of a step come from its precursors' memories.
LEMMA InputsKnown ==
  ASSUME TypeOK, [Next]_vars, ProvenanceInv, NEW n \in Readers
  PROVE  inputs'[n] \subseteq (UNION {Known(p) : p \in Precursors[n]})'
<1> DEFINE up == UNION {Known(p) : p \in Precursors[n]}
<1>1. up \subseteq up'
  BY UpstreamGrows
<1>2. inputs[n] \subseteq up
  BY DEF ProvenanceInv
<1>3. ASSUME NEW m \in Readers, NEW p \in Precursors[m], GetHostsFromSource(m, p)
      PROVE  inputs'[n] \subseteq up
  BY <1>2, <1>3 DEF GetHostsFromSource, TypeOK
<1>4. BackgroundRunStarts => inputs'[n] = {}
  BY DEF BackgroundRunStarts
<1>5. inputs' = inputs => inputs'[n] \subseteq up
  BY <1>2
<1>6. inputs'[n] \subseteq inputs[n] \cup up
  <2> HIDE DEF up
  <2> QED
    BY <1>3, <1>4, <1>5 DEF Next, Call, Launch, Skip, UpdateHostsFromSource, Discover,
       Filter, GenerateOrPublish, FilterPanics, StepFails, BackgroundRunEnds, Tick, vars, run
<1> QED
  BY <1>1, <1>2, <1>6

\* A filter's result is part of its inputs, until the next run clears both.
LEMMA FoundAmongInputs ==
  ASSUME TypeOK, [Next]_vars, ProvenanceInv, NEW f \in Filters
  PROVE  found'[f] \subseteq inputs'[f]
<1>1. found[f] \subseteq inputs[f] /\ f \in Readers /\ f \in Sources
  BY DEF ProvenanceInv, Readers, Sources
<1>2. ASSUME NEW m \in Readers, NEW p \in Precursors[m], GetHostsFromSource(m, p)
      PROVE  found'[f] \subseteq inputs'[f]
  BY <1>1, <1>2 DEF GetHostsFromSource, TypeOK
<1>3. ASSUME NEW r \in Roots, Discover(r) PROVE found'[f] \subseteq inputs'[f]
  BY <1>1, <1>3, NodesAssumption DEF Discover, TypeOK
<1>4. ASSUME NEW g \in Filters, Filter(g) PROVE found'[f] \subseteq inputs'[f]
  BY <1>1, <1>4 DEF Filter, TypeOK
<1>5. BackgroundRunStarts => found'[f] \subseteq inputs'[f]
  BY <1>1 DEF BackgroundRunStarts
<1>6. inputs' = inputs /\ found' = found => found'[f] \subseteq inputs'[f]
  BY <1>1
<1> QED
  BY <1>2, <1>3, <1>4, <1>5, <1>6 DEF Next, Call, Launch, Skip, UpdateHostsFromSource,
     GenerateOrPublish, FilterPanics, StepFails, BackgroundRunEnds, Tick, vars, run

\* What a filter stores was among its inputs, so a precursor remembers it; every
\* other step leaves the memories as they are or makes them larger.
LEMMA FilterProvenanceStep ==
  ASSUME TypeOK, [Next]_vars, ProvenanceInv, NEW f \in Filters
  PROVE  Known(f)' \subseteq (UNION {Known(p) : p \in Precursors[f]})'
<1> DEFINE up == UNION {Known(p) : p \in Precursors[f]}
<1>1. f \in Readers /\ f \in Sources
  BY DEF Readers, Sources
<1>2. up \subseteq up'
  BY <1>1, UpstreamGrows
<1>3. Known(f) \subseteq up /\ found[f] \subseteq up
  BY <1>1 DEF ProvenanceInv, FilterProvenance
<1>4. ASSUME NEW s \in Sources, UpdateHostsFromSource(s)
      PROVE  Known(f)' \subseteq Known(f) \cup found[f]
  BY <1>1, <1>4 DEF UpdateHostsFromSource, Remembered, Known, TypeOK
<1>5. Tick => Known(f)' = Known(f)
  BY <1>1, OlderBounded DEF Tick, Known, TypeOK
<1>6. age' = age => Known(f)' = Known(f)
  BY DEF Known
<1>7. Known(f)' \subseteq Known(f) \cup found[f]
  BY <1>4, <1>5, <1>6 DEF Next, Call, Launch, Skip, GetHostsFromSource, Discover, Filter,
     GenerateOrPublish, FilterPanics, StepFails, BackgroundRunEnds, BackgroundRunStarts, vars, memory
<1> QED
  BY <1>2, <1>3, <1>7

\* At the start nothing was read, found or remembered.
LEMMA ProvenanceInit == Init => ProvenanceInv
BY DEF Init, ProvenanceInv, FilterProvenance, Known, Sources

\* In any graph of plugins, a filter never remembers a host that no precursor
\* of it remembers.
THEOREM Provenance == Spec => []FilterProvenance
<1>1. TypeOK /\ ProvenanceInv /\ [Next]_vars => ProvenanceInv'
  BY InputsKnown, FoundAmongInputs, FilterProvenanceStep DEF ProvenanceInv, FilterProvenance
<1>2. ProvenanceInv => FilterProvenance
  BY DEF ProvenanceInv
<1> QED
  BY ProvenanceInit, TypeCorrect, <1>1, <1>2, PTL DEF Spec

-----------------------------------------------------------------------------
(* Freshness                                                                *)

\* Once a node is launched its precursors have ended, and stay ended.
LEMMA PrecursorsEnded ==
  ASSUME TypeOK, [Next]_vars, FreshInv, NEW n \in Nodes, NEW p \in Precursors[n],
         status'[n] \in Running \cup {"done", "failed"}
  PROVE  status'[p] \in Ended
<1> USE DEF Running, Ended
<1>1. p \in Nodes
  BY GraphAssumption
<1>2. status[n] \in Running \cup {"done", "failed"} => status[p] \in Ended
  BY DEF FreshInv
<1>3. ASSUME NEW m \in Nodes, Launch(m) PROVE status'[p] \in Ended
  BY <1>1, <1>2, <1>3 DEF Launch, TypeOK
<1>4. ASSUME NEW m \in Nodes, Skip(m) PROVE status'[p] \in Ended
  BY <1>1, <1>2, <1>4 DEF Skip, TypeOK
<1>5. ASSUME NEW m \in Readers, NEW q \in Precursors[m], GetHostsFromSource(m, q)
      PROVE status'[p] \in Ended
  BY <1>1, <1>2, <1>5 DEF GetHostsFromSource, TypeOK, Readers, Nodes, Sources
<1>6. ASSUME NEW m \in Nodes, Call(m) PROVE status'[p] \in Ended
  BY <1>1, <1>2, <1>6 DEF Call, Discover, Filter, GenerateOrPublish, StepFails, TypeOK
<1>7. ASSUME NEW s \in Sources, UpdateHostsFromSource(s) PROVE status'[p] \in Ended
  BY <1>1, <1>2, <1>7 DEF UpdateHostsFromSource, TypeOK, Nodes
<1>8. ~ BackgroundRunStarts
  BY DEF BackgroundRunStarts
<1>9. status' = status => status'[p] \in Ended
  BY <1>2
<1>10. ASSUME NEW f \in Filters, FilterPanics(f) PROVE status'[p] \in Ended
  BY <1>1, <1>10 DEF FilterPanics
<1> QED
  BY <1>3, <1>4, <1>5, <1>6, <1>7, <1>8, <1>9, <1>10 DEF Next, BackgroundRunEnds, Tick, vars, run

\* A source is done only after what it found was remembered.
LEMMA DoneIsKnown ==
  ASSUME TypeOK, [Next]_vars, FreshInv, NEW s \in Sources, status'[s] = "done"
  PROVE  found'[s] \subseteq Known(s)'
<1>1. s \in Nodes /\ (status[s] = "done" => found[s] \subseteq Known(s))
  BY DEF FreshInv, Nodes
<1>2. Known(s) \subseteq Known(s)'
  BY KnownGrows
<1>3. ASSUME NEW z \in Sources, UpdateHostsFromSource(z) PROVE found'[s] \subseteq Known(s)'
  <2>1. CASE z = s
    BY <1>3, <2>1, TimeAssumption DEF UpdateHostsFromSource, Remembered, Known, TypeOK
  <2>2. CASE z # s
    BY <1>1, <1>2, <1>3, <2>2 DEF UpdateHostsFromSource, TypeOK
  <2> QED
    BY <2>1, <2>2
<1>4. ASSUME NEW m \in Nodes, Call(m) PROVE found'[s] \subseteq Known(s)'
  <2>1. status[s] = "done" /\ m # s
    BY <1>1, <1>4, NodesAssumption
       DEF Call, Discover, Filter, GenerateOrPublish, StepFails, TypeOK, Sources
  <2>2. found'[s] = found[s]
    BY <1>4, <2>1 DEF Call, Discover, Filter, GenerateOrPublish, StepFails, TypeOK
  <2> QED
    BY <1>1, <1>2, <2>1, <2>2
<1>5. ~ BackgroundRunStarts
  BY <1>1 DEF BackgroundRunStarts
<1>6. found' = found /\ status[s] = "done" => found'[s] \subseteq Known(s)'
  BY <1>1, <1>2
<1>7. ASSUME NEW m \in Nodes, Launch(m) \/ Skip(m) PROVE found' = found /\ status[s] = "done"
  BY <1>1, <1>7 DEF Launch, Skip, TypeOK
<1>8. ASSUME NEW m \in Readers, NEW q \in Precursors[m], GetHostsFromSource(m, q)
      PROVE  found' = found /\ status[s] = "done"
  BY <1>1, <1>8 DEF GetHostsFromSource, TypeOK
<1>9. ASSUME NEW f \in Filters, FilterPanics(f) PROVE found' = found /\ status[s] = "done"
  BY <1>1, <1>9 DEF FilterPanics, TypeOK
<1> QED
  BY <1>3, <1>4, <1>5, <1>6, <1>7, <1>8, <1>9 DEF Next, BackgroundRunEnds, Tick, vars, run

\* A precursor that was read contributed all it found in this run.
LEMMA ReadIsComplete ==
  ASSUME TypeOK, [Next]_vars, FreshInv, NEW n \in Readers,
         status'[n] \in Running \cup {"done", "failed"},
         NEW p \in Precursors[n] \ unread'[n], status'[p] = "done"
  PROVE  found'[p] \subseteq inputs'[n]
<1> USE DEF Running, Ended
<1>1. n \in Nodes /\ p \in Sources /\ p \in Nodes /\ p \in Precursors[n]
  BY GraphAssumption DEF Readers, Nodes, Sources
<1>2. /\ status[n] \in Running \cup {"done", "failed"} =>
           /\ status[p] \in Ended
           /\ p \notin unread[n] /\ status[p] = "done" => found[p] \subseteq inputs[n]
      /\ status[p] = "done" => found[p] \subseteq Known(p)
  BY <1>1 DEF FreshInv
<1>3. ASSUME NEW m \in Nodes, Launch(m) PROVE found'[p] \subseteq inputs'[n]
  <2>1. CASE m = n
    BY <1>1, <1>3, <2>1 DEF Launch, TypeOK
  <2>2. CASE m # n
    BY <1>1, <1>2, <1>3, <2>2 DEF Launch, TypeOK
  <2> QED
    BY <2>1, <2>2
<1>4. ASSUME NEW m \in Nodes, Skip(m) PROVE found'[p] \subseteq inputs'[n]
  BY <1>1, <1>2, <1>4 DEF Skip, TypeOK
<1>5. ASSUME NEW m \in Readers, NEW q \in Precursors[m], GetHostsFromSource(m, q)
      PROVE found'[p] \subseteq inputs'[n]
  <2>1. m \in Nodes /\ status[p] = "done"
    BY <1>1, <1>5 DEF GetHostsFromSource, TypeOK, Readers, Nodes, Sources
  <2>2. CASE m = n /\ q = p
    BY <1>1, <1>2, <1>5, <2>1, <2>2 DEF GetHostsFromSource, TypeOK
  <2>3. CASE ~ (m = n /\ q = p)
    BY <1>1, <1>2, <1>5, <2>1, <2>3 DEF GetHostsFromSource, TypeOK
  <2> QED
    BY <2>2, <2>3
<1>6. ASSUME NEW m \in Nodes, Call(m) PROVE found'[p] \subseteq inputs'[n]
  <2>1. status[n] \in Running \cup {"done", "failed"} /\ inputs' = inputs /\ unread' = unread
    BY <1>1, <1>6 DEF Call, Discover, Filter, GenerateOrPublish, StepFails, TypeOK
  <2>2. status[p] = "done" /\ m # p
    BY <1>1, <1>2, <1>6, <2>1 DEF Call, Discover, Filter, GenerateOrPublish, StepFails, TypeOK
  <2>3. found'[p] = found[p]
    BY <1>1, <1>6, <2>2 DEF Call, Discover, Filter, GenerateOrPublish, StepFails, TypeOK
  <2> QED
    BY <1>2, <2>1, <2>2, <2>3
<1>7. ASSUME NEW s \in Sources, UpdateHostsFromSource(s) PROVE found'[p] \subseteq inputs'[n]
  <2>1. s \in Nodes
    BY DEF Nodes
  <2> QED
    BY <1>1, <1>2, <1>7, <2>1 DEF UpdateHostsFromSource, TypeOK
<1>8. ~ BackgroundRunStarts
  BY <1>1 DEF BackgroundRunStarts
<1>9. UNCHANGED run => found'[p] \subseteq inputs'[n]
  BY <1>2 DEF run
<1>10. ASSUME NEW f \in Filters, FilterPanics(f) PROVE found'[p] \subseteq inputs'[n]
  <2>1. status[n] \in {"done", "failed"} /\ status[p] = "done"
    BY <1>1, <1>10 DEF FilterPanics, TypeOK
  <2> QED
    BY <1>2, <1>10, <2>1 DEF FilterPanics
<1> QED
  BY <1>3, <1>4, <1>5, <1>6, <1>7, <1>8, <1>9, <1>10 DEF Next, BackgroundRunEnds, Tick, vars

\* A plugin is only called when nothing is left to read.
LEMMA CalledHasRead ==
  ASSUME TypeOK, [Next]_vars, FreshInv, NEW n \in Readers,
         status'[n] \in {"calling", "returned", "done"}
  PROVE  unread'[n] = {}
<1>1. n \in Nodes
  BY DEF Readers, Nodes, Sources
<1>2. status[n] \in {"calling", "returned", "done"} => unread[n] = {}
  BY DEF FreshInv
<1>3. ASSUME NEW m \in Nodes, Launch(m) PROVE unread'[n] = {}
  BY <1>1, <1>2, <1>3 DEF Launch, TypeOK
<1>4. ASSUME NEW m \in Readers, NEW q \in Precursors[m], GetHostsFromSource(m, q)
      PROVE unread'[n] = {}
  BY <1>1, <1>2, <1>4 DEF GetHostsFromSource, TypeOK
<1>5. ASSUME NEW m \in Nodes, Skip(m) \/ Call(m) PROVE unread'[n] = {}
  BY <1>1, <1>2, <1>5 DEF Skip, Call, Discover, Filter, GenerateOrPublish, StepFails, TypeOK
<1>6. ASSUME NEW s \in Sources, UpdateHostsFromSource(s) PROVE unread'[n] = {}
  BY <1>1, <1>2, <1>6 DEF UpdateHostsFromSource, TypeOK
<1>7. ~ BackgroundRunStarts
  BY <1>1 DEF BackgroundRunStarts
<1>8. UNCHANGED run => unread'[n] = {}
  BY <1>2 DEF run
<1>9. ASSUME NEW f \in Filters, FilterPanics(f) PROVE unread'[n] = {}
  BY <1>1, <1>2, <1>9 DEF FilterPanics, TypeOK, Ended
<1> QED
  BY <1>3, <1>4, <1>5, <1>6, <1>7, <1>8, <1>9 DEF Next, BackgroundRunEnds, Tick, vars

\* At the start no node was launched.
LEMMA FreshInit == Init => FreshInv
<1>1. \A s \in Sources : s \in Nodes
  BY DEF Nodes
<1>2. \A n \in Readers : n \in Nodes
  BY DEF Nodes, Readers, Sources
<1> QED
  BY <1>1, <1>2 DEF Init, FreshInv, Running

\* A report or filter works on everything its precursors found in the same run,
\* in every graph and every interleaving of its steps.
THEOREM Freshness == Spec => []FreshInputs
<1>1. TypeOK /\ FreshInv /\ [Next]_vars => FreshInv'
  <2> SUFFICES ASSUME TypeOK, FreshInv, [Next]_vars PROVE FreshInv'
    OBVIOUS
  <2>1. \A n \in Nodes : status'[n] \in Running \cup {"done", "failed"} =>
          \A p \in Precursors[n] : status'[p] \in Ended
    BY PrecursorsEnded
  <2>2. \A s \in Sources : status'[s] = "done" => found'[s] \subseteq Known(s)'
    BY DoneIsKnown
  <2>3. \A n \in Readers : status'[n] \in Running \cup {"done", "failed"} =>
          \A p \in Precursors[n] \ unread'[n] :
            status'[p] = "done" => found'[p] \subseteq inputs'[n]
    BY ReadIsComplete
  <2>4. \A n \in Readers : status'[n] \in {"calling", "returned", "done"} => unread'[n] = {}
    BY CalledHasRead
  <2> QED
    BY <2>1, <2>2, <2>3, <2>4 DEF FreshInv
<1>2. FreshInv => FreshInputs
  BY DEF FreshInv, FreshInputs, Running
<1> QED
  BY FreshInit, TypeCorrect, <1>1, <1>2, PTL DEF Spec

-----------------------------------------------------------------------------
(* Pace and stamps                                                          *)

\* A tick takes from the timer what it adds to the elapsed times.
LEMMA PaceInductive == TypeOK /\ PaceInv /\ [Next]_vars => PaceInv'
<1> SUFFICES ASSUME TypeOK, PaceInv, [Next]_vars PROVE PaceInv'
  OBVIOUS
<1>1. BackgroundRunEnds => PaceInv'
  BY TimeAssumption DEF BackgroundRunEnds, PaceInv, SleepTime, Max, TypeOK
<1>2. BackgroundRunStarts => PaceInv'
  BY DEF BackgroundRunStarts, PaceInv
<1>3. Tick => PaceInv'
  BY TimeAssumption DEF Tick, PaceInv, Older, Max, TypeOK
<1>4. loop' = loop /\ UNCHANGED times => PaceInv'
  BY DEF PaceInv, times
<1>5. ASSUME NEW f \in Filters, FilterPanics(f) PROVE PaceInv'
  BY <1>5 DEF FilterPanics, PaceInv
<1> QED
  BY <1>1, <1>2, <1>3, <1>4, <1>5 DEF Next, Call, Launch, Skip, GetHostsFromSource, Discover, Filter,
     GenerateOrPublish, FilterPanics, StepFails, UpdateHostsFromSource, vars

\* Whatever the frequency and however long the runs: a run starts at least
\* Frequency after the start of the last one and a minute after its end.
THEOREM Pace == Spec => []Paced
<1>1. Init => PaceInv
  BY DEF Init, PaceInv
<1>2. TypeOK /\ PaceInv => Paced
  BY TimeAssumption DEF PaceInv, Paced, TypeOK
<1> QED
  BY TypeCorrect, PaceInductive, <1>1, <1>2, PTL DEF Spec

\* While the loop rests every node has ended, so nothing can be stamped.
LEMMA RestingIsQuiet ==
  ASSUME TypeOK, [Next]_vars, StampInv, loop' = "sleeping"
  PROVE  /\ \A n \in Nodes : status'[n] \in Ended
         /\ \A s \in Sources : \A h \in Hosts : age'[s][h] # Never => age'[s][h] >= rested'
<1> USE DEF Ended
<1>1. CASE loop = "sleeping"
  <2>1. /\ \A n \in Nodes : status[n] \in Ended
        /\ \A s \in Sources : \A h \in Hosts : age[s][h] # Never => age[s][h] >= rested
    BY <1>1 DEF StampInv
  <2>2. UNCHANGED <<status, age, rested>> \/ Tick
    BY <1>1, <2>1, GraphAssumption DEF Next, Call, Launch, Skip, GetHostsFromSource, Discover,
       Filter, GenerateOrPublish, FilterPanics, StepFails, UpdateHostsFromSource, BackgroundRunEnds,
       BackgroundRunStarts, vars, run, memory, times, Nodes, Readers, Sources
  <2>3. ASSUME Tick, NEW s \in Sources, NEW h \in Hosts, age'[s][h] # Never
        PROVE  age'[s][h] >= rested'
    BY <2>1, <2>3, TimeAssumption DEF Tick, Older, TypeOK
  <2> QED
    BY <2>1, <2>2, <2>3 DEF Tick, run
<1>2. CASE loop # "sleeping"
  <2>1. BackgroundRunEnds
    BY <1>2 DEF Next, Call, Launch, Skip, GetHostsFromSource, Discover, Filter,
       GenerateOrPublish, FilterPanics, StepFails, UpdateHostsFromSource, BackgroundRunStarts, Tick, vars
  <2> QED
    BY <2>1, TimeAssumption DEF BackgroundRunEnds, TypeOK, run, memory
<1> QED
  BY <1>1, <1>2

\* A stamp younger than the run is one the run has made.
LEMMA StampsStep ==
  ASSUME TypeOK, [Next]_vars, StampInv, PaceInv, NEW s \in Sources, NEW h \in Hosts,
         elapsed' < Horizon
  PROVE  age'[s][h] \in 0 .. elapsed' <=> status'[s] = "done" /\ h \in found'[s]
<1>1. s \in Nodes /\ age[s][h] \in {Never} \cup (0 .. Horizon) /\ elapsed \in 0 .. Horizon
  BY DEF Nodes, TypeOK
<1>2. elapsed < Horizon =>
        (age[s][h] \in 0 .. elapsed <=> status[s] = "done" /\ h \in found[s])
  BY DEF StampInv, StampsTellRun
<1> DEFINE Goal == age'[s][h] \in 0 .. elapsed' <=> status'[s] = "done" /\ h \in found'[s]
<1>3. ASSUME NEW z \in Sources, UpdateHostsFromSource(z) PROVE Goal
  <2>1. CASE z = s
    BY <1>1, <1>2, <1>3, <2>1 DEF UpdateHostsFromSource, Remembered, TypeOK, times
  <2>2. CASE z # s
    BY <1>1, <1>2, <1>3, <2>2 DEF UpdateHostsFromSource, TypeOK, times
  <2> QED
    BY <2>1, <2>2
<1>4. ASSUME NEW m \in Nodes, Launch(m) \/ Skip(m) PROVE Goal
  BY <1>1, <1>2, <1>4 DEF Launch, Skip, TypeOK, memory, times
<1>5. ASSUME NEW m \in Readers, NEW q \in Precursors[m], GetHostsFromSource(m, q) PROVE Goal
  BY <1>1, <1>2, <1>5 DEF GetHostsFromSource, TypeOK, memory, times
<1>6. ASSUME NEW m \in Nodes, Call(m) PROVE Goal
  <2>1. UNCHANGED <<age, elapsed>>
    BY <1>6 DEF Call, Discover, Filter, GenerateOrPublish, StepFails, memory, times
  <2>2. m = s => status[s] # "done" /\ status'[s] # "done"
    BY <1>1, <1>6, NodesAssumption
       DEF Call, Discover, Filter, GenerateOrPublish, StepFails, TypeOK, Sources
  <2>3. m # s => status'[s] = status[s] /\ found'[s] = found[s]
    BY <1>1, <1>6 DEF Call, Discover, Filter, GenerateOrPublish, StepFails, TypeOK
  <2> QED
    BY <1>2, <2>1, <2>2, <2>3
<1>7. BackgroundRunStarts => Goal
  BY <1>1, TimeAssumption DEF BackgroundRunStarts, StampInv, PaceInv, TypeOK, memory
<1>8. Tick => Goal
  <2> SUFFICES ASSUME Tick PROVE Goal
    OBVIOUS
  <2>1. elapsed < Horizon /\ elapsed' = elapsed + 1
    BY <1>1 DEF Tick, Older
  <2>2. age'[s][h] = IF age[s][h] = Never THEN Never ELSE Older(age[s][h])
    BY DEF Tick
  <2>3. age'[s][h] \in 0 .. elapsed' <=> age[s][h] \in 0 .. elapsed
    BY <1>1, <2>1, <2>2, TimeAssumption DEF Older
  <2> QED
    BY <1>2, <2>1, <2>3 DEF Tick, run
<1>9. UNCHANGED <<status, found, age, elapsed>> => Goal
  BY <1>2
<1>10. ASSUME NEW f \in Filters, FilterPanics(f) PROVE Goal
  BY <1>1, <1>2, <1>10 DEF FilterPanics, TypeOK, Ended, memory, times
<1> QED
  BY <1>3, <1>4, <1>5, <1>6, <1>7, <1>8, <1>9, <1>10
     DEF Next, BackgroundRunEnds, vars, run, memory, times

\* The stamps of the memory tell, for every source and host, whether the last
\* run has seen it.
THEOREM Stamps == Spec => []StampsTellRun
<1>1. Init => StampInv
  BY DEF Init, StampInv, StampsTellRun, Nodes
<1>2. TypeOK /\ PaceInv /\ StampInv /\ [Next]_vars => StampInv'
  BY RestingIsQuiet, StampsStep DEF StampInv, StampsTellRun
<1>3. StampInv => StampsTellRun
  BY DEF StampInv
<1>4. Init => PaceInv
  BY DEF Init, PaceInv
<1> QED
  BY TypeCorrect, PaceInductive, <1>1, <1>2, <1>3, <1>4, PTL DEF Spec

-----------------------------------------------------------------------------
(* Metrics                                                                  *)

\* Counting new hosts one by one comes to the size of the larger memory.
LEMMA NewOnesCounted ==
  ASSUME NEW K \in SUBSET Hosts, NEW F \in SUBSET Hosts
  PROVE  Cardinality(K \cup F) = Cardinality(K) + Cardinality(F \ K)
<1> DEFINE G == F \ K
<1>1. IsFiniteSet(K) /\ IsFiniteSet(G)
  BY HostsAssumption, FS_Subset
<1>2. K \cup G = K \cup F /\ K \cap G = {}
  OBVIOUS
<1> HIDE DEF G
<1>3. Cardinality(K \cup G) = Cardinality(K) + Cardinality(G) - Cardinality(K \cap G)
  BY <1>1, FS_Union
<1>4. Cardinality(K \cap G) = 0 /\ Cardinality(K) \in Nat /\ Cardinality(G) \in Nat
  BY <1>1, <1>2, FS_EmptySet, FS_CardinalityType
<1>5. Cardinality(K \cup G) = Cardinality(K) + Cardinality(G)
  BY <1>3, <1>4
<1>6. Cardinality(K \cup F) = Cardinality(K) + Cardinality(G)
  BY <1>2, <1>5, Zenon
<1> QED
  BY <1>6 DEF G

\* hosts_active and hosts_discovered equal the number of remembered hosts after
\* any number of runs, for every source.
THEOREM Metrics == Spec => []MetricsExact
<1>1. Init => MetricsExact
  <2>1. Init => \A s \in Sources : Known(s) = {}
    BY DEF Init, Known
  <2> QED
    BY <2>1, FS_EmptySet DEF Init, MetricsExact
<1>2. TypeOK /\ MetricsExact /\ [Next]_vars => MetricsExact'
  <2> SUFFICES ASSUME TypeOK, MetricsExact, [Next]_vars, NEW s \in Sources
               PROVE  active'[s] = Cardinality(Known(s)') /\ discovered'[s] = Cardinality(Known(s)')
    BY DEF MetricsExact
  <2>1. active[s] = Cardinality(Known(s)) /\ discovered[s] = Cardinality(Known(s))
    BY DEF MetricsExact
  <2>2. ASSUME UpdateHostsFromSource(s)
        PROVE  active'[s] = Cardinality(Known(s)') /\ discovered'[s] = Cardinality(Known(s)')
    <3> DEFINE fresh == found[s] \ Known(s)
    <3>1. Known(s) \in SUBSET Hosts /\ found[s] \in SUBSET Hosts
      BY DEF Known, TypeOK
    <3>2. Known(s)' = Known(s) \cup found[s]
      BY <2>2, TimeAssumption DEF UpdateHostsFromSource, Remembered, Known, TypeOK
    <3>3. Cardinality(Known(s) \cup found[s]) = Cardinality(Known(s)) + Cardinality(fresh)
      BY <3>1, NewOnesCounted
    <3>4. discovered'[s] = Cardinality(Known(s)')
      BY <2>1, <2>2, <3>2, <3>3 DEF UpdateHostsFromSource, TypeOK
    <3>5. CASE fresh = {}
      <4>1. Known(s)' = Known(s) /\ active' = active
        BY <2>2, <3>2, <3>5 DEF UpdateHostsFromSource
      <4> QED
        BY <2>1, <3>4, <4>1
    <3>6. CASE fresh # {}
      BY <2>2, <3>2, <3>4, <3>6 DEF UpdateHostsFromSource, TypeOK
    <3> QED
      BY <3>5, <3>6
  <2>3. ASSUME NEW z \in Sources, z # s, UpdateHostsFromSource(z)
        PROVE  Known(s)' = Known(s) /\ active'[s] = active[s] /\ discovered'[s] = discovered[s]
    BY <2>3 DEF UpdateHostsFromSource, Known, TypeOK
  <2>4. Tick => Known(s)' = Known(s) /\ active'[s] = active[s] /\ discovered'[s] = discovered[s]
    BY OlderBounded DEF Tick, Known, TypeOK
  <2>5. UNCHANGED memory =>
          Known(s)' = Known(s) /\ active'[s] = active[s] /\ discovered'[s] = discovered[s]
    BY DEF memory, Known
  <2> QED
    BY <2>1, <2>2, <2>3, <2>4, <2>5 DEF Next, Call, Launch, Skip, GetHostsFromSource, Discover,
       Filter, GenerateOrPublish, FilterPanics, StepFails, BackgroundRunEnds, BackgroundRunStarts, vars
<1> QED
  BY TypeCorrect, <1>1, <1>2, PTL DEF Spec
=============================================================================
