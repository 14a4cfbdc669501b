------------------------------ MODULE ScanEngine ------------------------------
(***************************************************************************)
(* The scan engine of dsnet-mapper (src/cmd/dsnet-mapper/manager.go).      *)
(*                                                                         *)
(* A Manager owns one background loop.  The loop runs the planned graph of *)
(* plugins (roots discover hosts, filters keep some of them, reports are   *)
(* generated from them, publishers publish reports), sleeps, and runs it   *)
(* again, for ever.  The hosts every source has found are remembered       *)
(* between the runs, under one read-write lock.                            *)
(*                                                                         *)
(* The graph executor (NodeDependancyOrdering.Run of the dsflow library)   *)
(* is external: it starts a node once all of its precursors have finished, *)
(* keeps at most Workers nodes in flight, returns when every node has      *)
(* finished or been given up, and may give up the remaining nodes as soon  *)
(* as one has failed.  backgroundStep is split where another goroutine can *)
(* be seen: at each acquisition of the lock and around each plugin call.   *)
(***************************************************************************)
EXTENDS Integers, FiniteSets

CONSTANTS
  Roots, Filters, Reports, Publishers, \* the planned nodes, by kind
  Precursors,     \* [Nodes -> SUBSET Nodes], as SetPrecursorIDs recorded them
  Unfinished,     \* nodes whose plugin always answers "not implemented"
  Exporters,      \* filters that are a prom_exporter_filter
  Hosts,          \* host names, the empty string among them
  Blank,          \* the empty string
  Listed,         \* [Roots -> SUBSET Hosts]: the root's addresses and names
  Workers,        \* nodes in flight at once (10 in backgroundRun)
  Frequency,      \* scan_frequency, in ticks of the clock
  Minute,         \* time.Minute, in ticks
  Horizon         \* where elapsed times and ages stop counting

Sources == Roots \cup Filters
Readers == Filters \cup Reports  \* nodes that read what precursors remember
Nodes   == Sources \cup Reports \cup Publishers

ASSUME NodesAssumption ==
  /\ Roots \cap (Filters \cup Reports \cup Publishers) = {}
  /\ Filters \cap (Reports \cup Publishers) = {}
  /\ Reports \cap Publishers = {}

ASSUME GraphAssumption ==
  /\ Precursors \in [Nodes -> SUBSET Nodes]
  /\ \A n \in Roots : Precursors[n] = {}
  /\ \A n \in Readers : Precursors[n] \subseteq Sources
  /\ \A n \in Publishers : Precursors[n] \subseteq Reports

\* PlanNodes refuses a graph with a cycle.
ASSUME AcyclicAssumption ==
  \A S \in SUBSET Nodes : S # {} => \E n \in S : Precursors[n] \cap S = {}

ASSUME HostsAssumption ==
  /\ IsFiniteSet(Hosts) /\ Blank \in Hosts
  /\ Listed \in [Roots -> SUBSET Hosts]
  /\ Unfinished \subseteq Nodes \ Reports
  /\ Exporters \subseteq Filters \ Unfinished

ASSUME TimeAssumption ==
  /\ Workers \in Nat \ {0}
  /\ Frequency \in Nat
  /\ Minute \in Nat \ {0}
  /\ Horizon \in Nat
  /\ Frequency <= Horizon /\ Minute <= Horizon

VARIABLES
  loop,        \* backgroundLoop: inside backgroundRun, or in its select; or the process is gone
  status,      \* [Nodes -> Status]: progress of each node in the current run
  unread,      \* [Readers -> SUBSET Sources]: precursors still to be read
  inputs,      \* [Readers -> SUBSET Hosts]: backgroundStep's inputs
  found,       \* [Sources -> SUBSET Hosts]: what Discover or Filter returned
  scanned,     \* [Roots -> BOOLEAN]: staticRoot.size > 0, kept between runs
  age,         \* [Sources -> [Hosts -> Int]]: time since Hosts.remembered[h]
  active,      \* [Sources -> Nat]: the gauge hosts_active
  discovered,  \* [Sources -> Nat]: the counter hosts_discovered
  elapsed,     \* time since lastStarted
  timer,       \* what is left of time.After(sleepTime)
  rested       \* history: time since the last run returned

run    == <<status, unread, inputs, found>>
memory == <<age, active, discovered>>
times  == <<elapsed, timer, rested>>
vars   == <<loop, run, scanned, memory, times>>

Status  == {"waiting", "reading", "calling", "returned", "done", "failed", "skipped"}
Ended   == {"done", "failed", "skipped"}
Running == {"reading", "calling", "returned"}

Never == -1   \* the age of a host that is not in the map

Known(s) == {h \in Hosts : age[s][h] # Never}

TypeOK ==
  /\ loop \in {"running", "sleeping", "crashed"}
  /\ status \in [Nodes -> Status]
  /\ unread \in [Readers -> SUBSET Sources]
  /\ inputs \in [Readers -> SUBSET Hosts]
  /\ found \in [Sources -> SUBSET Hosts]
  /\ scanned \in [Roots -> BOOLEAN]
  /\ age \in [Sources -> [Hosts -> {Never} \cup (0 .. Horizon)]]
  /\ active \in [Sources -> Nat]
  /\ discovered \in [Sources -> Nat]
  /\ elapsed \in 0 .. Horizon
  /\ timer \in 0 .. Horizon
  /\ rested \in 0 .. Horizon

Max(a, b) == IF a >= b THEN a ELSE b

-----------------------------------------------------------------------------
(* The run of one planned graph: backgroundStep, once per node.            *)

\* External: the executor hands a node to a worker.  A node that reads
\* nothing goes straight to its plugin call.
Launch(n) ==
  /\ loop = "running"
  /\ status[n] = "waiting"
  /\ \A p \in Precursors[n] : status[p] \in Ended
  /\ Cardinality({m \in Nodes : status[m] \in Running}) < Workers
  /\ status' = [status EXCEPT ![n] =
                  IF n \in Readers /\ Precursors[n] # {} THEN "reading" ELSE "calling"]
  /\ unread' = IF n \in Readers THEN [unread EXCEPT ![n] = Precursors[n]] ELSE unread
  /\ UNCHANGED <<loop, inputs, found, scanned, memory, times>>

\* External: once a node has failed the executor may give up a waiting node.
Skip(n) ==
  /\ loop = "running"
  /\ status[n] = "waiting"
  /\ \E m \in Nodes : status[m] = "failed"
  /\ status' = [status EXCEPT ![n] = "skipped"]
  /\ UNCHANGED <<loop, unread, inputs, found, scanned, memory, times>>

\* One iteration of the loop over Precursors(), under the read lock.
GetHostsFromSource(n, p) ==
  /\ status[n] = "reading"
  /\ p \in unread[n]
  /\ inputs' = [inputs EXCEPT ![n] = @ \cup Known(p)]
  /\ unread' = [unread EXCEPT ![n] = @ \ {p}]
  /\ status' = [status EXCEPT ![n] = IF unread[n] = {p} THEN "calling" ELSE @]
  /\ UNCHANGED <<loop, found, scanned, memory, times>>

\* staticRoot.Discover: the list is made with the size of the last scan, so
\* from the second scan on it begins with empty strings.
DiscoverList(r) == Listed[r] \cup IF scanned[r] THEN {Blank} ELSE {}

Discover(r) ==
  /\ status[r] = "calling"
  /\ r \notin Unfinished
  /\ found' = [found EXCEPT ![r] = DiscoverList(r)]
  /\ scanned' = [scanned EXCEPT ![r] = scanned[r] \/ Listed[r] # {}]
  /\ status' = [status EXCEPT ![r] = "returned"]
  /\ UNCHANGED <<loop, unread, inputs, memory, times>>

\* A filter returns those of its inputs that answered (module HostPool).
Filter(f) ==
  /\ status[f] = "calling"
  /\ f \notin Unfinished
  /\ \E out \in SUBSET inputs[f] : found' = [found EXCEPT ![f] = out]
  /\ status' = [status EXCEPT ![f] = "returned"]
  /\ UNCHANGED <<loop, unread, inputs, scanned, memory, times>>

\* One of the hosts answers an exporter filter with a line without a word, and the panic
\* is in a goroutine of its executer: unless that recovers from it (StepFails), the
\* process ends, and all that is under way with it.
FilterPanics(f) ==
  /\ status[f] = "calling"
  /\ f \in Exporters
  /\ inputs[f] # {}
  /\ loop' = "crashed"
  /\ status' = [n \in Nodes |-> IF status[n] \in Ended THEN status[n] ELSE "skipped"]
  /\ UNCHANGED <<unread, inputs, found, scanned, memory, times>>

\* A report's content and a publisher's acknowledgement are dropped.
GenerateOrPublish(n) ==
  /\ status[n] = "calling"
  /\ n \notin Unfinished
  /\ status' = [status EXCEPT ![n] = "done"]
  /\ UNCHANGED <<loop, unread, inputs, found, scanned, memory, times>>

\* The plugin call returns an error: a plugin that is not implemented, a scan
\* cut short by its context, an executer or a template that fails, a panic that
\* the executer recovers from.
StepFails(n) ==
  /\ status[n] = "calling"
  /\ status' = [status EXCEPT ![n] = "failed"]
  /\ UNCHANGED <<loop, unread, inputs, found, scanned, memory, times>>

\* Hosts.Remember: every host given is stamped with the current time, new
\* ones are counted, and the gauge is set when there was a new one.
\* (Mutants: a memory made anew by each scan; a memory filled by the first scan
\* only; a counter of finds rather than of new hosts.)
RememberedAfresh(s, hosts) == [h \in Hosts |-> IF h \in hosts THEN 0 ELSE Never]
RememberedOnce(s, hosts) ==
  [h \in Hosts |-> IF h \in hosts /\ (h \in Known(s) \/ Known(s) = {}) THEN 0 ELSE age[s][h]]
Remembered(s, hosts) == [h \in Hosts |-> IF h \in hosts THEN 0 ELSE age[s][h]]

UpdateHostsCountingAll(s) ==
  /\ status[s] = "returned"
  /\ age' = [age EXCEPT ![s] = Remembered(s, found[s])]
  /\ discovered' = [discovered EXCEPT ![s] = @ + Cardinality(found[s])]
  /\ active' = [active EXCEPT ![s] = Cardinality(Known(s) \cup found[s])]
  /\ status' = [status EXCEPT ![s] = "done"]
  /\ discovered[s] <= Cardinality(Hosts)
  /\ UNCHANGED <<loop, unread, inputs, found, scanned, times>>

UpdateHostsFromSource(s) ==
  LET fresh == found[s] \ Known(s)
  IN  /\ status[s] = "returned"
      /\ age' = [age EXCEPT ![s] = Remembered(s, found[s])]
      /\ discovered' = [discovered EXCEPT ![s] = @ + Cardinality(fresh)]
      /\ active' = IF fresh = {} THEN active
                   ELSE [active EXCEPT ![s] = Cardinality(Known(s) \cup found[s])]
      /\ status' = [status EXCEPT ![s] = "done"]
      /\ UNCHANGED <<loop, unread, inputs, found, scanned, times>>

-----------------------------------------------------------------------------
(* backgroundLoop                                                           *)

\* The scan may have taken longer than the frequency: the sleep is never
\* shorter than a minute.
\* (Mutant: with a bound of zero.)
SleepTimeNoMinute  == Max(Frequency - elapsed, 0)
SleepTime == Max(Frequency - elapsed, Minute)

\* backgroundRun returns, with or without an error that is only logged.
\* (Mutant: an error ends the loop.)
BackgroundRunStops ==
  /\ loop = "running"
  /\ \A n \in Nodes : status[n] \in Ended
  /\ loop' = IF \E n \in Nodes : status[n] = "failed" THEN "stopped" ELSE "sleeping"
  /\ timer' = SleepTime
  /\ rested' = 0
  /\ UNCHANGED <<run, scanned, memory, elapsed>>

BackgroundRunEnds ==
  /\ loop = "running"
  /\ \A n \in Nodes : status[n] \in Ended
  /\ loop' = "sleeping"
  /\ timer' = SleepTime
  /\ rested' = 0
  /\ UNCHANGED <<run, scanned, memory, elapsed>>

\* time.After fires: lastStarted is taken anew and the graph is run again.
BackgroundRunStarts ==
  /\ loop = "sleeping"
  /\ timer = 0
  /\ loop' = "running"
  /\ elapsed' = 0
  /\ status' = [n \in Nodes |-> "waiting"]
  /\ unread' = [n \in Readers |-> {}]
  /\ inputs' = [n \in Readers |-> {}]
  /\ found' = [s \in Sources |-> {}]
  /\ UNCHANGED <<scanned, memory, timer, rested>>

\* Times saturate at Horizon, so that the loop can go on for ever.
Older(t) == IF t < Horizon THEN t + 1 ELSE t

Tick ==
  /\ elapsed' = Older(elapsed)
  /\ rested' = Older(rested)
  /\ timer' = Max(timer - 1, 0)
  /\ age' = [s \in Sources |-> [h \in Hosts |->
               IF age[s][h] = Never THEN Never ELSE Older(age[s][h])]]
  /\ UNCHANGED <<loop, run, scanned, active, discovered>>

-----------------------------------------------------------------------------
Init ==
  /\ loop = "running"
  /\ status = [n \in Nodes |-> "waiting"]
  /\ unread = [n \in Readers |-> {}]
  /\ inputs = [n \in Readers |-> {}]
  /\ found = [s \in Sources |-> {}]
  /\ scanned = [r \in Roots |-> FALSE]
  /\ age = [s \in Sources |-> [h \in Hosts |-> Never]]
  /\ active = [s \in Sources |-> 0]
  /\ discovered = [s \in Sources |-> 0]
  /\ elapsed = 0
  /\ timer = 0
  /\ rested = 0

\* Everything the plugin call of one node can do.
Call(n) ==
  \/ n \in Roots /\ Discover(n)
  \/ n \in Filters /\ Filter(n)
  \/ n \in Reports \cup Publishers /\ GenerateOrPublish(n)
  \/ StepFails(n)

Next ==
  \/ \E n \in Nodes : Launch(n) \/ Skip(n) \/ Call(n)
  \/ \E f \in Filters : FilterPanics(f)
  \/ \E n \in Readers : \E p \in Precursors[n] : GetHostsFromSource(n, p)
  \/ \E s \in Sources : UpdateHostsFromSource(s)
  \/ BackgroundRunEnds
  \/ BackgroundRunStarts
  \/ Tick

Spec == Init /\ [][Next]_vars

\* The executor takes up or gives up every node that may run, every plugin
\* call returns (pings and requests have deadlines), a lock that is only held
\* for a map operation is got, and time passes.
Fairness ==
  /\ \A n \in Nodes : WF_vars(Launch(n) \/ Skip(n)) /\ WF_vars(Call(n))
  /\ \A n \in Readers :
       WF_vars(\E p \in Precursors[n] : GetHostsFromSource(n, p))
  /\ \A s \in Sources : WF_vars(UpdateHostsFromSource(s))
  /\ WF_vars(BackgroundRunEnds)
  /\ WF_vars(BackgroundRunStarts)
  /\ WF_vars(Tick)

FairSpec == Spec /\ Fairness

-----------------------------------------------------------------------------
(* Properties                                                               *)

\* What a filter remembers was remembered for one of its precursors first:
\* backgroundStep stores a filter's hosts under the filter's own id, hands it
\* nothing but its precursors' hosts, and no precursor's host is dropped
\* while a filter keeps it.
FilterProvenance ==
  \A f \in Filters : Known(f) \subseteq UNION {Known(p) : p \in Precursors[f]}

\* What a node read is not stale: a report or filter that has read all of its
\* precursors holds every host each of them found in the same run, although
\* the hosts travel through the shared map and not along the graph.
FreshInputs ==
  \A n \in Readers : \A p \in Precursors[n] :
    (/\ status[n] \in {"calling", "returned", "done"}
     /\ status[p] = "done") => found[p] \subseteq inputs[n]

\* The metrics agree with the memory, however finds repeat and whatever runs
\* fail: hosts_active and hosts_discovered both equal the number of hosts
\* remembered for the source (nothing is ever forgotten).
MetricsExact ==
  \A s \in Sources :
    /\ active[s] = Cardinality(Known(s))
    /\ discovered[s] = Cardinality(Known(s))

\* A run starts no sooner than Frequency after the start of the run before
\* and a minute after its end, however long it took (the SleepTime of
\* backgroundLoop).
Paced ==
  loop = "sleeping" /\ timer = 0 => elapsed >= Frequency /\ rested >= Minute

\* The stamp of a host tells the run that saw it last: a host is stamped since
\* the current run (or the last, while resting) started exactly when the source
\* has found it in that run and got to store it.  A step that fails refreshes
\* nothing, and the pause between two runs keeps their stamps apart.
StampsTellRun ==
  elapsed < Horizon =>
    \A s \in Sources : \A h \in Hosts :
      age[s][h] \in 0 .. elapsed <=> status[s] = "done" /\ h \in found[s]

\* Scanning never ends: whatever step fails, a run is followed by a rest and a
\* rest by a run (the loop of backgroundLoop, manager.go:204), unless a panic ends the
\* process (prom_exporter_filter.go:85).
ScansForEver ==
  \/ <>(loop = "crashed")
  \/ []<>(loop = "running") /\ []<>(loop = "sleeping")

\* What the metric hosts_active is documented to be: "Number of active hosts"
\* (hosts.go:22).  The gauge of a root counts no more than the hosts it lists.
ActiveAreListed ==
  \A r \in Roots : active[r] <= Cardinality(Listed[r])

-----------------------------------------------------------------------------
(* The strengthenings that make the properties inductive (ScanEngineProofs). *)

\* Memory only grows, so what was read from a precursor is still known to one.
ProvenanceInv ==
  /\ \A n \in Readers : inputs[n] \subseteq UNION {Known(p) : p \in Precursors[n]}
  /\ \A f \in Filters : found[f] \subseteq inputs[f]
  /\ FilterProvenance

\* A node that was launched has ended precursors, and what an ended source
\* found is in the memory before anyone reads it.
FreshInv ==
  /\ \A n \in Nodes : status[n] \in Running \cup {"done", "failed"} =>
       \A p \in Precursors[n] : status[p] \in Ended
  /\ \A s \in Sources : status[s] = "done" => found[s] \subseteq Known(s)
  /\ \A n \in Readers : status[n] \in Running \cup {"done", "failed"} =>
       \A p \in Precursors[n] \ unread[n] :
         status[p] = "done" => found[p] \subseteq inputs[n]
  /\ \A n \in Readers : status[n] \in {"calling", "returned", "done"} => unread[n] = {}

PaceInv ==
  loop = "sleeping" => elapsed + timer >= Frequency /\ rested + timer >= Minute

\* While the loop rests no step is under way, and no stamp is younger than the
\* rest.
StampInv ==
  /\ loop = "sleeping" =>
       /\ \A n \in Nodes : status[n] \in Ended
       /\ \A s \in Sources : \A h \in Hosts : age[s][h] # Never => age[s][h] >= rested
  /\ StampsTellRun
=============================================================================
