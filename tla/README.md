# A TLA+ model of net-mapper

net-mapper is a program in Go that discovers the hosts of a network, filters
them (who answers a ping, who exposes a metric), reports what it has found and
publishes the reports.  The repository also holds an SNMP stack in the making:
a BER codec, a reader of MIB files and a printer that turns SNMP responses
into Prometheus metrics.  This directory holds specifications of the parts
whose correctness rests on order, interleaving or failure, the TLC runs that
check them on small instances, and TLAPS proofs of what matters most.

All line numbers refer to `src/`.

## 1. The system

### Inventory

| Part | State it keeps | Operations | Here |
|---|---|---|---|
| Scan engine: `cmd/dsnet-mapper/manager.go`, `hosts.go` | the planned graph; for every source the hosts it has found with a time stamp; two metrics per source; `lastStarted` | `backgroundLoop`, `backgroundRun`, `backgroundStep`, `GetHostsFromSource`, `UpdateHostsFromSource`, `Hosts.Remember` | `ScanEngine` |
| Host filters: `internal/source/ping_filter.go`, `prom_exporter_filter.go` | per call: an output slice, a mutex, the goroutines of a job executer; a raw socket for each ping | `Filter`, `ping`, `testHost`, `responceContainsMetric` | `HostPool`, `FilterSpec`, `PingNet` |
| Static root: `internal/source/static_root.go` | the size of the last scan | `Discover` | in `ScanEngine` |
| Unfinished plugins: dns root, upnp, snmp filter, file and kubernetes publishers | what they were made with | constructors; all calls answer "not implemented" | `PluginLoad`; in `ScanEngine` as nodes that always fail |
| Reports and publishers: `internal/report`, `internal/publisher` | a template | constructors; `Generate`, `Publish` | `PluginLoad`; in `ScanEngine` as calls that end or fail |
| Configuration: `ReloadConfig`, `targets.go`, `internal/framework` | config files, plugin maps, the graph being built; what is left of a plugin's settings | load, name, check, wire, plan; `ConsumeArg`, `CheckFields` | `ConfigLoad`, `PluginLoad` |
| HTTP server: `server.go`, `main.go`, `requeststats.go` | request statistics, three metrics shared by all requests | proxy; refresh and report, which are stubs | `Proxy` |
| MIB database: `pkg/snmp/mibdb` | modules, definitions, memoised OIDs, two indexes | `readModuleFromFile`, `compileValues`, `compileValue`, `CreateIndex`, `FindOID` | `MibDatabase`, `OidTree` |
| MIB grammar: `mibdb/type.go`, `macro.go`, `pattern.go` | the fields of a macro, how deep each definition is in use | `readDefinition`, `readValue` | `MibMacro`, `MibValue`; in `MibDatabase` a definition is "sound" or not |
| MIB tokens: `pkg/snmp/mibtoken` | a buffer of characters, the position of the next one, a queue of tokens | `split` and its parts, `Unquote`, `Pop`, `LookAhead`, `ReadBlock`, projections | `MibScan` up to tokens, `MibTokens` from there |
| SNMP metrics: `pkg/snmp/decoder.go`, `metric.go` | the block being collected, metadata of tables | `Handle`, `queueLine`, `Flush` | `MetricPrinter` |
| SNMP messages: `pkg/snmp/protocol.go`, `interface.go`, `connection.go` | a socket | `DecodeFrame`; send, receive | `SnmpFrame` for `DecodeFrame`, `BerCodec` for the types |
| BER codec: `pkg/asn1/asn1binary`, `asn1go`, `asn1reflect` | a stream; caches of struct fields | marshal, unmarshal, `Encode`, `Decode`, `ReadFrom` | `Ber`, `BerCodec`, `SnmpFrame` |
| ASN.1 errors | – | wrap and print | not modelled: no behaviour |
| `snmp-poc` | – | replay a capture | in `MetricPrinter`: the order of its calls and what ends it |

`PROJECT.json` lists the same parts with their files, and under "hazards" each
place in the code that a test would hardly reach.

### How they interact

* The *configuration* yields a graph: roots, filters (which name the sources
  they read), reports (which name sources) and publishers (which name
  reports).  The *scan engine* runs it for ever.  The graph executor
  (`NodeDependancyOrdering.Run` of the library dsflow) is external; it promises
  only the order of the graph, a number of nodes in flight, and to come back.
* The nodes of a run do **not** hand hosts to each other along the graph.  A
  source stores what it found in a map shared by all nodes, behind a
  read-write lock; a successor reads the map, one precursor and one lock at a
  time.  What ties the two together is only the order of the executor.
* A *filter* call fans out over a second executor of dsflow: 64 (ping) or 10
  (exporter) goroutines ask hosts and append to one slice under a mutex.
* The *metrics printer* is a callback of the replay of packets: it gets one
  response after the other, looks each OID up in the *MIB database* and has to
  find out from the bindings alone where a table begins and ends.
* The *MIB database* is filled before anything is looked up, by one goroutine,
  but in the order of Go maps, which is another one on every start.  It gets its
  definitions from the *grammar*, which pops tokens off the *scanner* and reads the
  value of a macro on projections that are committed or forgotten.
* The *settings* of a plugin are one map from which the framework, the factory and the
  constructor each take what they know; what is left over is refused or ignored.
* The *HTTP server* runs beside the engine and shares nothing with it but the process.  Its
  requests share only the metrics.
* A frame of a capture becomes bindings in `DecodeFrame`, by reflection over the
  types of a message: the calls for structs and slices share one buffer.

### What is hard

* *Concurrency*: nodes of a run, goroutines of a filter call, requests of the proxy.
* *Failure*: any plugin call may fail; what it stored in earlier runs stays, the
  rest of the graph may go on.  A MIB module that fails is tried again in the
  next pass, with whatever the failed attempt left behind.  A client leaves, a target breaks off
  or says nothing.
* *The network*: packets are lost, late, doubled or somebody else's; a stream comes in pieces, and
  a buffer of characters ends anywhere.
* *Order*: of nodes, of map iterations, of bindings in SNMP responses.
* *Time*: a scan longer than the scan frequency; stamps that have to tell this
  run's hosts from older ones; deadlines that make calls end.
* *Backtracking*: an alternative of a macro fails after it has read tokens and
  counted calls.
* *State that is kept by hand beside other state*: metrics beside a map, an
  index by name beside one by OID, a memo of OIDs, the size of the last scan.

### What makes each part correct

* Scan engine: a step works on everything its precursors have found in the
  same run; a filter never remembers what none of its precursors remembers; the
  metrics equal what is remembered; the stamps tell the last run's finds; runs
  keep their distance and never stop coming.
* Host filters: the answer holds every accepted host once, every verdict is
  about the host it is booked for, a call ends, and all of it looks to the
  engine like one call that judges every host and answers.
* MIB database: what is indexed is complete; an OID is what one module that asks for it says, and
  only that, whatever order or failures it was compiled in; correct modules compile;
  a lookup finds the longest known object; both indexes agree; all of it ends.
* Configuration: only graphs the engine can run are run; they are what the file
  declares; a sound file is never refused, in whatever order the maps are walked.
* Plugins: each runs with what is written for it, in any spelling, or is refused.
* Pings: who is found has answered, and nobody else's answer is taken for his.
* HTTP server: counters agree with each other and with what clients were told; a request ends
  if its target answers; connections do not pile up.
* Tokens: a file is cut into the same tokens, with the same positions, however it is buffered.
* Codec: what is encoded comes back as itself, or is refused, whatever pieces a stream came in.
* Grammar: a value is read as its macro says, whatever was tried before; the
  second time as the first; reading ends.
* Messages: what is decoded is what was sent, or nothing.
* Metrics printer: what it prints binding by binding is what the capture says
  as a whole; no number is lost; no page mixes tables.

## 2. The modules

### ScanEngine

State ↔ code: `age[s][h]` stands for `Hosts.remembered[h]` of source `s`, as the
time since the stamp (`Never` for a host not in the map); `active` and
`discovered` are the two metrics; `status`, `unread`, `inputs` and `found` are the
local variables of the `backgroundStep` calls of a run; `scanned[r]` is
`staticRoot.size > 0`; `loop`, `elapsed` and `timer` are where `backgroundLoop`
is, the time since `lastStarted`, and what is left of its `time.After`.  `rested` is a
history variable.

Actions: `Launch` and `Skip` are the external executor's.
`GetHostsFromSource(n, p)` is one turn of the loop at `manager.go:238`, under the read lock;
`Discover`, `Filter`, `GenerateOrPublish` and `StepFails` are the plugin call, and `FilterPanics` a call that takes
the process with it;
`UpdateHostsFromSource` is the second lock, with `Hosts.Remember` as a whole.  A step is
split where another goroutine can be seen, and nowhere else.
`BackgroundRunEnds`, `BackgroundRunStarts` and `Tick` are the loop and the clock.  `ScansForEver` therefore has an
exception, and only one: the loop goes on for ever unless a panic has ended the process (`loop = "crashed"`).

Abstracted: a report's content and a publisher's acknowledgement (dropped by
the code too), logging, and the context, which `main.go` makes with
`context.Background()` and never cancels – the `ctx.Done` branch of the loop is
dead code.  Times count up to `Horizon`, where they stay.

### HostPool and FilterSpec

One call of `Filter`.  `HostPool` has the goroutines (`pc`, `job`, `url`), the lock,
and the append as two steps (`AppendReads`, `AppendWrites`): it is the
mutex that makes them one.  The outcomes are those of `ping`
(`ping_filter.go:87-115`) and `testHost` (`prom_exporter_filter.go:76-113`), with
their oddities: a status other than 2xx is *accepted*, an empty line *panics*.
The closure's copy of the filter's url is there as `url`, so that the model could get it wrong.
`FilterSpec` is what `source.Filter` promises: hosts are judged one by one, and
the call answers with the accepted ones, or with an error.  It knows neither
goroutines nor locks.  `HostPool` implements it (`Contract`), which is both a
checked property and a theorem.  `ScanEngine`'s `Filter` action ("some subset of the
inputs") is the engine's view of the same call.

### PingNet and MCFilters

`PingNet` is a call of `ping_filter` down to its packets: `socket[p]` is where the `ping` for
position `p` of the list is, `inbox[p]` what the kernel has put into its raw socket.  A raw socket gets every
ICMP packet of the machine until it is connected, and of its host from then on; `net.DialIP`
makes and connects it in two system calls (`Open`, `Connect`), and a packet that comes between them
is kept (`early`).  `Send` sends one echo request (the code's count is one), `Receive` judges by the type of the
first packet and nothing else, `Timeout` is the deadline.  `Arrive`, `Lose` and `Answer` are the network; a
request to the machine itself comes back to its own socket before the reply.

`MCFilters` puts a `PingNet` call and a `HostPool` call one after the other, as two filters of
one scan; the second's hosts are its own, so that both are checked in one state space.

### MibDatabase and OidTree

`dir` is a directory: its files, and for each module its imports, its
definitions (an object's elements, the name its meta tokens begin with) and the names
its macros need.  It is chosen once and never changes; it is a variable so that one
run checks all directories.

`compileValue` is recursive; its calls are `stack`, whose records say which object
and which element a call is at.  One step is one element: a number
(`CompileNumber`), `iso`, another object (`CompileOther`, which is the recursive call
and, as in the code, forgets what was compiled before the name), or a return
(`ReturnCompiled`, where the caller appends).  An error ends all calls at once
(`FailModule`).  The passes over files and over modules with their `progress` flags are
`Retry…`, `Fail…`, `Start…`.  Every order of every Go map is allowed: the order of
modules in `StartCompiling`, of definitions in `CompileDefinition` and
`IndexDefinition`.  Two things are as the code has them and worth knowing: names of *another*
module's object are resolved in the module that asked first (`Scope`), and an
OID is kept (memoised) as soon as it is not empty.

`OidTree` holds the tree of `oidbranch.go` as a function from paths to definitions, with
`AddDefinition` and `FindOID` as the code walks, and `LongestDefined` as the
definition to compare with.

Abstracted: a file holds one module of its own name; the
text of a type, macro or value is *sound* or not; type names inside macro
bodies are not resolved per module; error texts are left out.

### MetricPrinter

`Handle` for the next binding of a response: skip, fail, panic, or queue it
into `block` (rows, names in order of arrival, values), with `Flush` when table or
scalar changes.  `indexing` is the set of tables whose metadata has been made,
since that is when an index column becomes a label; every binding whose object is found makes them, also one that
is then skipped (`SkipNotKnown`: an unknown column begins with the entry of its table).  `pages` is what was
printed, page by page, without the layout: a page has its lines by the places of their metric and their
row in the block.  `AddArcs` is the loop that gives a new row its index columns.  `input` is the capture
up to now: the properties compare `pages` with it.  The value of a binding is its
position, so that two values are never equal by accident.

Abstracted: the database is given as constants (which object is a column of
which table, the table's INDEX, which objects are strings); help texts, layout,
separators, and values that are formatted but not compared.

### ConfigLoad

One `ReloadConfig`: the plugins of the lists are loaded in order (`LoadPlugin`,
`RefusePlugin`), the maps made of them are walked in any order (`CheckSource`,
`AddNode`, `SetPrecursors`, `WireTarget`, one name at a time out of `todo`), targets are built
from their reports and publishers, and `Plan` is the library's.  `wrong` is the error
list that is looked at after the wiring.  A refused step ends it; what is then left in the
maps is not used, since the program ends.

`RunnableGraph` is, conjunct by conjunct, what `ScanEngine` assumes of its constants
(`NodesAssumption`, `GraphAssumption`, `AcyclicAssumption`): the two modules meet there.

Abstracted: the other arguments of a plugin are right or wrong as a whole (`PluginLoad` has them
one by one); ids are records, not joined strings.

### PluginLoad

`PluginMap.Load` for the plugins of one list, setting by setting.  `settings` is the map that
its readers take from, `asks` what is still to be read: first by the framework (`Own`), then by the
constructor of the kind (`Makers`, a table with a row for each of the ten constructors: field, whether it is needed or a
list, its check and its default).  `Consume` is one `ConsumeArg` or `ConsumeOptionalArg` with the check
of what it returned, `Create` is the factory with `CheckFields`, `Panic` what `reflect` does to a null.
`LoadsInOneStep` says that for `ConfigLoad`, which knows a plugin only as right or wrong, every step here is
a `LoadPlugin`, a `RefusePlugin` or nothing.

A field of a plugin is a stem and an ending, as `Variations` cuts its name; `FieldsAreCut` says of the files that
no other field of theirs begins with a stem of one that is read.

Abstracted: a text is what checks it passes.

### Proxy

`req[r]` is a request: where its goroutine is in `Server.Proxy`, what its client was told and got, its
`RequestStats` (`code`, `written`), and the answer it relays, in pieces, with the connection it comes on.  `told` is the first
status, `noted` the last, since that is what `net/http` sends and `promhttp` counts.  Each of the three metrics is
updated in a step of its own.  Clients leave (`Leave`), or stay and read nothing more (`Stalled`), targets refuse, break off
or stay silent for ever.
`main` starts it or exits.

Abstracted: headers, and how long anything takes.

### Ber, SnmpFrame and BerCodec

`Ber` has `Value.Marshal` and `Unmarshal`, `Integer.SetInt` and `GetInt`, `OID.PackAsn1` and `UnpackAsn1` as operators on
sequences of bytes, and how another sender encodes, as the reference.  `SnmpFrame` is one `DecodeFrame`:
`stack` holds the `UnpackAsn1` calls that are not finished, each with its `bytes` and the values of
the fields it has read.  `sent` is the message, the form of its lengths (the shortest, or with
one or two length bytes) and a damage: cut short, something after it, an element
missing, too many or of another tag, a length that is too large inside, an integer
that is too long.  `OfMessage`, `OfPdu`, `OfBinds` and `OfBind` are the elements that are sent of each sequence,
`OnTheWire` what arrives.

`BerCodec` puts the program's encoder before its decoder.  `Pack` and `Unpack` have a line for each Go type; they
go through `asn1reflect` and `asn1go` by recursion over the structs of a message.  `Encode` writes a value to a stream or
a frame, `Reads` is one `Read` of a stream, which may return less than was asked for, and `ReadEnvelope`,
`ReadLength` and `ReadBytes` are the three of them in `Value.ReadFrom`.  `total` is its count of bytes.

Abstracted: the caches of handlers; field names in errors.  Times, pointers, `Any`, `Sequence` and `[]byte` are left out, and
a length that does not fit an `int`.

### MibScan

The split function of the `bufio.Scanner`.  `text` is the file, of which the first `end` characters have arrived and
the first `start` been taken; more arrive at any time (external), so that a buffer ends anywhere.  `Split` answers
as the code does: so many characters and the next position, or more is needed, or wrong, or a panic.  Positions
change as in the code, also where a string is split again from its start each time more of it has arrived.
`Lexeme` is the reference: what is a token of each type, told from the text as a whole.  `Unquote` and
`Collapse` are the way of a help text to the printer.

Abstracted: a character is its class; a token of more than 64 KB, at which `bufio` gives up.

### MibTokens, MibMacro, MibValue

`MibTokens` has tokens, the joining of two words into one (`OBJECT IDENTIFIER`) and blocks.
`MibMacro` reads a macro: `Scan` moves a word into the queue, `PopBlock` and `PopMeta` take tokens
from it, `StartField` … `EndField` are `MacroDefintion.readDefinition` with the two
`readDefinition`s of `pattern.go`.  `MibValue` reads a value: `stack` holds the `readValue` calls
with what they have named so far and the place (`from`) they go back to when they fail,
`read` is where the innermost projection is, `depth` is the count of `definition.go`.
A value is read twice, with the counts left by the first time.

`Derived` is the reference: for each name, from where to where the tokens of the value are
derived from it, as a least fixed point over the macro *as it is written*, without order, backtracking or limit.

Abstracted: characters (they are in `MibScan`), error texts; what a value is used for; builtin types
with a value notation of their own.  A list is compared with what it means only where
the first alternative that fits is the right one (`FirstFits`); the program takes the first.

## 3. The runs

| Run | Module, bounds | Shows |
|---|---|---|
| `scan_graph` | `MCScanEngine`: 5 nodes (a root, a filter on it, a filter on that, a report over the second filter and the root, its publisher – the example configuration in small), 2 host names of which one is the empty string, 2 workers, frequency 2 ticks, a minute 1 tick, times up to 3, any number of runs; the second filter is one that can panic (724 802 states) | `FilterProvenance`, `FreshInputs`, `MetricsExact`, `StampsTellRun`, `Paced`, `ScansForEver` |
| `filter_pool` | `MCFilters`: 2 pings of a host and of the same, another or the machine itself, 2 packets in a socket; then 3 hosts of an exporter over 2 goroutines (361 264 states) | `AnswerExact`, `NoCrossTalk`, `Truthful`, `CallEnds`, `ImplementsContract` |
| `config_load` | `MCConfigLoad`: every list of two sources and lists of three that use each other, with ten lists of targets; 4445 configurations (42 077 states) | `LoadInv` (types; what is accepted is what the file declares), `RunnableGraph`, `FedByRoot`, `SoundIsAccepted` |
| `plugin_load` | `MCPluginLoad`: a right plugin of each kind with one of its settings left out or given one of twelve values, two of them for two of the kinds; lists of two | `PluginInv` (types, `AsWritten`, `SoundIsLoaded`), `NothingIgnored`, `LoadsInOneStep` |
| `mib_scan` | `MCMibScan`: every text of two characters, texts of up to nine of the characters that matter together, arriving in every way | `ScanInv` (types, `LongestLexemes`, `StopsForAReason`), `PositionsOK`, `HelpAsWritten` |
| `mib_macro` | `MCMibMacro`: three macros, eight values of them, each of these cut off at every place and without each of its tokens; blocks that are no macro; 2 tokens of lookahead, 3 calls deep (43 546 states) | `MacroInv` (types, `RecursionBounded`, `OnlyDerived`), `ReadAsMeant` (`WholeIsRead`, `NamedAsMeant`), `SameAgain`, `ReadingEnds` |
| `mib_database` | `MCMibDatabase`: 9 directories, every order of every map (7487 states) | `DatabaseInv` (types; what is indexed is complete), `OidsConsistent`, `CorrectIsIndexed`, `IndexIsRight` (lookups find the longest; the indexes agree), `IndexingEnds` |
| `metric_printer` | `MCMetricPrinter`: every capture of up to 5 bindings over two tables, two scalars, an unknown column and what cannot be used (377 777 states) | `PrinterInv` (types, `PrintsRuns`, `PageOfOneTable`), `NothingLost` |
| `snmp_frame` | `MCSnmpFrame`: five messages, three forms of lengths, every damage; an `int` of two bytes (2280 states) | `FrameInv` (types; only what was sent), `WholeIsDecoded`, `ReadOnce` |
| `ber_codec` | `MCBerCodec`: every kind of value in a frame, at the edges of its form; pairs of values in a stream that comes in every kind of pieces | `RoundTrip` (types, `NeverAnother`, `ComesBack`), `Aligned` |
| `proxy` | `Proxy`: 2 requests at once, one with a client that may stop reading, a target that answers with up to 2 pieces and one that may be silent | `ProxyInv` (types, `CountersAgree`, `ToldAsCounted`, `Delivered`), `NoLeak`, `RequestEnds` |
| `active_gauge` | `MCScanLoop`: a root, a filter and an unfinished filter side by side, a report and its publisher | refutes `ActiveAreListed` |

Several of these are conjunctions of named parts, which the modules state and explain one by one.
`TypeOK` of `ScanEngine`, `HostPool` and `PingNet` is proved and not run.

### Bounds, and why they are enough

* `scan_graph`.  A chain of two filters is the shortest in which what is remembered
  can be two failures old, and the report that reads both ends of it reads one
  precursor before and the other after other steps.  One real name and the empty
  one tell "found", "kept", "lost" and "never seen" apart; the properties speak of one host
  at a time (and of counts, for which the theorem holds for every set).
  `Horizon` exceeds `Frequency` and `Minute`, so scans shorter, as long and longer than
  the frequency occur.  The number of runs is not bounded.
* `filter_pool`.  Two pings are enough for one to hear the other's answer, two packets in a socket
  for a wrong one to come first.  Three hosts over two goroutines: one goroutine takes a second
  host while the other is in its critical section, and two are enough to lose an
  append.  The exporter's outcomes include all that a ping can do.
* `config_load`.  Two sources are enough for a source that is missing, unnamed, doubled
  or no root; three for a circle that is fed and one that is not.
* `plugin_load`.  A setting is missing, empty, wrong, a number, a null, a list, or there twice under two
  spellings; a second change shows that one reader does not take what another needs.  Two plugins are
  enough for a name used twice.
* `proxy`.  Two requests are enough to mix counters or wait for one another; two pieces for an answer that
  stops in the middle.
* `mib_scan`.  The longest that is looked ahead is two characters (`::=`); texts of four to six of the characters that
  end or continue a token put every pair of neighbours before and after each end of a buffer.
* `ber_codec`.  Sizes on both sides of 128, 256, 512 and 1280 and arcs on both sides of 40, 128 and 16384 are where the
  form changes.  A second value shows where the first one's bytes were taken to end.
* MIB directories: a chain of imports, siblings, a name that means one object to a module and another
  to the module it imports from, modules that name each other's objects, a broken module, an object whose parent the module that asks for it does not
  import, a circle of objects, a missing module, an empty file.  Each is small enough for every order of every map.
* `mib_macro`.  Two tokens of lookahead instead of sixteen: the least with which a pair of words
  can still be joined.  A limit of three instead of a hundred: what is counted and not
  counted back is seen at the third element of a list.  Three macros are the shapes the RFCs have:
  optional parts, lists from the left and from the right, lists without commas.
* `metric_printer`.  Leaving a table, returning to it and reading one of its cells
  again takes four bindings; the fifth gives the
  return a neighbour.  The unknown column comes with two arcs, which is skipped, and with one, which the code
  prints as a scalar of the entry's name.
* `snmp_frame`.  With an `int` of two bytes the largest and the smallest number, and one
  more byte than that, fit TLC's integers.  The messages have no, one and two bindings, and
  bytes whose length needs one and two bytes to say.

### Fairness

* `ScanEngine`: weak fairness of what the executor does with one node (`Launch` or
  `Skip`: it takes up or gives up every node that may run), of each plugin
  call (pings wait two seconds, requests have a client timeout), of each lock
  acquisition (locks are only held for operations on a map), of the loop, and
  of time.  Only `ScansForEver` needs it.
* `HostPool`: weak fairness of each goroutine and of the return.  A goroutine that
  waits for the mutex needs no more than that, because TLC and the
  code agree that the mutex is released after one append and the queue of jobs
  is finite.
* `PingNet`: weak fairness of each ping, which justly ends since its reads have a deadline; nothing
  is assumed of the network.
* `Proxy`: weak fairness of each goroutine while the server itself has something to do (`Serve`; its own texts fit
  the buffer of the connection), of what comes from targets that are not `Silent` (`Relay`: `http.Get` has no
  deadline), and of copying (`Copy`) if besides the client is not `Stalled` or has left, when a Write to it fails: the
  server of `main.go:51` has no deadline for a Write, so a client that stays and does not read keeps `io.Copy`
  waiting for ever.  `RequestEnds` claims nothing of its request, and all the same of the others.
* `MibDatabase` and `MibValue`: weak fairness of the whole next-state relation: one
  goroutine that never waits.

`CHECK_DEADLOCK FALSE` is said where the system really stops: a filter call that has
returned, a database that is ready or failed, a capture, a message, a stream, a file, a value or a
configuration that has been read, and a proxy all of whose requests are done.

### Mutants

Every property of a passing run has a mutant: an alternative definition, written next to the
one it replaces, as a plausible bug would have it (an append without the
lock, a url that is shared, a memory made anew, a flag that is not reset, a flush
that is forgotten, a count that is not taken back).  With it TLC finds the property violated.

## 4. The proofs

| Theorem | Module | Says |
|---|---|---|
| `TypeCorrect` | `ScanEngineProofs` | `[]TypeOK` |
| `Provenance` | `ScanEngineProofs` | `[]FilterProvenance` |
| `Freshness` | `ScanEngineProofs` | `[]FreshInputs` |
| `Pace` | `ScanEngineProofs` | `[]Paced` |
| `Stamps` | `ScanEngineProofs` | `[]StampsTellRun` |
| `Metrics` | `ScanEngineProofs` | `[]MetricsExact` |
| `TypeCorrect` | `FilterProofs` | `[]TypeOK` |
| `Exact` | `FilterProofs` | `[]AnswerExact` |
| `OwnHost` | `FilterProofs` | `[]NoCrossTalk` |
| `Implements` | `FilterProofs` | `ImplementsContract`: `HostPool` refines `FilterSpec` |
| `PingTypeCorrect` | `FilterProofs` | `[]PingTypeOK` |
| `FoundHasAnswered` | `FilterProofs` | `[]Truthful` |
| `InvHolds` | `ConfigLoadProofs` | `[]Inv`, the inductive invariant |
| `GraphIsRunnable` | `ConfigLoadProofs` | `[]RunnableGraph` |
| `EverythingIsFed` | `ConfigLoadProofs` | `[]FedByRoot` |
| `LoadCorrect` | `ConfigLoadProofs` | `[]LoadInv`: types, `AcceptedAsDeclared` |
| `SoundFileAccepted` | `ConfigLoadProofs` | `[]SoundIsAccepted` |
| `LoadingInvHolds` | `PluginLoadProofs` | `[]Inv`, the inductive invariant |
| `PluginsAsWritten` | `PluginLoadProofs` | `[]PluginInv`: types, `AsWritten`, `SoundIsLoaded` |
| `NoSettingIgnored` | `PluginLoadProofs` | `[]NothingIgnored` |
| `SourcesAsConfigLoad` | `PluginLoadProofs` | `LoadsInOneStep`: `PluginLoad` refines `ConfigLoad` |
| `ProxyCorrect` | `ProxyProofs` | `[]ProxyInv`: types, `CountersAgree`, `ToldAsCounted`, `Delivered` |
| `NoConnectionLeaks` | `ProxyProofs` | `[]NoLeak` |
| `DatabaseCorrect` | `MibDatabaseProofs` | `[]DatabaseInv`: types; what is indexed is complete |
| `OidsAreConsistent` | `MibDatabaseProofs` | `[]OidsConsistent` |
| `CorrectModulesCompile` | `MibDatabaseProofs` | `[]CorrectIsIndexed` |
| `IndexIsCorrect` | `MibDatabaseProofs` | `[]IndexIsRight` |
| `PagesAreOfOneTable` | `MetricPrinterProofs` | `[](TypeOK /\ PageOfOneTable)` |
| `NoNumberLost` | `MetricPrinterProofs` | `[]NothingLost` |
| `PagesAreTheRuns` | `MetricPrinterProofs` | `[]PrinterInv`: the above and `PrintsRuns` |
| `OnlyMeantIsDecoded` | `SnmpFrameProofs` | `[]FrameInv`: types, `OnlyWhatWasSent` |
| `NoWholeMessageRefused` | `SnmpFrameProofs` | `[]WholeIsDecoded` |
| `EveryByteReadOnce` | `SnmpFrameProofs` | `[]ReadOnce` |

They hold for every graph that the named assumptions of `ScanEngine` allow, for
every finite set of hosts, every frequency, every number of hosts and goroutines, every
number of pings, requests and targets, every configuration and file of plugins, every directory of
MIB modules, captures of any length, and an `int` of any size with messages of any numbers, binds and bytes
that fit a datagram.

*Assumptions.*  TLC evaluates each of them in a run.

| Assumption | Says |
|---|---|
| `NodesAssumption`, `GraphAssumption`, `AcyclicAssumption` | kinds are disjoint; who may precede whom; `PlanNodes` refuses circles |
| `HostsAssumption`, `TimeAssumption`, `PoolAssumption` | hosts and jobs are finitely many; an exporter filter is a filter, and one that is finished; times are numbers, `Minute` is not 0 and `Horizon` reaches `Frequency` and `Minute`; outcomes are told apart |
| `PingAssumption` | the machine has an address; outcomes are told apart |
| `ConfigAssumption` | no name is the missing one; a configuration is a list of plugins and of targets; there are names (`Numbered`) for every publisher without one |
| `LoadAssumption`, `FieldsAreCut`, `ConfigsAreMeant` | the words that are defaults are names; a list of plugins is finite, its values are texts or lists; fields are cut as `Variations` cuts them; what `ConfigLoad` is told of a file is what `PluginLoad` has of it |
| `ProxyAssumption` | there is a target; requests are finitely many, those of clients that may stop reading among them |
| `DatabaseAssumption` | the built-in module and `iso` exist, "no name" and "no definition" are none; directories have the shape of directories, and the built-in module imports nothing |
| `PrinterAssumption`, `VarBindAssumption` | an entry is no column of another, and no INDEX names an entry; a binding has an object (a scalar, a column or an entry) or none, and arcs behind it |
| `FrameAssumption` | an `int` has a byte; what is sent are integers that fit it, object identifiers that can be written, bytes, one of the damages, and less than 65 536 bytes in all |

*ScanEngine.*  `TypeOK` is inductive.  `FilterProvenance` is not: a filter stores what
it returned, which is part of what it had read, which its precursors remembered
*then*.  `ProvenanceInv` says so for each stage of a step and closes the chain because
nothing is ever forgotten.  `FreshInputs` needs that what a precursor has found is
remembered once it is done, that a reader is reading only when all precursors have ended, and that
what is no longer in `unread` has arrived in `inputs` (`FreshInv`).  `Paced` rests on
`PaceInv`: while sleeping, what has elapsed plus what is left of the timer reaches both bounds.
`StampsTellRun` needs `StampInv`: no stamp is younger than a run unless the run
made it, for which the pause between two runs (a positive `Minute`) is
essential.  `MetricsExact` follows with lemmas on cardinalities.

*HostPool.*  `PoolInv` is `TypeOK`, `LockInv` (who is inside holds the lock; what it has read is still
the slice), `JobInv` (a job is queued, with exactly one worker, or judged),
`OutputInv` (what is in the slice is what has passed and is no longer pending) and
`ReturnInv`.  Each is needed by the next: without `LockInv` the slice that is written
back could be stale, without `JobInv` a host could be appended twice.
For the refinement, `Ask` maps to `Judge`, `WaitForCompletion` to `Return` or
`ReturnError`, a panic to `ReturnError`, and everything else to a stutter.

*PingNet.*  `Truthful` is about the packet that was taken; `HeardInv` is about the ones that wait in a
socket: each is of a host that has answered, and of another host only if it came before the socket was connected.

*ConfigLoad.*  `Inv` is `TodoInv` (the loop at hand is over names that are loaded),
`SourcesInv` and `TargetInv` (what has been checked of the plugins in the maps), `GraphInv` (which nodes are there
after each loop, each for a plugin that was loaded, and which edges they have; those of
a report are complete only as long as nothing is `wrong`) and `PlanInv`.  That the graph is runnable does
not follow from any one check: an edge to a missing source is only known from `wrong`, and
that there is no circle only from the plan.  `EverythingIsFed` then picks, in a set
without a circle, a node all of whose precursors are outside.
For `LoadCorrect` and `SoundFileAccepted`, `DeclaredInv` ties each map to the part of the file that has been
loaded, and the names left in each loop to what has not been wired; "nothing is `wrong`" is then kept in both
directions: it stays so in a sound file, and where it has stayed so to the end, everything was declared.

*PluginLoad.*  `LeftInv` and `LoadedInv` say of the plugins of the list which are done, and as what; `HandInv` and `TextInv` of
the one at hand: that `settings` is what was written less what its readers took, that `got` is what they were to
get, and that `asks` is the rest of what the framework and the constructor ask for; `EndInv` says why a list was refused.  It
stands on a table of the ten constructors: no two of the fields that one of them
reads have a spelling in common, so that none takes what another needs.  For `SourcesAsConfigLoad`,
`Open` maps to `Open`, `Finish` to `LoadPlugin`, a refusal or panic to `RefusePlugin`, and reading to a stutter.

*Proxy.*  `RequestInv` says for each place in `Server.Proxy` what the client was told, what has been copied and
whose connection is open; `CountersInv` says that each counter is the number of requests that are beyond its update, by
lemmas on cardinalities of sets that gain or lose one request.

*MibDatabase.*  `Inv` is `TypeOK`, `ReadingInv` (what the passes over files have loaded, and why one goes on), `StackInv`
(each call below the top waits for the call above it, and none is there twice before it is compiled), `OidInv` (an
OID is right, as a module that asked for it means it, up to the element that its call has reached), `DoneInv` and `CorrectInv` (what has been compiled
without an error, and that in a correct directory there is none), `TreeInv` and `NamesInv` (both
indexes hold what has been indexed, and nothing else).  The hard case is a failure in the middle of a recursion, which
leaves OIDs half made that later passes take up; `OidInv` is what is true of them.  It names the module that
asked since names may mean another object to each (`OidsConsistent` has the object's own module only where they do not).  That `FindOID` finds
the longest prefix is a lemma (`FindFacts`) by a least counterexample, since the provers have no induction.

*MetricPrinter.*  `CollectedInv` says that block and pages are well formed and of one table.  `KeptInv` says where each number
is that has been read: on a page, read again in the same run, or in the block, and then everything that
was read since belongs there too.  A binding that switches tables prints what it finds in the block; one that does not
may overwrite one value, which then has been read again, and index columns overwrite none that is not an index.
What `AddArcs` returns is again shown by a least counterexample.  For `PrintsRuns`, `RunsInv`: the block holds
the last run (`Holds`: its rows, and its cells with the value that each has in the end), and `indexing` is what the bindings
up to now have made, those that were skipped among them.  A binding joins that run exactly when `queueLine` does not print (`JoinsSwitches`), and
otherwise makes it past; the lines of a past run are those of its block (`LinesAre`, `LinesOfRun`) and stay what they
are (`SameLines`), and a run behind all others gets the page behind all others (`PageAdded`).

*SnmpFrame.*  `SentInv` says what has arrived.  For `ReadOnce`, `ReadInv`: what is left to the calls, one after
the other, is the end of what was encoded; each step takes bytes from the front of the first of them.  For the other two, `ShapeInv`: the
stack is one of those that the message can lead to (`ShapeOf`).  Each of them is a place in the message, with what has been
read of every call so far, what is left, and which damages can no longer have been done since they would have been
seen (`PastCommunity` … `PastAnswer`).  There is a lemma for each place: a step from there leads to another place, refuses a damaged
frame, or answers the message that was meant (`StepOK`).  Below are lemmas on the bytes: `Unmarshal` takes from a sequence
of elements the first and leaves the others (`ReadElement`), also when the last byte is gone; `GetInt` and `GetOid`
give back what `IntBytesOf` and `OidBytes` write (`GetIntFacts`, `GetOidFacts`), which are about folds and
shown by a least counterexample, as are those on `FlattenSeq`.

*Only model-checked.*  Liveness (`ScansForEver`, `CallEnds`, `IndexingEnds`, `ReadingEnds`, `RequestEnds`) and
whatever rests on fairness or ENABLED.  The tokens (`MibScan`) and the
codec (`BerCodec`), which are recursive over data; the macros (`MibMacro`, `MibValue`), whose reference is a least
fixed point.

## 5. Where code and documents disagree

`active_gauge` ends in a violation, with a short counterexample: `staticRoot.Discover` makes its list
with the *length* of the last scan instead of the capacity; from the second scan on, an empty host name is
found, remembered and counted (`static_root.go:71`).

Others were met on the way.  The models have them as the code does, and the properties say exactly where they
stop:

* Exporter filter: for a bad status `testHost` returns the nil error of the request, so that the host is accepted
  (`prom_exporter_filter.go:107`); an empty line in an answer makes it panic (`:85`).  Unless the executer recovers
  from that, the mapper ends and scans no more (`FilterPanics`).
* Pings: neither address, identifier nor sequence number of the reply is compared (`ping_filter.go:103`).  That is
  harmless once the socket is connected, but not between the two system calls of `net.DialIP`; and
  the machine itself is never found, since its own request comes before its reply (`Truthful`).
* MIB files: names of another module's object are looked up in the module that asked first (`object.go:91`), so
  that the OID of an object may be another one on the next start, and a correct directory can end in an endless
  recursion.  `OidsConsistent` therefore says that the OID is what *one* module that asks means, the object's own
  only in directories that are `WellScoped`; `CorrectIsIndexed` is about these.  A file that ends after `::=` is accepted (`module.go`).
* Macros: an alternative without tokens leaves the `switch` and not the loop, so that such a field is looked
  at for ever (`pattern.go:201`); a number in a pattern is never taken (`pattern.go:33`).  `ReadingEnds` leaves such
  macros out, and `IndexingEnds` does not see them: to `MibDatabase` a definition is sound or not.
* Scanner: a carriage return at the end of a buffer, or a byte 128, makes it panic (`scanner.go:293`); symbols and opening quotes do not move the column.
* Codec: `EncodePDU` always fails, as the community string has a tag under which strings are not packed
  (`interface.go:51`); a PDU by itself is packed but not unpacked; a length of 256 is written as none, and above
  1280 the encoder panics (`value.go:27`); `ReadFrom` takes long lengths one byte beside.  A
  decoder that is called again after a short read begins in the middle of a value (`value.go:83`); `Aligned` ends there.
* Settings: a null where a list is expected panics (`helpers.go:105`); a second spelling of a setting, the interval of
  a dns root and anything said of an upnp root are ignored; `ValidateOID` refuses numbers.
* Proxy: a client that stays and does not read keeps its request and the connection to the target for ever (no
  `WriteTimeout` at `main.go:51`); a target's name that is no UTF-8, which is no label of a metric, is left out; its metrics are registered nowhere; an error text is told as 200 and counted as an error, a target's
  status is passed on only when its answer is empty (`ToldAsCounted`); what `ListenAndServe` returns is dropped.
* `memory_duration` is configured and `ForgetHostsOlderThan` never called (`hosts.go:55`).

## 6. Not modelled, and the plan

In this order:

1. What can be said of `MibMacro`'s reading without its fixed point: that the calls are counted back.
2. The lemmas on `Unmarshal` and `GetInt` for the forms that `Value.Marshal` and `SetInt` write.

Left out for good: `connection.go`, which nothing calls; the caches of `asn1reflect`, which
hold what they were filled with; imports and exports beyond what `MibDatabase` has of them
and the display hints of the printer, which choose a format; ASN.1 error texts, templates and the wording of logs;
the text of HTTP answers and the captures of `snmp-poc`, which libraries parse; generated and vendored files.
