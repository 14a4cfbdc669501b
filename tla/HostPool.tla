------------------------------- MODULE HostPool -------------------------------
(***************************************************************************)
(* One call of Filter on a ping_filter or a prom_exporter_filter           *)
(* (src/internal/source): the job.Executer of the dsflow library runs a    *)
(* closure on every host of the input list, on a fixed number of workers,  *)
(* and the closures append the hosts that pass to one output slice under   *)
(* one mutex.                                                              *)
(*                                                                         *)
(* An append is two steps, reading the slice header and writing it back:   *)
(* that is what the mutex is for.                                          *)
(***************************************************************************)
EXTENDS Integers, Sequences, FiniteSets

CONSTANTS
  Kind,     \* "ping" or "http"
  Jobs,     \* positions of the input list: a host listed twice is two jobs
  Workers,  \* the executer's goroutines (64 for ping, 10 for http)
  None      \* no job, no holder of the lock, no outcome

ASSUME PoolAssumption ==
  /\ Kind \in {"ping", "http"}
  /\ IsFiniteSet(Jobs)
  /\ None \notin Jobs \cup Workers
  /\ None \notin {"error", "silence", "reply", "otherICMP",
                  "unreachable", "notOK", "metric", "noMetric", "emptyLine"}

\* pingFilter.ping: the host does not resolve or no socket can be used, no
\* packet in two seconds, an echo reply, some other ICMP packet first.
PingOutcomes == {"error", "silence", "reply", "otherICMP"}
PingAccepted == {"reply"}

\* httpFilter.testHost: no answer, an answer that is not 2xx (the error it
\* returns is the nil error of client.Do), a line with a wanted metric, none,
\* and an empty line before any wanted metric, of which there is no first word.
HttpOutcomes == {"unreachable", "notOK", "metric", "noMetric", "emptyLine"}
HttpAccepted == {"notOK", "metric"}
HttpPanics   == {"emptyLine"}

Outcomes == IF Kind = "ping" THEN PingOutcomes ELSE HttpOutcomes
Accepted == IF Kind = "ping" THEN PingAccepted ELSE HttpAccepted
Panics   == IF Kind = "ping" THEN {} ELSE HttpPanics

VARIABLES
  phase,      \* of the call: "calling", "returned", "failed" or "crashed"
  cancelled,  \* the context was cancelled by the graph executor
  queue,      \* jobs no worker has taken
  pc,         \* [Workers -> Step]
  job,        \* [Workers -> Jobs \cup {None}]: the closure's host
  url,        \* [Workers -> Jobs \cup {None}]: the closure's copy of the url
  outcome,    \* [Jobs -> Outcomes \cup {None}]
  asked,      \* history: [Jobs -> Jobs \cup {None}], whose host answered
  lock,       \* holder of the mutex around output
  read,       \* [Workers -> Seq(Jobs)]: the slice as append has read it
  output      \* Seq(Jobs)

vars == <<phase, cancelled, queue, pc, job, url, outcome, asked, lock, read, output>>

Step == {"idle", "taken", "asking", "passed", "locked", "appending", "appended"}

TypeOK ==
  /\ phase \in {"calling", "returned", "failed", "crashed"}
  /\ cancelled \in BOOLEAN
  /\ queue \in SUBSET Jobs
  /\ pc \in [Workers -> Step]
  /\ job \in [Workers -> Jobs \cup {None}]
  /\ url \in [Workers -> Jobs \cup {None}]
  /\ outcome \in [Jobs -> Outcomes \cup {None}]
  /\ asked \in [Jobs -> Jobs \cup {None}]
  /\ lock \in Workers \cup {None}
  /\ read \in [Workers -> Seq(Jobs)]
  /\ output \in Seq(Jobs)

Goto(w, from, to) ==
  /\ phase = "calling"
  /\ pc[w] = from
  /\ pc' = [pc EXCEPT ![w] = to]

-----------------------------------------------------------------------------
\* External: an idle worker takes a host off the executer's input, unless the
\* context was cancelled.
Take(w) ==
  /\ Goto(w, "idle", "taken")
  /\ ~ cancelled
  /\ \E j \in queue : /\ queue' = queue \ {j}
                      /\ job' = [job EXCEPT ![w] = j]
  /\ UNCHANGED <<phase, cancelled, url, outcome, asked, lock, read, output>>

\* The closure copies the filter's url and puts its host into the copy.
\* (Mutant: the closures share the filter's url.)
PrepareSharedUrl(w) ==
  /\ Goto(w, "taken", "asking")
  /\ url' = [v \in Workers |-> job[w]]
  /\ UNCHANGED <<phase, cancelled, queue, job, outcome, asked, lock, read, output>>

PrepareUrl(w) ==
  /\ Goto(w, "taken", "asking")
  /\ url' = [url EXCEPT ![w] = job[w]]
  /\ UNCHANGED <<phase, cancelled, queue, job, outcome, asked, lock, read, output>>

\* ping or testHost: a host that fails is left out and its error dropped.
Ask(w) ==
  \E o \in Outcomes \ Panics :
    /\ Goto(w, "asking", IF o \in Accepted THEN "passed" ELSE "idle")
    /\ outcome' = [outcome EXCEPT ![job[w]] = o]
    /\ asked' = [asked EXCEPT ![job[w]] = url[w]]
    /\ UNCHANGED <<phase, cancelled, queue, job, url, lock, read, output>>

\* responceContainsMetric indexes the first word of an empty line: unless the
\* library recovers the panic (and makes it the call's error), the process ends.
Panic(w) ==
  /\ phase = "calling"
  /\ pc[w] = "asking"
  /\ Panics # {}
  /\ phase' \in {"crashed", "failed"}
  /\ UNCHANGED <<cancelled, queue, pc, job, url, outcome, asked, lock, read, output>>

\* (Mutant: output without its mutex.)
NoLock(w) ==
  /\ Goto(w, "passed", "locked")
  /\ lock' = w
  /\ UNCHANGED <<phase, cancelled, queue, job, url, outcome, asked, read, output>>

Lock(w) ==
  /\ Goto(w, "passed", "locked")
  /\ lock = None
  /\ lock' = w
  /\ UNCHANGED <<phase, cancelled, queue, job, url, outcome, asked, read, output>>

AppendReads(w) ==
  /\ Goto(w, "locked", "appending")
  /\ read' = [read EXCEPT ![w] = output]
  /\ UNCHANGED <<phase, cancelled, queue, job, url, outcome, asked, lock, output>>

AppendWrites(w) ==
  /\ Goto(w, "appending", "appended")
  /\ output' = Append(read[w], job[w])
  /\ UNCHANGED <<phase, cancelled, queue, job, url, outcome, asked, lock, read>>

\* The deferred Unlock, then the closure returns nil.
\* (Mutant: the Unlock is forgotten.)
UnlockForgotten(w) ==
  /\ Goto(w, "appended", "idle")
  /\ UNCHANGED <<phase, cancelled, queue, job, url, outcome, asked, lock, read, output>>

Unlock(w) ==
  /\ Goto(w, "appended", "idle")
  /\ lock' = None
  /\ UNCHANGED <<phase, cancelled, queue, job, url, outcome, asked, read, output>>

\* External: another node of the graph failed and the context is cancelled.
Cancel ==
  /\ phase = "calling"
  /\ ~ cancelled
  /\ cancelled' = TRUE
  /\ UNCHANGED <<phase, queue, pc, job, url, outcome, asked, lock, read, output>>

\* External: WaitForCompletion returns once every host was handled and every
\* worker is idle, or with the error of the context once the workers are idle.
\* (Mutant: the call returns as soon as every host was handed out.)
ReturnEarly ==
  /\ phase = "calling"
  /\ queue = {}
  /\ phase' = "returned"
  /\ UNCHANGED <<cancelled, queue, pc, job, url, outcome, asked, lock, read, output>>

WaitForCompletion ==
  /\ phase = "calling"
  /\ \A w \in Workers : pc[w] = "idle"
  /\ \/ queue = {} /\ phase' = "returned"
     \/ cancelled /\ phase' = "failed"
  /\ UNCHANGED <<cancelled, queue, pc, job, url, outcome, asked, lock, read, output>>

-----------------------------------------------------------------------------
Init ==
  /\ phase = "calling"
  /\ cancelled = FALSE
  /\ queue = Jobs
  /\ pc = [w \in Workers |-> "idle"]
  /\ job = [w \in Workers |-> None]
  /\ url = [w \in Workers |-> None]
  /\ outcome = [j \in Jobs |-> None]
  /\ asked = [j \in Jobs |-> None]
  /\ lock = None
  /\ read = [w \in Workers |-> <<>>]
  /\ output = <<>>

\* What a worker does on its own, the executer's part left out.
Closure(w) ==
  \/ PrepareUrl(w) \/ Ask(w) \/ Panic(w)
  \/ Lock(w) \/ AppendReads(w) \/ AppendWrites(w) \/ Unlock(w)

Next ==
  \/ \E w \in Workers : Take(w) \/ Closure(w)
  \/ Cancel
  \/ WaitForCompletion

Spec == Init /\ [][Next]_vars

\* Every ping and request has a deadline and the mutex is only held for an
\* append, so a goroutine always gets on.
Fairness ==
  /\ \A w \in Workers : WF_vars(Take(w)) /\ WF_vars(Closure(w))
  /\ WF_vars(WaitForCompletion)

FairSpec == Spec /\ Fairness

-----------------------------------------------------------------------------
Listed == {output[i] : i \in DOMAIN output}
Kept   == {j \in Jobs : outcome[j] \in Accepted}

\* The answer holds every host that passed, once, and no other: no append of
\* one goroutine is lost to another's (the mutex around output).
AnswerExact ==
  phase = "returned" =>
    /\ Listed = Kept
    /\ Len(output) = Cardinality(Kept)

\* Each verdict is about the host it is booked for, although all closures
\* start from one url (the copy u := *h.url).
NoCrossTalk ==
  \A j \in Jobs : outcome[j] # None => asked[j] = j

\* The calls are specified by FilterSpec: until the call returns there is no
\* answer; a crash counts as an error.
Contract == INSTANCE FilterSpec WITH
  Unasked <- None,
  phase   <- IF phase = "crashed" THEN "failed" ELSE phase,
  answer  <- IF phase = "returned" THEN Listed ELSE {}

\* The pool implements the contract.
ImplementsContract == Contract!Spec

\* A filter call ends, whatever the hosts answer and whenever it is cancelled.
CallEnds == <>(phase # "calling")

-----------------------------------------------------------------------------
(* The inductive invariant (FilterProofs).                                  *)

\* The goroutine inside the critical section is the one that holds the lock,
\* and the slice it has read is still the slice.
LockInv ==
  \A w \in Workers :
    /\ pc[w] \in {"locked", "appending", "appended"} <=> lock = w
    /\ pc[w] = "appending" => read[w] = output

\* A job is in the queue, with one worker, or judged.
JobInv ==
  /\ \A j \in queue : outcome[j] = None
  /\ \A w \in Workers : pc[w] # "idle" => job[w] \in Jobs \ queue
  /\ \A w, v \in Workers : pc[w] # "idle" /\ pc[v] # "idle" /\ job[w] = job[v] => w = v
  /\ \A w \in Workers : pc[w] \in {"taken", "asking"} => outcome[job[w]] = None
  /\ \A w \in Workers : pc[w] = "asking" => url[w] = job[w]
  /\ \A w \in Workers : pc[w] \in {"passed", "locked", "appending", "appended"} =>
       outcome[job[w]] \in Accepted
  /\ \A j \in Jobs \ queue :
       outcome[j] # None \/ \E w \in Workers : job[w] = j /\ pc[w] \in {"taken", "asking"}
  /\ NoCrossTalk

\* Jobs that have passed and are still to be appended.
Pending == {j \in Jobs : \E w \in Workers : job[w] = j /\ pc[w] \in {"passed", "locked", "appending"}}

OutputInv ==
  /\ Listed = Kept \ Pending
  /\ Len(output) = Cardinality(Listed)

\* The call returns when nothing is left to do.
ReturnInv ==
  phase = "returned" => queue = {} /\ \A w \in Workers : pc[w] = "idle"
===============================================================================
