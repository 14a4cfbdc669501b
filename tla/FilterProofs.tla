------------------------------ MODULE FilterProofs -----------------------------
(* Theorems about the host filters: HostPool, for any number of hosts and   *)
(* goroutines, and PingNet, for any number of pings, hosts and packets.     *)
EXTENDS HostPool, PingNet, FiniteSetTheorems, TLAPS

-----------------------------------------------------------------------------
(* The worker pool                                                          *)

\* None stands for no outcome, of either kind of filter.
LEMMA OutcomesAssumption == None \notin Outcomes /\ Accepted \subseteq Outcomes
BY PoolAssumption DEF Outcomes, Accepted, PingOutcomes, PingAccepted, HttpOutcomes, HttpAccepted

\* A host is asked once and its outcome is one of the outcomes.
LEMMA AskStep ==
  ASSUME NEW w \in Workers, Ask(w)
  PROVE  \E o \in Outcomes :
           /\ phase = "calling" /\ pc[w] = "asking"
           /\ pc' = [pc EXCEPT ![w] = IF o \in Accepted THEN "passed" ELSE "idle"]
           /\ outcome' = [outcome EXCEPT ![job[w]] = o]
           /\ asked' = [asked EXCEPT ![job[w]] = url[w]]
           /\ UNCHANGED <<phase, cancelled, queue, job, url, lock, read, output>>
BY DEF Ask, Goto

\* Every variable of a filter call keeps its type.
LEMMA TypeInductive == TypeOK /\ JobInv /\ [Next]_vars => TypeOK'
<1> SUFFICES ASSUME TypeOK, JobInv, [Next]_vars PROVE TypeOK'
  OBVIOUS
<1> USE DEF TypeOK, Goto, Step
<1>1. ASSUME NEW w \in Workers, Take(w) PROVE TypeOK'
  BY <1>1 DEF Take
<1>2. ASSUME NEW w \in Workers, PrepareUrl(w) PROVE TypeOK'
  BY <1>2 DEF PrepareUrl
<1>3. ASSUME NEW w \in Workers, Ask(w) PROVE TypeOK'
  <2>1. PICK o \in Outcomes :
          /\ phase = "calling" /\ pc[w] = "asking"
          /\ pc' = [pc EXCEPT ![w] = IF o \in Accepted THEN "passed" ELSE "idle"]
          /\ outcome' = [outcome EXCEPT ![job[w]] = o]
          /\ asked' = [asked EXCEPT ![job[w]] = url[w]]
          /\ UNCHANGED <<phase, cancelled, queue, job, url, lock, read, output>>
    BY <1>3, AskStep
  <2> QED
    BY <2>1
<1>4. ASSUME NEW w \in Workers, Panic(w) PROVE TypeOK'
  BY <1>4 DEF Panic
<1>5. ASSUME NEW w \in Workers, Lock(w) PROVE TypeOK'
  BY <1>5 DEF Lock
<1>6. ASSUME NEW w \in Workers, AppendReads(w) PROVE TypeOK'
  BY <1>6 DEF AppendReads
<1>7. ASSUME NEW w \in Workers, AppendWrites(w) PROVE TypeOK'
  <2>1. job[w] \in Jobs
    BY <1>7 DEF AppendWrites, JobInv
  <2> QED
    BY <1>7, <2>1 DEF AppendWrites
<1>8. ASSUME NEW w \in Workers, Unlock(w) PROVE TypeOK'
  BY <1>8 DEF Unlock
<1>9. CASE Cancel
  BY <1>9 DEF Cancel
<1>10. CASE WaitForCompletion
  BY <1>10 DEF WaitForCompletion
<1>11. CASE UNCHANGED vars
  BY <1>11 DEF vars
<1> QED
  BY <1>1, <1>2, <1>3, <1>4, <1>5, <1>6, <1>7, <1>8, <1>9, <1>10, <1>11 DEF Next, Closure

\* The mutex protects the slice: between the reading and the writing of an
\* append no other goroutine writes.
LEMMA LockInductive == TypeOK /\ LockInv /\ [Next]_vars => LockInv'
<1> SUFFICES ASSUME TypeOK, LockInv, [Next]_vars PROVE LockInv'
  OBVIOUS
<1> USE PoolAssumption DEF TypeOK, LockInv, Goto
<1>1. ASSUME NEW w \in Workers, Take(w) PROVE LockInv'
  BY <1>1 DEF Take
<1>2. ASSUME NEW w \in Workers, PrepareUrl(w) PROVE LockInv'
  BY <1>2 DEF PrepareUrl
<1>3. ASSUME NEW w \in Workers, Ask(w) PROVE LockInv'
  <2>1. PICK v \in {"passed", "idle"} :
          /\ pc' = [pc EXCEPT ![w] = v] /\ pc[w] = "asking" /\ UNCHANGED <<phase, lock, read, output>>
    BY <1>3, AskStep
  <2> QED
    BY <2>1
<1>4. ASSUME NEW w \in Workers, Panic(w) PROVE LockInv'
  BY <1>4 DEF Panic
<1>5. ASSUME NEW w \in Workers, Lock(w) PROVE LockInv'
  BY <1>5 DEF Lock
<1>6. ASSUME NEW w \in Workers, AppendReads(w) PROVE LockInv'
  BY <1>6 DEF AppendReads
<1>7. ASSUME NEW w \in Workers, AppendWrites(w) PROVE LockInv'
  BY <1>7 DEF AppendWrites
<1>8. ASSUME NEW w \in Workers, Unlock(w) PROVE LockInv'
  BY <1>8 DEF Unlock
<1>9. CASE Cancel
  BY <1>9 DEF Cancel
<1>10. CASE WaitForCompletion
  BY <1>10 DEF WaitForCompletion
<1>11. CASE UNCHANGED vars
  BY <1>11 DEF vars
<1> QED
  BY <1>1, <1>2, <1>3, <1>4, <1>5, <1>6, <1>7, <1>8, <1>9, <1>10, <1>11 DEF Next, Closure

\* No job is lost by the executer, taken twice, or judged by another's answer.
LEMMA JobInductive == TypeOK /\ JobInv /\ [Next]_vars => JobInv'
<1> SUFFICES ASSUME TypeOK, JobInv, [Next]_vars PROVE JobInv'
  OBVIOUS
<1> USE PoolAssumption, OutcomesAssumption DEF TypeOK, JobInv, NoCrossTalk, Goto
<1>1. ASSUME NEW w \in Workers, Take(w) PROVE JobInv'
  <2>1. PICK j \in queue : queue' = queue \ {j} /\ job' = [job EXCEPT ![w] = j]
    BY <1>1 DEF Take
  <2>2. \A i \in Jobs \ queue' : outcome'[i] # None
          \/ \E v \in Workers : job'[v] = i /\ pc'[v] \in {"taken", "asking"}
    BY <1>1, <2>1 DEF Take
  <2> QED
    BY <1>1, <2>1, <2>2 DEF Take
<1>2. ASSUME NEW w \in Workers, PrepareUrl(w) PROVE JobInv'
  BY <1>2 DEF PrepareUrl
<1>3. ASSUME NEW w \in Workers, Ask(w) PROVE JobInv'
  <2>1. PICK o \in Outcomes :
          /\ pc[w] = "asking"
          /\ pc' = [pc EXCEPT ![w] = IF o \in Accepted THEN "passed" ELSE "idle"]
          /\ outcome' = [outcome EXCEPT ![job[w]] = o]
          /\ asked' = [asked EXCEPT ![job[w]] = url[w]]
          /\ UNCHANGED <<phase, cancelled, queue, job, url, lock, read, output>>
    BY <1>3, AskStep
  <2>2. job[w] \in Jobs \ queue /\ url[w] = job[w] /\ o # None
    BY <2>1
  <2>3. \A v \in Workers : v # w /\ pc[v] # "idle" => outcome'[job[v]] = outcome[job[v]]
    BY <2>1, <2>2
  <2>4. \A j \in Jobs : outcome'[j] # None => asked'[j] = j
    BY <2>1, <2>2
  <2>5. \A i \in Jobs \ queue' : outcome'[i] # None
          \/ \E v \in Workers : job'[v] = i /\ pc'[v] \in {"taken", "asking"}
    BY <2>1, <2>2
  <2>6. \A j \in queue' : outcome'[j] = None
    BY <2>1, <2>2
  <2> QED
    BY <2>1, <2>2, <2>3, <2>4, <2>5, <2>6
<1>4. ASSUME NEW w \in Workers, Panic(w) PROVE JobInv'
  BY <1>4 DEF Panic
<1>5. ASSUME NEW w \in Workers, Lock(w) PROVE JobInv'
  BY <1>5 DEF Lock
<1>6. ASSUME NEW w \in Workers, AppendReads(w) PROVE JobInv'
  BY <1>6 DEF AppendReads
<1>7. ASSUME NEW w \in Workers, AppendWrites(w) PROVE JobInv'
  BY <1>7 DEF AppendWrites
<1>8. ASSUME NEW w \in Workers, Unlock(w) PROVE JobInv'
  BY <1>8 DEF Unlock
<1>9. CASE Cancel
  BY <1>9 DEF Cancel
<1>10. CASE WaitForCompletion
  BY <1>10 DEF WaitForCompletion
<1>11. CASE UNCHANGED vars
  BY <1>11 DEF vars
<1> QED
  BY <1>1, <1>2, <1>3, <1>4, <1>5, <1>6, <1>7, <1>8, <1>9, <1>10, <1>11 DEF Next, Closure

\* Appending adds the appended job to what is listed.
LEMMA ListedAppend ==
  ASSUME NEW out \in Seq(Jobs), NEW j \in Jobs
  PROVE  LET new == Append(out, j)
         IN  {new[i] : i \in DOMAIN new} = {out[i] : i \in DOMAIN out} \cup {j}
<1> DEFINE new == Append(out, j)
<1>1. /\ DOMAIN out = 1 .. Len(out) /\ Len(out) \in Nat
      /\ DOMAIN new = 1 .. Len(out) + 1
      /\ new[Len(out) + 1] = j
      /\ \A i \in 1 .. Len(out) : new[i] = out[i]
  OBVIOUS
<1>2. \A x : (\E i \in DOMAIN new : x = new[i]) <=> (\E i \in DOMAIN out : x = out[i]) \/ x = j
  <2> HIDE DEF new
  <2> QED
    BY <1>1
<1> HIDE DEF new
<1>3. {new[i] : i \in DOMAIN new} = {out[i] : i \in DOMAIN out} \cup {j}
  BY <1>2
<1> QED
  BY <1>3 DEF new

\* The listed jobs are the ones that passed, but for those still to be appended.
LEMMA OutputInductive ==
  TypeOK /\ LockInv /\ JobInv /\ OutputInv /\ [Next]_vars => OutputInv'
<1> SUFFICES ASSUME TypeOK, LockInv, JobInv, OutputInv, [Next]_vars PROVE OutputInv'
  OBVIOUS
<1>1. ASSUME output' = output, Kept' = Kept, Pending' = Pending PROVE OutputInv'
  BY <1>1 DEF OutputInv, Listed
<1>2. ASSUME output' = output, Kept' \ Pending' = Kept \ Pending PROVE OutputInv'
  BY <1>2 DEF OutputInv, Listed
<1>3. ASSUME NEW w \in Workers, Take(w) PROVE OutputInv'
  <2>1. Pending' = Pending
    BY <1>3 DEF Take, Goto, Pending, TypeOK
  <2> QED
    BY <1>1, <1>3, <2>1 DEF Take, Kept
<1>4. ASSUME NEW w \in Workers, PrepareUrl(w) PROVE OutputInv'
  <2>1. Pending' = Pending
    BY <1>4 DEF PrepareUrl, Goto, Pending, TypeOK
  <2> QED
    BY <1>1, <1>4, <2>1 DEF PrepareUrl, Kept
<1>5. ASSUME NEW w \in Workers, Ask(w) PROVE OutputInv'
  <2>1. PICK o \in Outcomes :
          /\ pc[w] = "asking"
          /\ pc' = [pc EXCEPT ![w] = IF o \in Accepted THEN "passed" ELSE "idle"]
          /\ outcome' = [outcome EXCEPT ![job[w]] = o]
          /\ UNCHANGED <<job, output>>
    BY <1>5, AskStep
  <2>2. job[w] \in Jobs /\ outcome[job[w]] = None
    BY <2>1 DEF JobInv
  <2>3. job[w] \notin Kept
    BY <2>2, OutcomesAssumption DEF Kept
  <2>4. CASE o \in Accepted
    <3>1. Kept' = Kept \cup {job[w]}
      BY <2>1, <2>2, <2>4 DEF Kept, TypeOK
    <3>2. Pending' = Pending \cup {job[w]}
      BY <2>1, <2>2, <2>4 DEF Pending, TypeOK
    <3> QED
      BY <1>2, <2>1, <2>3, <3>1, <3>2
  <2>5. CASE o \notin Accepted
    <3>1. Kept' = Kept
      BY <2>1, <2>2, <2>3, <2>5 DEF Kept, TypeOK
    <3>2. Pending' = Pending
      BY <2>1, <2>5 DEF Pending, TypeOK
    <3> QED
      BY <1>1, <2>1, <3>1, <3>2
  <2> QED
    BY <2>4, <2>5
<1>6. ASSUME NEW w \in Workers, Lock(w) PROVE OutputInv'
  <2>1. Pending' = Pending
    BY <1>6 DEF Lock, Goto, Pending, TypeOK
  <2> QED
    BY <1>1, <1>6, <2>1 DEF Lock, Kept
<1>7. ASSUME NEW w \in Workers, AppendReads(w) PROVE OutputInv'
  <2>1. Pending' = Pending
    BY <1>7 DEF AppendReads, Goto, Pending, TypeOK
  <2> QED
    BY <1>1, <1>7, <2>1 DEF AppendReads, Kept
<1>8. ASSUME NEW w \in Workers, AppendWrites(w) PROVE OutputInv'
  <2>1. /\ pc[w] = "appending" /\ read[w] = output
        /\ output' = Append(output, job[w])
        /\ pc' = [pc EXCEPT ![w] = "appended"] /\ UNCHANGED <<job, outcome>>
    BY <1>8 DEF AppendWrites, Goto, LockInv
  <2>2. job[w] \in Jobs /\ job[w] \in Kept /\ job[w] \in Pending
    BY <2>1 DEF JobInv, Kept, Pending
  <2>3. Listed' = Listed \cup {job[w]}
    <3>1. output \in Seq(Jobs)
      BY DEF TypeOK
    <3> QED
      BY <2>1, <2>2, <3>1, ListedAppend DEF Listed
  <2>4. Kept' = Kept
    BY <2>1 DEF Kept
  <2>5. Pending' = Pending \ {job[w]}
    <3>1. \A v \in Workers : v # w /\ pc[v] # "idle" => job[v] # job[w]
      BY <2>1 DEF JobInv
    <3> QED
      BY <2>1, <3>1 DEF Pending, TypeOK
  <2>6. Listed' = Kept' \ Pending' /\ job[w] \notin Listed
    BY <2>2, <2>3, <2>4, <2>5 DEF OutputInv
  <2>7. IsFiniteSet(Listed)
    <3>1. Listed \subseteq Jobs
      BY DEF OutputInv, Kept
    <3> QED
      BY <3>1, PoolAssumption, FS_Subset
  <2>8. Cardinality(Listed') = Cardinality(Listed) + 1
    BY <2>3, <2>6, <2>7, FS_AddElement
  <2>9. Len(output') = Len(output) + 1
    BY <2>1, <2>2 DEF TypeOK
  <2>10. Len(output') = Cardinality(Listed')
    BY <2>8, <2>9 DEF OutputInv
  <2> QED
    BY <2>6, <2>10 DEF OutputInv
<1>9. ASSUME NEW w \in Workers, Unlock(w) PROVE OutputInv'
  <2>1. Pending' = Pending
    BY <1>9 DEF Unlock, Goto, Pending, TypeOK
  <2> QED
    BY <1>1, <1>9, <2>1 DEF Unlock, Kept
<1>10. UNCHANGED <<pc, job, outcome, output>> => OutputInv'
  BY <1>1 DEF Kept, Pending
<1> QED
  BY <1>3, <1>4, <1>5, <1>6, <1>7, <1>8, <1>9, <1>10
     DEF Next, Closure, Panic, Cancel, WaitForCompletion, vars

\* Once the call has returned no goroutine does anything more.
LEMMA ReturnInductive == TypeOK /\ ReturnInv /\ [Next]_vars => ReturnInv'
BY DEF TypeOK, ReturnInv, Next, Closure, Take, PrepareUrl, Ask, Panic, Lock, AppendReads,
   AppendWrites, Unlock, Cancel, WaitForCompletion, Goto, vars

PoolInv == TypeOK /\ LockInv /\ JobInv /\ OutputInv /\ ReturnInv

\* A call starts with every job queued and every goroutine idle.
LEMMA PoolInit == Init => PoolInv
<1> SUFFICES ASSUME Init PROVE PoolInv
  OBVIOUS
<1> USE PoolAssumption, OutcomesAssumption DEF Init
<1>1. output \in Seq(Jobs) /\ read \in [Workers -> Seq(Jobs)]
  OBVIOUS
<1>2. TypeOK
  BY <1>1 DEF TypeOK, Step
<1>3. LockInv /\ ReturnInv
  BY DEF LockInv, ReturnInv
<1>4. JobInv
  BY DEF JobInv, NoCrossTalk
<1>5. Listed = {} /\ Kept = {} /\ Len(output) = 0
  BY DEF Listed, Kept
<1>6. Cardinality(Listed) = 0
  BY <1>5, FS_EmptySet
<1> QED
  BY <1>2, <1>3, <1>4, <1>5, <1>6 DEF PoolInv, OutputInv

\* The invariant of a filter call.
LEMMA PoolAlways == Spec => []PoolInv
<1>1. PoolInv /\ [Next]_vars => PoolInv'
  BY TypeInductive, LockInductive, JobInductive, OutputInductive, ReturnInductive DEF PoolInv
<1> QED
  BY PoolInit, <1>1, PTL DEF Spec

\* Type correctness: the call, its goroutines, the mutex and the slice have the
\* types TypeOK gives them in every behaviour.
THEOREM TypeCorrect == Spec => []TypeOK
<1>1. PoolInv => TypeOK
  BY DEF PoolInv
<1> QED
  BY <1>1, PoolAlways, PTL

\* When the call has returned every host was judged and none is pending.
LEMMA ReturnedAll ==
  ASSUME PoolInv, queue = {}, \A w \in Workers : pc[w] = "idle"
  PROVE  /\ Listed = Kept /\ Len(output) = Cardinality(Kept)
         /\ \A j \in Jobs : outcome[j] # None
<1>1. Pending = {}
  BY DEF Pending
<1> QED
  BY <1>1 DEF PoolInv, OutputInv, JobInv

\* With any number of hosts, duplicates among them, and of goroutines: the
\* answer holds every host that passed exactly once, and no other.
THEOREM Exact == Spec => []AnswerExact
<1>1. PoolInv => AnswerExact
  BY ReturnedAll DEF AnswerExact, PoolInv, ReturnInv
<1> QED
  BY PoolAlways, <1>1, PTL

\* No closure books the answer of another closure's host.
THEOREM OwnHost == Spec => []NoCrossTalk
<1>1. PoolInv => NoCrossTalk
  BY DEF PoolInv, JobInv
<1> QED
  BY PoolAlways, <1>1, PTL

-----------------------------------------------------------------------------
(* The pool implements the contract of source.Filter                        *)

\* A step of a worker that is no verdict, or a cancellation, is invisible.
LEMMA InvisibleStep ==
  ASSUME phase = "calling", UNCHANGED <<phase, outcome>>
  PROVE  UNCHANGED Contract!vars
BY DEF Contract!vars

\* A verdict of the pool is a verdict of the contract.
LEMMA AskRefines ==
  ASSUME PoolInv, NEW w \in Workers, Ask(w)
  PROVE  Contract!Next
<1>1. PICK o \in Outcomes :
        /\ phase = "calling" /\ pc[w] = "asking"
        /\ outcome' = [outcome EXCEPT ![job[w]] = o]
        /\ phase' = phase
  BY AskStep
<1>2. job[w] \in Jobs /\ outcome[job[w]] = None
  BY <1>1 DEF PoolInv, JobInv
<1>3. Contract!Judge(job[w])
  BY <1>1, <1>2 DEF Contract!Judge
<1> QED
  BY <1>2, <1>3 DEF Contract!Next

\* The end of the call is the contract's answer, or its error.
LEMMA EndRefines ==
  ASSUME PoolInv, WaitForCompletion
  PROVE  Contract!Next
<1>1. phase = "calling" /\ UNCHANGED <<outcome, output>>
  BY DEF WaitForCompletion
<1>2. CASE queue = {} /\ phase' = "returned"
  <2>1. Listed = Kept /\ \A j \in Jobs : outcome[j] # None
    BY <1>2, ReturnedAll DEF WaitForCompletion
  <2>2. Listed' = Listed
    BY <1>1 DEF Listed
  <2>3. Contract!Return
    BY <1>1, <1>2, <2>1, <2>2 DEF Contract!Return, Contract!Kept, Kept
  <2> QED
    BY <2>3 DEF Contract!Next
<1>3. CASE phase' = "failed"
  <2>1. Contract!ReturnError
    BY <1>1, <1>3 DEF Contract!ReturnError
  <2> QED
    BY <2>1 DEF Contract!Next
<1> QED
  BY <1>2, <1>3 DEF WaitForCompletion

\* Every behaviour of the worker pool, with its mutex and its appends in two
\* steps, is a behaviour of the filter contract the scan engine relies on.
THEOREM Implements == Spec => ImplementsContract
<1>1. Init => Contract!Init
  BY DEF Init, Contract!Init
<1>2. PoolInv /\ [Next]_vars => [Contract!Next]_Contract!vars
  <2> SUFFICES ASSUME PoolInv, [Next]_vars PROVE [Contract!Next]_Contract!vars
    OBVIOUS
  <2>1. ASSUME NEW w \in Workers, Take(w) PROVE UNCHANGED Contract!vars
    BY <2>1, InvisibleStep DEF Take, Goto
  <2>2. ASSUME NEW w \in Workers, PrepareUrl(w) \/ Lock(w) \/ AppendReads(w)
                                    \/ AppendWrites(w) \/ Unlock(w)
        PROVE  UNCHANGED Contract!vars
    BY <2>2, InvisibleStep DEF PrepareUrl, Lock, AppendReads, AppendWrites, Unlock, Goto
  <2>3. ASSUME NEW w \in Workers, Ask(w) PROVE Contract!Next
    BY <2>3, AskRefines
  <2>4. ASSUME NEW w \in Workers, Panic(w) PROVE Contract!Next
    <3>1. Contract!ReturnError
      BY <2>4 DEF Panic, Contract!ReturnError
    <3> QED
      BY <3>1 DEF Contract!Next
  <2>5. Cancel => UNCHANGED Contract!vars
    BY InvisibleStep DEF Cancel
  <2>6. WaitForCompletion => Contract!Next
    BY EndRefines
  <2>7. UNCHANGED vars => UNCHANGED Contract!vars
    BY DEF vars, Contract!vars, Listed
  <2> QED
    BY <2>1, <2>2, <2>3, <2>4, <2>5, <2>6, <2>7 DEF Next, Closure
<1> QED
  BY PoolAlways, <1>1, <1>2, PTL DEF Spec, ImplementsContract, Contract!Spec

-----------------------------------------------------------------------------
(* The pings and the network                                                *)

\* Appending adds one element, at the end.
LEMMA Appended ==
  ASSUME NEW S, NEW s \in Seq(S), NEW x \in S
  PROVE  /\ Append(s, x) \in Seq(S)
         /\ Len(Append(s, x)) = Len(s) + 1
         /\ \A i \in 1 .. Len(s) + 1 : Append(s, x)[i] = IF i = Len(s) + 1 THEN x ELSE s[i]
OBVIOUS

\* A packet is added to the sockets that get it, and to no other.
LEMMA DeliverStep ==
  ASSUME PingTypeOK, NEW packet \in Packets, Deliver(packet)
  PROVE  /\ inbox' \in [Pings -> Seq(Heard)]
         /\ \A p \in Pings :
              /\ Len(inbox'[p]) <= MaxInbox
              /\ p \notin Listeners(packet.from) => inbox'[p] = inbox[p]
              /\ \A i \in 1 .. Len(inbox'[p]) :
                   \/ i \in 1 .. Len(inbox[p]) /\ inbox'[p][i] = inbox[p][i]
                   \/ /\ p \in Listeners(packet.from)
                      /\ inbox'[p][i] = [from |-> packet.from, type |-> packet.type, early |-> socket[p] = "open"]
<1> DEFINE new(p) == [from |-> packet.from, type |-> packet.type, early |-> socket[p] = "open"]
<1>1. \A p \in Pings : inbox[p] \in Seq(Heard) /\ Len(inbox[p]) <= MaxInbox
  BY DEF PingTypeOK
<1>2. \A p \in Pings : new(p) \in Heard
  BY DEF Packets, Heard
<1> HIDE DEF new
<1>3. \A p \in Pings : inbox'[p] = IF p \in Listeners(packet.from) THEN Append(inbox[p], new(p)) ELSE inbox[p]
  BY DEF Deliver, new
<1>4. \A p \in Listeners(packet.from) : p \in Pings /\ Len(inbox[p]) < MaxInbox
  BY DEF Deliver, Listeners
<1>5. inbox' \in [Pings -> Seq(Heard)]
  <2>1. \A p \in Pings : (IF p \in Listeners(packet.from) THEN Append(inbox[p], new(p)) ELSE inbox[p]) \in Seq(Heard)
    BY <1>1, <1>2, Appended
  <2> QED
    BY <2>1 DEF Deliver, new
<1>6. ASSUME NEW p \in Pings
      PROVE  /\ Len(inbox'[p]) <= MaxInbox
             /\ \A i \in 1 .. Len(inbox'[p]) :
                  \/ i \in 1 .. Len(inbox[p]) /\ inbox'[p][i] = inbox[p][i]
                  \/ p \in Listeners(packet.from) /\ inbox'[p][i] = new(p)
  <2>1. inbox[p] \in Seq(Heard) /\ Len(inbox[p]) \in Nat /\ Len(inbox[p]) <= MaxInbox
    BY <1>1
  <2>2. CASE p \in Listeners(packet.from)
    <3>1. inbox'[p] = Append(inbox[p], new(p))
      BY <1>3, <2>2
    <3>2. /\ Len(inbox'[p]) = Len(inbox[p]) + 1
          /\ \A i \in 1 .. Len(inbox[p]) + 1 : inbox'[p][i] = IF i = Len(inbox[p]) + 1 THEN new(p) ELSE inbox[p][i]
      BY <1>2, <2>1, <3>1, Appended
    <3> QED
      BY <1>4, <2>1, <2>2, <3>2, PingAssumption
  <2>3. CASE p \notin Listeners(packet.from)
    BY <1>3, <2>1, <2>3
  <2> QED
    BY <2>2, <2>3
<1> QED
  BY <1>3, <1>5, <1>6 DEF new

\* Every variable keeps its type.
LEMMA PingTypeInductive == PingTypeOK /\ [PingNext]_pingVars => PingTypeOK'
<1> SUFFICES ASSUME PingTypeOK, [PingNext]_pingVars PROVE PingTypeOK'
  OBVIOUS
<1>0. Nothing \in Heard
  BY PingAssumption DEF Nothing, Heard, Types
<1> USE PingAssumption DEF PingTypeOK, Moves, SocketSteps, network
<1>1. ASSUME NEW p \in Pings, Open(p) \/ Connect(p) PROVE PingTypeOK'
  BY <1>1 DEF Open, Connect
<1>2. ASSUME NEW p \in Pings, Send(p) PROVE PingTypeOK'
  <2>1. list[p] \in Addresses
    OBVIOUS
  <2> QED
    BY <1>2, <2>1 DEF Send
<1>3. ASSUME NEW p \in Pings, NEW from, NEW v \in {"error", "silence", "reply", "otherICMP"}, NEW q \in Heard,
             Judge(p, from, v, q)
      PROVE  PingTypeOK'
  <2>1. <<>> \in Seq(Heard) /\ Len(<<>>) <= MaxInbox
    OBVIOUS
  <2> QED
    BY <1>3, <2>1 DEF Judge
<1>4. ASSUME NEW p \in Pings, Fail(p) \/ Timeout(p) PROVE PingTypeOK'
  BY <1>0, <1>3, <1>4 DEF Fail, Timeout
<1>5. ASSUME NEW p \in Pings, Receive(p) PROVE PingTypeOK'
  <2>1. Head(inbox[p]) \in Heard
    BY <1>5 DEF Receive
  <2> QED
    BY <1>3, <1>5, <2>1 DEF Receive
<1>6. ASSUME NEW q \in Packets, Arrive(q) PROVE PingTypeOK'
  <2>1. inbox' \in [Pings -> Seq(Heard)] /\ \A p \in Pings : Len(inbox'[p]) <= MaxInbox
    BY <1>6, DeliverStep DEF Arrive
  <2> QED
    BY <1>6, <2>1 DEF Arrive
<1>7. ASSUME NEW q \in Packets, Lose(q) PROVE PingTypeOK'
  BY <1>7 DEF Lose
<1>8. ASSUME NEW a \in Addresses, Answer(a) PROVE PingTypeOK'
  <2>1. inbox' \in [Pings -> Seq(Heard)] /\ \A p \in Pings : Len(inbox'[p]) <= MaxInbox
    <3>1. [from |-> a, type |-> "request"] \in Packets
      BY DEF Packets, Types
    <3> QED
      BY <1>8, <3>1, DeliverStep DEF Answer
  <2>2. /\ requests' \subseteq Addresses /\ arriving' \subseteq Packets /\ answered' \subseteq Addresses
        /\ UNCHANGED <<call, list, socket, verdict, heard, found>>
    BY <1>8 DEF Answer, Packets, Types
  <2> QED
    BY <2>1, <2>2
<1>9. CASE Return
  BY <1>0, <1>9 DEF Return
<1>10. CASE UNCHANGED pingVars
  BY <1>10 DEF pingVars
<1> QED
  BY <1>1, <1>2, <1>4, <1>5, <1>6, <1>7, <1>8, <1>9, <1>10 DEF PingNext, Ping

\* What the sockets hold stays true of the hosts, and so do the verdicts.
LEMMA HeardInductive == PingTypeOK /\ HeardInv /\ [PingNext]_pingVars => HeardInv'
<1> SUFFICES ASSUME PingTypeOK, HeardInv, [PingNext]_pingVars PROVE HeardInv'
  OBVIOUS
<1> USE DEF HeardInv, Moves, network
<1>1. ASSUME NEW p \in Pings, Open(p) \/ Connect(p) \/ Send(p) PROVE HeardInv'
  <2>1. /\ UNCHANGED <<list, verdict, heard, inbox>> /\ answered' = answered
        /\ \A q \in arriving' : q \in arriving
        /\ \A r \in Pings : socket'[r] \in {"none", "closed"} => socket[r] \in {"none", "closed"}
    <3>1. CASE Open(p)
      BY <3>1 DEF Open, PingTypeOK
    <3>2. CASE Connect(p)
      BY <3>2 DEF Connect, PingTypeOK
    <3>3. CASE Send(p)
      BY <3>3 DEF Send, PingTypeOK
    <3> QED
      BY <1>1, <3>1, <3>2, <3>3
  <2> QED
    BY <2>1 DEF Sound, Truthful
<1>2. ASSUME NEW p \in Pings, NEW from, NEW v, NEW q, Judge(p, from, v, q),
             v = "reply" => \/ q.from = list[p] /\ list[p] \in answered
                            \/ q.early
      PROVE  HeardInv'
  <2>1. /\ verdict'[p] = v /\ heard'[p] = q /\ inbox'[p] = <<>> /\ socket'[p] = "closed"
        /\ \A r \in Pings \ {p} : /\ verdict'[r] = verdict[r] /\ heard'[r] = heard[r]
                                  /\ inbox'[r] = inbox[r] /\ socket'[r] = socket[r]
        /\ UNCHANGED <<list, network>>
    BY <1>2 DEF Judge, PingTypeOK
  <2>2. Truthful'
    BY <1>2, <2>1 DEF Truthful
  <2>3. \A r \in Pings : (\A i \in 1 .. Len(inbox[r]) : Sound(inbox[r][i], r))'
    BY <2>1 DEF Sound
  <2> QED
    BY <2>1, <2>2, <2>3
<1>3. ASSUME NEW p \in Pings, Fail(p) \/ Timeout(p) PROVE HeardInv'
  BY <1>2, <1>3 DEF Fail, Timeout
<1>4. ASSUME NEW p \in Pings, Receive(p) PROVE HeardInv'
  <2>1. Sound(Head(inbox[p]), p)
    BY <1>4 DEF Receive, PingTypeOK
  <2> QED
    BY <1>2, <1>4, <2>1 DEF Receive, Sound
\* A packet of a host gets into the sockets that are open, and into those of the host.
<1>5. ASSUME NEW q \in Packets, Deliver(q), answered \subseteq answered', q.type = "reply" => q.from \in answered',
             UNCHANGED <<list, socket, verdict, heard>>, \A r \in arriving' : r.type = "reply" => r.from \in answered'
      PROVE  HeardInv'
  <2>1. Truthful'
    BY <1>5 DEF Truthful
  <2>2. ASSUME NEW p \in Pings, NEW i \in 1 .. Len(inbox'[p]) PROVE Sound(inbox[p][i], p)'
    <3>1. CASE i \in 1 .. Len(inbox[p]) /\ inbox'[p][i] = inbox[p][i]
      BY <1>5, <3>1 DEF Sound
    <3>2. CASE /\ p \in Listeners(q.from)
               /\ inbox'[p][i] = [from |-> q.from, type |-> q.type, early |-> socket[p] = "open"]
      <4>1. q.type = "reply" => q.from \in answered'
        BY <1>5
      <4>2. socket[p] # "open" => q.from = list'[p]
        BY <1>5, <3>2 DEF Listeners
      <4>3. inbox'[p][i].type = q.type /\ inbox'[p][i].from = q.from
        BY <3>2
      <4>4. socket[p] = "open" => inbox'[p][i] = [from |-> q.from, type |-> q.type, early |-> TRUE]
        BY <3>2
      <4>5. socket[p] = "open" => inbox'[p][i].early
        BY <4>4
      <4> QED
        BY <4>1, <4>2, <4>3, <4>5 DEF Sound
    <3> QED
      BY <1>5, <2>2, <3>1, <3>2, DeliverStep
  <2>3. ASSUME NEW p \in Pings, socket'[p] \in {"none", "closed"} PROVE inbox'[p] = <<>>
    BY <1>5, <2>3, DeliverStep DEF Listeners
  <2> QED
    BY <1>5, <2>1, <2>2, <2>3
\* Without a packet for a socket, nothing is to be shown of the sockets.
<1>6. ASSUME UNCHANGED <<list, socket, inbox, verdict, heard>>, answered \subseteq answered',
             \A r \in arriving' : r.type = "reply" => r.from \in answered'
      PROVE  HeardInv'
  BY <1>6 DEF Sound, Truthful
<1>7. ASSUME NEW q \in Packets, Arrive(q) PROVE HeardInv'
  BY <1>5, <1>7 DEF Arrive
<1>8. ASSUME NEW q \in Packets, Lose(q) PROVE HeardInv'
  BY <1>6, <1>8 DEF Lose
<1>9. ASSUME NEW a \in Addresses, Answer(a) PROVE HeardInv'
  <2>1. answered \subseteq answered' /\ \A r \in arriving' : r.type = "reply" => r.from \in answered'
    BY <1>9 DEF Answer
  <2>2. CASE a = Self
    <3>1. [from |-> a, type |-> "request"] \in Packets
      BY DEF Packets, Types
    <3> QED
      BY <1>5, <1>9, <2>1, <2>2, <3>1 DEF Answer
  <2>3. CASE a # Self
    BY <1>6, <1>9, <2>1, <2>3 DEF Answer
  <2> QED
    BY <2>2, <2>3
\* The sockets are closed: nothing is left of the call but its answer.
<1>10. CASE Return
  <2>1. \A p \in Pings : inbox'[p] = <<>> /\ verdict'[p] = Unjudged
    BY <1>10 DEF Return
  <2>2. Truthful'
    BY <2>1, PingAssumption DEF Truthful
  <2>3. arriving' = {}
    BY <1>10 DEF Return
  <2> QED
    BY <2>1, <2>2, <2>3
<1>11. CASE UNCHANGED pingVars
  BY <1>6, <1>11 DEF pingVars
<1> QED
  BY <1>1, <1>3, <1>4, <1>7, <1>8, <1>9, <1>10, <1>11 DEF PingNext, Ping

\* A call begins with sockets that hold nothing.
LEMMA PingInitially == PingInit => PingTypeOK /\ HeardInv
<1> SUFFICES ASSUME PingInit PROVE PingTypeOK /\ HeardInv
  OBVIOUS
<1> USE PingAssumption DEF PingInit
<1>1. PingTypeOK
  <2>1. arriving \subseteq Packets /\ answered \subseteq Addresses
    BY DEF Packets, Types
  <2>2. Nothing \in Heard
    BY DEF Nothing, Heard, Types
  <2>3. <<>> \in Seq(Heard) /\ Len(<<>>) <= MaxInbox
    OBVIOUS
  <2> QED
    BY <2>1, <2>2, <2>3 DEF PingTypeOK, SocketSteps
<1>2. HeardInv
  BY DEF HeardInv, Truthful
<1> QED
  BY <1>1, <1>2

\* PingTypeOK is an invariant of ping_filter's packets (ping_filter.go).
THEOREM PingTypeCorrect == PingSpec => []PingTypeOK
<1>1. PingInit => PingTypeOK
  BY PingInitially
<1> QED
  BY <1>1, PingTypeInductive, PTL DEF PingSpec

\* Truthful: a host that is found has answered with the packet that is taken for its answer,
\* unless that came before the socket was connected (ping_filter.go:67, :103): whatever is
\* lost, late, doubled or out of order.
THEOREM FoundHasAnswered == PingSpec => []Truthful
<1>1. PingInit => PingTypeOK /\ HeardInv
  BY PingInitially
<1>2. (PingTypeOK /\ HeardInv) /\ [PingNext]_pingVars => (PingTypeOK /\ HeardInv)'
  BY PingTypeInductive, HeardInductive
<1>3. HeardInv => Truthful
  BY DEF HeardInv
<1> QED
  BY <1>1, <1>2, <1>3, PTL DEF PingSpec
===============================================================================
