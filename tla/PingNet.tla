-------------------------------- MODULE PingNet --------------------------------
(***************************************************************************)
(* The packets of one call of ping_filter                                  *)
(* (src/internal/source/ping_filter.go): each host of the list has a raw   *)
(* socket of its own, and sockets get whatever ICMP packet arrives.        *)
(*                                                                         *)
(* A socket is there before it is connected to its host; only then is it   *)
(* kept from the packets of others.  Packets are lost, late, doubled and   *)
(* out of order; some are on their way already, from an earlier scan or    *)
(* another program.  The pool that runs the closures is HostPool.          *)
(***************************************************************************)
EXTENDS Naturals, Sequences

CONSTANTS
  Pings,      \* positions of the input list
  Addresses,
  Self,       \* the machine's own address, one of them
  Lists,      \* [Pings -> Addresses]: what the hosts of a list resolve to
  MaxInbox,   \* bound on the packets in a socket
  Unjudged

ASSUME PingAssumption ==
  /\ Self \in Addresses
  /\ Lists \subseteq [Pings -> Addresses]
  /\ MaxInbox \in Nat
  /\ Unjudged \notin {"error", "silence", "reply", "otherICMP"}

Types   == {"reply", "request", "error"}
Packets == [from : Addresses, type : Types]

VARIABLES
  call,      \* "calling" or "returned"
  list,      \* which of Lists
  socket,    \* [Pings -> SocketSteps]
  inbox,     \* what the socket has got, each with early: before it was connected
  verdict,   \* what ping returned
  heard,     \* history: the packet it is based on
  requests,  \* the hosts our echo requests are on their way to
  arriving,  \* packets on their way to this machine
  answered,  \* history: the hosts that have sent an echo reply
  found      \* the answer of the call

network  == <<requests, arriving, answered>>
pingVars == <<call, list, socket, inbox, verdict, heard, network, found>>

SocketSteps == {"none", "open", "connected", "sent", "closed"}
Heard       == [from : Addresses, type : Types, early : BOOLEAN]
Nothing     == [from |-> Self, type |-> "error", early |-> FALSE]

PingTypeOK ==
  /\ call \in {"calling", "returned"}
  /\ list \in Lists
  /\ socket \in [Pings -> SocketSteps]
  /\ inbox \in [Pings -> Seq(Heard)] /\ \A p \in Pings : Len(inbox[p]) <= MaxInbox
  /\ heard \in [Pings -> Heard]
  /\ verdict \in [Pings -> {"error", "silence", "reply", "otherICMP", Unjudged}]
  /\ requests \subseteq Addresses /\ arriving \subseteq Packets /\ answered \subseteq Addresses
  /\ found \subseteq Pings

-----------------------------------------------------------------------------
(* ping                                                                     *)

Moves(p, from, to) ==
  /\ call = "calling"
  /\ socket[p] = from
  /\ socket' = [socket EXCEPT ![p] = to]
  /\ UNCHANGED <<call, list, found>>

\* net.DialIP, of which the socket is the first half.
Open(p) ==
  /\ Moves(p, "none", "open")
  /\ UNCHANGED <<inbox, verdict, heard, network>>

Connect(p) ==
  /\ Moves(p, "open", "connected")
  /\ UNCHANGED <<inbox, verdict, heard, network>>

Send(p) ==
  /\ Moves(p, "connected", "sent")
  /\ requests' = requests \cup {list[p]}
  /\ UNCHANGED <<inbox, verdict, heard, arriving, answered>>

\* ping returns and closes its socket.
Judge(p, from, v, packet) ==
  /\ Moves(p, from, "closed")
  /\ verdict' = [verdict EXCEPT ![p] = v]
  /\ heard' = [heard EXCEPT ![p] = packet]
  /\ inbox' = [inbox EXCEPT ![p] = <<>>]
  /\ UNCHANGED network

\* Not resolved, no socket, not connected, not sent.
Fail(p) == \E step \in {"none", "open", "connected"} : Judge(p, step, "error", Nothing)

\* The first packet there is, whatever it answers.
\* (Mutant: nor of what type it is.)
ReceiveAny(p) ==
  /\ inbox[p] # <<>>
  /\ Judge(p, "sent", "reply", Head(inbox[p]))

Receive(p) ==
  /\ inbox[p] # <<>>
  /\ Judge(p, "sent", IF Head(inbox[p]).type = "reply" THEN "reply" ELSE "otherICMP", Head(inbox[p]))

\* The deadline.
Timeout(p) == Judge(p, "sent", "silence", Nothing)

\* WaitForCompletion: the answer is all that is left of the call.
Return ==
  /\ call = "calling"
  /\ \A p \in Pings : socket[p] = "closed"
  /\ call' = "returned"
  /\ found' = {p \in Pings : verdict[p] = "reply"}
  /\ verdict' = [p \in Pings |-> Unjudged]
  /\ heard' = [p \in Pings |-> Nothing]
  /\ requests' = {} /\ arriving' = {} /\ answered' = {}
  /\ UNCHANGED <<list, socket, inbox>>

-----------------------------------------------------------------------------
(* External: the network and the kernel                                     *)

\* The sockets that get a packet of a host.
Listeners(from) == {p \in Pings : \/ socket[p] = "open"
                                  \/ socket[p] \in {"connected", "sent"} /\ list[p] = from}

Deliver(packet) ==
  /\ \A p \in Listeners(packet.from) : Len(inbox[p]) < MaxInbox
  /\ inbox' = [p \in Pings |->
                 IF p \in Listeners(packet.from)
                 THEN Append(inbox[p], [from |-> packet.from, type |-> packet.type, early |-> socket[p] = "open"])
                 ELSE inbox[p]]

\* Lost, or twice.
Arrive(packet) ==
  /\ call = "calling"
  /\ packet \in arriving
  /\ \E rest \in {arriving, arriving \ {packet}} : arriving' = rest
  /\ Deliver(packet)
  /\ UNCHANGED <<call, list, socket, verdict, heard, requests, answered, found>>

Lose(packet) ==
  /\ call = "calling"
  /\ packet \in arriving
  /\ arriving' = arriving \ {packet}
  /\ UNCHANGED <<call, list, socket, inbox, verdict, heard, requests, answered, found>>

\* A host answers a request, or with an error; at this machine the request is seen first.
Answer(a) ==
  /\ call = "calling"
  /\ a \in requests
  /\ requests' = requests \ {a}
  /\ \/ arriving' = arriving \cup {[from |-> a, type |-> "reply"]} /\ answered' = answered \cup {a}
     \/ a # Self /\ arriving' = arriving \cup {[from |-> a, type |-> "error"]} /\ UNCHANGED answered
     \/ a # Self /\ UNCHANGED <<arriving, answered>>
  /\ IF a = Self THEN Deliver([from |-> a, type |-> "request"]) ELSE UNCHANGED inbox
  /\ UNCHANGED <<call, list, socket, verdict, heard, found>>

-----------------------------------------------------------------------------
PingInit ==
  /\ call = "calling"
  /\ list \in Lists
  /\ socket = [p \in Pings |-> "none"]
  /\ inbox = [p \in Pings |-> <<>>]
  /\ verdict = [p \in Pings |-> Unjudged]
  /\ heard = [p \in Pings |-> Nothing]
  /\ requests = {}
  /\ arriving \in {{}} \cup {{[from |-> a, type |-> "reply"]} : a \in Addresses}
  /\ answered = {q.from : q \in arriving}
  /\ found = {}

Ping(p) == Open(p) \/ Connect(p) \/ Send(p) \/ Fail(p) \/ Receive(p) \/ Timeout(p)

PingNext ==
  \/ \E p \in Pings : Ping(p)
  \/ \E q \in Packets : Arrive(q) \/ Lose(q)
  \/ \E a \in Addresses : Answer(a)
  \/ Return

PingSpec == PingInit /\ [][PingNext]_pingVars

PingFairness == (\A p \in Pings : WF_pingVars(Ping(p))) /\ WF_pingVars(Return)

-----------------------------------------------------------------------------
(* Properties                                                               *)

\* A host that is found has answered an echo request, this program's or another's, and
\* the packet taken for its answer is its own, although ping compares neither address,
\* identifier nor sequence number (ping_filter.go:103): unless it came in the moment
\* between the two system calls of net.DialIP (:67), when it may be anybody's.
Truthful ==
  \A p \in Pings :
    verdict[p] = "reply" => \/ heard[p].from = list[p] /\ list[p] \in answered
                            \/ heard[p].early

\* Why: what a socket holds came before it was connected, or from its host; and a reply
\* is from a host that has answered.
Sound(q, p) == (q.type = "reply" => q.from \in answered) /\ (q.early \/ q.from = list[p])

HeardInv ==
  /\ \A q \in arriving : q.type = "reply" => q.from \in answered
  /\ \A p \in Pings :
       /\ \A i \in 1 .. Len(inbox[p]) : Sound(inbox[p][i], p)
       /\ socket[p] \in {"none", "closed"} => inbox[p] = <<>>
  /\ Truthful

\* The call ends, whatever the network does: every ping has a deadline (ping_filter.go:87).
PingEnds == <>(call = "returned")
=============================================================================
