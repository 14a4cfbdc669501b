-------------------------------- MODULE Proxy --------------------------------
(***************************************************************************)
(* The HTTP server of dsnet-mapper (main.go, server.go, requeststats.go in *)
(* src/cmd/dsnet-mapper): requests that are relayed to a target, each in a *)
(* goroutine of its own, and the counters they share.                      *)
(*                                                                         *)
(* A body is a number of pieces, a text of the server's own is one piece.  *)
(* External: net/http tells the status of the first WriteHeader, or 200    *)
(* with the first Write, and nothing later; promhttp counts the last.      *)
(***************************************************************************)
EXTENDS Naturals, FiniteSets

CONSTANTS
  Requests,
  Targets,
  Silent,    \* the targets that may keep a request waiting for ever
  Stalled,   \* the requests whose client, while it stays, may read nothing for ever
  MaxPieces  \* bound on a target's answer

ASSUME ProxyAssumption ==
  Targets # {} /\ Silent \subseteq Targets /\ Stalled \subseteq Requests /\ IsFiniteSet(Requests) /\ MaxPieces \in Nat \ {0}

Codes == {200, 400, 404, 500, 501}
None  == 0  \* no status yet

Steps == {"out", "proxy", "wrong", "plain", "asking", "copying", "copied", "telling", "timing", "counting", "adding",
          "instrumenting", "done"}

\* A request: where its goroutine is, its client, the status the client was told and
\* promhttp has noted, the RequestStats (code, written), what the client got, and
\* upstream the status, the pieces that are left and were read, and the connection.
Request ==
  [pc : Steps, target : Targets, gone : BOOLEAN,
   told : Codes \cup {None}, noted : Codes \cup {None},
   code : Codes, written : 0 .. MaxPieces, got : 0 .. MaxPieces,
   answer : Codes \cup {None}, left : 0 .. MaxPieces, sent : 0 .. MaxPieces, conn : {"none", "open", "free", "broken"}]

VARIABLES
  server,    \* "starting", "serving" or "exited"
  req,       \* [Requests -> Request]
  durations, \* the metrics, by target and code: how many were timed,
  totals,    \* counted,
  bytes,     \* and their sizes,
  requestsTotal \* and promhttp's, by code

metrics == <<durations, totals, bytes, requestsTotal>>
vars    == <<server, req, metrics>>

Labels == Targets \X Codes

TypeOK ==
  /\ server \in {"starting", "serving", "exited"}
  /\ req \in [Requests -> Request]
  /\ \A m \in {durations, totals, bytes} : m \in [Labels -> Nat]
  /\ requestsTotal \in [Codes -> Nat]

\* r is at a step and comes out of it as q.
Does(r, step, q) ==
  /\ req[r].pc = step
  /\ req' = [req EXCEPT ![r] = q]
  /\ UNCHANGED server

\* External: WriteHeader and Write of the ResponseWriter.
Tells(q, c)  == [q EXCEPT !.told = IF @ = None THEN c ELSE @, !.noted = c]
Writes(q)    == IF q.noted = None THEN Tells(q, 200) ELSE q
Passes(q, n) == [Writes(q) EXCEPT !.written = @ + n, !.got = IF q.gone THEN @ ELSE @ + n]

-----------------------------------------------------------------------------
(* main; the routes but /metrics and /health, which change nothing          *)

\* NewServer and ListenAndServe; the configuration is refused, or the port is taken.
Start ==
  /\ server = "starting"
  /\ server' \in {"serving", "exited"}
  /\ UNCHANGED <<req, metrics>>

Arrive(r) ==
  /\ server = "serving"
  /\ \E t \in Targets, route \in {"proxy", "wrong", "plain"} : Does(r, "out", [req[r] EXCEPT !.pc = route, !.target = t])
  /\ UNCHANGED metrics

\* External: a client may leave at any time.
Leave(r) ==
  /\ req[r].pc \notin {"out", "done"}
  /\ ~ req[r].gone
  /\ Does(r, req[r].pc, [req[r] EXCEPT !.gone = TRUE])
  /\ UNCHANGED metrics

\* Refresh, Report and the root page: 501, nothing (that is 200), 400.
Plain(r) ==
  /\ \E c \in {200, 400, 501} : Does(r, "plain", [Tells(req[r], c) EXCEPT !.pc = "instrumenting"])
  /\ UNCHANGED metrics

-----------------------------------------------------------------------------
(* Server.Proxy                                                             *)

\* RequestStats.WriteHeader.
Notes(q, c) == [Tells(q, c) EXCEPT !.code = c]

\* The text of an error, then its status.
Refuse(r, step, c) ==
  /\ \E n \in {1} \cup (IF req[r].gone THEN {0} ELSE {}) :
       Does(r, step, [Notes(Passes(req[r], n), c) EXCEPT !.pc = "telling"])
  /\ UNCHANGED metrics

RefuseUrl(r) == Refuse(r, "wrong", 400)

\* (Mutant: one request is asked at a time.)
AskInTurn(r) ==
  /\ \A q \in Requests : req[q].pc # "asking"
  /\ Does(r, "proxy", [req[r] EXCEPT !.pc = "asking"])
  /\ UNCHANGED metrics

Ask(r) ==
  /\ Does(r, "proxy", [req[r] EXCEPT !.pc = "asking"])
  /\ UNCHANGED metrics

GetFails(r) == Refuse(r, "asking", 500)

\* External: the target answers; without a body there is nothing to be kept open.
\* (Mutant: only an answer that is right is copied.)
Answered(q, c, n, step) == [q EXCEPT !.pc = step, !.answer = c, !.left = n, !.conn = IF n = 0 THEN "free" ELSE "open"]

AnswerCopiedIfOK(r) ==
  /\ \E c \in {200, 404}, n \in 0 .. MaxPieces :
       Does(r, "asking", Answered(req[r], c, n, IF c = 200 THEN "copying" ELSE "copied"))
  /\ UNCHANGED metrics

Answer(r) ==
  /\ \E c \in {200, 404}, n \in 0 .. MaxPieces : Does(r, "asking", Answered(req[r], c, n, "copying"))
  /\ UNCHANGED metrics

\* io.Copy to the RequestStats; what a client that has left is sent may get as far
\* as a buffer.
CopyPiece(r) ==
  /\ req[r].left > 0
  /\ Does(r, "copying", [Passes(req[r], 1) EXCEPT !.left = @ - 1, !.sent = @ + 1])
  /\ UNCHANGED metrics

\* The target breaks off.
BodyBreaks(r) ==
  /\ req[r].left > 0
  /\ Does(r, "copying", [req[r] EXCEPT !.pc = "copied", !.conn = "broken"])
  /\ UNCHANGED metrics

\* Write fails: the rest of the body is not read, and nobody closes it, unless its end
\* has come with the piece.
WriteFails(r) ==
  /\ req[r].gone
  /\ req[r].left > 0
  /\ \E c \in {"open"} \cup (IF req[r].left = 1 THEN {"free"} ELSE {}) :
       Does(r, "copying", [Writes(req[r]) EXCEPT !.pc = "copied", !.left = @ - 1, !.sent = @ + 1, !.conn = c])
  /\ UNCHANGED metrics

\* External: a body that is read to its end gives the connection back.
BodyEnds(r) ==
  /\ req[r].left = 0
  /\ Does(r, "copying", [req[r] EXCEPT !.pc = "copied", !.conn = "free"])
  /\ UNCHANGED metrics

SetStatus(r) ==
  /\ Does(r, "copied", [Tells(req[r], req[r].answer) EXCEPT !.pc = "telling"])
  /\ UNCHANGED metrics

\* The deferred function: the status, and the three metrics one after the other.
\* (Mutant: without the status.)
TellNothing(r) ==
  /\ Does(r, "telling", [req[r] EXCEPT !.pc = "timing"])
  /\ UNCHANGED metrics

Tell(r) ==
  /\ Does(r, "telling", [Tells(req[r], req[r].code) EXCEPT !.pc = "timing"])
  /\ UNCHANGED metrics

Label(r) == <<req[r].target, req[r].code>>

Observe(r) ==
  /\ Does(r, "timing", [req[r] EXCEPT !.pc = "counting"])
  /\ durations' = [durations EXCEPT ![Label(r)] = @ + 1]
  /\ UNCHANGED <<totals, bytes, requestsTotal>>

Inc(r) ==
  /\ Does(r, "counting", [req[r] EXCEPT !.pc = "adding"])
  /\ totals' = [totals EXCEPT ![Label(r)] = @ + 1]
  /\ UNCHANGED <<durations, bytes, requestsTotal>>

Add(r) ==
  /\ Does(r, "adding", [req[r] EXCEPT !.pc = "instrumenting"])
  /\ bytes' = [bytes EXCEPT ![Label(r)] = @ + req[r].written]
  /\ UNCHANGED <<durations, totals, requestsTotal>>

\* External: promhttp.InstrumentHandlerCounter, once the handler has returned.
Instrument(r) ==
  /\ Does(r, "instrumenting", [req[r] EXCEPT !.pc = "done"])
  /\ requestsTotal' = [requestsTotal EXCEPT ![req[r].noted] = @ + 1]
  /\ UNCHANGED <<durations, totals, bytes>>

-----------------------------------------------------------------------------
\* NewRequestStats.
FirstCode == 200

Init ==
  /\ server = "starting"
  /\ req = [r \in Requests |->
              [pc |-> "out", target |-> CHOOSE t \in Targets : TRUE, gone |-> FALSE, told |-> None, noted |-> None,
               code |-> FirstCode, written |-> 0, got |-> 0, answer |-> None, left |-> 0, sent |-> 0, conn |-> "none"]]
  /\ durations = [l \in Labels |-> 0]
  /\ totals = [l \in Labels |-> 0]
  /\ bytes = [l \in Labels |-> 0]
  /\ requestsTotal = [c \in Codes |-> 0]

\* Steps that wait for the target, for the target and the client, and the server's own
\* (a text of its own is short enough for a buffer).
Relay(r) == GetFails(r) \/ Answer(r) \/ BodyEnds(r)

Copy(r) == CopyPiece(r) \/ WriteFails(r) \/ BodyBreaks(r)

Serve(r) ==
  \/ Plain(r) \/ RefuseUrl(r) \/ Ask(r) \/ SetStatus(r)
  \/ Tell(r) \/ Observe(r) \/ Inc(r) \/ Add(r) \/ Instrument(r)

Next == Start \/ \E r \in Requests : Arrive(r) \/ Leave(r) \/ Relay(r) \/ Copy(r) \/ Serve(r)

Spec == Init /\ [][Next]_vars

\* Whose client takes what it is sent, or has left, when a Write fails.
Drains(r) == r \notin Stalled \/ req[r].gone

\* A goroutine gets on unless its target or its client keeps it waiting: http.Get has no
\* deadline and does not know of the client's request, and the server that main starts
\* has none for a Write.
Fairness ==
  \A r \in Requests :
    /\ WF_vars(Serve(r))
    /\ WF_vars(req[r].target \notin Silent /\ Relay(r))
    /\ WF_vars(req[r].target \notin Silent /\ Drains(r) /\ Copy(r))

FairSpec == Spec /\ Fairness

-----------------------------------------------------------------------------
(* Properties                                                               *)

Relayed(q) == q.code # FirstCode \/ q.answer # None
Done       == {r \in Requests : req[r].pc = "done"}
Proxied    == {r \in Done : Relayed(req[r])}
With(l)    == {r \in Proxied : Label(r) = l}
Pieces(S)  == {w \in S \X (1 .. MaxPieces) : w[2] <= req[w[1]].written}

\* When no request is under way, every relayed request is counted once in each of the
\* three metrics, under the same label, with its size, and requests_total, which is counted
\* by a library from what it saw of the statuses, has every request that was relayed under
\* the code that proxy_total has it under.
CountersAgree ==
  (\A r \in Requests : req[r].pc \in {"out", "done"}) =>
    /\ \A l \in Labels :
         /\ durations[l] = Cardinality(With(l)) /\ totals[l] = durations[l]
         /\ bytes[l] = Cardinality(Pieces(With(l)))
    /\ \A c \in Codes :
         requestsTotal[c] = Cardinality({r \in Proxied : req[r].code = c})
                            + Cardinality({r \in Done \ Proxied : req[r].noted = c})

\* A client that stays gets all that the target has sent, and that is what is counted;
\* of an answer that breaks off it gets what was there.
Delivered ==
  \A r \in Proxied :
    ~ req[r].gone => /\ req[r].got = req[r].written
                     /\ req[r].code = 200 => req[r].got = req[r].sent /\ (req[r].left = 0 \/ req[r].conn = "broken")

\* Whoever gets content of a target is told the status that is counted.  Only an empty
\* answer has its status passed on (and is counted as 200), and only an error of the
\* proxy itself is counted as one (and told as 200).
ToldAsCounted ==
  \A r \in Proxied :
    /\ req[r].sent > 0 => req[r].told = req[r].code
    /\ req[r].answer # None /\ req[r].sent = 0 => req[r].told = req[r].answer /\ req[r].code = 200
    /\ req[r].answer = None => req[r].told = 200 /\ req[r].code # 200

\* A connection to a target is left open for ever only if a client left in the middle
\* of an answer, although no body is ever closed.
NoLeak ==
  \A r \in Done : req[r].conn = "open" => req[r].gone

\* A request to a target that answers comes to its end, wherever the target breaks off, if
\* its client reads on, or once it has left.  Neither a target that keeps silent nor a client
\* that stays and does not read holds up any request but its own.
RequestEnds ==
  \A r \in Requests :
    req[r].pc \notin {"out", "done"} /\ req[r].target \notin Silent /\ Drains(r) ~> req[r].pc = "done"

\* Why: what holds of a request from its first step to its last.
Fresh(q) ==
  /\ q.told = None /\ q.noted = None /\ q.code = FirstCode /\ q.written = 0 /\ q.got = 0
  /\ q.answer = None /\ q.left = 0 /\ q.sent = 0 /\ q.conn = "none"

Timed   == {"counting", "adding", "instrumenting", "done"}
Counted == Timed \ {"counting"}
Added   == Counted \ {"adding"}

OwnInv(q) ==
  /\ q.sent = 0 /\ q.left = 0 /\ q.conn = "none"
  /\ ~ q.gone => q.got = q.written
  /\ q.code # FirstCode => q.told = 200

AnsweredInv(q) ==
  /\ q.code = FirstCode
  /\ q.got <= q.written /\ q.written <= q.sent /\ q.sent + q.left <= MaxPieces
  /\ ~ q.gone => q.got = q.written /\ q.written = q.sent
  /\ ~ q.gone /\ q.pc # "copying" => q.conn # "open" /\ (q.left = 0 \/ q.conn = "broken")
  /\ q.told = IF q.sent > 0 THEN 200 ELSE IF q.pc \in {"copying", "copied"} THEN None ELSE q.answer

RequestInv(q) ==
  /\ q.pc \in {"out", "proxy", "wrong", "plain", "asking"} => Fresh(q)
  /\ q.pc \in {"copying", "copied"} => q.answer # None /\ q.noted = q.told
  /\ q.pc \in {"telling", "timing", "counting", "adding"} => Relayed(q)
  /\ q.pc \in {"timing"} \cup Timed => q.noted # None /\ (Relayed(q) => q.noted = q.code)
  /\ IF q.answer = None THEN OwnInv(q) ELSE AnsweredInv(q)

\* And of the counters, which are behind each other by the requests between their steps.
Past(steps, l) == {r \in Requests : req[r].pc \in steps /\ Relayed(req[r]) /\ Label(r) = l}

CountersInv ==
  /\ \A l \in Labels :
       /\ durations[l] = Cardinality(Past(Timed, l))
       /\ totals[l] = Cardinality(Past(Counted, l))
       /\ bytes[l] = Cardinality(Pieces(Past(Added, l)))
  /\ \A c \in Codes : requestsTotal[c] = Cardinality({r \in Done : req[r].noted = c})

\* The first invariant of the run: types, and the counters agree with each other, with what
\* clients were told, and with what they got.
ProxyInv == TypeOK /\ CountersAgree /\ ToldAsCounted /\ Delivered
=============================================================================
