------------------------------ MODULE ProxyProofs ------------------------------
(* Theorems about Proxy, for any number of requests and targets, and answers *)
(* of any size.                                                              *)
EXTENDS Proxy, FiniteSetTheorems, TLAPS

\* The first status is what the client is told, the last is what is noted.
LEMMA TellsFields ==
  ASSUME NEW q \in Request, NEW c \in Codes
  PROVE  /\ Tells(q, c) \in Request
         /\ Tells(q, c).told = IF q.told = None THEN c ELSE q.told
         /\ Tells(q, c).noted = c
         /\ Tells(q, c).written = q.written /\ Tells(q, c).got = q.got
         /\ Tells(q, c).pc = q.pc /\ Tells(q, c).target = q.target /\ Tells(q, c).gone = q.gone
         /\ Tells(q, c).code = q.code /\ Tells(q, c).answer = q.answer
         /\ Tells(q, c).left = q.left /\ Tells(q, c).sent = q.sent /\ Tells(q, c).conn = q.conn
BY DEF Tells, Request

\* What is written has a status, and is counted, and is got by a client that is there.
LEMMA WritesFields ==
  ASSUME NEW q \in Request
  PROVE  /\ Writes(q) \in Request
         /\ Writes(q).told = IF q.noted = None /\ q.told = None THEN 200 ELSE q.told
         /\ Writes(q).noted = IF q.noted = None THEN 200 ELSE q.noted
         /\ Writes(q).written = q.written /\ Writes(q).got = q.got
         /\ Writes(q).pc = q.pc /\ Writes(q).target = q.target /\ Writes(q).gone = q.gone
         /\ Writes(q).code = q.code /\ Writes(q).answer = q.answer
         /\ Writes(q).left = q.left /\ Writes(q).sent = q.sent /\ Writes(q).conn = q.conn
BY TellsFields DEF Writes, Codes

LEMMA PassesFields ==
  ASSUME NEW q \in Request, NEW n \in {0, 1}, q.written + n <= MaxPieces, q.got <= q.written
  PROVE  /\ Passes(q, n) \in Request
         /\ Passes(q, n).told = Writes(q).told /\ Passes(q, n).noted = Writes(q).noted
         /\ Passes(q, n).written = q.written + n
         /\ Passes(q, n).got = IF q.gone THEN q.got ELSE q.got + n
         /\ Passes(q, n).pc = q.pc /\ Passes(q, n).target = q.target /\ Passes(q, n).gone = q.gone
         /\ Passes(q, n).code = q.code /\ Passes(q, n).answer = q.answer
         /\ Passes(q, n).left = q.left /\ Passes(q, n).sent = q.sent /\ Passes(q, n).conn = q.conn
<1> DEFINE w == Writes(q)
           got == IF q.gone THEN q.got ELSE q.got + n
<1>1. w \in Request /\ w.got = q.got /\ w.written = q.written
  BY WritesFields
<1>2. q.written + n \in 0 .. MaxPieces /\ got \in 0 .. MaxPieces
  BY ProxyAssumption DEF Request
<1>3. Passes(q, n) = [w EXCEPT !.written = q.written + n, !.got = got]
  BY <1>1 DEF Passes
<1> HIDE DEF w, got
<1>4. LET p == [w EXCEPT !.written = q.written + n, !.got = got]
      IN  /\ p \in Request /\ p.written = q.written + n /\ p.got = got /\ p.told = w.told /\ p.noted = w.noted
          /\ p.pc = w.pc /\ p.target = w.target /\ p.gone = w.gone /\ p.code = w.code /\ p.answer = w.answer
          /\ p.left = w.left /\ p.sent = w.sent /\ p.conn = w.conn
  BY <1>1, <1>2 DEF Request
<1> QED
  BY <1>3, <1>4, WritesFields DEF w, got

-----------------------------------------------------------------------------
\* One request gets from p to q, past none of the counters: what they count it by stays.
Quiet(p, q) ==
  \/ /\ p.pc \in Timed /\ q.pc = p.pc /\ q.target = p.target /\ q.code = p.code
     /\ q.answer = p.answer /\ q.written = p.written /\ q.noted = p.noted
  \/ /\ p.pc \notin Timed /\ q.pc # "done"
     /\ q.pc \in Timed => ~ Relayed(q)

\* Only the request of a step is changed.
OnlyRequest(r, q) == req' = [req EXCEPT ![r] = q] /\ UNCHANGED metrics

\* The steps but those of the counters.
QuietStep(r) ==
  \/ Arrive(r) \/ Leave(r) \/ Relay(r) \/ Copy(r) \/ Plain(r) \/ RefuseUrl(r) \/ Ask(r) \/ SetStatus(r)
  \/ Tell(r)

\* A request that is refused is told 200, with the text of the error, and counted as c.
LEMMA RefuseStep ==
  ASSUME NEW r \in Requests, NEW step \in {"wrong", "asking"}, NEW c \in {400, 500}, Refuse(r, step, c),
         req[r] \in Request, RequestInv(req[r])
  PROVE  \E q \in Request : RequestInv(q) /\ Quiet(req[r], q) /\ OnlyRequest(r, q)
<1>1. PICK n \in {0, 1} : /\ Does(r, step, [Notes(Passes(req[r], n), c) EXCEPT !.pc = "telling"])
                          /\ n = 0 => req[r].gone
  BY DEF Refuse
<1> DEFINE p == Passes(req[r], n)
           t == Tells(p, c)
           q == [Notes(p, c) EXCEPT !.pc = "telling"]
<1>2. req[r].pc = step /\ Fresh(req[r])
  BY <1>1 DEF Does, RequestInv
<1>3. /\ p \in Request /\ p.pc = step /\ p.told = 200 /\ p.noted = 200 /\ p.written = n
      /\ p.got = IF req[r].gone THEN 0 ELSE n
      /\ p.gone = req[r].gone /\ p.answer = None /\ p.left = 0 /\ p.sent = 0 /\ p.conn = "none"
  BY <1>2, PassesFields, WritesFields, ProxyAssumption DEF Fresh
<1> HIDE DEF p
<1>4. /\ t \in Request /\ t.told = 200 /\ t.written = n /\ t.got = p.got
      /\ t.gone = p.gone /\ t.answer = None /\ t.left = 0 /\ t.sent = 0 /\ t.conn = "none"
  BY <1>3, TellsFields DEF Codes, None
<1>5. q = [t EXCEPT !.code = c, !.pc = "telling"]
  BY <1>4 DEF Notes
<1> HIDE DEF t, q
<1>6. /\ q \in Request /\ q.told = 200 /\ q.written = n /\ q.got = p.got /\ q.pc = "telling" /\ q.code = c
      /\ q.gone = p.gone /\ q.answer = None /\ q.left = 0 /\ q.sent = 0 /\ q.conn = "none"
  <2>1. c \in Codes /\ "telling" \in Steps
    BY DEF Codes, Steps
  <2>2. LET u == [t EXCEPT !.code = c, !.pc = "telling"]
        IN  /\ u \in Request /\ u.told = t.told /\ u.written = t.written /\ u.got = t.got /\ u.pc = "telling"
            /\ u.code = c /\ u.gone = t.gone /\ u.answer = t.answer /\ u.left = t.left /\ u.sent = t.sent
            /\ u.conn = t.conn
    BY <1>4, <2>1 DEF Request
  <2> QED
    BY <1>4, <1>5, <2>2
<1>7. Relayed(q) /\ RequestInv(q)
  BY <1>1, <1>3, <1>6 DEF RequestInv, OwnInv, Relayed, FirstCode, Timed
<1>8. Quiet(req[r], q)
  BY <1>2, <1>6 DEF Quiet, Timed
<1>9. OnlyRequest(r, q)
  BY <1>1 DEF OnlyRequest, Does, Refuse, q, p
<1> QED
  BY <1>6, <1>7, <1>8, <1>9

\* Of a target's answer, what is sent is counted and got.
LEMMA CopyStep ==
  ASSUME NEW r \in Requests, CopyPiece(r) \/ WriteFails(r) \/ BodyBreaks(r) \/ BodyEnds(r),
         req[r] \in Request, RequestInv(req[r])
  PROVE  \E q \in Request : RequestInv(q) /\ Quiet(req[r], q) /\ OnlyRequest(r, q)
<1>0. /\ req[r].pc = "copying" /\ req[r].answer # None /\ AnsweredInv(req[r])
      /\ req[r].written \in Nat /\ req[r].left \in Nat /\ req[r].sent \in Nat /\ req[r].got \in Nat
      /\ req[r].noted = req[r].told
  <2>1. req[r].pc = "copying"
    BY DEF CopyPiece, WriteFails, BodyBreaks, BodyEnds, Does
  <2>2. /\ req[r].written \in Nat /\ req[r].left \in Nat /\ req[r].sent \in Nat /\ req[r].got \in Nat
    BY ProxyAssumption DEF Request
  <2> QED
    BY <2>1, <2>2 DEF RequestInv
<1>1. CASE CopyPiece(r)
  <2> DEFINE p == Passes(req[r], 1)
             q == [p EXCEPT !.left = @ - 1, !.sent = @ + 1]
  <2>1. req[r].left > 0 /\ req[r].written + 1 <= MaxPieces /\ req[r].sent + 1 <= MaxPieces
    BY <1>0, <1>1, ProxyAssumption DEF CopyPiece, AnsweredInv
  <2>2. OnlyRequest(r, q)
    BY <1>1 DEF CopyPiece, OnlyRequest, Does
  <2>3. /\ p \in Request /\ p.written = req[r].written + 1
        /\ p.got = IF req[r].gone THEN req[r].got ELSE req[r].got + 1
        /\ p.pc = "copying" /\ p.gone = req[r].gone /\ p.code = req[r].code /\ p.answer = req[r].answer
        /\ p.left = req[r].left /\ p.sent = req[r].sent /\ p.conn = req[r].conn
        /\ p.told = IF req[r].noted = None /\ req[r].told = None THEN 200 ELSE req[r].told
    BY <1>0, <2>1, PassesFields, WritesFields DEF AnsweredInv
  <2>4. p.told = 200 /\ p.noted = 200
    BY <1>0, <2>3, PassesFields, WritesFields, <2>1 DEF AnsweredInv, None
  <2> HIDE DEF p
  <2>5. /\ q \in Request /\ q.written = req[r].written + 1 /\ q.got = p.got
        /\ q.pc = "copying" /\ q.gone = req[r].gone /\ q.code = req[r].code /\ q.answer = req[r].answer
        /\ q.left = req[r].left - 1 /\ q.sent = req[r].sent + 1 /\ q.conn = req[r].conn
        /\ q.told = 200 /\ q.noted = 200
    <3>1. p.left - 1 \in 0 .. MaxPieces /\ p.sent + 1 \in 0 .. MaxPieces
      BY <1>0, <2>1, <2>3, ProxyAssumption DEF Request
    <3>2. q \in Request
      BY <2>3, <3>1 DEF Request
    <3>3. /\ q.written = p.written /\ q.got = p.got /\ q.pc = p.pc /\ q.gone = p.gone /\ q.code = p.code
          /\ q.answer = p.answer /\ q.left = p.left - 1 /\ q.sent = p.sent + 1 /\ q.conn = p.conn
          /\ q.told = p.told /\ q.noted = p.noted
      BY <2>3 DEF Request
    <3> QED
      BY <2>3, <2>4, <3>2, <3>3
  <2> HIDE DEF q
  <2>6. AnsweredInv(q)
    BY <1>0, <2>1, <2>3, <2>5 DEF AnsweredInv
  <2>7. RequestInv(q) /\ Quiet(req[r], q)
    BY <1>0, <2>5, <2>6 DEF RequestInv, Quiet, Timed
  <2> QED
    BY <2>2, <2>5, <2>7
<1>2. CASE WriteFails(r)
  <2> DEFINE p == Writes(req[r])
  <2>1. PICK c \in {"open", "free"} :
          /\ req[r].gone /\ req[r].left > 0
          /\ Does(r, "copying", [p EXCEPT !.pc = "copied", !.left = @ - 1, !.sent = @ + 1, !.conn = c])
    BY <1>2 DEF WriteFails
  <2> DEFINE q == [p EXCEPT !.pc = "copied", !.left = @ - 1, !.sent = @ + 1, !.conn = c]
  <2>2. OnlyRequest(r, q)
    BY <1>2, <2>1 DEF WriteFails, OnlyRequest, Does
  <2>3. /\ p \in Request /\ p.written = req[r].written /\ p.got = req[r].got
        /\ p.gone = req[r].gone /\ p.code = req[r].code /\ p.answer = req[r].answer
        /\ p.left = req[r].left /\ p.sent = req[r].sent /\ p.told = 200 /\ p.noted = 200
    BY <1>0, WritesFields DEF AnsweredInv, None
  <2>4. req[r].sent + 1 <= MaxPieces
    BY <1>0, <2>1, ProxyAssumption DEF AnsweredInv
  <2> HIDE DEF p
  <2>5. /\ q \in Request /\ q.written = req[r].written /\ q.got = req[r].got
        /\ q.pc = "copied" /\ q.gone = req[r].gone /\ q.code = req[r].code /\ q.answer = req[r].answer
        /\ q.left = req[r].left - 1 /\ q.sent = req[r].sent + 1 /\ q.told = 200 /\ q.noted = 200
    <3>1. p.left - 1 \in 0 .. MaxPieces /\ p.sent + 1 \in 0 .. MaxPieces
      BY <1>0, <2>1, <2>3, <2>4, ProxyAssumption DEF Request
    <3>2. q \in Request
      BY <2>3, <3>1 DEF Request, Steps
    <3>3. /\ q.written = p.written /\ q.got = p.got /\ q.pc = "copied" /\ q.gone = p.gone /\ q.code = p.code
          /\ q.answer = p.answer /\ q.left = p.left - 1 /\ q.sent = p.sent + 1
          /\ q.told = p.told /\ q.noted = p.noted
      BY <2>3 DEF Request
    <3> QED
      BY <2>3, <3>2, <3>3
  <2> HIDE DEF q
  <2>6. AnsweredInv(q)
    BY <1>0, <2>1, <2>4, <2>5, ProxyAssumption DEF AnsweredInv
  <2>7. RequestInv(q) /\ Quiet(req[r], q)
    BY <1>0, <2>5, <2>6 DEF RequestInv, Quiet, Timed
  <2> QED
    BY <2>2, <2>5, <2>7
<1>3. ASSUME NEW c \in {"broken", "free"}, c = "free" => req[r].left = 0,
             Does(r, "copying", [req[r] EXCEPT !.pc = "copied", !.conn = c]), UNCHANGED metrics
      PROVE  \E q \in Request : RequestInv(q) /\ Quiet(req[r], q) /\ OnlyRequest(r, q)
  <2> DEFINE q == [req[r] EXCEPT !.pc = "copied", !.conn = c]
  <2>1. /\ q \in Request /\ q.written = req[r].written /\ q.got = req[r].got
        /\ q.pc = "copied" /\ q.gone = req[r].gone /\ q.code = req[r].code /\ q.answer = req[r].answer
        /\ q.left = req[r].left /\ q.sent = req[r].sent /\ q.told = req[r].told /\ q.noted = req[r].noted
        /\ q.conn = c
    BY DEF Request, Steps
  <2>2. OnlyRequest(r, q)
    BY <1>3 DEF OnlyRequest, Does
  <2> HIDE DEF q
  <2>3. AnsweredInv(q)
    BY <1>0, <1>3, <2>1 DEF AnsweredInv
  <2>4. RequestInv(q) /\ Quiet(req[r], q)
    BY <1>0, <2>1, <2>3 DEF RequestInv, Quiet, Timed
  <2> QED
    BY <2>1, <2>2, <2>4
<1> QED
  BY <1>1, <1>2, <1>3 DEF BodyBreaks, BodyEnds

\* The other steps of a request but those of the counters.
LEMMA QuietSteps ==
  ASSUME NEW r \in Requests, QuietStep(r), req[r] \in Request, RequestInv(req[r])
  PROVE  \E q \in Request : RequestInv(q) /\ Quiet(req[r], q) /\ OnlyRequest(r, q)
<1> USE DEF Does, OnlyRequest
<1>1. CASE Arrive(r)
  <2>1. PICK t \in Targets, route \in {"proxy", "wrong", "plain"} :
          Does(r, "out", [req[r] EXCEPT !.pc = route, !.target = t])
    BY <1>1 DEF Arrive
  <2> DEFINE q == [req[r] EXCEPT !.pc = route, !.target = t]
  <2>2. /\ q \in Request /\ q.pc = route /\ Fresh(q)
    BY <2>1 DEF Request, Steps, Fresh, RequestInv
  <2>3. OnlyRequest(r, q)
    BY <1>1, <2>1 DEF Arrive
  <2> HIDE DEF q
  <2>4. RequestInv(q) /\ Quiet(req[r], q)
    BY <2>1, <2>2 DEF RequestInv, Fresh, OwnInv, Quiet, Timed
  <2> QED
    BY <2>2, <2>3, <2>4
<1>2. CASE Leave(r)
  <2> DEFINE q == [req[r] EXCEPT !.gone = TRUE]
  <2>1. /\ q \in Request /\ q.written = req[r].written /\ q.got = req[r].got /\ q.target = req[r].target
        /\ q.pc = req[r].pc /\ q.gone = TRUE /\ q.code = req[r].code /\ q.answer = req[r].answer
        /\ q.left = req[r].left /\ q.sent = req[r].sent /\ q.told = req[r].told /\ q.noted = req[r].noted
        /\ q.conn = req[r].conn
    BY DEF Request
  <2>2. OnlyRequest(r, q) /\ req[r].pc \notin {"out", "done"}
    BY <1>2 DEF Leave
  <2> HIDE DEF q
  <2>3. RequestInv(q)
    BY <2>1, <2>2 DEF RequestInv, Fresh, OwnInv, AnsweredInv, Relayed, FirstCode, Timed
  <2>4. Quiet(req[r], q)
    BY <2>1, <2>2 DEF Quiet, Timed, Relayed
  <2> QED
    BY <2>1, <2>2, <2>3, <2>4
<1>3. CASE Plain(r)
  <2>1. PICK c \in {200, 400, 501} : Does(r, "plain", [Tells(req[r], c) EXCEPT !.pc = "instrumenting"])
    BY <1>3 DEF Plain
  <2> DEFINE t == Tells(req[r], c)
             q == [t EXCEPT !.pc = "instrumenting"]
  <2>2. Fresh(req[r])
    BY <2>1 DEF RequestInv
  <2>3. /\ t \in Request /\ t.noted = c /\ t.code = 200 /\ t.answer = None /\ t.written = 0 /\ t.got = 0
        /\ t.sent = 0 /\ t.left = 0 /\ t.conn = "none"
    BY <2>2, TellsFields DEF Fresh, FirstCode, Codes
  <2>4. OnlyRequest(r, q)
    BY <1>3, <2>1 DEF Plain
  <2> HIDE DEF t
  <2>5. /\ q \in Request /\ q.pc = "instrumenting" /\ q.noted = c /\ q.code = 200 /\ q.answer = None
        /\ q.written = 0 /\ q.got = 0 /\ q.sent = 0 /\ q.left = 0 /\ q.conn = "none"
    BY <2>3 DEF Request, Steps
  <2> HIDE DEF q
  <2>6. RequestInv(q) /\ Quiet(req[r], q)
    BY <2>1, <2>5 DEF RequestInv, OwnInv, Quiet, Timed, Relayed, FirstCode, None
  <2> QED
    BY <2>4, <2>5, <2>6
<1>4. CASE RefuseUrl(r) \/ GetFails(r)
  BY <1>4, RefuseStep DEF RefuseUrl, GetFails
<1>5. CASE Ask(r)
  <2> DEFINE q == [req[r] EXCEPT !.pc = "asking"]
  <2>1. OnlyRequest(r, q) /\ req[r].pc = "proxy" /\ Fresh(req[r])
    BY <1>5 DEF Ask, RequestInv
  <2>2. q \in Request /\ q.pc = "asking" /\ Fresh(q)
    BY <2>1 DEF Request, Steps, Fresh
  <2> HIDE DEF q
  <2>3. RequestInv(q) /\ Quiet(req[r], q)
    BY <2>1, <2>2 DEF RequestInv, Fresh, OwnInv, Quiet, Timed
  <2> QED
    BY <2>1, <2>2, <2>3
<1>6. CASE Answer(r)
  <2>1. PICK c \in {200, 404}, n \in 0 .. MaxPieces : Does(r, "asking", Answered(req[r], c, n, "copying"))
    BY <1>6 DEF Answer
  <2> DEFINE q == Answered(req[r], c, n, "copying")
  <2>2. Fresh(req[r])
    BY <2>1 DEF RequestInv
  <2>3. OnlyRequest(r, q)
    BY <1>6, <2>1 DEF Answer
  <2>4. /\ q \in Request /\ q.pc = "copying" /\ q.answer = c /\ q.left = n /\ q.sent = 0 /\ q.written = 0 /\ q.got = 0
        /\ q.told = None /\ q.noted = None /\ q.code = FirstCode
    <3>1. c \in Codes /\ "copying" \in Steps
      BY DEF Codes, Steps
    <3>2. q \in Request
      <4> DEFINE conn == IF n = 0 THEN "free" ELSE "open"
      <4>1. conn \in {"none", "open", "free", "broken"}
        OBVIOUS
      <4>2. q = [req[r] EXCEPT !.pc = "copying", !.answer = c, !.left = n, !.conn = conn]
        BY DEF Answered
      <4> HIDE DEF conn, q
      <4> QED
        BY <3>1, <4>1, <4>2 DEF Request
    <3>3. /\ q.pc = "copying" /\ q.answer = c /\ q.left = n /\ q.sent = req[r].sent /\ q.written = req[r].written
          /\ q.got = req[r].got /\ q.told = req[r].told /\ q.noted = req[r].noted /\ q.code = req[r].code
      BY DEF Answered, Request
    <3> QED
      BY <2>2, <3>2, <3>3 DEF Fresh
  <2> HIDE DEF q
  <2>5. RequestInv(q) /\ Quiet(req[r], q)
    BY <2>1, <2>4, ProxyAssumption DEF RequestInv, AnsweredInv, Quiet, Timed, None
  <2> QED
    BY <2>3, <2>4, <2>5
<1>7. CASE CopyPiece(r) \/ WriteFails(r) \/ BodyBreaks(r) \/ BodyEnds(r)
  BY <1>7, CopyStep
<1>8. CASE SetStatus(r)
  <2> DEFINE t == Tells(req[r], req[r].answer)
             q == [t EXCEPT !.pc = "telling"]
  <2>1. OnlyRequest(r, q) /\ req[r].pc = "copied"
    BY <1>8 DEF SetStatus
  <2>2. req[r].answer # None /\ AnsweredInv(req[r]) /\ req[r].sent \in Nat
    BY <2>1, ProxyAssumption DEF RequestInv, Request
  <2>3. req[r].answer \in Codes
    BY <2>2 DEF Request
  <2>4. /\ q \in Request /\ q.written = req[r].written /\ q.got = req[r].got /\ q.conn = req[r].conn
        /\ q.pc = "telling" /\ q.gone = req[r].gone /\ q.code = req[r].code /\ q.answer = req[r].answer
        /\ q.left = req[r].left /\ q.sent = req[r].sent
        /\ q.told = IF req[r].told = None THEN req[r].answer ELSE req[r].told
    <3>1. t \in Request
      BY <2>3, TellsFields
    <3> HIDE DEF t
    <3>2. /\ q \in Request /\ q.written = t.written /\ q.got = t.got /\ q.conn = t.conn
          /\ q.pc = "telling" /\ q.gone = t.gone /\ q.code = t.code /\ q.answer = t.answer
          /\ q.left = t.left /\ q.sent = t.sent /\ q.told = t.told
      BY <3>1 DEF Request, Steps
    <3> QED
      BY <2>3, <3>2, TellsFields DEF t
  <2> HIDE DEF q
  <2>5. q.told = IF q.sent > 0 THEN 200 ELSE q.answer
    BY <2>1, <2>2, <2>4 DEF AnsweredInv, None
  <2>6. AnsweredInv(q)
    BY <2>1, <2>2, <2>4, <2>5 DEF AnsweredInv
  <2>7. RequestInv(q) /\ Quiet(req[r], q)
    BY <2>1, <2>2, <2>4, <2>6 DEF RequestInv, Quiet, Timed, Relayed
  <2> QED
    BY <2>1, <2>4, <2>7
<1>9. CASE Tell(r)
  <2> DEFINE t == Tells(req[r], req[r].code)
             q == [t EXCEPT !.pc = "timing"]
  <2>1. OnlyRequest(r, q) /\ req[r].pc = "telling" /\ Relayed(req[r]) /\ req[r].code \in Codes
    BY <1>9 DEF Tell, RequestInv, Request
  <2>2. t \in Request
    BY <2>1, TellsFields
  <2>3. req[r].told # None
    BY <2>1 DEF RequestInv, OwnInv, AnsweredInv, Relayed, None
  <2>4. /\ q \in Request /\ q.written = req[r].written /\ q.got = req[r].got /\ q.conn = req[r].conn
        /\ q.pc = "timing" /\ q.gone = req[r].gone /\ q.code = req[r].code /\ q.answer = req[r].answer
        /\ q.left = req[r].left /\ q.sent = req[r].sent /\ q.told = req[r].told /\ q.noted = req[r].code
    <3> HIDE DEF t
    <3>2. /\ q \in Request /\ q.written = t.written /\ q.got = t.got /\ q.conn = t.conn
          /\ q.pc = "timing" /\ q.gone = t.gone /\ q.code = t.code /\ q.answer = t.answer
          /\ q.left = t.left /\ q.sent = t.sent /\ q.told = t.told /\ q.noted = t.noted
      BY <2>2 DEF Request, Steps
    <3> QED
      BY <2>1, <2>3, <3>2, TellsFields DEF t
  <2> HIDE DEF q
  <2>5. RequestInv(q)
    BY <2>1, <2>4 DEF RequestInv, OwnInv, AnsweredInv, Relayed, Timed, Codes, None
  <2>6. Quiet(req[r], q)
    BY <2>1, <2>4 DEF Quiet, Timed
  <2> QED
    BY <2>1, <2>4, <2>5, <2>6
<1> QED
  BY <1>1, <1>2, <1>3, <1>4, <1>5, <1>6, <1>7, <1>8, <1>9 DEF QuietStep, Relay, Copy

\* The steps of the counters only take the request one step further.
LEMMA CounterSteps ==
  ASSUME NEW r \in Requests, NEW next \in Timed, req' = [req EXCEPT ![r] = [@ EXCEPT !.pc = next]],
         req \in [Requests -> Request], RequestInv(req[r]),
         req[r].pc \in {"timing", "counting", "adding", "instrumenting"},
         req[r].pc = "instrumenting" => next = "done"
  PROVE  /\ req' \in [Requests -> Request] /\ RequestInv(req'[r])
         /\ req'[r].pc = next /\ Relayed(req'[r]) = Relayed(req[r]) /\ Label(r)' = Label(r)
         /\ req'[r].written = req[r].written /\ req'[r].noted = req[r].noted
         /\ \A o \in Requests \ {r} : req'[o] = req[o] /\ Label(o)' = Label(o)
<1> DEFINE q == [req[r] EXCEPT !.pc = next]
<1>1. /\ q \in Request /\ q.written = req[r].written /\ q.got = req[r].got /\ q.target = req[r].target
      /\ q.pc = next /\ q.gone = req[r].gone /\ q.code = req[r].code /\ q.answer = req[r].answer
      /\ q.left = req[r].left /\ q.sent = req[r].sent /\ q.told = req[r].told /\ q.noted = req[r].noted
      /\ q.conn = req[r].conn
  BY DEF Request, Steps, Timed
<1>2. req'[r] = q /\ req' = [req EXCEPT ![r] = q]
  OBVIOUS
<1> HIDE DEF q
<1>3. Relayed(q) = Relayed(req[r])
  BY <1>1 DEF Relayed
<1>4. RequestInv(q)
  BY <1>1, <1>3 DEF RequestInv, Fresh, OwnInv, AnsweredInv, Timed
<1> QED
  BY <1>1, <1>2, <1>3, <1>4 DEF Label

\* A step that passes no counter leaves what they have counted as it is.
LEMMA QuietCounts ==
  ASSUME req \in [Requests -> Request], NEW r \in Requests, NEW q \in Request, Quiet(req[r], q),
         req' = [req EXCEPT ![r] = q]
  PROVE  /\ \A steps \in {Timed, Counted, Added}, l \in Labels :
              /\ Past(steps, l)' = Past(steps, l)
              /\ Pieces(Past(steps, l))' = Pieces(Past(steps, l))
         /\ \A c \in Codes : {o \in Done : req[o].noted = c}' = {o \in Done : req[o].noted = c}
<1>1. req'[r] = q /\ \A o \in Requests \ {r} : req'[o] = req[o] /\ Label(o)' = Label(o)
  BY DEF Label
<1>2. "done" \in Timed /\ \A steps \in {Timed, Counted, Added} : steps \subseteq Timed
  BY DEF Timed, Counted, Added
<1>3. ASSUME NEW steps \in {Timed, Counted, Added}, NEW l \in Labels
      PROVE  Past(steps, l)' = Past(steps, l) /\ \A o \in Past(steps, l) : req'[o].written = req[o].written
  <2>1. r \in Past(steps, l)' <=> r \in Past(steps, l)
    BY <1>1, <1>2 DEF Past, Quiet, Relayed, Label
  <2>2. r \in Past(steps, l) => req'[r].written = req[r].written
    BY <1>1, <1>2 DEF Past, Quiet
  <2>3. \A o \in Requests \ {r} : o \in Past(steps, l)' <=> o \in Past(steps, l)
    BY <1>1 DEF Past
  <2>4. Past(steps, l)' \subseteq Requests /\ Past(steps, l) \subseteq Requests
    BY DEF Past
  <2> QED
    BY <1>1, <2>1, <2>2, <2>3, <2>4
<1>4. ASSUME NEW steps \in {Timed, Counted, Added}, NEW l \in Labels
      PROVE  Pieces(Past(steps, l))' = Pieces(Past(steps, l))
  BY <1>3 DEF Pieces
<1>5. \A c \in Codes : {o \in Done : req[o].noted = c}' = {o \in Done : req[o].noted = c}
  <2>1. r \in Done' <=> r \in Done
    BY <1>1, <1>2 DEF Done, Quiet
  <2>2. r \in Done => req'[r].noted = req[r].noted
    BY <1>1, <1>2 DEF Done, Quiet
  <2>3. Done' = Done /\ \A o \in Done : req'[o].noted = req[o].noted
    BY <1>1, <2>1, <2>2 DEF Done
  <2> QED
    BY <2>3
<1> QED
  BY <1>3, <1>4, <1>5

\* Sets of requests are finite; one more request is counted as one more.
LEMMA CountedFinite ==
  ASSUME NEW S, S \subseteq Requests
  PROVE  /\ IsFiniteSet(S) /\ Cardinality(S) \in Nat
         /\ IsFiniteSet(Pieces(S)) /\ Cardinality(Pieces(S)) \in Nat
         /\ \A x : x \notin S => Cardinality(S \cup {x}) = Cardinality(S) + 1
<1>1. IsFiniteSet(S)
  BY ProxyAssumption, FS_Subset
<1>2. IsFiniteSet(S \X (1 .. MaxPieces))
  <2>1. IsFiniteSet(1 .. MaxPieces)
    BY ProxyAssumption, FS_Interval
  <2> QED
    BY <1>1, <2>1, FS_Product
<1>3. IsFiniteSet(Pieces(S))
  <2>1. Pieces(S) \subseteq S \X (1 .. MaxPieces)
    BY DEF Pieces
  <2> QED
    BY <1>2, <2>1, FS_Subset
<1>4. \A x : x \notin S => Cardinality(S \cup {x}) = Cardinality(S) + 1
  BY <1>1, FS_AddElement
<1> QED
  BY <1>1, <1>3, <1>4, FS_CardinalityType

\* One more request is counted with the pieces it has been sent.
LEMMA PiecesAdded ==
  ASSUME req \in [Requests -> Request], NEW S, S \subseteq Requests, NEW r \in Requests \ S
  PROVE  Cardinality(Pieces(S \cup {r})) = Cardinality(Pieces(S)) + req[r].written
<1> DEFINE own == {r} \X (1 .. req[r].written)
<1>1. req[r].written \in Nat /\ req[r].written <= MaxPieces
  BY ProxyAssumption DEF Request
<1>2. Pieces(S \cup {r}) = Pieces(S) \cup own
  <2>1. \A w : w \in own => w \in Pieces(S \cup {r})
    BY <1>1, ProxyAssumption DEF Pieces
  <2>2. \A w \in Pieces(S \cup {r}) : w \in own \/ w \in Pieces(S)
    BY <1>1 DEF Pieces
  <2>3. Pieces(S) \subseteq Pieces(S \cup {r})
    BY DEF Pieces
  <2> QED
    BY <2>1, <2>2, <2>3
<1>3. Pieces(S) \cap own = {}
  BY DEF Pieces
<1>4. IsFiniteSet(own) /\ Cardinality(own) = req[r].written
  <2>1. IsFiniteSet(1 .. req[r].written) /\ Cardinality(1 .. req[r].written) = req[r].written
    <3>1. \A n \in Nat : IsFiniteSet(1 .. n) /\ Cardinality(1 .. n) = n
      BY FS_Interval
    <3> QED
      BY <1>1, <3>1
  <2>2. IsFiniteSet({r}) /\ Cardinality({r}) = 1
    BY FS_Singleton
  <2>3. IsFiniteSet(own) /\ Cardinality(own) = 1 * req[r].written
    BY <2>1, <2>2, FS_Product
  <2> QED
    BY <1>1, <2>3
<1>5. IsFiniteSet(Pieces(S)) /\ Cardinality(Pieces(S)) \in Nat
  BY CountedFinite
<1> HIDE DEF own
<1>6. Cardinality(Pieces(S) \cup own) = Cardinality(Pieces(S)) + Cardinality(own) - Cardinality({})
  BY <1>3, <1>4, <1>5, FS_Union
<1>7. Cardinality({}) = 0
  BY FS_EmptySet
<1>8. Cardinality(Pieces(S) \cup own) = Cardinality(Pieces(S)) + req[r].written
  BY <1>1, <1>4, <1>5, <1>6, <1>7
<1> QED
  BY <1>2, <1>8

-----------------------------------------------------------------------------
RequestsInv == \A r \in Requests : RequestInv(req[r])

ProxyIInv == TypeOK /\ RequestsInv /\ CountersInv

\* Nothing is counted before there is a request.
LEMMA ProxyInitially == Init => ProxyIInv
<1> SUFFICES ASSUME Init PROVE ProxyIInv
  OBVIOUS
<1>0. \A r \in Requests : req[r].pc = "out" /\ Fresh(req[r])
  BY DEF Init, Fresh
<1>1. TypeOK
  <2>1. (CHOOSE t \in Targets : TRUE) \in Targets
    BY ProxyAssumption
  <2>2. req \in [Requests -> Request]
    BY <2>1, ProxyAssumption DEF Init, Request, Steps, Codes, FirstCode
  <2>3. \A m \in {durations, totals, bytes} : m \in [Labels -> Nat]
    BY DEF Init
  <2>4. requestsTotal \in [Codes -> Nat] /\ server \in {"starting", "serving", "exited"}
    BY DEF Init
  <2> QED
    BY <2>2, <2>3, <2>4 DEF TypeOK
<1>2. RequestsInv
  BY <1>0 DEF RequestsInv, RequestInv, Fresh, OwnInv, Timed
<1>3. CountersInv
  <2>1. Done = {} /\ \A l \in Labels : Past(Timed, l) = {} /\ Past(Counted, l) = {} /\ Past(Added, l) = {}
    BY <1>0 DEF Done, Past, Timed, Counted, Added
  <2>2. Pieces({}) = {} /\ \A c \in Codes : {r \in Done : req[r].noted = c} = {}
    BY <2>1 DEF Pieces
  <2>3. \A l \in Labels : durations[l] = 0 /\ totals[l] = 0 /\ bytes[l] = 0
    BY DEF Init
  <2>4. \A c \in Codes : requestsTotal[c] = 0
    BY DEF Init
  <2> QED
    BY <2>1, <2>2, <2>3, <2>4, FS_EmptySet DEF CountersInv
<1> QED
  BY <1>1, <1>2, <1>3 DEF ProxyIInv

\* A step of a request, up to the counters.
LEMMA QuietInductive ==
  ASSUME ProxyIInv, NEW r \in Requests, QuietStep(r)
  PROVE  ProxyIInv'
<1>1. req \in [Requests -> Request] /\ RequestInv(req[r])
  BY DEF ProxyIInv, TypeOK, RequestsInv
<1>2. PICK q \in Request : RequestInv(q) /\ Quiet(req[r], q) /\ OnlyRequest(r, q)
  BY <1>1, QuietSteps
<1>3. server' = server
  BY DEF QuietStep, Relay, Copy, Arrive, Leave, GetFails, Answer, CopyPiece, BodyBreaks, BodyEnds, Plain, RefuseUrl, Refuse,
         Ask, WriteFails, SetStatus, Tell, Does
<1>4. TypeOK'
  BY <1>1, <1>2, <1>3 DEF ProxyIInv, TypeOK, OnlyRequest, metrics
<1>5. RequestsInv'
  BY <1>1, <1>2 DEF ProxyIInv, RequestsInv, OnlyRequest
<1>6. CountersInv'
  <2>1. /\ \A steps \in {Timed, Counted, Added}, l \in Labels :
             /\ Past(steps, l)' = Past(steps, l)
             /\ Pieces(Past(steps, l))' = Pieces(Past(steps, l))
        /\ \A c \in Codes : {o \in Done : req[o].noted = c}' = {o \in Done : req[o].noted = c}
    BY <1>1, <1>2, QuietCounts DEF OnlyRequest
  <2>2. UNCHANGED metrics
    BY <1>2 DEF OnlyRequest
  <2> QED
    BY <2>1, <2>2 DEF ProxyIInv, CountersInv, metrics
<1> QED
  BY <1>4, <1>5, <1>6 DEF ProxyIInv

\* What a counter's step leaves of the sets that are counted.
LEMMA CounterSets ==
  ASSUME NEW r \in Requests, NEW next \in Timed, req' = [req EXCEPT ![r] = [@ EXCEPT !.pc = next]],
         req \in [Requests -> Request], RequestInv(req[r]),
         req[r].pc \in {"timing", "counting", "adding", "instrumenting"},
         req[r].pc = "instrumenting" => next = "done",
         NEW steps \in {Timed, Counted, Added}, NEW l \in Labels
  PROVE  /\ req[r].pc \in steps <=> next \in steps =>
               /\ Past(steps, l)' = Past(steps, l)
               /\ Pieces(Past(steps, l))' = Pieces(Past(steps, l))
         /\ req[r].pc \notin steps /\ next \in steps /\ Relayed(req[r]) =>
               /\ r \notin Past(steps, l)
               /\ Past(steps, l)' = IF l = Label(r) THEN Past(steps, l) \cup {r} ELSE Past(steps, l)
               /\ Pieces(Past(steps, l))' = Pieces(IF l = Label(r) THEN Past(steps, l) \cup {r} ELSE Past(steps, l))
<1>0. /\ req'[r].pc = next /\ Relayed(req'[r]) = Relayed(req[r]) /\ Label(r)' = Label(r)
      /\ req'[r].written = req[r].written
      /\ \A o \in Requests \ {r} : req'[o] = req[o] /\ Label(o)' = Label(o)
  BY CounterSteps
<1>1. \A o \in Requests \ {r} : o \in Past(steps, l)' <=> o \in Past(steps, l)
  BY <1>0 DEF Past
<1>2. Past(steps, l)' \subseteq Requests /\ Past(steps, l) \subseteq Requests
  BY DEF Past
<1>3. \A o \in Requests : req'[o].written = req[o].written
  BY <1>0
<1>4. \A S : S \subseteq Requests => Pieces(S)' = Pieces(S)
  BY <1>3 DEF Pieces
<1>5. ASSUME req[r].pc \in steps <=> next \in steps
      PROVE  /\ Past(steps, l)' = Past(steps, l)
             /\ Pieces(Past(steps, l))' = Pieces(Past(steps, l))
  <2>1. r \in Past(steps, l)' <=> r \in Past(steps, l)
    BY <1>0, <1>5 DEF Past
  <2>2. Past(steps, l)' = Past(steps, l)
    BY <1>1, <1>2, <2>1
  <2> QED
    BY <1>2, <1>3, <2>2 DEF Pieces
<1>6. ASSUME req[r].pc \notin steps, next \in steps, Relayed(req[r])
      PROVE  /\ r \notin Past(steps, l)
             /\ Past(steps, l)' = IF l = Label(r) THEN Past(steps, l) \cup {r} ELSE Past(steps, l)
             /\ Pieces(Past(steps, l))' = Pieces(IF l = Label(r) THEN Past(steps, l) \cup {r} ELSE Past(steps, l))
  <2>1. r \notin Past(steps, l) /\ (r \in Past(steps, l)' <=> l = Label(r))
    BY <1>0, <1>6 DEF Past
  <2>2. Past(steps, l)' = IF l = Label(r) THEN Past(steps, l) \cup {r} ELSE Past(steps, l)
    BY <1>1, <1>2, <2>1
  <2> QED
    BY <1>2, <1>3, <2>1, <2>2 DEF Pieces
<1> QED
  BY <1>5, <1>6

\* The counters' own steps: each counts the request once, by its label.
LEMMA CounterInductive ==
  ASSUME ProxyIInv, NEW r \in Requests, Observe(r) \/ Inc(r) \/ Add(r) \/ Instrument(r)
  PROVE  ProxyIInv'
<1>0. /\ req \in [Requests -> Request] /\ RequestInv(req[r]) /\ server' = server
      /\ durations \in [Labels -> Nat] /\ totals \in [Labels -> Nat] /\ bytes \in [Labels -> Nat]
      /\ requestsTotal \in [Codes -> Nat]
  BY DEF ProxyIInv, TypeOK, RequestsInv, Observe, Inc, Add, Instrument, Does
<1>1. /\ Label(r) \in Labels /\ req[r].written \in Nat
      /\ \A l \in Labels : /\ Past(Timed, l) \subseteq Requests /\ Past(Counted, l) \subseteq Requests
                            /\ Past(Added, l) \subseteq Requests
  BY <1>0, ProxyAssumption DEF Label, Labels, Request, Past
<1>2. /\ "counting" \in Timed \ Counted /\ "adding" \in Counted \ Added /\ "instrumenting" \in Added
      /\ "done" \in Added /\ "timing" \notin Timed /\ Added \subseteq Counted /\ Counted \subseteq Timed
  BY DEF Timed, Counted, Added
\* The requests of every step but the last are relayed, and none but the last is done.
<1>3. ASSUME req[r].pc # "instrumenting", NEW next \in Timed, next # "done", RequestsInv',
             req' = [req EXCEPT ![r] = [@ EXCEPT !.pc = next]],
             req[r].pc \in {"timing", "counting", "adding"}, UNCHANGED requestsTotal
      PROVE  Relayed(req[r]) /\ \A c \in Codes : requestsTotal'[c] = Cardinality({o \in Done : req[o].noted = c}')
  <2>1. Done' = Done /\ \A o \in Done : req'[o] = req[o]
    BY <1>0, <1>3 DEF Done, Request
  <2>2. \A c \in Codes : {o \in Done : req[o].noted = c}' = {o \in Done : req[o].noted = c}
    BY <2>1
  <2> QED
    BY <1>0, <1>3, <2>2 DEF RequestInv, ProxyIInv, CountersInv
<1>4. ASSUME NEW next \in Timed, req' = [req EXCEPT ![r] = [@ EXCEPT !.pc = next]],
             req[r].pc \in {"timing", "counting", "adding", "instrumenting"},
             req[r].pc = "instrumenting" => next = "done"
      PROVE  req' \in [Requests -> Request] /\ RequestsInv'
  BY <1>0, <1>4, CounterSteps DEF ProxyIInv, RequestsInv
<1>5. CASE Observe(r)
  <2>1. req[r].pc = "timing" /\ req' = [req EXCEPT ![r] = [@ EXCEPT !.pc = "counting"]]
    BY <1>5 DEF Observe, Does
  <2>2. /\ RequestsInv' /\ req' \in [Requests -> Request] /\ Relayed(req[r])
        /\ \A c \in Codes : requestsTotal'[c] = Cardinality({o \in Done : req[o].noted = c}')
    BY <1>2, <1>3, <1>4, <1>5, <2>1 DEF Observe
  <2>3. \A l \in Labels : durations'[l] = durations[l] + (IF l = Label(r) THEN 1 ELSE 0)
    BY <1>0, <1>1, <1>5 DEF Observe
  <2>4. \A l \in Labels : durations'[l] = Cardinality(Past(Timed, l)')
    <3> SUFFICES ASSUME NEW l \in Labels PROVE durations'[l] = Cardinality(Past(Timed, l)')
      OBVIOUS
    <3>1. /\ r \notin Past(Timed, l)
          /\ Past(Timed, l)' = IF l = Label(r) THEN Past(Timed, l) \cup {r} ELSE Past(Timed, l)
      BY <1>0, <1>2, <2>1, <2>2, CounterSets
    <3>2. durations[l] = Cardinality(Past(Timed, l)) /\ durations[l] \in Nat
      BY <1>0 DEF ProxyIInv, CountersInv
    <3> QED
      BY <1>1, <2>3, <3>1, <3>2, CountedFinite
  <2>5. \A l \in Labels : totals'[l] = Cardinality(Past(Counted, l)') /\ bytes'[l] = Cardinality(Pieces(Past(Added, l))')
    <3> SUFFICES ASSUME NEW l \in Labels
                 PROVE  totals'[l] = Cardinality(Past(Counted, l)') /\ bytes'[l] = Cardinality(Pieces(Past(Added, l))')
      OBVIOUS
    <3>1. Past(Counted, l)' = Past(Counted, l) /\ Pieces(Past(Added, l))' = Pieces(Past(Added, l))
      BY <1>0, <1>2, <2>1, CounterSets
    <3> QED
      BY <1>5, <3>1 DEF Observe, ProxyIInv, CountersInv
  <2>6. CountersInv'
    BY <2>2, <2>4, <2>5 DEF CountersInv
  <2>7. TypeOK'
    BY <1>0, <1>1, <1>5, <2>2 DEF Observe, ProxyIInv, TypeOK
  <2> QED
    BY <2>2, <2>6, <2>7 DEF ProxyIInv
<1>6. CASE Inc(r)
  <2>1. req[r].pc = "counting" /\ req' = [req EXCEPT ![r] = [@ EXCEPT !.pc = "adding"]]
    BY <1>6 DEF Inc, Does
  <2>2. /\ RequestsInv' /\ req' \in [Requests -> Request] /\ Relayed(req[r])
        /\ \A c \in Codes : requestsTotal'[c] = Cardinality({o \in Done : req[o].noted = c}')
    BY <1>2, <1>3, <1>4, <1>6, <2>1 DEF Inc
  <2>3. \A l \in Labels : totals'[l] = totals[l] + (IF l = Label(r) THEN 1 ELSE 0)
    BY <1>0, <1>1, <1>6 DEF Inc
  <2>4. \A l \in Labels : totals'[l] = Cardinality(Past(Counted, l)')
    <3> SUFFICES ASSUME NEW l \in Labels PROVE totals'[l] = Cardinality(Past(Counted, l)')
      OBVIOUS
    <3>1. /\ r \notin Past(Counted, l)
          /\ Past(Counted, l)' = IF l = Label(r) THEN Past(Counted, l) \cup {r} ELSE Past(Counted, l)
      BY <1>0, <1>2, <2>1, <2>2, CounterSets
    <3>2. totals[l] = Cardinality(Past(Counted, l)) /\ totals[l] \in Nat
      BY <1>0 DEF ProxyIInv, CountersInv
    <3> QED
      BY <1>1, <2>3, <3>1, <3>2, CountedFinite
  <2>5. \A l \in Labels : durations'[l] = Cardinality(Past(Timed, l)') /\ bytes'[l] = Cardinality(Pieces(Past(Added, l))')
    <3> SUFFICES ASSUME NEW l \in Labels
                 PROVE  durations'[l] = Cardinality(Past(Timed, l)') /\ bytes'[l] = Cardinality(Pieces(Past(Added, l))')
      OBVIOUS
    <3>1. Past(Timed, l)' = Past(Timed, l) /\ Pieces(Past(Added, l))' = Pieces(Past(Added, l))
      BY <1>0, <1>2, <2>1, CounterSets
    <3> QED
      BY <1>6, <3>1 DEF Inc, ProxyIInv, CountersInv
  <2>6. CountersInv'
    BY <2>2, <2>4, <2>5 DEF CountersInv
  <2>7. TypeOK'
    BY <1>0, <1>1, <1>6, <2>2 DEF Inc, ProxyIInv, TypeOK
  <2> QED
    BY <2>2, <2>6, <2>7 DEF ProxyIInv
<1>7. CASE Add(r)
  <2>1. req[r].pc = "adding" /\ req' = [req EXCEPT ![r] = [@ EXCEPT !.pc = "instrumenting"]]
    BY <1>7 DEF Add, Does
  <2>2. /\ RequestsInv' /\ req' \in [Requests -> Request] /\ Relayed(req[r])
        /\ \A c \in Codes : requestsTotal'[c] = Cardinality({o \in Done : req[o].noted = c}')
    BY <1>2, <1>3, <1>4, <1>7, <2>1 DEF Add
  <2>3. \A l \in Labels : bytes'[l] = bytes[l] + (IF l = Label(r) THEN req[r].written ELSE 0)
    BY <1>0, <1>1, <1>7 DEF Add
  <2>4. \A l \in Labels : bytes'[l] = Cardinality(Pieces(Past(Added, l))')
    <3> SUFFICES ASSUME NEW l \in Labels PROVE bytes'[l] = Cardinality(Pieces(Past(Added, l))')
      OBVIOUS
    <3>1. /\ r \notin Past(Added, l)
          /\ Pieces(Past(Added, l))' = Pieces(IF l = Label(r) THEN Past(Added, l) \cup {r} ELSE Past(Added, l))
      BY <1>0, <1>2, <2>1, <2>2, CounterSets
    <3>2. bytes[l] = Cardinality(Pieces(Past(Added, l))) /\ bytes[l] \in Nat
      BY <1>0 DEF ProxyIInv, CountersInv
    <3>3. Cardinality(Pieces(Past(Added, l) \cup {r})) = Cardinality(Pieces(Past(Added, l))) + req[r].written
      BY <1>0, <1>1, <3>1, PiecesAdded
    <3> QED
      BY <1>1, <2>3, <3>1, <3>2, <3>3
  <2>5. \A l \in Labels : durations'[l] = Cardinality(Past(Timed, l)') /\ totals'[l] = Cardinality(Past(Counted, l)')
    <3> SUFFICES ASSUME NEW l \in Labels
                 PROVE  durations'[l] = Cardinality(Past(Timed, l)') /\ totals'[l] = Cardinality(Past(Counted, l)')
      OBVIOUS
    <3>1. Past(Timed, l)' = Past(Timed, l) /\ Past(Counted, l)' = Past(Counted, l)
      BY <1>0, <1>2, <2>1, CounterSets
    <3> QED
      BY <1>7, <3>1 DEF Add, ProxyIInv, CountersInv
  <2>6. CountersInv'
    BY <2>2, <2>4, <2>5 DEF CountersInv
  <2>7. TypeOK'
    BY <1>0, <1>1, <1>7, <2>2 DEF Add, ProxyIInv, TypeOK
  <2> QED
    BY <2>2, <2>6, <2>7 DEF ProxyIInv
<1>8. CASE Instrument(r)
  <2>1. req[r].pc = "instrumenting" /\ req' = [req EXCEPT ![r] = [@ EXCEPT !.pc = "done"]]
    BY <1>8 DEF Instrument, Does
  <2>2. RequestsInv' /\ req' \in [Requests -> Request] /\ req[r].noted \in Codes
    <3>1. req[r].noted \in Codes
      BY <1>0, <1>2, <2>1 DEF RequestInv, Request, Timed
    <3> QED
      BY <1>2, <1>4, <2>1, <3>1
  <2>3. \A c \in Codes : requestsTotal'[c] = requestsTotal[c] + (IF c = req[r].noted THEN 1 ELSE 0)
    BY <1>0, <1>8, <2>2 DEF Instrument
  <2>4. \A c \in Codes : requestsTotal'[c] = Cardinality({o \in Done : req[o].noted = c}')
    <3> SUFFICES ASSUME NEW c \in Codes PROVE requestsTotal'[c] = Cardinality({o \in Done : req[o].noted = c}')
      OBVIOUS
    <3> DEFINE S == {o \in Done : req[o].noted = c}
    <3>1. req'[r].pc = "done" /\ req'[r].noted = req[r].noted /\ \A o \in Requests \ {r} : req'[o] = req[o]
      BY <1>0, <1>2, <2>1, CounterSteps
    <3>2. S' = IF c = req[r].noted THEN S \cup {r} ELSE S
      BY <2>1, <3>1 DEF Done
    <3>3. S \subseteq Requests /\ r \notin S
      BY <2>1 DEF Done
    <3>4. requestsTotal[c] = Cardinality(S) /\ requestsTotal[c] \in Nat
      BY <1>0 DEF ProxyIInv, CountersInv
    <3> HIDE DEF S
    <3>5. Cardinality(S \cup {r}) = Cardinality(S) + 1
      BY <3>3, CountedFinite
    <3>6. requestsTotal'[c] = Cardinality(S')
      BY <2>3, <3>2, <3>4, <3>5
    <3> QED
      BY <3>6 DEF S
  <2>5. ASSUME NEW l \in Labels
        PROVE  /\ durations'[l] = Cardinality(Past(Timed, l)') /\ totals'[l] = Cardinality(Past(Counted, l)')
               /\ bytes'[l] = Cardinality(Pieces(Past(Added, l))')
    <3>1. /\ Past(Timed, l)' = Past(Timed, l) /\ Past(Counted, l)' = Past(Counted, l)
          /\ Pieces(Past(Added, l))' = Pieces(Past(Added, l))
      BY <1>0, <1>2, <2>1, CounterSets
    <3> QED
      BY <1>8, <3>1 DEF Instrument, ProxyIInv, CountersInv
  <2>6. CountersInv'
    BY <2>4, <2>5 DEF CountersInv
  <2>7. TypeOK'
    BY <1>0, <1>1, <1>8, <2>2 DEF Instrument, ProxyIInv, TypeOK
  <2> QED
    BY <2>2, <2>6, <2>7 DEF ProxyIInv
<1> QED
  BY <1>5, <1>6, <1>7, <1>8

\* What is known of the requests and the counters is not of the server.
LEMMA RequestsAlone ==
  ASSUME ProxyIInv, UNCHANGED <<req, metrics>>, server' \in {"starting", "serving", "exited"}
  PROVE  ProxyIInv'
<1>1. TypeOK'
  BY DEF ProxyIInv, TypeOK, metrics
<1>2. RequestsInv'
  BY DEF ProxyIInv, RequestsInv
<1>3. ASSUME NEW l \in Labels
      PROVE  /\ durations'[l] = Cardinality(Past(Timed, l)') /\ totals'[l] = Cardinality(Past(Counted, l)')
             /\ bytes'[l] = Cardinality(Pieces(Past(Added, l))')
  <2>1. /\ Past(Timed, l)' = Past(Timed, l) /\ Past(Counted, l)' = Past(Counted, l)
        /\ Past(Added, l)' = Past(Added, l)
    BY DEF Past, Label
  <2>2. Pieces(Past(Added, l))' = Pieces(Past(Added, l))
    BY <2>1 DEF Pieces
  <2> QED
    BY <2>1, <2>2 DEF ProxyIInv, CountersInv, metrics
<1>4. ASSUME NEW c \in Codes
      PROVE  requestsTotal'[c] = Cardinality({r \in Done' : req'[r].noted = c})
  <2>1. Done' = Done
    BY DEF Done
  <2> QED
    BY <2>1 DEF ProxyIInv, CountersInv, metrics
<1>5. CountersInv'
  BY <1>3, <1>4 DEF CountersInv
<1> QED
  BY <1>1, <1>2, <1>5 DEF ProxyIInv

LEMMA ProxyInductive == ProxyIInv /\ [Next]_vars => ProxyIInv'
<1> SUFFICES ASSUME ProxyIInv, [Next]_vars PROVE ProxyIInv'
  OBVIOUS
<1>1. CASE Start
  <2>1. UNCHANGED <<req, metrics>> /\ server' \in {"starting", "serving", "exited"}
    BY <1>1 DEF Start
  <2> QED
    BY <2>1, RequestsAlone
<1>2. CASE UNCHANGED vars
  <2>1. UNCHANGED <<req, metrics>> /\ server' \in {"starting", "serving", "exited"}
    BY <1>2 DEF vars, ProxyIInv, TypeOK
  <2> QED
    BY <2>1, RequestsAlone
<1>3. ASSUME NEW r \in Requests, Arrive(r) \/ Leave(r) \/ Relay(r) \/ Copy(r) \/ Serve(r) PROVE ProxyIInv'
  BY <1>3, QuietInductive, CounterInductive DEF Serve, QuietStep
<1> QED
  BY <1>1, <1>2, <1>3 DEF Next

\* What is true of every request that is done.
LEMMA DoneCorrect == ProxyIInv => ToldAsCounted /\ Delivered /\ NoLeak
<1> SUFFICES ASSUME ProxyIInv PROVE ToldAsCounted /\ Delivered /\ NoLeak
  OBVIOUS
<1>1. \A r \in Done : /\ r \in Requests /\ req[r] \in Request /\ RequestInv(req[r]) /\ req[r].pc = "done"
                      /\ req[r].sent \in Nat
  BY ProxyAssumption DEF ProxyIInv, TypeOK, RequestsInv, Done, Request
<1>2. ToldAsCounted
  BY <1>1 DEF ToldAsCounted, Proxied, RequestInv, OwnInv, AnsweredInv, Relayed, FirstCode
<1>3. Delivered
  BY <1>1 DEF Delivered, Proxied, RequestInv, OwnInv, AnsweredInv, Relayed, FirstCode
<1>4. NoLeak
  BY <1>1 DEF NoLeak, RequestInv, OwnInv, AnsweredInv
<1> QED
  BY <1>2, <1>3, <1>4

\* Between requests, the counters have counted the same ones.
LEMMA CountersCorrect == ProxyIInv => CountersAgree
<1> SUFFICES ASSUME ProxyIInv, \A r \in Requests : req[r].pc \in {"out", "done"} PROVE CountersAgree
  BY DEF CountersAgree
<1>1. ASSUME NEW l \in Labels PROVE Past(Timed, l) = With(l) /\ Past(Counted, l) = With(l) /\ Past(Added, l) = With(l)
  <2>1. \A steps \in {Timed, Counted, Added} : "done" \in steps /\ "out" \notin steps
    BY DEF Timed, Counted, Added
  <2> QED
    BY <2>1 DEF Past, With, Proxied, Done
<1>2. ASSUME NEW c \in Codes
      PROVE  requestsTotal[c] = Cardinality({r \in Proxied : req[r].code = c})
                                + Cardinality({r \in Done \ Proxied : req[r].noted = c})
  <2> DEFINE P == {r \in Proxied : req[r].code = c}
             N == {r \in Done \ Proxied : req[r].noted = c}
  <2>1. \A r \in Proxied : req[r].noted = req[r].code
    BY DEF ProxyIInv, RequestsInv, RequestInv, Proxied, Done, Timed
  <2>2. {r \in Done : req[r].noted = c} = P \cup N /\ P \cap N = {} /\ P \subseteq Requests /\ N \subseteq Requests
    BY <2>1 DEF Proxied, Done
  <2> HIDE DEF P, N
  <2>3. /\ IsFiniteSet(P) /\ IsFiniteSet(N) /\ Cardinality(P) \in Nat /\ Cardinality(N) \in Nat
        /\ Cardinality({}) = 0
    BY <2>2, CountedFinite, FS_EmptySet
  <2>4. Cardinality(P \cup N) = Cardinality(P) + Cardinality(N)
    <3>1. Cardinality(P \cup N) = Cardinality(P) + Cardinality(N) - Cardinality(P \cap N)
      BY <2>3, FS_Union
    <3>2. Cardinality(P \cap N) = 0
      BY <2>2, <2>3
    <3> HIDE <2>2
    <3> QED
      BY <2>3, <3>1, <3>2
  <2>5. requestsTotal[c] = Cardinality(P \cup N)
    BY <2>2 DEF ProxyIInv, CountersInv
  <2> QED
    BY <2>4, <2>5 DEF P, N
<1> QED
  BY <1>1, <1>2 DEF CountersAgree, ProxyIInv, CountersInv

\* ProxyInv: in any number of requests at once, every one that is relayed is counted once in each
\* of the counters, with what its client was told and got (server.go, requeststats.go).
THEOREM ProxyCorrect == Spec => []ProxyInv
<1>1. ProxyIInv => ProxyInv
  BY DoneCorrect, CountersCorrect DEF ProxyInv, ProxyIInv
<1> QED
  BY <1>1, ProxyInitially, ProxyInductive, PTL DEF Spec

\* NoLeak: a connection is left open only when a client left in the middle of an answer
\* (server.go:76, where no body is closed).
THEOREM NoConnectionLeaks == Spec => []NoLeak
<1>1. ProxyIInv => NoLeak
  BY DoneCorrect
<1> QED
  BY <1>1, ProxyInitially, ProxyInductive, PTL DEF Spec

================================================================================
