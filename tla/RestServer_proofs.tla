------------------------- MODULE RestServer_proofs --------------------------
(***************************************************************************)
(* Behind the REST server the use case behaves as LogUseCase says, and the *)
(* status line a client reads tells the truth about its entry: it is       *)
(* settled by the first response, and TimeoutMiddleware never gets to      *)
(* write the first.                                                        *)
(***************************************************************************)
EXTENDS RestServer, LogUseCase_proofs

(* A step of the server is one of the use case, or none.                   *)
LEMMA RestStep == TypeOK /\ [RNext]_restVars => [Next]_vars
<1> SUFFICES ASSUME TypeOK, [RNext]_restVars PROVE Next \/ UNCHANGED vars
  OBVIOUS
<1>1. ASSUME NEW c \in RestCalls, RStep(c) PROVE Next \/ UNCHANGED vars
  <2>0. c \in Calls
    BY RestAssumption
  <2>1. CASE RAccept(c) \/ RHandle(c)
    BY <2>0, <2>1 DEF RAccept, RHandle, Next
  <2>2. CASE RArrive(c) \/ RReject(c) \/ Respond(c) \/ Unwind(c) \/ LogRequest(c)
    BY <2>2 DEF RArrive, RReject, Respond, Unwind, LogRequest
  <2> QED
    BY <1>1, <2>1, <2>2 DEF RStep
<1>2. ASSUME NEW c \in RestCalls, NEW how \in CtxEndings, RCtxEnds(c, how) PROVE Next
  BY <1>2, RestAssumption DEF RCtxEnds, Next
<1>3. CASE External
  BY <1>3 DEF Next
<1>4. CASE RExit
  <2>1. CASE buf # <<>> \/ \E c \in Calls : pc[c] \in Running
    BY <1>4, <2>1 DEF RExit, Exit, Next
  <2>2. CASE buf = <<>> /\ ~ \E c \in Calls : pc[c] \in Running
    BY <1>4, <2>2 DEF RExit, Kill, TypeOK, vars, dbVars, esVars
  <2> QED
    BY <2>1, <2>2
<1>5. CASE RAtRest \/ UNCHANGED restVars
  BY <1>5 DEF RAtRest, restVars
<1>6. ASSUME NEW c \in Calls \ RestCalls, RElsewhere(c) PROVE Next
  BY <1>6 DEF RElsewhere, Next
<1> QED
  BY <1>1, <1>2, <1>3, <1>4, <1>5, <1>6 DEF RNext

(* The inductive invariant of the use case holds behind the REST server.   *)
THEOREM RestInvariance == RSpec => []IInv
<1>1. RInit => IInv
  BY InitIInv DEF RInit
<1>2. IInv /\ [RNext]_restVars => IInv'
  BY RestStep, IInvStep DEF IInv
<1> QED
  BY <1>1, <1>2, PTL DEF RSpec

(* The REST server implements LogUseCase: its middleware, hang-ups and     *)
(* panics included, drives the use case only in ways LogUseCase describes. *)
THEOREM RestDrivesUseCase == RSpec => Spec
<1>1. RInit => Init
  BY DEF RInit
<1>2. IInv /\ [RNext]_restVars => [Next]_vars
  BY RestStep DEF IInv
<1> QED
  BY <1>1, <1>2, RestInvariance, PTL DEF RSpec, Spec

-----------------------------------------------------------------------------
(* What the response has to do with the call.                              *)

Answered == {"unwind", "log", "done"}

(* The status line: there is one from the first response on, and it is the *)
(* status of what the chain below the timeout came to.                     *)
WireOf(c) ==
  /\ web[c] \in {"new", "validate"} => pc[c] = "idle"
  /\ web[c] \in Answered => wire[c] # 0
  /\ wire[c] # 0 => web[c] \in Answered \cup {"killed"}
  /\ wire[c] \in {0, 200, 400, 404, 500}
  /\ wire[c] = 200 => res[c] = "ok"
  /\ wire[c] = 400 => pc[c] = "idle"
  /\ wire[c] = 404 => res[c] = "noLogs"
  /\ wire[c] = 500 => res[c] \in {"repoErr", "panic"}

(* The body and the log: nothing but the first response, unless overdue,   *)
(* and then what the timeout adds to it.                                   *)
BodyOf(c) ==
  /\ web[c] \in {"new", "validate", "handler"} => bodies[c] = <<>>
  /\ web[c] = "unwind" \/ (web[c] \in {"log", "done"} /\ ~ overdue[c]) =>
       bodies[c] = <<wire[c]>> /\ status[c] = wire[c]
  /\ web[c] \in {"log", "done"} /\ overdue[c] =>
       bodies[c] = <<wire[c], 504>> /\ status[c] = 504
  /\ web[c] = "done" => loggedStatus[c] = status[c]

WireInv == \A c \in RestCalls : WireOf(c)
BodyInv == \A c \in RestCalls : BodyOf(c)

RInv == IInv /\ RTypeOK /\ WireInv /\ BodyInv

LEMMA StatusOfResults ==
  /\ HttpStatus("ok") = 200
  /\ HttpStatus("noLogs") = 404
  /\ HttpStatus("repoErr") = 500
  /\ HttpStatus("panic") = 500
  BY DEF HttpStatus, AppErrorToHTTPStatus

LEMMA InitRInv == RInit => RInv
<1> SUFFICES ASSUME RInit PROVE RInv
  OBVIOUS
<1>1. IInv
  BY InitIInv DEF RInit
<1>2. RTypeOK
  BY DEF RInit, RTypeOK, InChain
<1>3. WireInv /\ BodyInv
  BY RestAssumption DEF RInit, Init, WireInv, WireOf, BodyInv, BodyOf, Answered
<1> QED
  BY <1>1, <1>2, <1>3 DEF RInv

(* The status a handler's result gets.                                     *)
LEMMA RespondedStatus ==
  ASSUME IInv, NEW c \in RestCalls, pc[c] = "ret"
  PROVE  /\ HttpStatus(res[c]) \in {200, 404, 500}
         /\ HttpStatus(res[c]) = 200 => res[c] = "ok"
         /\ HttpStatus(res[c]) = 404 => res[c] = "noLogs"
         /\ HttpStatus(res[c]) = 500 => res[c] \in {"repoErr", "panic"}
<1>1. res[c] \in {"ok", "noLogs", "repoErr", "panic"}
  BY RestAssumption DEF IInv, TypeOK, StepInv, StepOf
<1> QED
  BY <1>1, StatusOfResults

(* The three ways of writing a response keep the types.                    *)
LEMMA JSONTyped ==
  ASSUME RTypeOK, NEW c \in RestCalls, NEW code \in {200, 400, 404, 500, 504},
         JSON(c, code)
  PROVE  /\ wire' \in [RestCalls -> {0, 200, 400, 404, 500, 504}]
         /\ bodies' \in [RestCalls -> Seq({200, 400, 404, 500, 504})]
         /\ status' \in [RestCalls -> {200, 400, 404, 500, 504}]
<1>1. Append(bodies[c], code) \in Seq({200, 400, 404, 500, 504})
  BY DEF RTypeOK
<1> QED
  BY <1>1 DEF RTypeOK, JSON

LEMMA RTypeStep == IInv /\ RTypeOK /\ [RNext]_restVars => RTypeOK'
<1> SUFFICES ASSUME IInv, RTypeOK, [RNext]_restVars PROVE RTypeOK'
  OBVIOUS
<1> USE DEF RTypeOK, rvars, InChain
<1>1. ASSUME NEW c \in RestCalls, RArrive(c) \/ RAccept(c) PROVE RTypeOK'
  <2>1. UNCHANGED <<wire, bodies, status, loggedStatus, overdue>>
    BY <1>1 DEF RArrive, RAccept
  <2>2. PICK l \in {"validate", "handler"} : web' = [web EXCEPT ![c] = l]
    BY <1>1 DEF RArrive, RAccept
  <2> QED
    BY <2>1, <2>2
<1>9. ASSUME NEW c \in RestCalls, RHandle(c) PROVE RTypeOK'
  BY <1>9 DEF RHandle
<1>8. ASSUME NEW c \in RestCalls, LogRequest(c) PROVE RTypeOK'
  BY <1>8 DEF LogRequest
<1>2. ASSUME NEW c \in RestCalls, RReject(c) PROVE RTypeOK'
  BY <1>2, JSONTyped DEF RReject
<1>3. ASSUME NEW c \in RestCalls, Respond(c) PROVE RTypeOK'
  <2>1. HttpStatus(res[c]) \in {200, 400, 404, 500, 504}
    BY <1>3, RespondedStatus DEF Respond
  <2> QED
    BY <1>3, <2>1, JSONTyped DEF Respond
<1>4. ASSUME NEW c \in RestCalls, Unwind(c) PROVE RTypeOK'
  <2>1. CASE ctx[c] = "deadline"
    BY <1>4, <2>1, JSONTyped DEF Unwind
  <2>2. CASE ctx[c] # "deadline"
    BY <1>4, <2>2 DEF Unwind
  <2> QED
    BY <2>1, <2>2
<1>5. ASSUME NEW c \in RestCalls, NEW how \in CtxEndings, RCtxEnds(c, how) PROVE RTypeOK'
  BY <1>5 DEF RCtxEnds
<1>6. CASE RExit
  BY <1>6 DEF RExit, RequestsDie
<1>7. CASE (External /\ UNCHANGED rvars) \/ RAtRest \/ UNCHANGED restVars
  BY <1>7 DEF RAtRest, restVars
<1>10. ASSUME NEW c \in Calls \ RestCalls, RElsewhere(c) PROVE RTypeOK'
  BY <1>10 DEF RElsewhere
<1> HIDE DEF RTypeOK, rvars, InChain
<1> QED
  BY <1>1, <1>2, <1>3, <1>4, <1>5, <1>6, <1>7, <1>8, <1>9, <1>10 DEF RNext, RStep

-----------------------------------------------------------------------------
(* The status line.                                                        *)

LEMMA WireStep == IInv /\ RTypeOK /\ WireInv /\ [RNext]_restVars => WireInv'
<1> SUFFICES ASSUME IInv, RTypeOK, WireInv, [RNext]_restVars, NEW d \in RestCalls
             PROVE  WireOf(d)'
  BY DEF WireInv
<1>0. /\ d \in Calls /\ RestCalls \subseteq Calls /\ TypeOK /\ WireOf(d)
      /\ pc \in [Calls -> {"idle"} \cup Running \cup Ended]
      /\ res[d] # "none" => res'[d] = res[d]
  BY RestAssumption, RestStep, ResultKept DEF IInv, TypeOK, WireInv
<1> USE <1>0 DEF WireOf, RTypeOK, rvars, InChain, Answered
<1>1. CASE /\ wire' = wire /\ web' = web
           /\ pc[d] = "idle" => pc'[d] = "idle"
  BY <1>1
<1>2. ASSUME NEW c \in RestCalls, RArrive(c) PROVE WireOf(d)'
  BY <1>2 DEF RArrive, vars
<1>3. ASSUME NEW c \in RestCalls, RReject(c) PROVE WireOf(d)'
  BY <1>3 DEF RReject, JSON, vars
<1>4. ASSUME NEW c \in RestCalls, RAccept(c) PROVE WireOf(d)'
  BY <1>4 DEF RAccept, Begin, Goto
<1>5. ASSUME NEW c \in RestCalls, RHandle(c) PROVE WireOf(d)'
  BY <1>1, <1>5, IdleThrough DEF RHandle
<1>6. ASSUME NEW c \in RestCalls, Respond(c) PROVE WireOf(d)'
  <2>1. /\ HttpStatus(res[c]) \in {200, 404, 500}
        /\ HttpStatus(res[c]) = 200 => res[c] = "ok"
        /\ HttpStatus(res[c]) = 404 => res[c] = "noLogs"
        /\ HttpStatus(res[c]) = 500 => res[c] \in {"repoErr", "panic"}
    BY <1>6, RespondedStatus DEF Respond
  <2>2. /\ web[c] = "handler" /\ web' = [web EXCEPT ![c] = "unwind"]
        /\ wire' = [wire EXCEPT ![c] = IF @ = 0 THEN HttpStatus(res[c]) ELSE @]
        /\ pc' = pc /\ res' = res
    BY <1>6 DEF Respond, JSON, vars
  <2> QED
    BY <2>1, <2>2
<1>7. ASSUME NEW c \in RestCalls, Unwind(c) PROVE WireOf(d)'
  <2>1. wire[c] # 0
    BY <1>7 DEF Unwind, WireInv
  <2>2. wire' = wire /\ pc' = pc /\ web[c] = "unwind" /\ web' = [web EXCEPT ![c] = "log"]
    BY <1>7, <2>1 DEF Unwind, JSON, vars
  <2> QED
    BY <2>2
<1>8. ASSUME NEW c \in RestCalls, LogRequest(c) PROVE WireOf(d)'
  BY <1>8 DEF LogRequest, vars
<1>9. ASSUME NEW c \in RestCalls, NEW how \in CtxEndings, RCtxEnds(c, how)
      PROVE  WireOf(d)'
  BY <1>1, <1>9, IdleThrough DEF RCtxEnds
<1>10. CASE RExit
  <2>1. pc[d] = "idle" => pc'[d] = "idle"
    BY <1>10, IdleThrough DEF RExit
  <2> QED
    BY <1>10, <2>1 DEF RExit, RequestsDie
<1>11. CASE (External /\ UNCHANGED rvars) \/ RAtRest \/ UNCHANGED restVars
  BY <1>1, <1>11, IdleThrough DEF RAtRest, restVars
<1>12. ASSUME NEW c \in Calls \ RestCalls, RElsewhere(c) PROVE WireOf(d)'
  <2>1. pc[d] = "idle" => pc'[d] = "idle"
    <3>1. CASE Begin(c)
      BY <3>1 DEF Begin, Goto
    <3>2. CASE UseCaseStep(c) \/ \E how \in CtxEndings : CtxEnds(c, how)
      BY <3>2, IdleThrough
    <3> QED
      BY <1>12, <3>1, <3>2 DEF RElsewhere
  <2> QED
    BY <1>1, <1>12, <2>1 DEF RElsewhere
<1> QED
  BY <1>2, <1>3, <1>4, <1>5, <1>6, <1>7, <1>8, <1>9, <1>10, <1>11, <1>12 DEF RNext, RStep

(* The body and the log.                                                   *)
LEMMA BodyStep == RTypeOK /\ WireInv /\ BodyInv /\ [RNext]_restVars => BodyInv'
<1> SUFFICES ASSUME RTypeOK, WireInv, BodyInv, [RNext]_restVars, NEW d \in RestCalls
             PROVE  BodyOf(d)'
  BY DEF BodyInv
<1>0. WireOf(d) /\ BodyOf(d)
  BY DEF WireInv, BodyInv
<1> USE <1>0 DEF BodyOf, RTypeOK, rvars, InChain, Answered
<1>1. CASE UNCHANGED rvars
  BY <1>1
<1>2. ASSUME NEW c \in RestCalls, RArrive(c) \/ RAccept(c) PROVE BodyOf(d)'
  BY <1>2 DEF RArrive, RAccept
<1>3. ASSUME NEW c \in RestCalls, NEW code,
             web[c] \in {"validate", "handler"}, web' = [web EXCEPT ![c] = "unwind"],
             JSON(c, code), UNCHANGED <<loggedStatus, overdue>>
      PROVE  BodyOf(d)'
  <2>1. CASE c = d
    <3>1. wire[d] = 0 /\ bodies[d] = <<>>
      BY <1>3, <2>1 DEF WireOf
    <3>2. bodies'[d] = <<code>> /\ wire'[d] = code /\ status'[d] = code
      BY <1>3, <2>1, <3>1 DEF JSON
    <3> QED
      BY <1>3, <2>1, <3>2
  <2>2. CASE c # d
    BY <1>3, <2>2 DEF JSON
  <2> QED
    BY <2>1, <2>2
<1>4. ASSUME NEW c \in RestCalls, RReject(c) \/ Respond(c) PROVE BodyOf(d)'
  BY <1>3, <1>4 DEF RReject, Respond
<1>5. ASSUME NEW c \in RestCalls, Unwind(c) PROVE BodyOf(d)'
  <2> HIDE <1>0 DEF BodyOf, RTypeOK, rvars, InChain, Answered
  <2>0. /\ DOMAIN web = RestCalls /\ overdue \in [RestCalls -> BOOLEAN]
        /\ DOMAIN wire = RestCalls /\ DOMAIN bodies = RestCalls /\ DOMAIN status = RestCalls
    BY DEF RTypeOK
  <2>1. CASE c = d
    <3>1. /\ web[d] = "unwind" /\ web'[d] = "log"
          /\ overdue' = [overdue EXCEPT ![d] = (ctx[d] = "deadline")]
      BY <1>5, <2>0, <2>1 DEF Unwind
    <3>2. bodies[d] = <<wire[d]>> /\ status[d] = wire[d] /\ wire[d] # 0
      BY <1>0, <3>1 DEF BodyOf, WireOf, Answered
    <3>3. CASE ctx[d] = "deadline"
      <4>1. overdue'[d] = TRUE
        BY <2>0, <3>1, <3>3, Zenon
      <4>2. bodies'[d] = <<wire'[d], 504>> /\ status'[d] = 504
        BY <1>5, <2>0, <2>1, <3>2, <3>3 DEF Unwind, JSON
      <4> QED
        BY <3>1, <4>1, <4>2 DEF BodyOf
    <3>4. CASE ctx[d] # "deadline"
      <4>1. overdue'[d] = FALSE
        BY <2>0, <3>1, <3>4, Zenon
      <4>2. bodies'[d] = <<wire'[d]>> /\ status'[d] = wire'[d]
        BY <1>5, <2>1, <3>2, <3>4 DEF Unwind
      <4> QED
        BY <3>1, <4>1, <4>2 DEF BodyOf
    <3> QED
      BY <3>3, <3>4
  <2>2. CASE c # d
    <3>1. /\ web'[d] = web[d] /\ overdue'[d] = overdue[d] /\ wire'[d] = wire[d]
          /\ bodies'[d] = bodies[d] /\ status'[d] = status[d] /\ loggedStatus' = loggedStatus
      BY <1>5, <2>0, <2>2 DEF Unwind, JSON
    <3> QED
      BY <1>0, <3>1 DEF BodyOf
  <2> QED
    BY <2>1, <2>2
<1>6. ASSUME NEW c \in RestCalls, LogRequest(c) PROVE BodyOf(d)'
  BY <1>6 DEF LogRequest
<1>7. ASSUME NEW c \in RestCalls, NEW how \in CtxEndings, RCtxEnds(c, how)
      PROVE  BodyOf(d)'
  BY <1>1, <1>7 DEF RCtxEnds
<1>8. CASE RExit
  BY <1>8 DEF RExit, RequestsDie
<1>9. ASSUME NEW c \in RestCalls, RHandle(c) PROVE BodyOf(d)'
  BY <1>1, <1>9 DEF RHandle
<1>10. CASE (External /\ UNCHANGED rvars) \/ RAtRest \/ UNCHANGED restVars
  BY <1>1, <1>10 DEF RAtRest, restVars
<1>11. ASSUME NEW c \in Calls \ RestCalls, RElsewhere(c) PROVE BodyOf(d)'
  BY <1>1, <1>11 DEF RElsewhere
<1> HIDE <1>0 DEF BodyOf, RTypeOK, rvars, InChain, Answered
<1> QED
  BY <1>2, <1>4, <1>5, <1>6, <1>7, <1>8, <1>9, <1>10, <1>11 DEF RNext, RStep

LEMMA RInvStep == RInv /\ [RNext]_restVars => RInv'
<1> SUFFICES ASSUME RInv, [RNext]_restVars PROVE RInv'
  OBVIOUS
<1>1. IInv'
  BY RestStep, IInvStep DEF RInv, IInv
<1>2. RTypeOK' /\ WireInv' /\ BodyInv'
  BY RTypeStep, WireStep, BodyStep DEF RInv
<1> QED
  BY <1>1, <1>2 DEF RInv

(* The response of a request tells what became of its call.  Among other   *)
(* things its status line is never 504, whatever TimeoutMiddleware writes. *)
THEOREM RestResponses == RSpec => []RInv
<1> QED
  BY InitRInv, RInvStep, PTL DEF RSpec

(* Every variable of the server keeps to the values of its kind, for any   *)
(* number of requests.                                                     *)
THEOREM RestTypeCorrect == RSpec => []RTypeOK
<1>1. RInv => RTypeOK
  BY DEF RInv
<1> QED
  BY <1>1, RestResponses, PTL

(* Behind a 200 there is a stored entry, or a page that is not empty.      *)
THEOREM OkStored == RSpec => []OkIsStored
<1>1. RInv => OkIsStored
  <2> SUFFICES ASSUME RInv, NEW c \in RestCalls, wire[c] = 200
               PROVE  (IsSend(c) => Row(c) \in rows) /\ (IsGet(c) => page[c] # {})
    BY DEF OkIsStored
  <2>1. c \in Calls /\ res[c] = "ok"
    BY RestAssumption DEF RInv, WireInv, WireOf
  <2>2. IsSend(c) => Row(c) \in rows
    BY <2>1 DEF RInv, IInv, StepInv, StepOf, RowInv
  <2>3. IsGet(c) => page[c] # {}
    BY <2>1 DEF RInv, IInv, ResultInv, ResultOf
  <2> QED
    BY <2>2, <2>3
<1> QED
  BY <1>1, RestResponses, PTL

LEMMA ErrorFromInv == RInv => ErrorIsSilent
<1> SUFFICES ASSUME RInv, NEW c \in RestCalls
             PROVE  /\ wire[c] \in {400, 404, 500} /\ res[c] # "panic"
                       => ~ Carried(c) /\ esSent[c] = 0
                    /\ wire[c] = 400 => stmt[c] = "none" /\ pc[c] = "idle"
  BY DEF ErrorIsSilent
<1>0. c \in Calls /\ IInv /\ WireOf(c)
  BY RestAssumption DEF RInv, WireInv
<1>1. ASSUME wire[c] = 400 PROVE stmt[c] = "none" /\ pc[c] = "idle"
  BY <1>0, <1>1 DEF WireOf, IInv, StepInv, StepOf
<1>2. ASSUME wire[c] = 400 PROVE ~ Carried(c) /\ esSent[c] = 0
  BY <1>0, <1>1, <1>2, UnappliedIsSilent
<1>3. ASSUME wire[c] \in {404, 500}, res[c] # "panic"
      PROVE  ~ Carried(c) /\ esSent[c] = 0
  <2>1. res[c] \in {"noLogs", "repoErr"}
    BY <1>0, <1>3 DEF WireOf
  <2> QED
    BY <1>0, <2>1, FailedCallIsSilent
<1> QED
  BY <1>1, <1>2, <1>3

(* An entry refused with 400, 404 or, without a panic, 500 is neither on    *)
(* logs.send nor on its way to the index; after a 400 it has no INSERT.    *)
THEOREM ErrorSilent == RSpec => []ErrorIsSilent
<1> QED
  BY ErrorFromInv, RestResponses, PTL

(* A response in time is one document with the status of its status line,  *)
(* in the access log too.  No request that is late is ever answered 504:   *)
(* its client reads what the chain came to, with a second document behind  *)
(* it, and only the access log says 504.                                   *)
THEOREM Accounted == RSpec => []ResponseAsLogged
<1>1. RInv => ResponseAsLogged
  <2> SUFFICES ASSUME RInv, NEW c \in RestCalls, web[c] = "done"
               PROVE  /\ wire[c] \in {200, 400, 404, 500}
                      /\ loggedStatus[c] = IF overdue[c] THEN 504 ELSE wire[c]
                      /\ bodies[c] = IF overdue[c] THEN <<wire[c], 504>> ELSE <<wire[c]>>
    BY DEF ResponseAsLogged
  <2>1. WireOf(c) /\ BodyOf(c) /\ overdue[c] \in BOOLEAN
    BY DEF RInv, WireInv, BodyInv, RTypeOK
  <2>2. wire[c] \in {200, 400, 404, 500}
    BY <2>1 DEF WireOf, Answered
  <2> QED
    BY <2>1, <2>2 DEF BodyOf
<1> QED
  BY <1>1, RestResponses, PTL
=============================================================================
