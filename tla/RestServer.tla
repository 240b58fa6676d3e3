----------------------------- MODULE RestServer -----------------------------
(***************************************************************************)
(* A REST call through the middleware chain of NewRouter, Logging ->       *)
(* Timeout -> Recovery -> Validation -> LogHandler, over the use case of   *)
(* LogUseCase.                                                             *)
(*                                                                         *)
(* Unlike a gRPC call it runs in one goroutine: TimeoutMiddleware sets a   *)
(* deadline on the request's context, calls the rest of the chain, and     *)
(* looks at the clock only when that has come back.  By then the response  *)
(* is on the wire: echo's Context.JSON writes the status line once, with   *)
(* the first response, and appends every body to it.                       *)
(*                                                                         *)
(* As in GrpcServer, of a call that comes in by another way only the use   *)
(* case is seen (`RElsewhere').                                            *)
(***************************************************************************)
EXTENDS LogUseCase, RequestValidation

CONSTANT RestCalls       \* the calls that come in by REST

ASSUME RestAssumption == RestCalls \subseteq Calls

VARIABLES
  web,         \* where the goroutine of the request stands in the chain
  wire,        \* the status on the wire, 0 before there is one
  bodies,      \* the statuses of the JSON documents in the body
  status,      \* Response().Status
  loggedStatus,    \* the status LoggingMiddleware logs
  overdue      \* history: the chain came back after the deadline

rvars == <<web, wire, bodies, status, loggedStatus, overdue>>
restVars == <<vars, rvars>>

RInit ==
  /\ Init
  /\ web = [c \in RestCalls |-> "new"]
  /\ wire = [c \in RestCalls |-> 0]
  /\ bodies = [c \in RestCalls |-> <<>>]
  /\ status = [c \in RestCalls |-> 200]
  /\ loggedStatus = [c \in RestCalls |-> 0]
  /\ overdue = [c \in RestCalls |-> FALSE]

(* echo.Context.JSON.                                                      *)
JSON(c, code) ==
  /\ status' = [status EXCEPT ![c] = code]
  /\ wire' = [wire EXCEPT ![c] = IF @ = 0 THEN code ELSE @]
  /\ bodies' = [bodies EXCEPT ![c] = Append(@, code)]

(* LoggingMiddleware and TimeoutMiddleware up to the chain below them.     *)
RArrive(c) ==
  /\ web[c] = "new"
  /\ web' = [web EXCEPT ![c] = "validate"]
  /\ UNCHANGED <<vars, wire, bodies, status, loggedStatus, overdue>>

(* A deviation of RReject: the return after the response is forgotten.     *)
RRejectAndGoOn(c) ==
  /\ web[c] = "validate"
  /\ ~ ValidRest(req[c])
  /\ JSON(c, 400)
  /\ Begin(c)
  /\ web' = [web EXCEPT ![c] = "handler"]
  /\ UNCHANGED <<loggedStatus, overdue>>

RReject(c) ==
  /\ web[c] = "validate"
  /\ ~ ValidRest(req[c])
  /\ JSON(c, 400)
  /\ web' = [web EXCEPT ![c] = "unwind"]
  /\ UNCHANGED <<vars, loggedStatus, overdue>>

(* The validated request is left in the echo context; the handler takes it *)
(* from there and calls the use case.                                      *)
RAccept(c) ==
  /\ web[c] = "validate"
  /\ ValidRest(req[c])
  /\ Begin(c)
  /\ web' = [web EXCEPT ![c] = "handler"]
  /\ UNCHANGED <<wire, bodies, status, loggedStatus, overdue>>

RHandle(c) ==
  /\ web[c] = "handler"
  /\ UseCaseStep(c)
  /\ UNCHANGED rvars

(* A deviation of Respond: after a panic the status stays what it was.     *)
RespondAfterPanic(c) ==
  /\ web[c] = "handler"
  /\ pc[c] = "ret"
  /\ JSON(c, IF res[c] = "panic" THEN status[c] ELSE HttpStatus(res[c]))
  /\ web' = [web EXCEPT ![c] = "unwind"]
  /\ UNCHANGED <<vars, loggedStatus, overdue>>

(* RespondJSON in the handler, or, after a panic, in RecoveryMiddleware.   *)
Respond(c) ==
  /\ web[c] = "handler"
  /\ pc[c] = "ret"
  /\ JSON(c, HttpStatus(res[c]))
  /\ web' = [web EXCEPT ![c] = "unwind"]
  /\ UNCHANGED <<vars, loggedStatus, overdue>>

(* A deviation of Unwind: a hang-up is taken for a timeout.                *)
UnwindOnAnyEnd(c) ==
  /\ web[c] = "unwind"
  /\ web' = [web EXCEPT ![c] = "log"]
  /\ overdue' = [overdue EXCEPT ![c] = (ctx[c] = "deadline")]
  /\ IF ctx[c] # "live"
       THEN JSON(c, 504)
       ELSE UNCHANGED <<status, wire, bodies>>
  /\ UNCHANGED <<vars, loggedStatus>>

(* Back in WithTimeout with no error: only a passed deadline makes it call *)
(* onTimeout, which writes its own response; a cancelled context is an     *)
(* error, for which echo writes nothing, the response being committed.     *)
Unwind(c) ==
  /\ web[c] = "unwind"
  /\ web' = [web EXCEPT ![c] = "log"]
  /\ overdue' = [overdue EXCEPT ![c] = (ctx[c] = "deadline")]
  /\ IF ctx[c] = "deadline"
       THEN JSON(c, 504)
       ELSE UNCHANGED <<status, wire, bodies>>
  /\ UNCHANGED <<vars, loggedStatus>>

(* LoggingMiddleware logs Response().Status and the response is complete.  *)
LogRequest(c) ==
  /\ web[c] = "log"
  /\ loggedStatus' = [loggedStatus EXCEPT ![c] = status[c]]
  /\ web' = [web EXCEPT ![c] = "done"]
  /\ UNCHANGED <<vars, wire, bodies, status, overdue>>

InChain == {"validate", "handler", "unwind", "log"}

(* The timer of TimeoutMiddleware, or the client hangs up.                 *)
RCtxEnds(c, how) ==
  /\ web[c] \in InChain
  /\ CtxEnds(c, how)
  /\ UNCHANGED rvars

(* A call that did not come in by REST.                                    *)
RElsewhere(c) ==
  /\ \/ Valid(req[c]) /\ Begin(c)
     \/ UseCaseStep(c)
     \/ \E how \in CtxEndings : CtxEnds(c, how)
  /\ UNCHANGED rvars

RequestsDie ==
  /\ web' = [c \in RestCalls |-> IF web[c] \in InChain THEN "killed" ELSE web[c]]
  /\ UNCHANGED <<wire, bodies, status, loggedStatus, overdue>>

RBusy == \E c \in RestCalls : web[c] \in InChain

RExit ==
  /\ RBusy \/ buf # <<>> \/ \E c \in Calls : pc[c] \in Running
  /\ Kill
  /\ RequestsDie

RDone == \A c \in RestCalls : web[c] \in {"done", "killed"}

RAtRest ==
  /\ RDone /\ Settled
  /\ \A c \in Calls \ RestCalls : pc[c] \in Ended \/ (pc[c] = "idle" /\ ~ Valid(req[c]))
  /\ UNCHANGED restVars

RStep(c) ==
  \/ RArrive(c) \/ RReject(c) \/ RAccept(c) \/ RHandle(c) \/ Respond(c)
  \/ Unwind(c) \/ LogRequest(c)

RNext ==
  \/ \E c \in RestCalls : RStep(c)
  \/ \E c \in RestCalls, how \in CtxEndings : RCtxEnds(c, how)
  \/ \E c \in Calls \ RestCalls : RElsewhere(c)
  \/ External /\ UNCHANGED rvars
  \/ RExit \/ RAtRest

RSpec == RInit /\ [][RNext]_restVars

(***************************************************************************)
(* Fairness.  The request's goroutine runs, the timer fires, exchanges     *)
(* with the database end.  FairIndexRest adds that the index answers.      *)
(***************************************************************************)
FairRest ==
  \A c \in RestCalls :
    /\ WF_restVars(RReject(c) \/ RAccept(c) \/ Respond(c) \/ Unwind(c) \/ LogRequest(c))
    /\ WF_restVars(RHandle(c) /\ Exchange(c))
    /\ WF_restVars(RCtxEnds(c, "deadline"))

FairIndexRest == \A c \in RestCalls : WF_restVars(RHandle(c) /\ IndexReturns(c))

RFairSpec == RSpec /\ FairRest
ROpenSpec == RFairSpec /\ FairIndexRest

-----------------------------------------------------------------------------
(* Properties.                                                             *)

RTypeOK ==
  /\ web \in [RestCalls -> {"new", "done", "killed"} \cup InChain]
  /\ wire \in [RestCalls -> {0, 200, 400, 404, 500, 504}]
  /\ bodies \in [RestCalls -> Seq({200, 400, 404, 500, 504})]
  /\ status \in [RestCalls -> {200, 400, 404, 500, 504}]
  /\ loggedStatus \in [RestCalls -> {0, 200, 400, 404, 500, 504}]
  /\ overdue \in [RestCalls -> BOOLEAN]

(* 200 on the wire means the entry of this call is stored, or that the page *)
(* it carries is not empty, whatever was appended after it.                 *)
OkIsStored ==
  \A c \in RestCalls :
    wire[c] = 200 => /\ IsSend(c) => Row(c) \in rows
                     /\ IsGet(c) => page[c] # {}

(* A client that reads an error it can trust, 400, 404 or a 500 that is no  *)
(* panic, will not see its entry on logs.send or in logs-index afterwards;  *)
(* after a 400 it is not in the table either.                               *)
ErrorIsSilent ==
  \A c \in RestCalls :
    /\ wire[c] \in {400, 404, 500} /\ res[c] # "panic"
         => ~ Carried(c) /\ esSent[c] = 0
    /\ wire[c] = 400 => stmt[c] = "none" /\ pc[c] = "idle"

(* A request that was served in time has one document in its body, the one  *)
(* its status line announces, and that is what is logged.  One that came    *)
(* back late has the status line of its chain all the same, never 504, and  *)
(* the timeout's document behind its own; the 504 shows in the access log,  *)
(* for these requests and for no other.                                     *)
ResponseAsLogged ==
  \A c \in RestCalls :
    web[c] = "done" =>
      /\ wire[c] \in {200, 400, 404, 500}
      /\ loggedStatus[c] = IF overdue[c] THEN 504 ELSE wire[c]
      /\ bodies[c] = IF overdue[c] THEN <<wire[c], 504>> ELSE <<wire[c]>>

(* Every request is answered in the end, provided the index is.             *)
EveryRequestAnswered ==
  \A c \in RestCalls : web[c] \in InChain ~> web[c] \in {"done", "killed"}

(* "If the request is not processed within the duration, returns HTTP 504"  *)
(* (middleware/rest/timeout.go:15).                                         *)
OverdueIs504 ==
  \A c \in RestCalls : web[c] = "done" /\ overdue[c] => wire[c] = 504

(* ... which is to say that some response follows the deadline, whether or  *)
(* not the handler has come back.                                           *)
TimeoutAnswers ==
  \A c \in RestCalls :
    web[c] \in InChain /\ ctx[c] = "deadline" ~> wire[c] # 0 \/ web[c] = "killed"

=============================================================================
