----------------------------- MODULE GrpcServer -----------------------------
(***************************************************************************)
(* A unary gRPC call through the interceptor chain of startGRPCServer,     *)
(* Logging -> Timeout -> Recovery -> Validation -> LogHandler, over the    *)
(* use case of LogUseCase.                                                 *)
(*                                                                         *)
(* Each call runs in three goroutines.  The RPC's own one (`rpc') logs and *)
(* waits in TimeoutInterceptor's select.  A second one (`worker') runs     *)
(* middleware.WithTimeout and, in it, RecoveryInterceptor, which waits for *)
(* the third (`chain'): validation and the handler.  The worker leaves its *)
(* error in a channel of capacity one.  When the select takes the context, *)
(* worker and chain go on without anybody waiting for them.                *)
(*                                                                         *)
(* The process serves calls by other ways too (`Elsewhere'): of those this *)
(* module says only that they use the same use case, with requests that    *)
(* were found valid.                                                       *)
(***************************************************************************)
EXTENDS LogUseCase, RequestValidation

CONSTANT GrpcCalls       \* the calls that come in by gRPC

ASSUME GrpcAssumption == GrpcCalls \subseteq Calls

VARIABLES
  rpc,        \* goroutine of the RPC
  worker,     \* goroutine of TimeoutInterceptor
  chain,      \* goroutine of RecoveryInterceptor
  err,        \* the error RecoveryInterceptor comes back with, as a code
  errChan,    \* the channel: "empty" or the error in it
  answer,     \* the code on the wire
  logged,     \* the code LoggingInterceptor logs
  late        \* history: the chain ended after the deadline had passed

gvars == <<rpc, worker, chain, err, errChan, answer, logged, late>>
grpcVars == <<vars, gvars>>

Codes == {"OK", "InvalidArgument", "NotFound", "Internal"}
NoCode == "none"
CtxError == "context error"    \* WithTimeout's own error, not a gRPC status

GInit ==
  /\ Init
  /\ rpc = [c \in GrpcCalls |-> "new"]
  /\ worker = [c \in GrpcCalls |-> "off"]
  /\ chain = [c \in GrpcCalls |-> "off"]
  /\ err = [c \in GrpcCalls |-> NoCode]
  /\ errChan = [c \in GrpcCalls |-> "empty"]
  /\ answer = [c \in GrpcCalls |-> NoCode]
  /\ logged = [c \in GrpcCalls |-> NoCode]
  /\ late = [c \in GrpcCalls |-> FALSE]

(* LoggingInterceptor and TimeoutInterceptor start; the goroutines do.     *)
Arrive(c) ==
  /\ rpc[c] = "new"
  /\ rpc' = [rpc EXCEPT ![c] = "select"]
  /\ worker' = [worker EXCEPT ![c] = "waits"]
  /\ chain' = [chain EXCEPT ![c] = "validate"]
  /\ UNCHANGED <<vars, err, errChan, answer, logged, late>>

ChainEnds(c, code) ==
  /\ chain' = [chain EXCEPT ![c] = "closed"]
  /\ err' = [err EXCEPT ![c] = code]
  /\ late' = [late EXCEPT ![c] = (ctx[c] = "deadline")]

(* ValidationInterceptor answers itself, ...                               *)
Reject(c) ==
  /\ chain[c] = "validate"
  /\ ~ Valid(req[c])
  /\ ChainEnds(c, "InvalidArgument")
  /\ UNCHANGED <<vars, rpc, worker, errChan, answer, logged>>

(* A deviation of Accept: an invalid request is only logged.               *)
AcceptAny(c) ==
  /\ chain[c] = "validate"
  /\ Begin(c)
  /\ chain' = [chain EXCEPT ![c] = "handler"]
  /\ UNCHANGED <<rpc, worker, err, errChan, answer, logged, late>>

(* ... or goes on to the handler, which calls the use case.                *)
Accept(c) ==
  /\ chain[c] = "validate"
  /\ Valid(req[c])
  /\ Begin(c)
  /\ chain' = [chain EXCEPT ![c] = "handler"]
  /\ UNCHANGED <<rpc, worker, err, errChan, answer, logged, late>>

Handle(c) ==
  /\ chain[c] = "handler"
  /\ UseCaseStep(c)
  /\ UNCHANGED gvars

(* A deviation of HandlerReturns: the panic is recovered and err left nil. *)
RecoveredPanicIsNil(c) ==
  /\ chain[c] = "handler"
  /\ pc[c] = "ret"
  /\ ChainEnds(c, IF res[c] = "panic" THEN "OK" ELSE GrpcCode(res[c]))
  /\ UNCHANGED <<vars, rpc, worker, errChan, answer, logged>>

(* The handler turns the result into a status, or its panic is recovered;  *)
(* either way done is closed.                                              *)
HandlerReturns(c) ==
  /\ chain[c] = "handler"
  /\ pc[c] = "ret"
  /\ ChainEnds(c, GrpcCode(res[c]))
  /\ UNCHANGED <<vars, rpc, worker, errChan, answer, logged>>

(* middleware.WithTimeout: the handler's error first; then a passed        *)
(* deadline calls onTimeout, which returns nil here, and a cancelled       *)
(* context is an error.                                                    *)
WithTimeout(handlerErr, how) ==
  IF handlerErr # "OK" THEN handlerErr
  ELSE IF how = "cancelled" THEN CtxError
  ELSE "OK"

(* A deviation of WorkerSends: the channel has no room, so sending needs a *)
(* receiver.                                                               *)
WorkerMeetsReceiver(c) ==
  /\ worker[c] = "waits"
  /\ chain[c] = "closed"
  /\ rpc[c] = "select"
  /\ errChan' = [errChan EXCEPT ![c] = WithTimeout(err[c], ctx[c])]
  /\ worker' = [worker EXCEPT ![c] = "gone"]
  /\ UNCHANGED <<vars, rpc, chain, err, answer, logged, late>>

(* A deviation of WorkerSends: only an error goes into the channel.         *)
WorkerSendsErrors(c) ==
  /\ worker[c] = "waits"
  /\ chain[c] = "closed"
  /\ LET e == WithTimeout(err[c], ctx[c])
     IN  errChan' = [errChan EXCEPT ![c] = IF e = "OK" THEN "empty" ELSE e]
  /\ worker' = [worker EXCEPT ![c] = "gone"]
  /\ UNCHANGED <<vars, rpc, chain, err, answer, logged, late>>

(* errChan <- err, which never blocks: the channel has room for one.       *)
WorkerSends(c) ==
  /\ worker[c] = "waits"
  /\ chain[c] = "closed"
  /\ errChan[c] = "empty"
  /\ errChan' = [errChan EXCEPT ![c] = WithTimeout(err[c], ctx[c])]
  /\ worker' = [worker EXCEPT ![c] = "gone"]
  /\ UNCHANGED <<vars, rpc, chain, err, answer, logged, late>>

(* A deviation of LogCode: a timeout is logged as an internal error.       *)
LogTimeoutAsInternal(e) == IF e \in {CtxError, "DeadlineExceeded"} THEN "Internal" ELSE e

(* What grpc-go sends for the error it is given, and what is logged of it. *)
WireCode(e) == IF e = CtxError THEN "Canceled" ELSE e
LogCode(e) == IF e = CtxError THEN "Internal" ELSE e

Answer(c, e) ==
  /\ rpc' = [rpc EXCEPT ![c] = "answered"]
  /\ answer' = [answer EXCEPT ![c] = WireCode(e)]
  /\ logged' = [logged EXCEPT ![c] = LogCode(e)]

(* A deviation of SelectDone: the worker is waited for before answering.   *)
SelectDoneAfterWorker(c) ==
  /\ rpc[c] = "select"
  /\ ctx[c] # "live"
  /\ worker[c] = "gone"
  /\ Answer(c, "DeadlineExceeded")
  /\ UNCHANGED <<vars, worker, chain, err, errChan, late>>

(* case <-ctxWithTimeout.Done()                                            *)
SelectDone(c) ==
  /\ rpc[c] = "select"
  /\ ctx[c] # "live"
  /\ Answer(c, "DeadlineExceeded")
  /\ UNCHANGED <<vars, worker, chain, err, errChan, late>>

(* case err := <-errChan; with both cases ready, select takes either.      *)
SelectErr(c) ==
  /\ rpc[c] = "select"
  /\ errChan[c] # "empty"
  /\ Answer(c, errChan[c])
  /\ errChan' = [errChan EXCEPT ![c] = "empty"]
  /\ UNCHANGED <<vars, worker, chain, err, late>>

(* The timer of the interceptor, or the client's own deadline or hang-up.  *)
GCtxEnds(c, how) ==
  /\ rpc[c] = "select"
  /\ CtxEnds(c, how)
  /\ UNCHANGED gvars

(* A call that did not come in by gRPC.                                    *)
Elsewhere(c) ==
  /\ \/ Valid(req[c]) /\ Begin(c)
     \/ UseCaseStep(c)
     \/ \E how \in CtxEndings : CtxEnds(c, how)
  /\ UNCHANGED gvars

(* The process goes, with every goroutine in it.                           *)
GoroutinesDie ==
  /\ rpc' = [c \in GrpcCalls |-> IF rpc[c] = "select" THEN "killed" ELSE rpc[c]]
  /\ worker' = [c \in GrpcCalls |-> IF worker[c] = "waits" THEN "killed" ELSE worker[c]]
  /\ chain' = [c \in GrpcCalls |->
                 IF chain[c] \in {"validate", "handler"} THEN "killed" ELSE chain[c]]
  /\ UNCHANGED <<err, errChan, answer, logged, late>>

GBusy ==
  \E c \in GrpcCalls :
    rpc[c] = "select" \/ worker[c] = "waits" \/ chain[c] \in {"validate", "handler"}

GExit ==
  /\ GBusy \/ buf # <<>> \/ \E c \in Calls : pc[c] \in Running
  /\ Kill
  /\ GoroutinesDie

GDone ==
  \A c \in GrpcCalls :
    rpc[c] \in {"answered", "killed"} /\ worker[c] \in {"gone", "killed"}

GAtRest ==
  /\ GDone /\ Settled
  /\ \A c \in Calls \ GrpcCalls : pc[c] \in Ended \/ (pc[c] = "idle" /\ ~ Valid(req[c]))
  /\ UNCHANGED grpcVars

GStep(c) ==
  \/ Arrive(c) \/ Reject(c) \/ Accept(c) \/ Handle(c) \/ HandlerReturns(c)
  \/ WorkerSends(c) \/ SelectDone(c) \/ SelectErr(c)

GNext ==
  \/ \E c \in GrpcCalls : GStep(c)
  \/ \E c \in GrpcCalls, how \in CtxEndings : GCtxEnds(c, how)
  \/ \E c \in Calls \ GrpcCalls : Elsewhere(c)
  \/ External /\ UNCHANGED gvars
  \/ GExit \/ GAtRest

GSpec == GInit /\ [][GNext]_grpcVars

(***************************************************************************)
(* Fairness.  A runnable goroutine runs, a select with a ready case takes  *)
(* one, and the timer of context.WithTimeout fires.  That much is the      *)
(* code's own.  FairOutside adds that the use case gets on: exchanges with *)
(* the database end and the index answers.                                 *)
(***************************************************************************)
FairRpc ==
  \A c \in GrpcCalls :
    /\ WF_grpcVars(SelectDone(c) \/ SelectErr(c))
    /\ WF_grpcVars(GCtxEnds(c, "deadline"))
    /\ WF_grpcVars(Reject(c) \/ Accept(c) \/ HandlerReturns(c) \/ WorkerSends(c))

FairOutside ==
  \A c \in GrpcCalls :
    /\ WF_grpcVars(Handle(c) /\ Exchange(c))
    /\ WF_grpcVars(Handle(c) /\ IndexReturns(c))

GFairSpec == GSpec /\ FairRpc

-----------------------------------------------------------------------------
(* Properties.                                                             *)

(* Every variable of the server holds a value of its kind.                 *)
GTypeOK ==
  /\ rpc \in [GrpcCalls -> {"new", "select", "answered", "killed"}]
  /\ worker \in [GrpcCalls -> {"off", "waits", "gone", "killed"}]
  /\ chain \in [GrpcCalls -> {"off", "validate", "handler", "closed", "killed"}]
  /\ err \in [GrpcCalls -> Codes \cup {NoCode}]
  /\ errChan \in [GrpcCalls -> Codes \cup {CtxError, "empty"}]
  /\ answer \in [GrpcCalls -> Codes \cup {NoCode, "DeadlineExceeded", "Canceled"}]
  /\ logged \in [GrpcCalls -> Codes \cup {NoCode, "DeadlineExceeded"}]
  /\ late \in [GrpcCalls -> BOOLEAN]

(* A client that reads OK has what it asked for: the handler ran to its     *)
(* end, the response was its own and, for SendLog, the row is in the table; *)
(* no panic and no half-finished call ever comes out of the three           *)
(* goroutines as OK.                                                        *)
OkIsReal ==
  \A c \in GrpcCalls :
    answer[c] = "OK" => /\ res[c] = "ok" /\ Valid(req[c])
                        /\ IsSend(c) => Row(c) \in rows
                        /\ IsGet(c) => page[c] # {}

(* A client told InvalidArgument, NotFound or, without a panic, Internal    *)
(* will not see its entry on logs.send or in logs-index afterwards, and one *)
(* told InvalidArgument will not see it in the table either.                *)
RefusedIsSilent ==
  \A c \in GrpcCalls :
    /\ answer[c] \in {"InvalidArgument", "NotFound", "Internal"} /\ res[c] # "panic"
         => ~ Carried(c) /\ esSent[c] = 0
    /\ ~ Valid(req[c]) =>
         /\ answer[c] \in {NoCode, "InvalidArgument", "DeadlineExceeded"}
         /\ stmt[c] = "none" /\ StoredRows(c) = {}

(* The access log agrees with the wire, but for a call whose client hung up.*)
LoggedIsAnswered ==
  \A c \in GrpcCalls : ctx[c] # "cancelled" => logged[c] = answer[c]

(* The three goroutines of a call hold each other up in no order of their   *)
(* steps: an RPC in its select has its error in the channel or a worker    *)
(* that will put it there, a worker that waits finds room in the channel,  *)
(* and the chain it waits for has ended or is somewhere that ends.         *)
NobodyWaitsInVain ==
  \A c \in GrpcCalls :
    /\ rpc[c] = "select" => worker[c] = "waits" \/ errChan[c] # "empty"
    /\ worker[c] = "waits" =>
         /\ errChan[c] = "empty"
         /\ \/ chain[c] \in {"validate", "closed"}
            \/ chain[c] = "handler" /\ pc[c] \in Running \cup {"ret"}

(* Every call is answered, even one whose handler never returns because     *)
(* PostgreSQL or Elasticsearch does not: the select needs only the timer.   *)
EveryRpcAnswered == \A c \in GrpcCalls : rpc[c] = "select" ~> rpc[c] # "select"

(* The goroutines a timed-out call leaves behind do not stay: where the     *)
(* exchanges with the services end, so does the worker, the channel's one   *)
(* place letting it send with nobody listening.                             *)
NoGoroutineLeak ==
  FairOutside => \A c \in GrpcCalls : worker[c] = "waits" ~> worker[c] # "waits"

(* "If the request is not processed within the duration, returns            *)
(* codes.DeadlineExceeded" (middleware/grpc/timeout.go:16).                 *)
LateIsDeadlineExceeded ==
  \A c \in GrpcCalls : late[c] => answer[c] \in {NoCode, "DeadlineExceeded"}

=============================================================================
