-------------------------- MODULE GrpcServer_proofs --------------------------
(***************************************************************************)
(* Whatever the interceptors do with a call, the use case under them        *)
(* behaves as LogUseCase says, so that what is proved of LogUseCase holds   *)
(* behind the gRPC server as well; and a client that reads OK can rely on   *)
(* it.                                                                      *)
(***************************************************************************)
EXTENDS GrpcServer, LogUseCase_proofs

(* A step of the server is one of the use case, or none.                   *)
LEMMA ServerStep == TypeOK /\ [GNext]_grpcVars => [Next]_vars
<1> SUFFICES ASSUME TypeOK, [GNext]_grpcVars PROVE Next \/ UNCHANGED vars
  OBVIOUS
<1>1. ASSUME NEW c \in GrpcCalls, GStep(c) PROVE Next \/ UNCHANGED vars
  <2>0. c \in Calls
    BY GrpcAssumption
  <2>1. CASE Accept(c) \/ Handle(c)
    BY <2>0, <2>1 DEF Accept, Handle, Next
  <2>2. CASE \/ Arrive(c) \/ Reject(c) \/ HandlerReturns(c) \/ WorkerSends(c)
             \/ SelectDone(c) \/ SelectErr(c)
    BY <2>2 DEF Arrive, Reject, HandlerReturns, WorkerSends, SelectDone, SelectErr
  <2> QED
    BY <1>1, <2>1, <2>2 DEF GStep
<1>2. ASSUME NEW c \in GrpcCalls, NEW how \in CtxEndings, GCtxEnds(c, how) PROVE Next
  BY <1>2, GrpcAssumption DEF GCtxEnds, Next
<1>3. CASE External
  BY <1>3 DEF Next
<1>4. CASE GExit
  <2>1. CASE buf # <<>> \/ \E c \in Calls : pc[c] \in Running
    BY <1>4, <2>1 DEF GExit, Exit, Next
  <2>2. CASE buf = <<>> /\ ~ \E c \in Calls : pc[c] \in Running
    BY <1>4, <2>2 DEF GExit, Kill, TypeOK, vars, dbVars, esVars
  <2> QED
    BY <2>1, <2>2
<1>5. CASE GAtRest \/ UNCHANGED grpcVars
  BY <1>5 DEF GAtRest, grpcVars
<1>6. ASSUME NEW c \in Calls \ GrpcCalls, Elsewhere(c) PROVE Next
  BY <1>6 DEF Elsewhere, Next
<1> QED
  BY <1>1, <1>2, <1>3, <1>4, <1>5, <1>6 DEF GNext

(* The inductive invariant of the use case holds behind the gRPC server.   *)
THEOREM GrpcInvariance == GSpec => []IInv
<1>1. GInit => IInv
  BY InitIInv DEF GInit
<1>2. IInv /\ [GNext]_grpcVars => IInv'
  BY ServerStep, IInvStep DEF IInv
<1> QED
  BY <1>1, <1>2, PTL DEF GSpec

(* The gRPC server implements LogUseCase: interceptors, goroutines that     *)
(* outlive their call and panics included, it drives the use case only in  *)
(* ways LogUseCase describes.                                              *)
THEOREM GrpcDrivesUseCase == GSpec => Spec
<1>1. GInit => Init
  BY DEF GInit
<1>2. IInv /\ [GNext]_grpcVars => [Next]_vars
  BY ServerStep DEF IInv
<1> QED
  BY <1>1, <1>2, GrpcInvariance, PTL DEF GSpec, Spec

-----------------------------------------------------------------------------
(* What the codes on their way to the client have to do with the call.     *)

CodeOf(c) ==
  /\ rpc[c] = "new" => chain[c] = "off"
  /\ ~ Valid(req[c]) => pc[c] = "idle"
  /\ chain[c] = "handler" => Valid(req[c])
  /\ err[c] # NoCode => chain[c] = "closed"
  /\ chain[c] = "closed" => err[c] # NoCode
  /\ err[c] = "OK" => res[c] = "ok" /\ Valid(req[c])
  /\ err[c] = "InvalidArgument" => ~ Valid(req[c])
  /\ err[c] \in {"NotFound", "Internal"} =>
       res[c] \in {"noLogs", "repoErr", "panic"} /\ Valid(req[c])

(* ... in the channel and on the wire it is the chain's code, or tells of  *)
(* the context.                                                            *)
PassedOf(c) ==
  /\ errChan[c] \in Codes => errChan[c] = err[c]
  /\ errChan[c] = CtxError => err[c] = "OK"
  /\ answer[c] \in Codes => answer[c] = err[c]
  /\ answer[c] = "Canceled" => err[c] = "OK"

CodeInv == \A c \in GrpcCalls : CodeOf(c)
PassedInv == \A c \in GrpcCalls : PassedOf(c)

GInv == IInv /\ GTypeOK /\ CodeInv /\ PassedInv

LEMMA CodesOfResults ==
  /\ GrpcCode("ok") = "OK"
  /\ GrpcCode("noLogs") = "NotFound"
  /\ GrpcCode("repoErr") = "Internal"
  /\ GrpcCode("panic") = "Internal"
  BY DEF GrpcCode, AppErrorToGRPCCode, WrapUnknown

LEMMA InitGInv == GInit => GInv
<1> SUFFICES ASSUME GInit PROVE GInv
  OBVIOUS
<1>1. IInv
  BY InitIInv DEF GInit
<1>2. GTypeOK
  BY DEF GInit, GTypeOK, Codes, NoCode
<1>3. CodeInv /\ PassedInv
  BY GrpcAssumption
  DEF GInit, Init, CodeInv, CodeOf, PassedInv, PassedOf, Codes, NoCode, CtxError
<1> QED
  BY <1>1, <1>2, <1>3 DEF GInv

(* A call whose handler has returned has a result with a code of its own.  *)
LEMMA ReturnedCode ==
  ASSUME IInv, NEW c \in GrpcCalls, pc[c] = "ret"
  PROVE  /\ GrpcCode(res[c]) \in Codes
         /\ GrpcCode(res[c]) = "OK" => res[c] = "ok"
         /\ GrpcCode(res[c]) # "InvalidArgument"
         /\ GrpcCode(res[c]) # "OK" => res[c] \in {"noLogs", "repoErr", "panic"}
<1>1. res[c] \in {"ok", "noLogs", "repoErr", "panic"}
  BY GrpcAssumption DEF IInv, TypeOK, StepInv, StepOf
<1> QED
  BY <1>1, CodesOfResults DEF Codes

LEMMA GTypeStep == IInv /\ GTypeOK /\ CodeInv /\ [GNext]_grpcVars => GTypeOK'
<1> SUFFICES ASSUME IInv, GTypeOK, CodeInv, [GNext]_grpcVars PROVE GTypeOK'
  OBVIOUS
<1> USE DEF GTypeOK, gvars
<1>1. ASSUME NEW c \in GrpcCalls, Arrive(c) \/ Accept(c) \/ Handle(c) PROVE GTypeOK'
  BY <1>1 DEF Arrive, Accept, Handle
<1>2. ASSUME NEW c \in GrpcCalls, Reject(c) PROVE GTypeOK'
  BY <1>2 DEF Reject, ChainEnds, Codes
<1>3. ASSUME NEW c \in GrpcCalls, HandlerReturns(c) PROVE GTypeOK'
  <2>1. GrpcCode(res[c]) \in Codes
    BY <1>3, ReturnedCode DEF HandlerReturns
  <2> QED
    BY <1>3, <2>1 DEF HandlerReturns, ChainEnds
<1>4. ASSUME NEW c \in GrpcCalls, WorkerSends(c) PROVE GTypeOK'
  <2>1. err[c] \in Codes
    BY <1>4 DEF WorkerSends, CodeInv, CodeOf
  <2>2. WithTimeout(err[c], ctx[c]) \in Codes \cup {CtxError}
    BY <2>1 DEF WithTimeout
  <2> QED
    BY <1>4, <2>2 DEF WorkerSends
<1>5. ASSUME NEW c \in GrpcCalls, SelectDone(c) PROVE GTypeOK'
  BY <1>5 DEF SelectDone, Answer, WireCode, LogCode, CtxError
<1>6. ASSUME NEW c \in GrpcCalls, SelectErr(c) PROVE GTypeOK'
  <2>1. errChan[c] \in Codes \cup {CtxError}
    BY <1>6 DEF SelectErr
  <2>2. WireCode(errChan[c]) \in Codes \cup {"Canceled"} /\ LogCode(errChan[c]) \in Codes
    BY <2>1 DEF WireCode, LogCode, Codes
  <2> QED
    BY <1>6, <2>2 DEF SelectErr, Answer
<1>7. CASE External /\ UNCHANGED gvars
  BY <1>7
<1>8. ASSUME NEW c \in GrpcCalls, NEW how \in CtxEndings, GCtxEnds(c, how) PROVE GTypeOK'
  BY <1>8 DEF GCtxEnds
<1>9. CASE GExit
  BY <1>9 DEF GExit, GoroutinesDie
<1>10. CASE GAtRest \/ UNCHANGED grpcVars
  BY <1>10 DEF GAtRest, grpcVars
<1>11. ASSUME NEW c \in Calls \ GrpcCalls, Elsewhere(c) PROVE GTypeOK'
  BY <1>11 DEF Elsewhere
<1> QED
  BY <1>1, <1>2, <1>3, <1>4, <1>5, <1>6, <1>7, <1>8, <1>9, <1>10, <1>11 DEF GNext, GStep

(* An idle call is begun by Accept alone.                                  *)
LEMMA IdleKept ==
  ASSUME IInv, GTypeOK, [GNext]_grpcVars, NEW d \in GrpcCalls,
         pc[d] = "idle", ~ Accept(d)
  PROVE  pc'[d] = "idle"
<1>0. /\ GrpcCalls \subseteq Calls /\ d \in Calls /\ TypeOK
      /\ pc \in [Calls -> {"idle"} \cup Running \cup Ended]
  BY GrpcAssumption DEF IInv, TypeOK
<1>1. ASSUME NEW c \in GrpcCalls, Accept(c) PROVE pc'[d] = "idle"
  BY <1>0, <1>1 DEF Accept, Begin, Goto
<1>2. ASSUME NEW c \in GrpcCalls, Handle(c) PROVE pc'[d] = "idle"
  BY <1>0, <1>2, IdleThrough DEF Handle
<1>3. ASSUME NEW c \in GrpcCalls,
             \/ Arrive(c) \/ Reject(c) \/ HandlerReturns(c) \/ WorkerSends(c)
             \/ SelectDone(c) \/ SelectErr(c)
      PROVE  pc' = pc
  BY <1>3 DEF Arrive, Reject, HandlerReturns, WorkerSends, SelectDone, SelectErr, vars
<1>4. ASSUME NEW c \in GrpcCalls, NEW how \in CtxEndings, GCtxEnds(c, how)
      PROVE  pc'[d] = "idle"
  BY <1>0, <1>4, IdleThrough DEF GCtxEnds
<1>5. CASE External \/ GExit \/ GAtRest \/ UNCHANGED grpcVars
  BY <1>0, <1>5, IdleThrough DEF GExit, GAtRest, grpcVars
<1>6. ASSUME NEW c \in Calls \ GrpcCalls, Elsewhere(c) PROVE pc'[d] = "idle"
  <2>1. CASE Begin(c)
    BY <1>0, <1>6, <2>1 DEF Begin, Goto
  <2>2. CASE UseCaseStep(c) \/ \E how \in CtxEndings : CtxEnds(c, how)
    BY <1>0, <2>2, IdleThrough
  <2> QED
    BY <1>6, <2>1, <2>2 DEF Elsewhere
<1> QED
  BY <1>1, <1>2, <1>3, <1>4, <1>5, <1>6 DEF GNext, GStep

LEMMA CodeStep == IInv /\ GTypeOK /\ CodeInv /\ [GNext]_grpcVars => CodeInv'
<1> SUFFICES ASSUME IInv, GTypeOK, CodeInv, [GNext]_grpcVars, NEW d \in GrpcCalls
             PROVE  CodeOf(d)'
  BY DEF CodeInv
<1>0. /\ d \in Calls /\ [Next]_vars /\ CodeOf(d)
      /\ Valid(req[d])' <=> Valid(req[d])
      /\ res[d] # "none" => res'[d] = res[d]
      /\ ~ Valid(req[d]) => pc'[d] = "idle"
  <2>1. d \in Calls /\ [Next]_vars /\ CodeOf(d)
    BY GrpcAssumption, ServerStep DEF IInv, CodeInv
  <2>2. Valid(req[d])' <=> Valid(req[d])
    BY <2>1, RequestsFixed
  <2>3. res[d] # "none" => res'[d] = res[d]
    BY <2>1, ResultKept DEF IInv
  <2>4. ASSUME ~ Valid(req[d]) PROVE pc'[d] = "idle"
    BY <2>1, <2>4, IdleKept DEF CodeOf, Accept
  <2> QED
    BY <2>1, <2>2, <2>3, <2>4
<1> USE <1>0 DEF CodeOf, GTypeOK, gvars
<1>1. CASE chain' = chain /\ err' = err /\ (rpc'[d] = "new" => rpc[d] = "new")
  BY <1>1
<1>2. ASSUME NEW c \in GrpcCalls, Arrive(c) \/ Accept(c) PROVE CodeOf(d)'
  <2>1. CASE Arrive(c)
    BY <2>1 DEF Arrive, CodeInv
  <2>2. CASE Accept(c)
    BY <2>2 DEF Accept, CodeInv
  <2> QED
    BY <1>2, <2>1, <2>2
<1>3. ASSUME NEW c \in GrpcCalls, Reject(c) PROVE CodeOf(d)'
  BY <1>3 DEF Reject, ChainEnds, NoCode
<1>4. ASSUME NEW c \in GrpcCalls, HandlerReturns(c) PROVE CodeOf(d)'
  <2>1. CASE c = d
    <3>1. /\ GrpcCode(res[d]) \in Codes
          /\ GrpcCode(res[d]) = "OK" => res[d] = "ok"
          /\ GrpcCode(res[d]) # "InvalidArgument"
          /\ GrpcCode(res[d]) # "OK" => res[d] \in {"noLogs", "repoErr", "panic"}
      BY <1>4, <2>1, ReturnedCode DEF HandlerReturns
    <3>2. err'[d] = GrpcCode(res[d]) /\ chain'[d] = "closed" /\ res' = res
      BY <1>4, <2>1 DEF HandlerReturns, ChainEnds, vars
    <3>3. Valid(req[d]) /\ rpc'[d] # "new"
      BY <1>4, <2>1 DEF HandlerReturns
    <3>4. /\ res'[d] = res[d] /\ Valid(req[d])'
          /\ err'[d] \in Codes /\ err'[d] # NoCode /\ err'[d] # "InvalidArgument"
          /\ err'[d] = "OK" => res[d] = "ok"
          /\ err'[d] # "OK" => res[d] \in {"noLogs", "repoErr", "panic"}
      BY <3>1, <3>2, <3>3 DEF Codes, NoCode
    <3> QED
      BY <3>2, <3>3, <3>4
  <2>2. CASE c # d
    BY <1>4, <2>2 DEF HandlerReturns, ChainEnds
  <2> QED
    BY <2>1, <2>2
<1>5. ASSUME NEW c \in GrpcCalls,
             Handle(c) \/ WorkerSends(c) \/ SelectDone(c) \/ SelectErr(c)
      PROVE  chain' = chain /\ err' = err /\ (rpc'[d] = "new" => rpc[d] = "new")
  BY <1>5 DEF Handle, WorkerSends, SelectDone, SelectErr, Answer
<1>6. ASSUME NEW c \in GrpcCalls, NEW how \in CtxEndings, GCtxEnds(c, how)
      PROVE  chain' = chain /\ err' = err /\ (rpc'[d] = "new" => rpc[d] = "new")
  BY <1>6 DEF GCtxEnds
<1>7. CASE GExit
  BY <1>7 DEF GExit, GoroutinesDie
<1>8. CASE (External /\ UNCHANGED gvars) \/ GAtRest \/ UNCHANGED grpcVars
  BY <1>1, <1>8 DEF GAtRest, grpcVars
<1>9. ASSUME NEW c \in Calls \ GrpcCalls, Elsewhere(c)
      PROVE  chain' = chain /\ err' = err /\ (rpc'[d] = "new" => rpc[d] = "new")
  BY <1>9 DEF Elsewhere
<1> QED
  BY <1>1, <1>2, <1>3, <1>4, <1>5, <1>6, <1>7, <1>8, <1>9 DEF GNext, GStep

LEMMA PassedStep == GTypeOK /\ CodeInv /\ PassedInv /\ [GNext]_grpcVars => PassedInv'
<1> SUFFICES ASSUME GTypeOK, CodeInv, PassedInv, [GNext]_grpcVars, NEW d \in GrpcCalls
             PROVE  PassedOf(d)'
  BY DEF PassedInv
<1>0. PassedOf(d) /\ CodeOf(d)
  BY DEF PassedInv, CodeInv
<1> USE <1>0 DEF PassedOf, CodeOf, GTypeOK, gvars
<1>1. CASE err' = err /\ errChan' = errChan /\ answer' = answer
  BY <1>1
<1>2. ASSUME NEW c \in GrpcCalls, Reject(c) \/ HandlerReturns(c) PROVE PassedOf(d)'
  <2>1. errChan' = errChan /\ answer' = answer
    BY <1>2 DEF Reject, HandlerReturns
  <2>2. CASE c = d
    <3>1. err[d] = NoCode
      BY <1>2, <2>2 DEF Reject, HandlerReturns
    <3>2. errChan[d] \notin Codes \cup {CtxError} /\ answer[d] \notin Codes \cup {"Canceled"}
      BY <3>1 DEF Codes, NoCode
    <3> QED
      BY <2>1, <3>2
  <2>3. CASE c # d
    BY <1>2, <2>1, <2>3 DEF Reject, HandlerReturns, ChainEnds
  <2> QED
    BY <2>2, <2>3
<1>3. ASSUME NEW c \in GrpcCalls, WorkerSends(c) PROVE PassedOf(d)'
  <2>1. /\ err' = err /\ answer' = answer
        /\ errChan' = [errChan EXCEPT ![c] = WithTimeout(err[c], ctx[c])]
    BY <1>3 DEF WorkerSends
  <2>2. CASE c = d
    <3>1. errChan'[d] = err[d] \/ (errChan'[d] = CtxError /\ err[d] = "OK")
      BY <2>1, <2>2 DEF WithTimeout
    <3>2. CtxError \notin Codes
      BY DEF Codes, CtxError
    <3>3. err[d] # CtxError
      BY DEF Codes, NoCode, CtxError
    <3> QED
      BY <2>1, <3>1, <3>2, <3>3
  <2>3. CASE c # d
    BY <2>1, <2>3
  <2> QED
    BY <2>2, <2>3
<1>4. ASSUME NEW c \in GrpcCalls, SelectDone(c) PROVE PassedOf(d)'
  BY <1>4 DEF SelectDone, Answer, WireCode, Codes, CtxError
<1>5. ASSUME NEW c \in GrpcCalls, SelectErr(c) PROVE PassedOf(d)'
  BY <1>5 DEF SelectErr, Answer, WireCode, Codes, CtxError
<1>6. ASSUME NEW c \in GrpcCalls, Arrive(c) \/ Accept(c) \/ Handle(c)
      PROVE  err' = err /\ errChan' = errChan /\ answer' = answer
  BY <1>6 DEF Arrive, Accept, Handle
<1>7. ASSUME NEW c \in GrpcCalls, NEW how \in CtxEndings, GCtxEnds(c, how)
      PROVE  err' = err /\ errChan' = errChan /\ answer' = answer
  BY <1>7 DEF GCtxEnds
<1>8. CASE (External /\ UNCHANGED gvars) \/ GExit \/ GAtRest \/ UNCHANGED grpcVars
  BY <1>1, <1>8 DEF GExit, GoroutinesDie, GAtRest, grpcVars
<1>9. ASSUME NEW c \in Calls \ GrpcCalls, Elsewhere(c)
      PROVE  err' = err /\ errChan' = errChan /\ answer' = answer
  BY <1>9 DEF Elsewhere
<1> QED
  BY <1>1, <1>2, <1>3, <1>4, <1>5, <1>6, <1>7, <1>8, <1>9 DEF GNext, GStep

LEMMA GInvStep == GInv /\ [GNext]_grpcVars => GInv'
<1> SUFFICES ASSUME GInv, [GNext]_grpcVars PROVE GInv'
  OBVIOUS
<1>1. IInv'
  BY ServerStep, IInvStep DEF GInv, IInv
<1>2. GTypeOK' /\ CodeInv' /\ PassedInv'
  BY GTypeStep, CodeStep, PassedStep DEF GInv
<1> QED
  BY <1>1, <1>2 DEF GInv

(* The code in the channel and on the wire is the chain's own, and tells   *)
(* what became of the call there.                                          *)
THEOREM GrpcCodes == GSpec => []GInv
<1> QED
  BY InitGInv, GInvStep, PTL DEF GSpec

(* Every variable of the server keeps to the values of its kind, for any   *)
(* number of calls.                                                        *)
THEOREM GrpcTypeCorrect == GSpec => []GTypeOK
<1>1. GInv => GTypeOK
  BY DEF GInv
<1> QED
  BY <1>1, GrpcCodes, PTL

(* A client that reads OK has what it asked for: its row is in the logs    *)
(* table, or its page of logs is not empty.                                *)
THEOREM OkReal == GSpec => []OkIsReal
<1>1. GInv => OkIsReal
  <2> SUFFICES ASSUME GInv, NEW c \in GrpcCalls, answer[c] = "OK"
               PROVE  /\ res[c] = "ok" /\ Valid(req[c])
                      /\ IsSend(c) => Row(c) \in rows
                      /\ IsGet(c) => page[c] # {}
    BY DEF OkIsReal
  <2>1. err[c] = "OK"
    BY DEF GInv, PassedInv, PassedOf, Codes
  <2>2. res[c] = "ok" /\ Valid(req[c])
    BY <2>1 DEF GInv, CodeInv, CodeOf
  <2>3. IsSend(c) => Row(c) \in rows
    BY <2>2, GrpcAssumption DEF GInv, IInv, StepInv, StepOf, RowInv
  <2>4. IsGet(c) => page[c] # {}
    BY <2>2, GrpcAssumption DEF GInv, IInv, ResultInv, ResultOf
  <2> QED
    BY <2>2, <2>3, <2>4
<1> QED
  BY <1>1, GrpcCodes, PTL

LEMMA RefusedFromInv == GInv => RefusedIsSilent
<1> SUFFICES ASSUME GInv, NEW c \in GrpcCalls
             PROVE  /\ answer[c] \in {"InvalidArgument", "NotFound", "Internal"}
                         /\ res[c] # "panic"
                       => ~ Carried(c) /\ esSent[c] = 0
                    /\ ~ Valid(req[c]) =>
                         /\ answer[c] \in {NoCode, "InvalidArgument", "DeadlineExceeded"}
                         /\ stmt[c] = "none" /\ StoredRows(c) = {}
  BY DEF RefusedIsSilent
<1>0. /\ c \in Calls /\ IInv /\ CodeOf(c) /\ PassedOf(c)
      /\ answer[c] \in Codes \cup {NoCode, "DeadlineExceeded", "Canceled"}
  BY GrpcAssumption DEF GInv, CodeInv, PassedInv, GTypeOK
<1>1. ASSUME ~ Valid(req[c]) PROVE stmt[c] = "none"
  BY <1>0, <1>1 DEF CodeOf, IInv, StepInv, StepOf
<1>2. ASSUME answer[c] = "InvalidArgument" PROVE ~ Carried(c) /\ esSent[c] = 0
  <2>1. ~ Valid(req[c])
    BY <1>0, <1>2 DEF PassedOf, CodeOf, Codes
  <2> QED
    BY <1>0, <1>1, <2>1, UnappliedIsSilent
<1>3. ASSUME answer[c] \in {"NotFound", "Internal"}, res[c] # "panic"
      PROVE  ~ Carried(c) /\ esSent[c] = 0
  <2>1. res[c] \in {"noLogs", "repoErr"}
    BY <1>0, <1>3 DEF PassedOf, CodeOf, Codes
  <2> QED
    BY <1>0, <2>1, FailedCallIsSilent
<1>4. ASSUME ~ Valid(req[c])
      PROVE  /\ answer[c] \in {NoCode, "InvalidArgument", "DeadlineExceeded"}
             /\ stmt[c] = "none" /\ StoredRows(c) = {}
  <2>1. answer[c] \in {NoCode, "InvalidArgument", "DeadlineExceeded"}
    BY <1>0, <1>4 DEF PassedOf, CodeOf, Codes, NoCode
  <2> QED
    BY <1>0, <1>1, <1>4, <2>1, UnappliedIsSilent
<1> QED
  BY <1>2, <1>3, <1>4

(* A refused call stays unheard of: after InvalidArgument, NotFound or,    *)
(* without a panic, Internal, its entry is neither on logs.send nor on its *)
(* way to the index, and an invalid one never had an INSERT.               *)
THEOREM RefusedSilent == GSpec => []RefusedIsSilent
<1> QED
  BY RefusedFromInv, GrpcCodes, PTL

-----------------------------------------------------------------------------
(* The access log.                                                         *)

(* Unless the client hung up, what is logged is what is answered, and no   *)
(* context error is in the channel.                                        *)
LoggedOf(c) ==
  ctx[c] = "cancelled" \/ (logged[c] = answer[c] /\ errChan[c] # CtxError)

LoggedInv == \A c \in GrpcCalls : LoggedOf(c)

LEMMA LoggedStep == GInv /\ LoggedInv /\ [GNext]_grpcVars => LoggedInv'
<1> SUFFICES ASSUME GInv, LoggedInv, [GNext]_grpcVars, NEW d \in GrpcCalls
             PROVE  LoggedOf(d)'
  BY DEF LoggedInv
<1>0. /\ LoggedOf(d) /\ GTypeOK
      /\ ctx[d] = "cancelled" => ctx'[d] = "cancelled"
  BY GrpcAssumption, ServerStep, CancelledKept DEF GInv, IInv, LoggedInv
<1> USE <1>0 DEF LoggedOf, GTypeOK, gvars
<1>1. CASE errChan' = errChan /\ answer' = answer /\ logged' = logged
  BY <1>1
<1>2. ASSUME NEW c \in GrpcCalls, WorkerSends(c) PROVE LoggedOf(d)'
  <2>1. /\ answer' = answer /\ logged' = logged
        /\ errChan' = [errChan EXCEPT ![c] = WithTimeout(err[c], ctx[c])]
        /\ err[c] # NoCode
    BY <1>2 DEF WorkerSends, GInv, CodeInv, CodeOf
  <2>2. ctx[c] = "cancelled" \/ WithTimeout(err[c], ctx[c]) # CtxError
    BY <2>1 DEF WithTimeout, Codes, CtxError
  <2> QED
    BY <2>1, <2>2
<1>3. ASSUME NEW c \in GrpcCalls, SelectDone(c) PROVE LoggedOf(d)'
  BY <1>3 DEF SelectDone, Answer, WireCode, LogCode, CtxError
<1>4. ASSUME NEW c \in GrpcCalls, SelectErr(c) PROVE LoggedOf(d)'
  BY <1>4 DEF SelectErr, Answer, WireCode, LogCode, CtxError
<1>5. ASSUME NEW c \in GrpcCalls,
             Arrive(c) \/ Reject(c) \/ Accept(c) \/ Handle(c) \/ HandlerReturns(c)
      PROVE  errChan' = errChan /\ answer' = answer /\ logged' = logged
  BY <1>5 DEF Arrive, Reject, Accept, Handle, HandlerReturns
<1>6. ASSUME NEW c \in GrpcCalls, NEW how \in CtxEndings, GCtxEnds(c, how)
      PROVE  errChan' = errChan /\ answer' = answer /\ logged' = logged
  BY <1>6 DEF GCtxEnds
<1>7. CASE (External /\ UNCHANGED gvars) \/ GExit \/ GAtRest \/ UNCHANGED grpcVars
  BY <1>1, <1>7 DEF GExit, GoroutinesDie, GAtRest, grpcVars
<1>8. ASSUME NEW c \in Calls \ GrpcCalls, Elsewhere(c)
      PROVE  errChan' = errChan /\ answer' = answer /\ logged' = logged
  BY <1>8 DEF Elsewhere
<1> QED
  BY <1>1, <1>2, <1>3, <1>4, <1>5, <1>6, <1>7, <1>8 DEF GNext, GStep

(* The access log and the wire tell the same of a call, unless its client  *)
(* has hung up and nobody reads the wire.                                  *)
THEOREM LoggedAnswered == GSpec => []LoggedIsAnswered
<1>1. GInit => LoggedInv
  BY DEF GInit, LoggedInv, LoggedOf, NoCode, CtxError
<1>2. LoggedInv => LoggedIsAnswered
  BY DEF LoggedInv, LoggedOf, LoggedIsAnswered
<1> QED
  BY <1>1, <1>2, LoggedStep, GrpcCodes, PTL DEF GSpec

-----------------------------------------------------------------------------
(* The goroutines of a call.                                               *)

(* Before the call has arrived there is nothing in its channel.            *)
WaitInv ==
  NobodyWaitsInVain /\ \A c \in GrpcCalls : rpc[c] = "new" => errChan[c] = "empty"

(* The use case keeps a call, or returns it to the handler.                *)
LEMMA StaysOrReturns ==
  ASSUME TypeOK, NEW c \in Calls, UseCaseStep(c)
  PROVE  /\ pc'[c] \in Running \cup {"ret"}
         /\ \A d \in Calls \ {c} : pc'[d] = pc[d]
<1>1. pc \in [Calls -> {"idle"} \cup Running \cup Ended]
  BY DEF TypeOK
<1>2. \/ UNCHANGED pc /\ pc[c] \in Running
      \/ \E l \in Running \cup {"ret"} : Goto(c, l)
  BY DEF UseCaseStep, SendLog, GetLogs, SendInsert, InsertNotSent, InsertOk, InsertFails,
     Publish, IndexLog, IndexReturns, Query, QueryFails, Panic, Return, Running, callVars
<1> QED
  BY <1>1, <1>2 DEF Goto

LEMMA WaitStep == GInv /\ WaitInv /\ [GNext]_grpcVars => WaitInv'
<1> SUFFICES ASSUME GInv, WaitInv, [GNext]_grpcVars PROVE WaitInv'
  OBVIOUS
<1>0. GrpcCalls \subseteq Calls /\ TypeOK
      /\ pc \in [Calls -> {"idle"} \cup Running \cup Ended]
  BY GrpcAssumption DEF GInv, IInv, TypeOK
<1> USE <1>0 DEF GInv, GTypeOK, WaitInv, NobodyWaitsInVain, gvars
<1>1. ASSUME NEW c \in GrpcCalls, Arrive(c) PROVE WaitInv'
  BY <1>1 DEF Arrive, vars
<1>2. ASSUME NEW c \in GrpcCalls, Reject(c) \/ HandlerReturns(c) PROVE WaitInv'
  BY <1>2 DEF Reject, HandlerReturns, ChainEnds, vars
<1>3. ASSUME NEW c \in GrpcCalls, Accept(c) PROVE WaitInv'
  BY <1>3 DEF Accept, Begin, Goto, Running
<1>4. ASSUME NEW c \in GrpcCalls, Handle(c) PROVE WaitInv'
  BY <1>4, StaysOrReturns DEF Handle
<1>5. ASSUME NEW c \in GrpcCalls, WorkerSends(c) PROVE WaitInv'
  <2>1. WithTimeout(err[c], ctx[c]) # "empty" /\ rpc[c] # "new"
    BY <1>5 DEF WorkerSends, WithTimeout, CodeInv, CodeOf, Codes, NoCode, CtxError
  <2> QED
    BY <1>5, <2>1 DEF WorkerSends, vars
<1>6. ASSUME NEW c \in GrpcCalls, SelectDone(c) \/ SelectErr(c) PROVE WaitInv'
  BY <1>6 DEF SelectDone, SelectErr, Answer, vars
<1>7. ASSUME NEW c \in GrpcCalls, NEW how \in CtxEndings, GCtxEnds(c, how) PROVE WaitInv'
  BY <1>7 DEF GCtxEnds, CtxEnds
<1>8. ASSUME NEW c \in Calls \ GrpcCalls, Elsewhere(c) PROVE WaitInv'
  <2>1. \A d \in GrpcCalls : pc'[d] = pc[d]
    BY <1>8, StaysOrReturns DEF Elsewhere, Begin, Goto, CtxEnds
  <2> QED
    BY <1>8, <2>1 DEF Elsewhere
<1>9. CASE External /\ UNCHANGED gvars
  BY <1>9 DEF External, DbApply, DbReject, EsIngest, NatsFlush, NatsDrop, callVars
<1>10. CASE GExit
  BY <1>10 DEF GExit, GoroutinesDie
<1>11. CASE GAtRest \/ UNCHANGED grpcVars
  BY <1>11 DEF GAtRest, grpcVars, vars
<1> QED
  BY <1>1, <1>2, <1>3, <1>4, <1>5, <1>6, <1>7, <1>8, <1>9, <1>10, <1>11 DEF GNext, GStep

(* A waiting goroutine waits for one that is on its way: for any number of  *)
(* calls, in any order of worker, timer, handler and exit.                 *)
THEOREM NobodyInVain == GSpec => []NobodyWaitsInVain
<1>1. GInit => WaitInv
  BY DEF GInit, WaitInv, NobodyWaitsInVain
<1>2. WaitInv => NobodyWaitsInVain
  BY DEF WaitInv
<1> QED
  BY <1>1, <1>2, WaitStep, GrpcCodes, PTL DEF GSpec
=============================================================================
