-------------------------- MODULE LogServer_proofs --------------------------
(***************************************************************************)
(* Both servers run in one process over one use case, so what holds of     *)
(* each holds of them together; and what a client is told, whichever       *)
(* interface it uses, keeps the contract.                                  *)
(***************************************************************************)
EXTENDS LogServer, GrpcServer_proofs, RestServer_proofs, LogUseCase_refines

(* What an exit with nothing to end leaves as it is.                       *)
LEMMA IdleExit ==
  ASSUME TypeOK, buf = <<>>, ~ \E c \in Calls : pc[c] \in Running, Kill
  PROVE  UNCHANGED vars
  BY DEF Kill, TypeOK, vars, dbVars, esVars

(* Seen from the gRPC server, a REST request is a call served elsewhere.   *)
LEMMA GrpcView == TypeOK /\ GTypeOK /\ [SNext]_serverVars => [GNext]_grpcVars
<1> SUFFICES ASSUME TypeOK, GTypeOK, [SNext]_serverVars PROVE GNext \/ UNCHANGED grpcVars
  OBVIOUS
<1>1. ASSUME NEW c \in Calls, SArrive(c) PROVE GNext \/ UNCHANGED grpcVars
  <2>1. CASE c \in GrpcCalls /\ Arrive(c)
    BY <2>1 DEF GNext, GStep
  <2>2. CASE RArrive(c) /\ UNCHANGED gvars
    BY <2>2 DEF RArrive, grpcVars
  <2> QED
    BY <1>1, <2>1, <2>2 DEF SArrive
<1>2. ASSUME NEW c \in GrpcCalls, GrpcSide(c) PROVE GNext
  BY <1>2 DEF GrpcSide, GNext, GStep
<1>3. ASSUME NEW c \in RestCalls, RestSide(c) PROVE GNext \/ UNCHANGED grpcVars
  <2>0. c \in Calls \ GrpcCalls /\ UNCHANGED gvars
    BY <1>3, InterfaceAssumption DEF RestSide
  <2>1. CASE RAccept(c)
    BY <2>0, <2>1 DEF RAccept, ValidRest, Elsewhere, GNext
  <2>2. CASE RHandle(c)
    BY <2>0, <2>2 DEF RHandle, Elsewhere, GNext
  <2>3. CASE \E how \in CtxEndings : RCtxEnds(c, how)
    BY <2>0, <2>3 DEF RCtxEnds, Elsewhere, GNext
  <2>4. CASE RReject(c) \/ Respond(c) \/ Unwind(c) \/ LogRequest(c)
    BY <2>0, <2>4 DEF RReject, Respond, Unwind, LogRequest, grpcVars
  <2> QED
    BY <1>3, <2>1, <2>2, <2>3, <2>4 DEF RestSide
<1>4. CASE External /\ UNCHANGED <<gvars, rvars, seen>>
  BY <1>4 DEF GNext
<1>5. CASE SExit
  <2>1. CASE GBusy \/ buf # <<>> \/ \E c \in Calls : pc[c] \in Running
    BY <1>5, <2>1 DEF SExit, GExit, GNext
  <2>2. CASE ~ (GBusy \/ buf # <<>> \/ \E c \in Calls : pc[c] \in Running)
    <3>1. UNCHANGED vars
      BY <1>5, <2>2, IdleExit DEF SExit
    <3>2. UNCHANGED gvars
      BY <1>5, <2>2 DEF SExit, GoroutinesDie, GBusy, GTypeOK, gvars
    <3> QED
      BY <3>1, <3>2 DEF grpcVars
  <2> QED
    BY <2>1, <2>2
<1>6. CASE SAtRest \/ UNCHANGED serverVars
  BY <1>6 DEF SAtRest, serverVars, grpcVars
<1> QED
  BY <1>1, <1>2, <1>3, <1>4, <1>5, <1>6 DEF SNext

(* ... and a gRPC call is one served elsewhere to the REST server.         *)
LEMMA RestView == TypeOK /\ RTypeOK /\ [SNext]_serverVars => [RNext]_restVars
<1> SUFFICES ASSUME TypeOK, RTypeOK, [SNext]_serverVars PROVE RNext \/ UNCHANGED restVars
  OBVIOUS
<1>1. ASSUME NEW c \in Calls, SArrive(c) PROVE RNext \/ UNCHANGED restVars
  <2>1. CASE c \in RestCalls /\ RArrive(c)
    BY <2>1 DEF RNext, RStep
  <2>2. CASE Arrive(c) /\ UNCHANGED rvars
    BY <2>2 DEF Arrive, restVars
  <2> QED
    BY <1>1, <2>1, <2>2 DEF SArrive
<1>2. ASSUME NEW c \in RestCalls, RestSide(c) PROVE RNext
  BY <1>2 DEF RestSide, RNext, RStep
<1>3. ASSUME NEW c \in GrpcCalls, GrpcSide(c) PROVE RNext \/ UNCHANGED restVars
  <2>0. c \in Calls \ RestCalls /\ UNCHANGED rvars
    BY <1>3, InterfaceAssumption DEF GrpcSide
  <2>1. CASE Accept(c)
    BY <2>0, <2>1 DEF Accept, RElsewhere, RNext
  <2>2. CASE Handle(c)
    BY <2>0, <2>2 DEF Handle, RElsewhere, RNext
  <2>3. CASE \E how \in CtxEndings : GCtxEnds(c, how)
    BY <2>0, <2>3 DEF GCtxEnds, RElsewhere, RNext
  <2>4. CASE \/ Reject(c) \/ HandlerReturns(c) \/ WorkerSends(c)
             \/ SelectDone(c) \/ SelectErr(c)
    BY <2>0, <2>4 DEF Reject, HandlerReturns, WorkerSends, SelectDone, SelectErr, restVars
  <2> QED
    BY <1>3, <2>1, <2>2, <2>3, <2>4 DEF GrpcSide
<1>4. CASE External /\ UNCHANGED <<gvars, rvars, seen>>
  BY <1>4 DEF RNext
<1>5. CASE SExit
  <2>1. CASE RBusy \/ buf # <<>> \/ \E c \in Calls : pc[c] \in Running
    BY <1>5, <2>1 DEF SExit, RExit, RNext
  <2>2. CASE ~ (RBusy \/ buf # <<>> \/ \E c \in Calls : pc[c] \in Running)
    <3>1. UNCHANGED vars
      BY <1>5, <2>2, IdleExit DEF SExit
    <3>2. UNCHANGED rvars
      BY <1>5, <2>2 DEF SExit, RequestsDie, RBusy, RTypeOK, rvars
    <3> QED
      BY <3>1, <3>2 DEF restVars
  <2> QED
    BY <2>1, <2>2
<1>6. CASE SAtRest \/ UNCHANGED serverVars
  BY <1>6 DEF SAtRest, serverVars, restVars
<1> QED
  BY <1>1, <1>2, <1>3, <1>4, <1>5, <1>6 DEF SNext

LEMMA BothInv == SSpec => [](GInv /\ RInv)
<1>1. SInit => GInv /\ RInv
  BY InitGInv, InitRInv DEF SInit
<1>2. GInv /\ RInv /\ [SNext]_serverVars => GInv' /\ RInv'
  BY GrpcView, RestView, GInvStep, RInvStep DEF GInv, RInv, IInv
<1> QED
  BY <1>1, <1>2, PTL DEF SSpec

(* The gRPC side of the process is GrpcServer, whatever REST requests do   *)
(* beside it: every theorem about GSpec holds of the process.              *)
THEOREM ServesGrpc == SSpec => GSpec
<1>1. SInit => GInit
  BY DEF SInit
<1>2. GInv /\ RInv /\ [SNext]_serverVars => [GNext]_grpcVars
  BY GrpcView DEF GInv, IInv
<1> QED
  BY <1>1, <1>2, BothInv, PTL DEF SSpec, GSpec

(* The REST side is RestServer, with everything proved of it.              *)
THEOREM ServesRest == SSpec => RSpec
<1>1. SInit => RInit
  BY DEF SInit
<1>2. GInv /\ RInv /\ [SNext]_serverVars => [RNext]_restVars
  BY RestView DEF RInv, IInv
<1> QED
  BY <1>1, <1>2, BothInv, PTL DEF SSpec, RSpec

(* Whatever the use case and either server keep on their own, the process  *)
(* with both of them keeps.                                                *)
THEOREM ProcessKeeps ==
  SSpec =>
    /\ [](AckIsStored /\ HeardIsStored /\ FailedIsSilent /\ PublishedOnce)
    /\ ReadsAcknowledged /\ PagesAreFull
    /\ [](OkIsReal /\ RefusedIsSilent /\ LoggedIsAnswered /\ NobodyWaitsInVain)
    /\ [](OkIsStored /\ ErrorIsSilent /\ ResponseAsLogged)
<1>1. SSpec => Spec
  BY ServesGrpc, GrpcDrivesUseCase, PTL
<1>2. Spec => [](AckIsStored /\ HeardIsStored /\ FailedIsSilent /\ PublishedOnce)
  BY AckStored, HeardStored, FailedSilent, OncePublished, PTL
<1>3. Spec => ReadsAcknowledged /\ PagesAreFull
  BY ReadsAll, PagesFull, PTL
<1>4. GSpec => [](OkIsReal /\ RefusedIsSilent /\ LoggedIsAnswered /\ NobodyWaitsInVain)
  BY OkReal, RefusedSilent, LoggedAnswered, NobodyInVain, PTL
<1>5. RSpec => [](OkIsStored /\ ErrorIsSilent /\ ResponseAsLogged)
  BY OkStored, ErrorSilent, Accounted, PTL
<1> QED
  BY <1>1, <1>2, <1>3, <1>4, <1>5, ServesGrpc, ServesRest, PTL

-----------------------------------------------------------------------------
(* What a client is told, and when.                                        *)

(* A gRPC call has an answer once its RPC's goroutine has sent one, and is *)
(* not begun before it has arrived.                                        *)
AnswerOf(c) ==
  /\ rpc[c] = "answered" <=> answer[c] # NoCode
  /\ rpc[c] = "new" => pc[c] = "idle"

AnswerInv == \A c \in GrpcCalls : AnswerOf(c)

LEMMA AnswerStep == GInv /\ AnswerInv /\ [GNext]_grpcVars => AnswerInv'
<1> SUFFICES ASSUME GInv, AnswerInv, [GNext]_grpcVars, NEW d \in GrpcCalls
             PROVE  AnswerOf(d)'
  BY DEF AnswerInv
<1>0. AnswerOf(d) /\ CodeOf(d) /\ GTypeOK /\ IInv
  BY DEF AnswerInv, GInv, CodeInv
<1>1. rpc[d] = "new" => pc'[d] = "idle"
  <2>1. rpc[d] = "new" => ~ Accept(d)
    BY <1>0 DEF CodeOf, Accept
  <2> QED
    BY <1>0, <2>1, IdleKept DEF AnswerOf
<1>2. rpc'[d] = "new" => rpc[d] = "new"
  <2> USE <1>0 DEF GTypeOK, gvars, grpcVars
  <2>1. ASSUME NEW c \in GrpcCalls, GStep(c) PROVE rpc'[d] = "new" => rpc[d] = "new"
    BY <2>1 DEF GStep, Arrive, Reject, Accept, Handle, HandlerReturns, WorkerSends,
       SelectDone, SelectErr, Answer
  <2>2. ASSUME ~ \E c \in GrpcCalls : GStep(c)
        PROVE  rpc'[d] = "new" => rpc[d] = "new"
    BY <2>2 DEF GNext, GCtxEnds, Elsewhere, GExit, GoroutinesDie, GAtRest
  <2> QED
    BY <2>1, <2>2
<1>3. rpc'[d] = "answered" <=> answer'[d] # NoCode
  <2> USE <1>0 DEF GTypeOK, gvars, grpcVars, AnswerOf
  <2>1. ASSUME NEW c \in GrpcCalls, SelectDone(c) \/ SelectErr(c)
        PROVE  rpc'[d] = "answered" <=> answer'[d] # NoCode
    <3>1. PICK e \in Codes \cup {CtxError, "DeadlineExceeded"} : Answer(c, e)
      BY <2>1 DEF SelectDone, SelectErr
    <3>2. WireCode(e) # NoCode
      BY DEF WireCode, Codes, CtxError, NoCode
    <3> HIDE DEF NoCode
    <3> QED
      BY <3>1, <3>2 DEF Answer
  <2>2. ASSUME NEW c \in GrpcCalls,
               \/ Arrive(c) \/ Reject(c) \/ Accept(c) \/ Handle(c) \/ HandlerReturns(c)
               \/ WorkerSends(c)
        PROVE  rpc'[d] = "answered" <=> answer'[d] # NoCode
    BY <2>2 DEF Arrive, Reject, Accept, Handle, HandlerReturns, WorkerSends
  <2>3. ASSUME ~ \E c \in GrpcCalls : GStep(c)
        PROVE  rpc'[d] = "answered" <=> answer'[d] # NoCode
    BY <2>3 DEF GNext, GCtxEnds, Elsewhere, GExit, GoroutinesDie, GAtRest
  <2> QED
    BY <2>1, <2>2, <2>3 DEF GStep
<1> QED
  BY <1>1, <1>2, <1>3 DEF AnswerOf

(* A status line that is on the wire stays.                                *)
LEMMA WireKept ==
  ASSUME RTypeOK, [RNext]_restVars, NEW d \in RestCalls, wire[d] # 0
  PROVE  wire'[d] = wire[d]
<1> USE DEF RTypeOK, rvars, restVars
<1>1. ASSUME NEW c \in RestCalls, RReject(c) \/ Respond(c) \/ Unwind(c)
      PROVE  wire'[d] = wire[d]
  BY <1>1 DEF RReject, Respond, Unwind, JSON
<1>2. ASSUME NEW c \in RestCalls, RArrive(c) \/ RAccept(c) \/ RHandle(c) \/ LogRequest(c)
      PROVE  wire'[d] = wire[d]
  BY <1>2 DEF RArrive, RAccept, RHandle, LogRequest
<1>3. ASSUME ~ \E c \in RestCalls : RStep(c) PROVE wire'[d] = wire[d]
  BY <1>3 DEF RNext, RCtxEnds, RElsewhere, RExit, RequestsDie, RAtRest
<1> QED
  BY <1>1, <1>2, <1>3 DEF RStep

(* So does an answer, ...                                                  *)
LEMMA AnsweredKept ==
  ASSUME GTypeOK, [GNext]_grpcVars, NEW d \in GrpcCalls,
         rpc[d] \in {"answered", "killed"}
  PROVE  rpc'[d] = rpc[d] /\ answer'[d] = answer[d]
<1> USE DEF GTypeOK, gvars, grpcVars
<1>1. ASSUME NEW c \in GrpcCalls, GStep(c)
      PROVE  rpc'[d] = rpc[d] /\ answer'[d] = answer[d]
  BY <1>1 DEF GStep, Arrive, Reject, Accept, Handle, HandlerReturns, WorkerSends,
     SelectDone, SelectErr, Answer
<1>2. ASSUME ~ \E c \in GrpcCalls : GStep(c)
      PROVE  rpc'[d] = rpc[d] /\ answer'[d] = answer[d]
  BY <1>2 DEF GNext, GCtxEnds, Elsewhere, GExit, GoroutinesDie, GAtRest
<1> QED
  BY <1>1, <1>2

(* ... and the end of a request that had none.                             *)
LEMMA KilledKept ==
  ASSUME RTypeOK, [RNext]_restVars, NEW d \in RestCalls, web[d] = "killed"
  PROVE  wire'[d] = wire[d] /\ web'[d] = web[d]
<1> USE DEF RTypeOK, rvars, restVars
<1>1. ASSUME NEW c \in RestCalls, RReject(c) \/ Respond(c) \/ Unwind(c)
      PROVE  wire'[d] = wire[d] /\ web'[d] = web[d]
  BY <1>1 DEF RReject, Respond, Unwind, JSON
<1>2. ASSUME NEW c \in RestCalls, RArrive(c) \/ RAccept(c) \/ RHandle(c) \/ LogRequest(c)
      PROVE  wire'[d] = wire[d] /\ web'[d] = web[d]
  BY <1>2 DEF RArrive, RAccept, RHandle, LogRequest
<1>3. ASSUME ~ \E c \in RestCalls : RStep(c)
      PROVE  wire'[d] = wire[d] /\ web'[d] = web[d]
  BY <1>3 DEF RNext, RCtxEnds, RElsewhere, RExit, RequestsDie, RAtRest, InChain
<1> QED
  BY <1>1, <1>2, <1>3 DEF RStep

(* A success is the use case's own.                                        *)
LEMMA ToldOk ==
  ASSUME GInv, RInv, NEW c \in Calls, Told(c) = "ok"
  PROVE  res[c] = "ok"
<1>1. CASE c \in GrpcCalls
  BY <1>1 DEF Told, GrpcTold, GInv, PassedInv, PassedOf, CodeInv, CodeOf, Codes
<1>2. CASE c \notin GrpcCalls
  BY <1>2, InterfaceAssumption DEF Told, RestTold, RInv, WireInv, WireOf
<1> QED
  BY <1>1, <1>2

(* Who is told of an error is not heard of.                                *)
LEMMA ToldError ==
  ASSUME GInv, RInv, NEW c \in Calls, Told(c) = "error"
  PROVE  ~ Carried(c) /\ esSent[c] = 0
<1>1. CASE c \in GrpcCalls
  BY <1>1, RefusedFromInv DEF Told, GrpcTold, RefusedIsSilent
<1>2. CASE c \notin GrpcCalls
  BY <1>2, InterfaceAssumption, ErrorFromInv DEF Told, RestTold, ErrorIsSilent
<1> QED
  BY <1>1, <1>2

(* The result of a call with an answer is settled.                         *)
LEMMA AnsweredResult ==
  ASSUME GInv, RInv, AnswerInv, [SNext]_serverVars, NEW c \in Calls,
         c \in GrpcCalls => answer[c] \in Codes,
         c \notin GrpcCalls => wire[c] # 0
  PROVE  (res[c] = "panic")' <=> (res[c] = "panic")
<1>0. /\ IInv /\ GTypeOK /\ RTypeOK /\ TypeOK /\ [Next]_vars
      /\ [GNext]_grpcVars /\ [RNext]_restVars
  BY GrpcView, RestView, ServerStep DEF GInv, RInv, IInv
<1>1. res[c] # "none" => res'[c] = res[c]
  BY <1>0, ResultKept DEF IInv
<1>2. ASSUME res[c] = "none" PROVE res'[c] # "panic"
  <2>1. ASSUME pc'[c] = "idle" PROVE res'[c] # "panic"
    <3>1. IInv'
      BY <1>0, IInvStep
    <3> QED
      BY <2>1, <3>1 DEF IInv, StepInv, StepOf
  <2>2. CASE c \in GrpcCalls
    <3>1. CodeOf(c) /\ PassedOf(c) /\ CodeOf(c)'
      BY <1>0, <2>2, CodeStep DEF GInv, CodeInv, PassedInv
    <3>2. ~ Valid(req[c])
      BY <1>2, <2>2, <3>1 DEF PassedOf, CodeOf, Codes
    <3>3. ~ Valid(req[c])'
      BY <1>0, <3>2, RequestsFixed
    <3> QED
      BY <2>1, <3>1, <3>3 DEF CodeOf
  <2>3. CASE c \notin GrpcCalls
    <3>0. c \in RestCalls
      BY <2>3, InterfaceAssumption
    <3>1. wire[c] = 400 /\ WireOf(c)'
      BY <1>0, <1>2, <2>3, <3>0, WireStep DEF RInv, WireInv, WireOf
    <3>2. wire'[c] = 400
      BY <1>0, <3>0, <3>1, WireKept
    <3> QED
      BY <2>1, <3>1, <3>2 DEF WireOf
  <2> QED
    BY <2>2, <2>3
<1> QED
  BY <1>1, <1>2

(* What a step does to what one client is told: nothing, or it ends the    *)
(* waiting.                                                                *)
LEMMA ToldOnce ==
  ASSUME GInv, RInv, AnswerInv, [SNext]_serverVars, NEW c \in Calls,
         Told(c) # "pending"
  PROVE  Told(c)' = Told(c)
<1>0. /\ IInv /\ GTypeOK /\ RTypeOK /\ TypeOK
      /\ [GNext]_grpcVars /\ [RNext]_restVars
  BY GrpcView, RestView DEF GInv, RInv, IInv
<1>1. CASE c \in GrpcCalls
  <2>1. rpc[c] \in {"answered", "killed"}
    BY <1>1 DEF Told, GrpcTold, AnswerInv, AnswerOf, GInv, GTypeOK
  <2>2. rpc'[c] = rpc[c] /\ answer'[c] = answer[c]
    BY <1>0, <1>1, <2>1, AnsweredKept
  <2>3. answer[c] \in Codes => ((res[c] = "panic")' <=> (res[c] = "panic"))
    BY <1>1, AnsweredResult
  <2>4. /\ Told(c) = GrpcTold(c)
        /\ Told(c)' = GrpcTold(c)'
    BY <1>1 DEF Told
  <2> QED
    BY <2>2, <2>3, <2>4 DEF GrpcTold, Codes
<1>2. CASE c \notin GrpcCalls
  <2>0. c \in RestCalls
    BY <1>2, InterfaceAssumption
  <2>1. wire[c] # 0 \/ web[c] = "killed"
    BY <1>2 DEF Told, RestTold
  <2>2. CASE wire[c] # 0
    <3>1. wire'[c] = wire[c]
      BY <1>0, <2>0, <2>2, WireKept
    <3>2. (res[c] = "panic")' <=> (res[c] = "panic")
      BY <1>2, <2>2, AnsweredResult
    <3>3. /\ Told(c) = RestTold(c)
          /\ Told(c)' = RestTold(c)'
      BY <1>2 DEF Told
    <3>4. wire[c] \in {200, 400, 404, 500}
      BY <2>0, <2>2 DEF RInv, WireInv, WireOf
    <3> QED
      BY <3>1, <3>2, <3>3, <3>4 DEF RestTold
  <2>3. CASE wire[c] = 0 /\ web[c] = "killed"
    <3>1. wire'[c] = wire[c] /\ web'[c] = web[c]
      BY <1>0, <2>0, <2>3, KilledKept
    <3> QED
      BY <1>2, <2>3, <3>1 DEF Told, RestTold
  <2> QED
    BY <2>1, <2>2, <2>3
<1> QED
  BY <1>1, <1>2

-----------------------------------------------------------------------------
(* What holds in every reachable state.                                    *)

SInv == GInv /\ RInv /\ AnswerInv

LEMMA SInvStep == SInv /\ [SNext]_serverVars => SInv'
<1> SUFFICES ASSUME SInv, [SNext]_serverVars PROVE SInv'
  OBVIOUS
<1>1. [GNext]_grpcVars /\ [RNext]_restVars
  BY GrpcView, RestView DEF SInv, GInv, RInv, IInv
<1> QED
  BY <1>1, GInvStep, RInvStep, AnswerStep DEF SInv

LEMMA SInvHolds == SSpec => []SInv
<1>1. SInit => SInv
  <2>1. SInit => GInv /\ RInv
    BY InitGInv, InitRInv DEF SInit
  <2>2. SInit => AnswerInv
    BY GrpcAssumption DEF SInit, GInit, Init, AnswerInv, AnswerOf, NoCode
  <2> QED
    BY <2>1, <2>2 DEF SInv
<1> QED
  BY <1>1, SInvStep, PTL DEF SSpec

(* A client is told of a success only for an entry stored by that call;    *)
(* one told of an error is not heard of.                                   *)
LEMMA ToldMeans ==
  SInv => \A c \in Calls :
            /\ Told(c) = "ok" => res[c] = "ok" /\ (IsSend(c) => Row(c) \in rows)
            /\ Told(c) = "error" => \A at : [call |-> c, at |-> at] \notin Heard
<1> SUFFICES ASSUME SInv, NEW c \in Calls
             PROVE  /\ Told(c) = "ok" => res[c] = "ok" /\ (IsSend(c) => Row(c) \in rows)
                    /\ Told(c) = "error" => \A at : [call |-> c, at |-> at] \notin Heard
  OBVIOUS
<1>0. GInv /\ RInv /\ IInv
  BY DEF SInv, GInv
<1>1. ASSUME Told(c) = "ok" PROVE res[c] = "ok" /\ (IsSend(c) => Row(c) \in rows)
  <2>1. res[c] = "ok"
    BY <1>0, <1>1, ToldOk
  <2> QED
    BY <1>0, <2>1 DEF IInv, StepInv, StepOf, RowInv
<1>2. ASSUME Told(c) = "error", NEW at PROVE [call |-> c, at |-> at] \notin Heard
  <2>1. ~ Carried(c) /\ ~ (esSent[c] > 0)
    <3>1. ~ Carried(c) /\ esSent[c] = 0
      BY <1>0, <1>2, ToldError
    <3> QED
      BY <3>1
  <2> QED
    BY <1>0, <2>1, HeardMeans
<1> QED
  BY <1>1, <1>2

(* Of all the calls that carry one id, whatever interfaces they came by    *)
(* and however they interleave, at most one is answered with a success.    *)
THEOREM KeyAcked == SSpec => []KeyAckedOnce
<1>1. SInv => KeyAckedOnce
  <2> SUFFICES ASSUME SInv, NEW c \in Calls, NEW d \in Calls, IsSend(c), IsSend(d),
                      Told(c) = "ok", Told(d) = "ok", LogID(c) = LogID(d)
               PROVE  c = d
    BY DEF KeyAckedOnce
  <2>1. Row(c) \in rows /\ Row(d) \in rows
    BY ToldMeans
  <2>2. Row(c) = Row(d)
    BY <2>1 DEF SInv, GInv, IInv, KeyInv, Row
  <2> QED
    BY <2>2 DEF Row
<1> QED
  BY <1>1, SInvHolds, PTL

-----------------------------------------------------------------------------
(* The contract on the wire.                                               *)

WireVars == <<Stored, Announced, Heard, WireVerdict>>

VerdictOnWire(c) == IF IsGet(c) THEN "pending" ELSE Told(c)

LEMMA WireVerdictAt ==
  /\ WireVerdict = [c \in Calls |-> VerdictOnWire(c)]
  /\ WireVerdict' = [c \in Calls |-> VerdictOnWire(c)']
  BY DEF WireVerdict, VerdictOnWire

LEMMA ToldMeansNext ==
  SInv' => \A c \in Calls :
             /\ Told(c)' = "ok" => res'[c] = "ok" /\ (IsSend(c)' => Row(c)' \in rows')
             /\ Told(c)' = "error" => \A at : [call |-> c, at |-> at] \notin Heard'
<1>1. (SInv => \A c \in Calls :
            /\ Told(c) = "ok" => res[c] = "ok" /\ (IsSend(c) => Row(c) \in rows)
            /\ Told(c) = "error" => \A at : [call |-> c, at |-> at] \notin Heard)'
  BY ToldMeans, PTL
<1> QED
  BY <1>1

(* A step of a server, when it ends the waiting of one client.             *)
LEMMA OneToldMaps ==
  ASSUME SInv, [SNext]_serverVars, NEW c \in Calls,
         req' = req, rows' = rows, bus' = bus, docs' = docs,
         \A d \in Calls \ {c} : Told(d)' = Told(d)
  PROVE  Wire!CNext \/ UNCHANGED WireVars
<1>0. SInv' /\ TypeOK /\ Stored' = Stored /\ Announced' = Announced /\ Heard' = Heard
  BY SInvStep, TableKept, ConsumersKept DEF SInv, GInv, IInv
<1>1. \A d \in Calls \ {c} : VerdictOnWire(d)' = VerdictOnWire(d)
  BY DEF VerdictOnWire, IsGet
<1>2. CASE VerdictOnWire(c)' = VerdictOnWire(c)
  BY <1>0, <1>1, <1>2, WireVerdictAt DEF WireVars
<1>3. CASE VerdictOnWire(c)' # VerdictOnWire(c)
  <2>1. ~ IsGet(c) /\ ~ IsGet(c)' /\ Told(c)' # Told(c)
    BY <1>3 DEF VerdictOnWire, IsGet
  <2>2. IsSend(c)' /\ Row(c)' = Row(c) /\ Row(c).key = LogID(c)
    BY <1>0, <2>1, RequestAssumption DEF TypeOK, IsSend, IsGet, Row, LogID
  <2>3. Told(c) = "pending"
    BY <2>1, ToldOnce DEF SInv
  <2>4. Told(c)' \in {"ok", "error", "aborted"}
    BY <2>1, <2>3 DEF Told, GrpcTold, RestTold
  <2>5. /\ WireVerdict' = [WireVerdict EXCEPT ![c] = Told(c)']
        /\ WireVerdict[c] = "pending"
    BY <1>1, <2>1, <2>3, WireVerdictAt DEF VerdictOnWire
  <2>6. CASE Told(c)' = "ok"
    <3>1. Row(c) \in rows
      BY <1>0, <2>2, <2>6, ToldMeansNext
    <3>2. [key |-> LogID(c), by |-> c] \in Stored
      BY <1>0, <3>1, StoredIffRow
    <3> QED
      BY <1>0, <2>5, <2>6, <3>2 DEF Wire!CNext, Wire!SayOk, Wire!StoredBy
  <2>7. CASE Told(c)' = "error"
    <3>1. \A at : [call |-> c, at |-> at] \notin Heard
      BY <1>0, <2>7, ToldMeansNext
    <3> QED
      BY <1>0, <2>5, <2>7, <3>1 DEF Wire!CNext, Wire!SayError
  <2>8. CASE Told(c)' = "aborted"
    <3>1. WireVerdict' = [d \in Calls |-> IF d \in {c} THEN "aborted" ELSE WireVerdict[d]]
      BY <2>5, <2>8, WireVerdictAt
    <3>2. {c} \in SUBSET {d \in Calls : WireVerdict[d] = "pending"}
      BY <2>5
    <3> QED
      BY <1>0, <3>1, <3>2 DEF Wire!CNext, Wire!Abort
  <2> QED
    BY <2>4, <2>6, <2>7, <2>8
<1> QED
  BY <1>2, <1>3

(* What a server does for one call, the others are not told.               *)
LEMMA UseCaseAlone ==
  ASSUME TypeOK, NEW c \in Calls, Begin(c) \/ UseCaseStep(c)
  PROVE  /\ req' = req /\ rows' = rows /\ bus' = bus /\ docs' = docs
         /\ \A d \in Calls \ {c} : res'[d] = res[d]
<1> USE DEF TypeOK, Return, callVars, dbVars, natsVars, esVars
<1>1. CASE Begin(c) \/ SendInsert(c) \/ InsertOk(c) \/ Publish(c) \/ IndexLog(c)
  BY <1>1 DEF Begin, SendInsert, InsertOk, Publish, IndexLog
<1>2. CASE \/ InsertNotSent(c) \/ InsertFails(c) \/ IndexReturns(c) \/ Panic(c)
           \/ Query(c) \/ QueryFails(c)
  BY <1>2 DEF InsertNotSent, InsertFails, IndexReturns, Panic, Query, QueryFails
<1> QED
  BY <1>1, <1>2 DEF UseCaseStep, SendLog, GetLogs

LEMMA GrpcAlone ==
  ASSUME TypeOK, GTypeOK, UNCHANGED rvars, NEW c \in GrpcCalls,
         GStep(c) \/ \E how \in CtxEndings : GCtxEnds(c, how)
  PROVE  /\ req' = req /\ rows' = rows /\ bus' = bus /\ docs' = docs
         /\ \A d \in Calls \ {c} : Told(d)' = Told(d)
<1>0. c \in Calls
  BY GrpcAssumption
<1>1. /\ req' = req /\ rows' = rows /\ bus' = bus /\ docs' = docs
      /\ \A d \in Calls \ {c} : res'[d] = res[d]
  <2>1. CASE Accept(c) \/ Handle(c)
    BY <1>0, <2>1, UseCaseAlone DEF Accept, Handle
  <2>2. CASE \/ Arrive(c) \/ Reject(c) \/ HandlerReturns(c) \/ WorkerSends(c)
             \/ SelectDone(c) \/ SelectErr(c)
    BY <2>2 DEF Arrive, Reject, HandlerReturns, WorkerSends, SelectDone, SelectErr, vars
  <2>3. CASE \E how \in CtxEndings : GCtxEnds(c, how)
    BY <2>3 DEF GCtxEnds, CtxEnds, dbVars, natsVars, esVars
  <2> QED
    BY <2>1, <2>2, <2>3 DEF GStep
<1>2. \A d \in GrpcCalls \ {c} : rpc'[d] = rpc[d] /\ answer'[d] = answer[d]
  BY DEF GStep, Arrive, Reject, Accept, Handle, HandlerReturns, WorkerSends, SelectDone,
     SelectErr, GCtxEnds, Answer, GTypeOK, gvars
<1> QED
  BY <1>1, <1>2 DEF Told, GrpcTold, RestTold, rvars

LEMMA RestAlone ==
  ASSUME TypeOK, RTypeOK, UNCHANGED gvars, NEW c \in RestCalls,
         RStep(c) \/ \E how \in CtxEndings : RCtxEnds(c, how)
  PROVE  /\ req' = req /\ rows' = rows /\ bus' = bus /\ docs' = docs
         /\ \A d \in Calls \ {c} : Told(d)' = Told(d)
<1>0. c \in Calls
  BY RestAssumption
<1>1. /\ req' = req /\ rows' = rows /\ bus' = bus /\ docs' = docs
      /\ \A d \in Calls \ {c} : res'[d] = res[d]
  <2>1. CASE RAccept(c) \/ RHandle(c)
    BY <1>0, <2>1, UseCaseAlone DEF RAccept, RHandle
  <2>2. CASE RArrive(c) \/ RReject(c) \/ Respond(c) \/ Unwind(c) \/ LogRequest(c)
    BY <2>2 DEF RArrive, RReject, Respond, Unwind, LogRequest, vars
  <2>3. CASE \E how \in CtxEndings : RCtxEnds(c, how)
    BY <2>3 DEF RCtxEnds, CtxEnds, dbVars, natsVars, esVars
  <2> QED
    BY <2>1, <2>2, <2>3 DEF RStep
<1>2. \A d \in RestCalls \ {c} : web'[d] = web[d] /\ wire'[d] = wire[d]
  <2>1. CASE RReject(c) \/ Respond(c) \/ Unwind(c)
    BY <2>1 DEF RReject, Respond, Unwind, JSON, RTypeOK, rvars
  <2>2. CASE ~ (RReject(c) \/ Respond(c) \/ Unwind(c))
    BY <2>2 DEF RStep, RArrive, RAccept, RHandle, LogRequest, RCtxEnds, RTypeOK, rvars
  <2> QED
    BY <2>1, <2>2
<1> QED
  BY <1>1, <1>2, InterfaceAssumption DEF Told, GrpcTold, RestTold, gvars

LEMMA ServerStepMaps ==
  ASSUME SInv, [SNext]_serverVars, NEW c \in Calls,
         \/ SArrive(c)
         \/ c \in GrpcCalls /\ GrpcSide(c)
         \/ c \in RestCalls /\ RestSide(c)
  PROVE  Wire!CNext \/ UNCHANGED WireVars
<1>0. TypeOK /\ GTypeOK /\ RTypeOK
  BY DEF SInv, GInv, RInv, IInv
<1>1. /\ req' = req /\ rows' = rows /\ bus' = bus /\ docs' = docs
      /\ \A d \in Calls \ {c} : Told(d)' = Told(d)
  <2>1. CASE c \in GrpcCalls /\ (GrpcSide(c) \/ (Arrive(c) /\ UNCHANGED rvars))
    BY <1>0, <2>1, GrpcAlone DEF GrpcSide, GStep
  <2>2. CASE c \in RestCalls /\ (RestSide(c) \/ (RArrive(c) /\ UNCHANGED gvars))
    BY <1>0, <2>2, RestAlone DEF RestSide, RStep
  <2> QED
    BY <2>1, <2>2 DEF SArrive
<1> QED
  BY <1>1, OneToldMaps

(* The end of the process takes the verdict from everybody still waiting.  *)
LEMMA SExitMaps ==
  ASSUME SInv, [SNext]_serverVars, SExit
  PROVE  Wire!CNext
<1> DEFINE S == {d \in Calls : VerdictOnWire(d)' # VerdictOnWire(d)}
<1>0. /\ req' = req /\ rows' = rows /\ bus' = bus /\ docs' = docs
      /\ answer' = answer /\ wire' = wire /\ res' = res
  BY DEF SExit, Kill, GoroutinesDie, RequestsDie, dbVars, esVars
<1>1. Stored' = Stored /\ Announced' = Announced /\ Heard' = Heard
  BY <1>0, TableKept, ConsumersKept
<1>2. ASSUME NEW d \in S
      PROVE  VerdictOnWire(d) = "pending" /\ VerdictOnWire(d)' = "aborted"
  <2>1. ~ IsGet(d) /\ ~ IsGet(d)' /\ Told(d)' # Told(d)
    BY <1>0 DEF VerdictOnWire, IsGet
  <2>2. Told(d) = "pending"
    BY <2>1, ToldOnce DEF SInv
  <2>3. Told(d)' = "aborted"
    BY <1>0, <2>1, <2>2 DEF Told, GrpcTold, RestTold
  <2> QED
    BY <2>1, <2>2, <2>3 DEF VerdictOnWire
<1>3. S \in SUBSET {d \in Calls : WireVerdict[d] = "pending"}
  BY <1>2, WireVerdictAt
<1>4. WireVerdict' = [d \in Calls |-> IF d \in S THEN "aborted" ELSE WireVerdict[d]]
  BY <1>2, WireVerdictAt
<1> HIDE DEF S
<1> QED
  BY <1>1, <1>3, <1>4 DEF Wire!CNext, Wire!Abort

(* What the services do, a client is not told; the contract allows it for  *)
(* what the clients were told before.                                      *)
LEMMA ExternalMaps ==
  ASSUME SInv, [SNext]_serverVars, External, UNCHANGED <<gvars, rvars>>
  PROVE  Wire!CNext \/ UNCHANGED WireVars
<1>0. GInv /\ RInv /\ IInv /\ [Next]_vars
  BY GrpcView, ServerStep DEF SInv, GInv, RInv, IInv
<1>1. req' = req /\ res' = res
  BY DEF External, DbApply, DbReject, EsIngest, NatsFlush, NatsDrop, callVars
<1>2. WireVerdict' = WireVerdict
  BY <1>1, WireVerdictAt
  DEF VerdictOnWire, IsGet, Told, GrpcTold, RestTold, gvars, rvars
<1>3. \A c \in Calls : Carried(c) \/ esSent[c] > 0 => WireVerdict[c] # "error"
  BY <1>0, ToldError, WireVerdictAt DEF VerdictOnWire
<1>4. ASSUME NEW c \in Calls, DbApply(c) PROVE Wire!CNext
  <2>1. PICK k \in Uuids \cup Calls : Contract!Store(c, k)
    BY <1>0, <1>4, StoreMaps
  <2>2. Wire!Store(c, k)
    BY <1>2, <2>1
    DEF Contract!Store, Contract!StoredBy, Wire!Store, Wire!StoredBy
  <2> QED
    BY <2>2 DEF Wire!CNext
<1>5. ASSUME NEW c \in Calls, EsIngest(c) PROVE Wire!CNext
  <2>1. Contract!Index(c)
    BY <1>0, <1>5, IngestMaps
  <2>2. esSent[c] > 0
    <3>1. docs[c] < esSent[c] /\ docs[c] \in 0 .. Attempts /\ esSent[c] \in 0 .. Attempts
      BY <1>0, <1>5 DEF EsIngest, IInv, TypeOK
    <3> QED
      BY <3>1, BoundAssumption
  <2>3. Wire!Index(c)
    BY <1>2, <1>3, <2>1, <2>2
    DEF Contract!Index, Contract!StoredBy, Wire!Index, Wire!StoredBy
  <2> QED
    BY <2>3 DEF Wire!CNext
<1>6. CASE NatsFlush
  <2>1. PICK c \in Calls, k \in Uuids \cup Calls : Carried(c) /\ Contract!Announce(c, k)
    BY <1>0, <1>6, FlushMaps
  <2>2. Wire!Announce(c, k)
    BY <1>2, <1>3, <2>1 DEF Contract!Announce, Wire!Announce
  <2> QED
    BY <2>2 DEF Wire!CNext
<1>7. CASE NatsDrop \/ \E c \in Calls : DbReject(c)
  <2>1. rows' = rows /\ bus' = bus /\ docs' = docs
    BY <1>7 DEF NatsDrop, DbReject, dbVars, natsVars, esVars
  <2> QED
    BY <1>1, <1>2, <2>1, TableKept, ConsumersKept DEF WireVars
<1> QED
  BY <1>4, <1>5, <1>6, <1>7 DEF External

LEMMA SNextMaps == SInv /\ [SNext]_serverVars => [Wire!CNext]_WireVars
<1> SUFFICES ASSUME SInv, [SNext]_serverVars PROVE Wire!CNext \/ UNCHANGED WireVars
  OBVIOUS
<1>1. CASE SAtRest \/ UNCHANGED serverVars
  <2>1. UNCHANGED serverVars
    BY <1>1 DEF SAtRest
  <2>2. req' = req /\ rows' = rows /\ bus' = bus /\ docs' = docs
    BY <2>1 DEF serverVars, vars
  <2>3. WireVerdict' = WireVerdict
    BY <2>1, WireVerdictAt DEF VerdictOnWire, IsGet, Told, GrpcTold, RestTold,
       serverVars, vars, gvars, rvars
  <2> QED
    BY <2>2, <2>3, TableKept, ConsumersKept DEF WireVars
<1>2. CASE SExit
  BY <1>2, SExitMaps
<1>3. CASE External /\ UNCHANGED <<gvars, rvars, seen>>
  BY <1>3, ExternalMaps
<1>4. ASSUME NEW c \in Calls, SArrive(c) PROVE Wire!CNext \/ UNCHANGED WireVars
  BY <1>4, ServerStepMaps
<1>5. ASSUME NEW c \in GrpcCalls, GrpcSide(c) PROVE Wire!CNext \/ UNCHANGED WireVars
  BY <1>5, ServerStepMaps, GrpcAssumption
<1>6. ASSUME NEW c \in RestCalls, RestSide(c) PROVE Wire!CNext \/ UNCHANGED WireVars
  BY <1>6, ServerStepMaps, RestAssumption
<1> QED
  BY <1>1, <1>2, <1>3, <1>4, <1>5, <1>6 DEF SNext

(* Whatever the two interfaces make of a call on its way back - a timeout, *)
(* a recovered panic, no answer at all - what their clients and the two    *)
(* consumers see is a behaviour of LogContract.                            *)
THEOREM ServerImplements == SSpec => ClientContract
<1>1. SInit => Wire!CInit
  <2> SUFFICES ASSUME SInit PROVE Wire!CInit
    OBVIOUS
  <2>1. Stored = {} /\ Announced = {} /\ Heard = {}
    <3>1. Init
      BY DEF SInit, GInit
    <3> QED
      BY <3>1, InitMaps DEF Contract!CInit
  <2>2. WireVerdict = [c \in Calls |-> "pending"]
    BY InterfaceAssumption, WireVerdictAt
    DEF SInit, GInit, RInit, VerdictOnWire, Told, GrpcTold, RestTold, NoCode
  <2> QED
    BY <2>1, <2>2 DEF Wire!CInit
<1>2. SInv /\ [SNext]_serverVars => [Wire!CNext]_(Wire!cvars)
  BY SNextMaps DEF Wire!cvars, WireVars
<1> QED
  BY <1>1, <1>2, SInvHolds, PTL DEF SSpec, ClientContract, Wire!CSpec

-----------------------------------------------------------------------------
(* A client's own successes, and everybody's, are in the pages asked for   *)
(* after them.                                                             *)

Whole(c) ==
  /\ IsGet(c) /\ res[c] \in {"ok", "noLogs"}
  /\ req[c].offset = 0 /\ Cardinality(Matching(req[c])) <= req[c].limit

Wanted(d, c) ==
  /\ IsSend(d) /\ req[d].service = req[c].service
  /\ req[c].level \in {NoText, req[d].level}

SeenOf(c) ==
  /\ \A d \in seen[c] : d \in Calls /\ res[d] = "ok"
  /\ Whole(c) => \A d \in seen[c] : Wanted(d, c) => Row(d) \in page[c]

SeenInv == DOMAIN seen = Calls /\ \A c \in Calls : SeenOf(c)

(* A page is not touched again.                                            *)
LEMMA PageKept ==
  ASSUME TypeOK, StepInv, [Next]_vars, NEW c \in Calls, res[c] # "none"
  PROVE  page'[c] = page[c]
<1>1. pc[c] = "ret"
  BY DEF StepInv, StepOf
<1>2. ASSUME NEW d \in Calls, Query(d) PROVE page'[c] = page[c]
  BY <1>1, <1>2 DEF Query, TypeOK
<1>3. ASSUME NEW d \in Calls,
             \/ Begin(d) \/ SendInsert(d) \/ InsertOk(d) \/ Publish(d) \/ IndexLog(d)
             \/ InsertNotSent(d) \/ InsertFails(d) \/ QueryFails(d) \/ Panic(d)
             \/ IndexReturns(d)
      PROVE  page' = page
  BY <1>3 DEF Begin, SendInsert, InsertOk, Publish, IndexLog, InsertNotSent,
     InsertFails, QueryFails, Panic, IndexReturns, callVars
<1>4. ASSUME NEW d \in Calls, NEW how \in CtxEndings, CtxEnds(d, how) PROVE page' = page
  BY <1>4 DEF CtxEnds
<1>5. CASE External \/ Exit \/ AtRest \/ UNCHANGED vars
  BY <1>5 DEF External, DbApply, DbReject, EsIngest, NatsFlush, NatsDrop, Exit, Kill,
     AtRest, vars, callVars
<1> QED
  BY <1>2, <1>3, <1>4, <1>5 DEF Next, UseCaseStep, SendLog, GetLogs

(* With room for every match in the page, there was room before the step.  *)
LEMMA WholeBefore ==
  ASSUME IInv, FiniteRows, [Next]_vars, NEW c \in Calls, Whole(c)'
  PROVE  /\ IsGet(c) /\ req[c].offset = 0 /\ Cardinality(Matching(req[c])) <= req[c].limit
         /\ res'[c] \in {"ok", "noLogs"}
<1>1. /\ req' = req /\ FiniteRows' /\ rows \subseteq rows'
  BY RequestsFixed, FiniteStep, RowStep DEF IInv
<1>2. /\ Matching(req[c]) \subseteq Matching(req[c])'
      /\ IsFiniteSet(Matching(req[c])')
  <2>1. Matching(req[c]) \subseteq Matching(req[c])' /\ Matching(req[c])' \subseteq rows'
    BY <1>1 DEF Matching
  <2> QED
    BY <1>1, <2>1, FS_Subset DEF FiniteRows
<1>3. /\ Cardinality(Matching(req[c])) <= Cardinality(Matching(req[c]))'
      /\ Cardinality(Matching(req[c])) \in Nat /\ Cardinality(Matching(req[c]))' \in Nat
  BY <1>2, FS_Subset, FS_CardinalityType
<1>4. IsGet(c) /\ req[c].limit \in Int
  BY <1>1, RequestAssumption DEF Whole, IsGet, IInv, TypeOK
<1> QED
  BY <1>1, <1>2, <1>3, <1>4 DEF Whole

LEMMA SeenStep == SInv /\ FiniteRows /\ SeenInv /\ [SNext]_serverVars => SeenInv'
<1> SUFFICES ASSUME SInv, FiniteRows, SeenInv, [SNext]_serverVars PROVE SeenInv'
  OBVIOUS
<1>0. /\ IInv /\ [Next]_vars /\ GInv /\ RInv /\ TypeOK /\ StepInv /\ req' = req
      /\ \A d \in Calls : Row(d)' = Row(d)
  <2>1. IInv /\ [Next]_vars /\ GInv /\ RInv /\ TypeOK
    BY GrpcView, ServerStep DEF SInv, GInv, RInv, IInv
  <2> QED
    BY <2>1, RequestsFixed, KindsFixed DEF IInv
<1>1. \A d \in Calls : res[d] = "ok" => res'[d] = "ok"
  BY <1>0, ResultKept
<1>2. ASSUME NEW c \in Calls, SArrive(c) PROVE SeenInv'
  <2>1. UNCHANGED vars /\ seen' = [seen EXCEPT ![c] = {d \in Calls : Told(d) = "ok"}]
    BY <1>2 DEF SArrive, Arrive, RArrive
  <2>2. res[c] = "none"
    <3>1. pc[c] = "idle"
      BY <1>2, GrpcAssumption, RestAssumption
      DEF SArrive, Arrive, RArrive, SInv, AnswerInv, AnswerOf, RInv, WireInv, WireOf
    <3> QED
      BY <1>0, <3>1 DEF StepInv, StepOf
  <2>3. ASSUME NEW e \in Calls PROVE SeenOf(e)'
    <3>1. CASE e = c
      <4>1. seen'[c] = {d \in Calls : Told(d) = "ok"} /\ ~ Whole(c)'
        BY <2>1, <2>2 DEF SeenInv, Whole, vars
      <4>2. \A d \in seen'[c] : d \in Calls /\ res'[d] = "ok"
        BY <1>1, <4>1, ToldMeans
      <4> QED
        BY <3>1, <4>1, <4>2 DEF SeenOf
    <3>2. CASE e # c
      <4>1. seen'[e] = seen[e] /\ Whole(e)' = Whole(e)
        BY <2>1, <3>2 DEF SeenInv, Whole, Matching, IsGet, vars
      <4> QED
        BY <2>1, <4>1 DEF SeenInv, SeenOf, Wanted, IsGet, IsSend, Row, LogID, vars
    <3> QED
      BY <3>1, <3>2
  <2> QED
    BY <2>1, <2>3 DEF SeenInv
<1>3. ASSUME seen' = seen PROVE SeenInv'
  <2> SUFFICES ASSUME NEW c \in Calls PROVE SeenOf(c)'
    BY <1>3 DEF SeenInv
  <2>1. \A d \in seen'[c] : d \in Calls /\ res'[d] = "ok"
    BY <1>1, <1>3 DEF SeenInv, SeenOf
  <2>2. ASSUME Whole(c)', NEW d \in seen[c], Wanted(d, c)'
        PROVE  Row(d)' \in page'[c]
    <3>1. /\ IsGet(c) /\ req[c].offset = 0 /\ Cardinality(Matching(req[c])) <= req[c].limit
          /\ res'[c] \in {"ok", "noLogs"}
      BY <1>0, <2>2, WholeBefore
    <3>2. d \in Calls /\ res[d] = "ok" /\ Wanted(d, c)
      BY <1>0, <2>2 DEF SeenInv, SeenOf, Wanted, IsSend
    <3>3. CASE res[c] # "none"
      <4>1. res'[c] = res[c] /\ page'[c] = page[c]
        BY <1>0, <3>3, ResultKept, PageKept
      <4> QED
        BY <1>0, <2>2, <3>1, <3>2, <4>1 DEF SeenInv, SeenOf, Whole
    <3>4. CASE res[c] = "none"
      <4>1. PICK P \in Pages(req[c]) : page' = [page EXCEPT ![c] = P]
        BY <1>0, <3>1, <3>4, AnsweredByQuery DEF Query
      <4>2. req[c] \in Requests /\ page'[c] = P
        BY <1>0, <4>1 DEF TypeOK
      <4>3. P = Matching(req[c])
        BY <3>1, <4>1, <4>2, WholePage DEF IsGet
      <4>4. Row(d) \in rows
        BY <1>0, <3>2 DEF Wanted, IInv, StepInv, StepOf, RowInv
      <4>5. Row(d).service = req[d].service /\ Row(d).level = req[d].level
        BY DEF Row
      <4> QED
        BY <1>0, <3>2, <4>2, <4>3, <4>4, <4>5 DEF Wanted, Matching
    <3> QED
      BY <3>3, <3>4
  <2> QED
    BY <1>3, <2>1, <2>2 DEF SeenOf
<1> QED
  BY <1>2, <1>3 DEF SNext, GrpcSide, RestSide, SExit, SAtRest, serverVars

(* An entry whose success was on the wire before a query came in is in the *)
(* answer, for any number of clients and whichever interface each uses.    *)
THEOREM ReadsOwnWrites == SSpec => []ReadYourWrites
<1>1. SInit => FiniteRows /\ SeenInv
  <2>1. SInit => FiniteRows
    BY FS_EmptySet DEF SInit, GInit, Init, FiniteRows
  <2>2. SInit => SeenInv
    BY DEF SInit, GInit, Init, SeenInv, SeenOf, Whole
  <2> QED
    BY <2>1, <2>2
<1>2. SInv /\ FiniteRows /\ SeenInv /\ [SNext]_serverVars => FiniteRows' /\ SeenInv'
  <2>1. SInv /\ [SNext]_serverVars => [Next]_vars
    BY GrpcView, ServerStep DEF SInv, GInv, RInv, IInv
  <2> QED
    BY <2>1, FiniteStep, SeenStep
<1>3. SeenInv => ReadYourWrites
  BY DEF SeenInv, SeenOf, Whole, Wanted, ReadYourWrites
<1> QED
  BY <1>1, <1>2, <1>3, SInvHolds, PTL DEF SSpec
=============================================================================
