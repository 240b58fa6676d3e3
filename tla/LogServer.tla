----------------------------- MODULE LogServer -----------------------------
(***************************************************************************)
(* The process as its clients see it: the gRPC server and the REST server  *)
(* beside each other, over one use case, one table, one subject and one    *)
(* index.  run() starts both over the same LogUseCaseImpl, and the end of  *)
(* the process is the end of both.                                         *)
(*                                                                         *)
(* What is stated here is about the answers on the wire, whichever         *)
(* interface they come by; what each server does with a call is stated in  *)
(* GrpcServer and RestServer.                                              *)
(***************************************************************************)
EXTENDS GrpcServer, RestServer

ASSUME InterfaceAssumption ==
  GrpcCalls \cap RestCalls = {} /\ GrpcCalls \cup RestCalls = Calls

VARIABLE
  seen      \* history: the calls answered with success before this one arrived

serverVars == <<vars, gvars, rvars, seen>>

(***************************************************************************)
(* What a client is told, in the words of LogContract.  After a panic, a   *)
(* timeout or a hang-up it knows nothing; the same if the process died     *)
(* first.                                                                  *)
(***************************************************************************)
GrpcTold(c) ==
  CASE answer[c] = "OK" -> "ok"
    [] answer[c] \in {"InvalidArgument", "NotFound", "Internal"} /\ res[c] # "panic" -> "error"
    [] answer[c] = NoCode /\ rpc[c] # "killed" -> "pending"
    [] OTHER -> "aborted"

RestTold(c) ==
  CASE wire[c] = 200 -> "ok"
    [] wire[c] \in {400, 404, 500} /\ res[c] # "panic" -> "error"
    [] wire[c] = 0 /\ web[c] # "killed" -> "pending"
    [] OTHER -> "aborted"

Told(c) == IF c \in GrpcCalls THEN GrpcTold(c) ELSE RestTold(c)

-----------------------------------------------------------------------------
SInit == GInit /\ RInit /\ seen = [c \in Calls |-> {}]

(* The request of a call comes in: what its client, or another one, was    *)
(* told by then is on record.                                              *)
SArrive(c) ==
  /\ \/ c \in GrpcCalls /\ Arrive(c) /\ UNCHANGED rvars
     \/ c \in RestCalls /\ RArrive(c) /\ UNCHANGED gvars
  /\ seen' = [seen EXCEPT ![c] = {d \in Calls : Told(d) = "ok"}]

(* What one server does the other does not notice, except by the services  *)
(* they share.                                                             *)
GrpcSide(c) ==
  /\ \/ Reject(c) \/ Accept(c) \/ Handle(c) \/ HandlerReturns(c) \/ WorkerSends(c)
     \/ SelectDone(c) \/ SelectErr(c) \/ \E how \in CtxEndings : GCtxEnds(c, how)
  /\ UNCHANGED <<rvars, seen>>

RestSide(c) ==
  /\ \/ RReject(c) \/ RAccept(c) \/ RHandle(c) \/ Respond(c) \/ Unwind(c)
     \/ LogRequest(c) \/ \E how \in CtxEndings : RCtxEnds(c, how)
  /\ UNCHANGED <<gvars, seen>>

(* run() returns, or the process crashes.                                  *)
SExit ==
  /\ GBusy \/ RBusy \/ buf # <<>>
  /\ Kill /\ GoroutinesDie /\ RequestsDie
  /\ UNCHANGED seen

SAtRest == GDone /\ RDone /\ Settled /\ UNCHANGED serverVars

SNext ==
  \/ \E c \in Calls : SArrive(c)
  \/ \E c \in GrpcCalls : GrpcSide(c)
  \/ \E c \in RestCalls : RestSide(c)
  \/ External /\ UNCHANGED <<gvars, rvars, seen>>
  \/ SExit \/ SAtRest

SSpec == SInit /\ [][SNext]_serverVars

-----------------------------------------------------------------------------
(* Properties.                                                             *)

(* However often an entry is sent again, by one interface, by the other or  *)
(* by both at once, and however its id is spelled: at most one of the calls *)
(* is answered OK or 200.  A client whose first answer was lost never gets  *)
(* a success for a retry with the same id.                                  *)
KeyAckedOnce ==
  \A c, d \in Calls :
    IsSend(c) /\ IsSend(d) /\ Told(c) = "ok" /\ Told(d) = "ok"
      /\ LogID(c) = LogID(d) => c = d

(* An entry whose OK or 200 was sent before a query came in, by either      *)
(* interface, is in the answer to the query, provided it matches and the    *)
(* page has room for all that do; NotFound and 404 are only sent where      *)
(* there is no such entry.                                                  *)
ReadYourWrites ==
  \A c \in Calls :
    /\ IsGet(c) /\ Told(c) \in {"ok", "error"} /\ res[c] \in {"ok", "noLogs"}
    /\ req[c].offset = 0 /\ Cardinality(Matching(req[c])) <= req[c].limit
    => \A d \in seen[c] :
         /\ IsSend(d) /\ req[d].service = req[c].service
         /\ req[c].level \in {NoText, req[d].level}
         => Row(d) \in page[c]

(***************************************************************************)
(* The contract of LogUseCase holds on the wire.                           *)
(***************************************************************************)
WireVerdict == [c \in Calls |-> IF IsGet(c) THEN "pending" ELSE Told(c)]

Wire == INSTANCE LogContract
  WITH Keys <- Uuids \cup Calls, stored <- Stored,
       announced <- Announced, heard <- Heard, verdict <- WireVerdict

(* What the answers of both interfaces say of an entry is what LogContract  *)
(* promises, with timeouts, hang-ups, panics and the end of the process     *)
(* between the use case and the client.                                     *)
ClientContract == Wire!CSpec
=============================================================================
