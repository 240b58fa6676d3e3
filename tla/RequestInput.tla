---------------------------- MODULE RequestInput ----------------------------
(***************************************************************************)
(* What comes in from outside, one thing at a time, and what the functions *)
(* of RequestValidation and Configuration make of it: a request by either  *)
(* interface, an outcome of the use case to be told to a client, or the    *)
(* environment the process is started with.                                *)
(***************************************************************************)
EXTENDS Configuration

CONSTANT Inputs

IsEntry(r) == r.log \in BOOLEAN /\ r.hasTimestamp \in BOOLEAN /\ r.ahead \in Int
IsParam(p) == p.given \in BOOLEAN /\ p.number \in BOOLEAN /\ p.value \in Int

ASSUME InputAssumption ==
  \A i \in Inputs :
    /\ i.op \in {"send", "get", "answer", "start"}
    /\ i.op = "send" => IsEntry(i)
    /\ i.op = "get" => IsParam(i.limit) /\ IsParam(i.offset)
    /\ i.op = "start" => IsParam(i.grpc) /\ IsParam(i.rest) /\ IsParam(i.shutdown)

VARIABLE input

InputInit == input \in Inputs
InputSpec == InputInit /\ [][UNCHANGED input]_input

-----------------------------------------------------------------------------
(* Properties.                                                             *)

(* An entry that may be written can be found: the query that names its      *)
(* service and its level, and leaves the rest out, is accepted.  The two    *)
(* validators check the level independently, and an entry accepted with one *)
(* that no query may name could only be listed among all others.            *)
AbsentParam == [given |-> FALSE, number |-> FALSE, value |-> 0]
AcceptedEntryIsFindable ==
  input.op = "send" /\ ValidateSendLogRequest(input) = "nil" =>
    AcceptsQuery([service |-> input.service, level |-> input.level,
                  limit |-> AbsentParam, offset |-> AbsentParam])

(* Parsing, defaults and checks together draw the range the validator's own *)
(* error texts name ("service must not be empty", "limit must be between 1  *)
(* and 1000", ...): what ParseQueryParams fills in for a limit or an offset *)
(* that is left out passes ValidateGetLogsRequest, and what lies outside is *)
(* refused.  The API description is wider: it calls the service optional    *)
(* and lists lower-case levels, of which DocumentedLevelAccepted speaks.    *)
QueryAcceptedIffInRange ==
  input.op = "get" => (AcceptsQuery(input) <=> QueryIsInRange(input))

(* The two interfaces tell their clients the same thing about the same      *)
(* outcome, whatever error a later use case adds.                           *)
InterfacesAgree ==
  input.op = "answer" =>
    CASE GrpcCode(input.result) = "OK" -> HttpStatus(input.result) = 200
      [] GrpcCode(input.result) = "InvalidArgument" -> HttpStatus(input.result) = 400
      [] GrpcCode(input.result) = "NotFound" -> HttpStatus(input.result) = 404
      [] GrpcCode(input.result) = "Internal" -> HttpStatus(input.result) = 500
      [] OTHER -> FALSE

(* The API description of GetLogs lists the levels a query may name: info,  *)
(* warn and error (internal/app/handler/rest/log_handler.go:144).           *)
DocumentedLevelAccepted ==
  input.op = "get" /\ input.service # "" /\ input.level \in {"info", "warn", "error"}
    /\ ~ input.limit.given /\ ~ input.offset.given => AcceptsQuery(input)

(* The process starts with exactly the environments README.md:57-75 allows: *)
(* the five variables it marks as required have a value, and what is given  *)
(* for a timeout is a number.                                              *)
Required == {"DB_HOST", "DB_PORT", "DB_NAME", "DB_USER", "DB_PASS"}
ConfigAcceptedIffDocumented ==
  input.op = "start" =>
    (NewConfig(input) = "nil" <=>
       /\ Required \subseteq input.set
       /\ \A t \in {input.grpc, input.rest, input.shutdown} : t.given => t.number)

(* A gRPC call that failed is in the access log whatever LOG_LEVEL says, a  *)
(* level no one knows included; only the lines of successes can be muted.   *)
FailureIsWritten ==
  input.op = "start" =>
    \A outcome \in {i.result : i \in {j \in Inputs : j.op = "answer"}} :
      GrpcLineWritten(input, outcome)
        \/ (GrpcCode(outcome) = "OK" /\ input.level \in {"WARN", "ERROR"})
=============================================================================
