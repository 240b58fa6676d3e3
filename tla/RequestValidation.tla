------------------------- MODULE RequestValidation -------------------------
(***************************************************************************)
(* The checks both interfaces run before a handler sees a request, the     *)
(* parsing of REST query parameters, and the codes errors are answered     *)
(* with.  Pure functions of the request.                                   *)
(*                                                                         *)
(* Of texts, only "" and the levels are told apart.  `log' says whether    *)
(* the log field of a SendLog request is set, `ahead' is how many seconds  *)
(* the timestamp of an entry lies ahead of the server's clock.             *)
(***************************************************************************)
EXTENDS Integers, Sequences

MaxLimit == 1000
FutureTolerance == 60
LogLevels == {"DEBUG", "INFO", "WARN", "ERROR"}
IsValidLogLevel(level) == level \in LogLevels

(* Checks run in order and the first that fails is the error.              *)
Check(holds, error) == [holds |-> holds, error |-> error]

FirstError(checks) ==
  LET failed == {i \in DOMAIN checks : ~ checks[i].holds}
  IN  IF failed = {} THEN "nil"
      ELSE checks[CHOOSE i \in failed : \A j \in failed : i <= j].error

(* A deviation of ValidateSendLogRequest: the level is only required.      *)
AcceptEveryLevel(r) ==
  FirstError(<< Check(r.log, "ErrLogRequired"),
                Check(r.service # "", "ErrServiceEmpty"),
                Check(r.message # "", "ErrMessageEmpty"),
                Check(r.level # "", "ErrLevelEmpty"),
                Check(r.traceId # "", "ErrTraceIDEmpty"),
                Check(r.hasTimestamp, "ErrTimestampRequired"),
                Check(r.ahead <= FutureTolerance, "ErrTimestampInFuture") >>)

ValidateSendLogRequest(r) ==
  FirstError(<< Check(r.log, "ErrLogRequired"),
                Check(r.service # "", "ErrServiceEmpty"),
                Check(r.message # "", "ErrMessageEmpty"),
                Check(r.level # "", "ErrLevelEmpty"),
                Check(IsValidLogLevel(r.level), "ErrInvalidLogLevel"),
                Check(r.traceId # "", "ErrTraceIDEmpty"),
                Check(r.hasTimestamp, "ErrTimestampRequired"),
                Check(r.ahead <= FutureTolerance, "ErrTimestampInFuture") >>)

ValidateGetLogsRequest(q) ==
  FirstError(<< Check(q.service # "", "ErrServiceParamEmpty"),
                Check(q.level = "" \/ IsValidLogLevel(q.level), "ErrInvalidLogLevel"),
                Check(q.limit >= 1 /\ q.limit <= MaxLimit, "ErrLimitOutOfRange"),
                Check(q.offset >= 0, "ErrOffsetNegative") >>)

Valid(r) ==
  IF r.op = "send" THEN ValidateSendLogRequest(r) = "nil"
                   ELSE ValidateGetLogsRequest(r) = "nil"

(* By REST the body must parse as protojson, or the query parameters as    *)
(* numbers, before what they say is looked at.                             *)
ValidRest(r) == r.readable /\ Valid(r)

(***************************************************************************)
(* helper.ParseQueryParams.  A query parameter is [given, number, value]:  *)
(* an absent or empty one takes its default, one that is no int an error.  *)
(***************************************************************************)
DefaultLimit == 100
DefaultOffset == 0

(* A deviation of Atoi: what is absent is zero.                            *)
AtoiZero(p, default) == p.value

Atoi(p, default) == IF p.given THEN p.value ELSE default
Parses(p) == p.given => p.number

ParseQueryParams(raw) ==
  [ok |-> Parses(raw.limit) /\ Parses(raw.offset),
   service |-> raw.service, level |-> raw.level,
   limit |-> Atoi(raw.limit, DefaultLimit),
   offset |-> Atoi(raw.offset, DefaultOffset)]

(* ValidationMiddlewareGetLogs: what does not parse is not looked at.      *)
AcceptsQuery(raw) ==
  LET q == ParseQueryParams(raw) IN q.ok /\ ValidateGetLogsRequest(q) = "nil"

(* What a query may be: a service, a level that exists or none, and a limit *)
(* and an offset in their ranges or left out.                              *)
QueryIsInRange(raw) ==
  /\ raw.service # "" /\ raw.level \in LogLevels \cup {""}
  /\ raw.limit.given => raw.limit.number /\ raw.limit.value \in 1 .. 1000
  /\ raw.offset.given => raw.offset.number /\ raw.offset.value \in Nat

(***************************************************************************)
(* What the handlers answer for what the use case returned.  "panic" is    *)
(* not an error of the use case: the recovery middleware turns it into 500 *)
(* and Internal.  Any other error would be Unknown, which the gRPC         *)
(* recovery interceptor turns into Internal too.                           *)
(***************************************************************************)
AppErrorToGRPCCode(err) ==
  CASE err = "validation" -> "InvalidArgument"
    [] err = "repoErr" -> "Internal"
    [] err = "noLogs" -> "NotFound"
    [] OTHER -> "Unknown"

AppErrorToHTTPStatus(err) ==
  CASE err = "validation" -> 400
    [] err = "repoErr" -> 500
    [] err = "noLogs" -> 404
    [] OTHER -> 500

(* A deviation of WrapUnknown: the code is passed on.                      *)
PassUnknown(code) == code

WrapUnknown(code) == IF code = "Unknown" THEN "Internal" ELSE code

GrpcCode(result) ==
  CASE result = "ok" -> "OK"
    [] result = "panic" -> "Internal"
    [] OTHER -> WrapUnknown(AppErrorToGRPCCode(result))

HttpStatus(result) ==
  CASE result = "ok" -> 200
    [] result = "panic" -> 500
    [] OTHER -> AppErrorToHTTPStatus(result)
=============================================================================
