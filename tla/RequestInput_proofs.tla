------------------------ MODULE RequestInput_proofs -------------------------
(***************************************************************************)
(* What is let in, for every input: any text, any number, any environment. *)
(* The validators and NewConfig are lists of checks, so all rests on what  *)
(* FirstError makes of a list of any length: the list has a first failed   *)
(* check, if any, because the indices are well ordered.                    *)
(***************************************************************************)
EXTENDS RequestInput, WellFoundedInduction, TLAPS

LEMMA Least ==
  ASSUME NEW S \in SUBSET Nat, S # {}
  PROVE  \E i \in S : \A j \in S : i <= j
<1> DEFINE less == OpToRel(<, Nat)
<1>1. IsWellFoundedOn(less, Nat)
  BY NatLessThanWellFounded
<1>2. \A i \in Nat, j \in Nat : <<i, j>> \in less <=> i < j
  BY DEF OpToRel
<1> HIDE DEF less
<1>3. PICK i \in S : \A j \in S : ~ (<<j, i>> \in less)
  BY <1>1, WFMin
<1>4. ASSUME NEW j \in S PROVE i <= j
  <2>1. i \in Nat /\ j \in Nat /\ ~ (j < i)
    BY <1>2, <1>3
  <2> QED
    BY <2>1
<1> QED
  BY <1>4

(* The error reported is that of a check that fails, every check before it *)
(* holding; "nil" is reported where none fails.                            *)
LEMMA ReportsTheFirst ==
  ASSUME NEW checks, DOMAIN checks \in SUBSET Nat,
         \A i \in DOMAIN checks : checks[i].holds \in BOOLEAN
  PROVE  \/ /\ \A i \in DOMAIN checks : checks[i].holds
            /\ FirstError(checks) = "nil"
         \/ \E i \in DOMAIN checks :
              /\ ~ checks[i].holds /\ FirstError(checks) = checks[i].error
              /\ \A j \in DOMAIN checks : j < i => checks[j].holds
<1> DEFINE failed == {i \in DOMAIN checks : ~ checks[i].holds}
<1>1. CASE failed = {}
  BY <1>1 DEF FirstError
<1>2. CASE failed # {}
  <2> DEFINE first == CHOOSE i \in failed : \A j \in failed : i <= j
  <2>1. first \in failed /\ \A j \in failed : first <= j
    BY <1>2, Least
  <2>2. FirstError(checks) = checks[first].error
    BY <1>2 DEF FirstError
  <2>3. first \in DOMAIN checks /\ ~ checks[first].holds
    BY <2>1
  <2> HIDE DEF first, failed
  <2>4. ASSUME NEW j \in DOMAIN checks, j < first PROVE checks[j].holds
    <3>1. j \in Nat /\ first \in Nat
      BY <2>3
    <3>2. j \notin failed
      BY <2>1, <2>4, <3>1
    <3> QED
      BY <3>2 DEF failed
  <2> QED
    BY <2>2, <2>3, <2>4
<1> QED
  BY <1>1, <1>2

(* Where every check has an error to report, "nil" means that all hold.    *)
LEMMA NilMeansAllHold ==
  ASSUME NEW checks, DOMAIN checks \in SUBSET Nat,
         \A i \in DOMAIN checks : checks[i].holds \in BOOLEAN /\ checks[i].error # "nil"
  PROVE  FirstError(checks) = "nil" <=> \A i \in DOMAIN checks : checks[i].holds
  BY ReportsTheFirst

(* A check is the pair it is made of.                                      *)
LEMMA CheckFields ==
  ASSUME NEW holds \in BOOLEAN, NEW error
  PROVE  Check(holds, error).holds = holds /\ Check(holds, error).error = error
  BY DEF Check

-----------------------------------------------------------------------------
(* Lists of six and of four.                                               *)

LEMMA SixChecks ==
  ASSUME NEW h1 \in BOOLEAN, NEW h2 \in BOOLEAN, NEW h3 \in BOOLEAN, NEW h4 \in BOOLEAN,
         NEW h5 \in BOOLEAN, NEW h6 \in BOOLEAN
  PROVE  FirstError(<< Check(h1, "parse"), Check(h2, "errDBHostRequired"),
                       Check(h3, "errDBPortRequired"), Check(h4, "errDBNameRequired"),
                       Check(h5, "errDBUserRequired"), Check(h6, "errDBPasswordRequired") >>)
           = "nil" <=> h1 /\ h2 /\ h3 /\ h4 /\ h5 /\ h6
<1> DEFINE checks == << Check(h1, "parse"), Check(h2, "errDBHostRequired"),
                        Check(h3, "errDBPortRequired"), Check(h4, "errDBNameRequired"),
                        Check(h5, "errDBUserRequired"), Check(h6, "errDBPasswordRequired") >>
<1>1. /\ DOMAIN checks = 1 .. 6
      /\ checks[1].holds = h1 /\ checks[2].holds = h2 /\ checks[3].holds = h3
      /\ checks[4].holds = h4 /\ checks[5].holds = h5 /\ checks[6].holds = h6
  BY CheckFields
<1>2. \A i \in 1 .. 6 : checks[i].holds \in BOOLEAN /\ checks[i].error # "nil"
  BY DEF Check
<1> HIDE DEF checks
<1>3. FirstError(checks) = "nil" <=> \A i \in 1 .. 6 : checks[i].holds
  BY <1>1, <1>2, NilMeansAllHold
<1> QED
  BY <1>1, <1>3 DEF checks

LEMMA FourChecks ==
  ASSUME NEW h1 \in BOOLEAN, NEW h2 \in BOOLEAN, NEW h3 \in BOOLEAN, NEW h4 \in BOOLEAN
  PROVE  FirstError(<< Check(h1, "ErrServiceParamEmpty"), Check(h2, "ErrInvalidLogLevel"),
                       Check(h3, "ErrLimitOutOfRange"), Check(h4, "ErrOffsetNegative") >>)
           = "nil" <=> h1 /\ h2 /\ h3 /\ h4
<1> DEFINE checks == << Check(h1, "ErrServiceParamEmpty"), Check(h2, "ErrInvalidLogLevel"),
                        Check(h3, "ErrLimitOutOfRange"), Check(h4, "ErrOffsetNegative") >>
<1>1. /\ DOMAIN checks = 1 .. 4
      /\ checks[1].holds = h1 /\ checks[2].holds = h2
      /\ checks[3].holds = h3 /\ checks[4].holds = h4
  BY CheckFields
<1>2. \A i \in 1 .. 4 : checks[i].holds \in BOOLEAN /\ checks[i].error # "nil"
  BY DEF Check
<1> HIDE DEF checks
<1>3. FirstError(checks) = "nil" <=> \A i \in 1 .. 4 : checks[i].holds
  BY <1>1, <1>2, NilMeansAllHold
<1> QED
  BY <1>1, <1>3 DEF checks

(* A SendLog request is let in exactly if nothing required is missing, its  *)
(* level exists, and its timestamp is no more than a minute ahead.         *)
LEMMA SendRange ==
  ASSUME NEW r, IsEntry(r)
  PROVE  ValidateSendLogRequest(r) = "nil" <=>
           /\ r.log /\ r.hasTimestamp /\ r.ahead <= FutureTolerance
           /\ r.service # "" /\ r.message # "" /\ r.traceId # ""
           /\ r.level # "" /\ r.level \in LogLevels
<1> DEFINE log == r.log
           stamp == r.hasTimestamp
           service == r.service # ""
           message == r.message # ""
           named == r.level # ""
           level == IsValidLogLevel(r.level)
           traceId == r.traceId # ""
           time == r.ahead <= FutureTolerance
<1>1. /\ log \in BOOLEAN /\ stamp \in BOOLEAN
      /\ service \in BOOLEAN /\ message \in BOOLEAN /\ named \in BOOLEAN
      /\ level \in BOOLEAN /\ traceId \in BOOLEAN /\ time \in BOOLEAN
  BY DEF IsEntry, IsValidLogLevel, FutureTolerance
<1> DEFINE checks == << Check(log, "ErrLogRequired"), Check(service, "ErrServiceEmpty"),
                        Check(message, "ErrMessageEmpty"), Check(named, "ErrLevelEmpty"),
                        Check(level, "ErrInvalidLogLevel"), Check(traceId, "ErrTraceIDEmpty"),
                        Check(stamp, "ErrTimestampRequired"),
                        Check(time, "ErrTimestampInFuture") >>
<1>2. ValidateSendLogRequest(r) = FirstError(checks)
  BY DEF ValidateSendLogRequest
<1>3. level <=> r.level \in LogLevels
  BY DEF IsValidLogLevel
<1> HIDE DEF log, stamp, service, message, named, level, traceId, time
<1>4. ValidateSendLogRequest(r) = "nil" <=>
        log /\ service /\ message /\ named /\ level /\ traceId /\ stamp /\ time
  <2>1. /\ DOMAIN checks = 1 .. 8
        /\ checks[1].holds = log /\ checks[2].holds = service /\ checks[3].holds = message
        /\ checks[4].holds = named /\ checks[5].holds = level /\ checks[6].holds = traceId
        /\ checks[7].holds = stamp /\ checks[8].holds = time
    BY <1>1, CheckFields
  <2>2. \A i \in 1 .. 8 : checks[i].holds \in BOOLEAN /\ checks[i].error # "nil"
    BY <1>1 DEF Check
  <2> HIDE DEF checks
  <2>3. FirstError(checks) = "nil" <=> \A i \in 1 .. 8 : checks[i].holds
    BY <2>1, <2>2, NilMeansAllHold
  <2> QED
    BY <1>2, <2>1, <2>3
<1>5. /\ log <=> r.log
      /\ stamp <=> r.hasTimestamp
      /\ service <=> r.service # ""
      /\ message <=> r.message # ""
      /\ named <=> r.level # ""
      /\ traceId <=> r.traceId # ""
      /\ time <=> r.ahead <= FutureTolerance
  BY DEF log, stamp, service, message, named, traceId, time
<1> QED
  BY <1>3, <1>4, <1>5

(* The two comparisons are one range.                                      *)
LEMMA LimitRange ==
  ASSUME NEW x \in Int
  PROVE  x >= 1 /\ x <= MaxLimit <=> x \in 1 .. 1000
  BY DEF MaxLimit

(* A query is let in exactly if its service is named, its level exists or is *)
(* left out, and its limit and offset are in their ranges or left out: for  *)
(* every limit and offset, what ParseQueryParams fills in passes.           *)
LEMMA QueryRange ==
  ASSUME NEW raw, IsParam(raw.limit), IsParam(raw.offset)
  PROVE  AcceptsQuery(raw) <=> QueryIsInRange(raw)
<1>0. /\ raw.limit.value \in Int /\ raw.offset.value \in Int
      /\ raw.limit.given \in BOOLEAN /\ raw.limit.number \in BOOLEAN
      /\ raw.offset.given \in BOOLEAN /\ raw.offset.number \in BOOLEAN
  BY DEF IsParam
<1> USE <1>0
<1> DEFINE q == ParseQueryParams(raw)
<1>1. /\ q.service = raw.service /\ q.level = raw.level
      /\ q.limit = IF raw.limit.given THEN raw.limit.value ELSE 100
      /\ q.offset = IF raw.offset.given THEN raw.offset.value ELSE 0
  BY DEF ParseQueryParams, Atoi, DefaultLimit, DefaultOffset
<1>2. q.ok = (Parses(raw.limit) /\ Parses(raw.offset))
  BY DEF ParseQueryParams
<1> DEFINE service == q.service # ""
           level == q.level = "" \/ IsValidLogLevel(q.level)
           limit == q.limit >= 1 /\ q.limit <= MaxLimit
           offset == q.offset >= 0
<1>3. ValidateGetLogsRequest(q) = "nil" <=> service /\ level /\ limit /\ offset
  <2>1. /\ service \in BOOLEAN /\ level \in BOOLEAN
        /\ limit \in BOOLEAN /\ offset \in BOOLEAN
    BY DEF IsValidLogLevel
  <2>2. ValidateGetLogsRequest(q)
          = FirstError(<<Check(service, "ErrServiceParamEmpty"),
                         Check(level, "ErrInvalidLogLevel"),
                         Check(limit, "ErrLimitOutOfRange"),
                         Check(offset, "ErrOffsetNegative")>>)
    BY DEF ValidateGetLogsRequest
  <2> HIDE DEF service, level, limit, offset
  <2> QED
    BY <2>1, <2>2, FourChecks
<1> HIDE DEF q
<1>4. service /\ level <=> raw.service # "" /\ raw.level \in LogLevels \cup {""}
  BY <1>1 DEF IsValidLogLevel
<1>5. limit <=> (raw.limit.given => raw.limit.value \in 1 .. 1000)
  <2>1. CASE raw.limit.given
    <3> DEFINE x == raw.limit.value
    <3>1. q.limit = x /\ x \in Int
      BY <1>1, <2>1
    <3> HIDE DEF x
    <3>2. limit <=> x >= 1 /\ x <= MaxLimit
      BY <3>1
    <3>3. limit <=> x \in 1 .. 1000
      BY <3>1, <3>2, LimitRange
    <3> QED
      BY <2>1, <3>3 DEF x
  <2>2. CASE ~ raw.limit.given
    BY <1>1, <2>2 DEF MaxLimit
  <2> QED
    BY <2>1, <2>2
<1>6. offset <=> (raw.offset.given => raw.offset.value \in Nat)
  <2>1. CASE raw.offset.given
    BY <1>1, <2>1
  <2>2. CASE ~ raw.offset.given
    BY <1>1, <2>2
  <2> QED
    BY <2>1, <2>2
<1> HIDE DEF service, level, limit, offset
<1>7. AcceptsQuery(raw) <=> q.ok /\ ValidateGetLogsRequest(q) = "nil"
  BY DEF AcceptsQuery, q
<1>8. q.ok <=> /\ raw.limit.given => raw.limit.number
               /\ raw.offset.given => raw.offset.number
  BY <1>2 DEF Parses
<1>9. AcceptsQuery(raw) <=> service /\ level /\ limit /\ offset /\ q.ok
  BY <1>3, <1>7
<1> DEFINE good ==
      /\ raw.service # "" /\ raw.level \in LogLevels \cup {""}
      /\ raw.limit.given => raw.limit.number
      /\ raw.offset.given => raw.offset.number
      /\ raw.limit.given => raw.limit.value \in 1 .. 1000
      /\ raw.offset.given => raw.offset.value \in Nat
<1>10. good => QueryIsInRange(raw)
  BY DEF QueryIsInRange
<1>11. QueryIsInRange(raw) => good
  BY DEF QueryIsInRange
<1>12. AcceptsQuery(raw) <=> good
  BY <1>4, <1>5, <1>6, <1>8, <1>9
<1> HIDE DEF good
<1> QED
  BY <1>10, <1>11, <1>12

(* The process starts exactly if every required variable has a value and   *)
(* every timeout that is given is a number.                                *)
LEMMA StartRange ==
  ASSUME NEW e, IsParam(e.grpc), IsParam(e.rest), IsParam(e.shutdown)
  PROVE  NewConfig(e) = "nil" <=>
           /\ Required \subseteq e.set
           /\ \A t \in {e.grpc, e.rest, e.shutdown} : t.given => t.number
<1> DEFINE parsed == Parses(e.grpc) /\ Parses(e.rest) /\ Parses(e.shutdown)
           host == "DB_HOST" \in e.set
           port == "DB_PORT" \in e.set
           name == "DB_NAME" \in e.set
           user == "DB_USER" \in e.set
           pass == "DB_PASS" \in e.set
<1>1. /\ parsed \in BOOLEAN /\ host \in BOOLEAN /\ port \in BOOLEAN
      /\ name \in BOOLEAN /\ user \in BOOLEAN /\ pass \in BOOLEAN
  BY DEF Parses, IsParam
<1>2. NewConfig(e)
        = FirstError(<< Check(parsed, "parse"), Check(host, "errDBHostRequired"),
                        Check(port, "errDBPortRequired"), Check(name, "errDBNameRequired"),
                        Check(user, "errDBUserRequired"),
                        Check(pass, "errDBPasswordRequired") >>)
  BY DEF NewConfig
<1>3. parsed <=> \A t \in {e.grpc, e.rest, e.shutdown} : t.given => t.number
  BY DEF Parses
<1>4. host /\ port /\ name /\ user /\ pass <=> Required \subseteq e.set
  BY DEF Required
<1> HIDE DEF parsed, host, port, name, user, pass
<1>5. NewConfig(e) = "nil" <=> parsed /\ host /\ port /\ name /\ user /\ pass
  BY <1>1, <1>2, SixChecks
<1> QED
  BY <1>3, <1>4, <1>5

-----------------------------------------------------------------------------
(* What comes in is one of the inputs, whatever they are.                  *)
LEMMA AnInput == InputSpec => [](input \in Inputs)
<1>1. InputInit => input \in Inputs
  BY DEF InputInit
<1>2. input \in Inputs /\ [UNCHANGED input]_input => (input \in Inputs)'
  OBVIOUS
<1> QED
  BY <1>1, <1>2, PTL DEF InputSpec

(* Whatever may be written may be asked for: the level check of the second *)
(* validator, and the defaults it is given, refuse no entry the first let in.*)
THEOREM Findable == InputSpec => []AcceptedEntryIsFindable
<1>1. input \in Inputs => AcceptedEntryIsFindable
  <2> SUFFICES ASSUME input \in Inputs, input.op = "send",
                      ValidateSendLogRequest(input) = "nil"
               PROVE  AcceptsQuery([service |-> input.service, level |-> input.level,
                                    limit |-> AbsentParam, offset |-> AbsentParam])
    BY DEF AcceptedEntryIsFindable
  <2> DEFINE query == [service |-> input.service, level |-> input.level,
                       limit |-> AbsentParam, offset |-> AbsentParam]
  <2>1. input.service # "" /\ input.level \in LogLevels
    BY InputAssumption, SendRange
  <2>2. /\ query.service = input.service /\ query.level = input.level
        /\ ~ query.limit.given /\ ~ query.offset.given
    BY DEF AbsentParam
  <2> HIDE DEF query
  <2>3. QueryIsInRange(query)
    BY <2>1, <2>2 DEF QueryIsInRange
  <2>4. IsParam(query.limit) /\ IsParam(query.offset)
    <3>1. query.limit = AbsentParam /\ query.offset = AbsentParam
      BY DEF query
    <3>2. IsParam(AbsentParam)
      BY DEF AbsentParam, IsParam
    <3> QED
      BY <3>1, <3>2
  <2>5. AcceptsQuery(query)
    BY <2>3, <2>4, QueryRange
  <2> QED
    BY <2>5 DEF query
<1> QED
  BY <1>1, AnInput, PTL

(* Every query, with any limit and offset a number can be, is let in       *)
(* exactly within the ranges the validator names, defaults included.       *)
THEOREM QueriesInRange == InputSpec => []QueryAcceptedIffInRange
<1>1. input \in Inputs => QueryAcceptedIffInRange
  BY InputAssumption, QueryRange DEF QueryAcceptedIffInRange
<1> QED
  BY <1>1, AnInput, PTL

(* Both interfaces tell the same about any outcome, known or not.          *)
THEOREM Agree == InputSpec => []InterfacesAgree
<1> DEFINE e == input.result
<1>1. InterfacesAgree
  <2>1. CASE e \in {"ok", "panic", "validation", "repoErr", "noLogs"}
    BY <2>1 DEF InterfacesAgree, GrpcCode, HttpStatus, WrapUnknown, AppErrorToGRPCCode,
       AppErrorToHTTPStatus
  <2>2. CASE e \notin {"ok", "panic", "validation", "repoErr", "noLogs"}
    <3>1. GrpcCode(e) = "Internal" /\ HttpStatus(e) = 500
      BY <2>2 DEF GrpcCode, HttpStatus, WrapUnknown, AppErrorToGRPCCode,
         AppErrorToHTTPStatus
    <3> QED
      BY <3>1 DEF InterfacesAgree
  <2> QED
    BY <2>1, <2>2
<1> QED
  BY <1>1, PTL

(* Any environment starts the process exactly if it is a documented one.   *)
THEOREM StartDocumented == InputSpec => []ConfigAcceptedIffDocumented
<1>1. input \in Inputs => ConfigAcceptedIffDocumented
  BY InputAssumption, StartRange DEF ConfigAcceptedIffDocumented
<1> QED
  BY <1>1, AnInput, PTL

(* No LOG_LEVEL, whatever its text, keeps the failure of a gRPC call out of *)
(* the access log.                                                         *)
THEOREM FailureWritten == InputSpec => []FailureIsWritten
<1>1. ASSUME NEW outcome, NEW e, GrpcCode(outcome) # "OK" PROVE GrpcLineWritten(e, outcome)
  <2> DEFINE configured == ParseLevel(Config(e).LogLevel)
  <2>1. configured \in {"DEBUG", "INFO", "WARN", "ERROR"}
    BY DEF ParseLevel
  <2> HIDE DEF configured
  <2>2. Severity("ERROR") = 8 /\ Severity(configured) \in {-4, 0, 4, 8}
    BY <2>1 DEF Severity
  <2>3. Enabled("ERROR", configured)
    BY <2>2 DEF Enabled
  <2> QED
    BY <1>1, <2>3 DEF GrpcLineWritten, LoggingHandler, configured
<1>2. ASSUME NEW outcome, NEW e, e.level \notin {"WARN", "ERROR"}
      PROVE  GrpcLineWritten(e, outcome)
  <2> DEFINE configured == ParseLevel(Config(e).LogLevel)
             line == LoggingHandler(GrpcCode(outcome) # "OK")
  <2>1. configured \in {"DEBUG", "INFO"} /\ line \in {"INFO", "ERROR"}
    BY <1>2 DEF ParseLevel, Config, LoggingHandler
  <2> HIDE DEF configured, line
  <2>2. Severity(line) \in {0, 8} /\ Severity(configured) \in {-4, 0}
    BY <2>1 DEF Severity
  <2>3. Enabled(line, configured)
    BY <2>2 DEF Enabled
  <2> QED
    BY <2>3 DEF GrpcLineWritten, configured, line
<1>3. FailureIsWritten
  BY <1>1, <1>2 DEF FailureIsWritten
<1> QED
  BY <1>3, PTL
=============================================================================
