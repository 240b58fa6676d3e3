------------------------ MODULE MCRequestValidation ------------------------
(***************************************************************************)
(* RequestValidation and Configuration over bounded inputs: one state per  *)
(* input, with values on both sides of every boundary the code draws.      *)
(***************************************************************************)
EXTENDS RequestInput

Texts == {"", "text"}
LevelTexts == LogLevels \cup {"", "info", "FATAL"}

SendLogRequests ==
  [op : {"send"}, log : BOOLEAN, service : Texts, message : Texts,
   level : LevelTexts, traceId : Texts, hasTimestamp : BOOLEAN,
   ahead : {-3600, 0, 60, 61}]

Param == [given : {FALSE}, number : {FALSE}, value : {0}]
           \cup [given : {TRUE}, number : {FALSE}, value : {0}]
           \cup [given : {TRUE}, number : {TRUE}, value : {-1, 0, 1, 100, 1000, 1001}]

GetLogsQueries ==
  [op : {"get"}, service : Texts, level : LevelTexts, limit : Param, offset : Param]

Errors == [op : {"answer"}, result : {"ok", "noLogs", "repoErr", "validation", "panic", "other"}]

Timeout == {[given |-> FALSE, number |-> FALSE, value |-> 0],
            [given |-> TRUE, number |-> FALSE, value |-> 0],
            [given |-> TRUE, number |-> TRUE, value |-> 0]}

Environments ==
  [op : {"start"}, set : SUBSET Required, grpc : Timeout, rest : Timeout,
   shutdown : Timeout, level : LevelTexts]

MCInputs == SendLogRequests \cup GetLogsQueries \cup Errors \cup Environments
=============================================================================
