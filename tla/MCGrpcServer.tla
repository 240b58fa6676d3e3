---------------------------- MODULE MCGrpcServer ----------------------------
(* Small instances of GrpcServer.                                          *)
EXTENDS GrpcServer

CONSTANTS c1, c2, lower, upper, junk, key, none

MCIds == {lower, upper, junk}
MCCanon == [t \in MCIds |-> IF t = junk THEN "malformed" ELSE key]

SendLogOf(id, level) ==
  [op |-> "send", log |-> TRUE, id |-> id, service |-> "web", message |-> "text",
   level |-> level, traceId |-> "text", hasTimestamp |-> TRUE, ahead |-> 0]

GetLogsOf(limit) ==
  [op |-> "get", service |-> "web", level |-> "", limit |-> limit, offset |-> 0]

(* A shared id and one PostgreSQL rejects, a level the validation rejects,  *)
(* and a query.                                                            *)
MCRequests ==
  {SendLogOf(lower, "INFO"), SendLogOf(junk, "INFO"), SendLogOf(none, "info"),
   GetLogsOf(2)}

(* For one call on its own: a generated id, and the requests that are       *)
(* rejected.                                                               *)
FewRequests ==
  {SendLogOf(none, "INFO"), SendLogOf(none, "info"), GetLogsOf(2), GetLogsOf(0)}
=============================================================================
