---------------------------- MODULE MCLogServer ----------------------------
(* A gRPC call and a REST call at the same process.                        *)
EXTENDS LogServer

CONSTANTS g1, r1, lower, upper, key, none

MCIds == {lower, upper}
MCCanon == [t \in MCIds |-> key]

SendLogOf(id, level, readable) ==
  [op |-> "send", log |-> TRUE, id |-> id, service |-> "web", message |-> "text",
   level |-> level, traceId |-> "text", hasTimestamp |-> TRUE, ahead |-> 0,
   readable |-> readable]

GetLogsOf(level) ==
  [op |-> "get", service |-> "web", level |-> level, limit |-> 2, offset |-> 0,
   readable |-> TRUE]

(* One id in two spellings, a request that validation rejects, and a query. *)
ByGrpc == {SendLogOf(lower, "INFO", TRUE), SendLogOf(none, "info", TRUE), GetLogsOf("")}
ByRest == {SendLogOf(upper, "INFO", TRUE), GetLogsOf("")}

MCRequests == ByGrpc \cup ByRest

MCInit == SInit /\ req[g1] \in ByGrpc /\ req[r1] \in ByRest
MCSpec == MCInit /\ [][SNext]_serverVars
=============================================================================
