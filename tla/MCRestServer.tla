---------------------------- MODULE MCRestServer ----------------------------
(* Small instances of RestServer.                                          *)
EXTENDS RestServer

CONSTANTS c1, c2, lower, upper, junk, key, none

MCIds == {lower, upper, junk}
MCCanon == [t \in MCIds |-> IF t = junk THEN "malformed" ELSE key]

SendLogOf(id, level, readable) ==
  [op |-> "send", log |-> TRUE, id |-> id, service |-> "web", message |-> "text",
   level |-> level, traceId |-> "text", hasTimestamp |-> TRUE, ahead |-> 0,
   readable |-> readable]

GetLogsOf(readable) ==
  [op |-> "get", service |-> "web", level |-> "", limit |-> 2, offset |-> 0,
   readable |-> readable]

(* A shared id, a body that does not parse, a level the validation         *)
(* rejects, and a query.                                                   *)
MCRequests ==
  {SendLogOf(lower, "INFO", TRUE), SendLogOf(none, "INFO", FALSE),
   SendLogOf(none, "info", TRUE), GetLogsOf(TRUE)}

FewRequests ==
  {SendLogOf(none, "INFO", TRUE), SendLogOf(none, "INFO", FALSE),
   SendLogOf(none, "info", TRUE), GetLogsOf(TRUE), GetLogsOf(FALSE)}

=============================================================================
