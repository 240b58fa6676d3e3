--------------------------- MODULE Configuration ---------------------------
(***************************************************************************)
(* What the process makes of its environment before it starts anything     *)
(* else, and which access log lines the configured level lets through.     *)
(* Pure functions.                                                         *)
(*                                                                         *)
(* An environment e says which of the required variables have a value      *)
(* (e.set), what the three timeouts are, each a parameter as in            *)
(* RequestValidation, where `number' says that it is an int of 32 bits,    *)
(* and what LOG_LEVEL is.  An empty variable is one that is not there.     *)
(***************************************************************************)
EXTENDS RequestValidation

(* A deviation of NewConfig: the last of the five is not looked at.        *)
NewConfigNoPassword(e) ==
  FirstError(<< Check(Parses(e.grpc) /\ Parses(e.rest) /\ Parses(e.shutdown), "parse"),
                Check("DB_HOST" \in e.set, "errDBHostRequired"),
                Check("DB_PORT" \in e.set, "errDBPortRequired"),
                Check("DB_NAME" \in e.set, "errDBNameRequired"),
                Check("DB_USER" \in e.set, "errDBUserRequired") >>)

(* The error NewConfig returns.                                            *)
NewConfig(e) ==
  FirstError(<< Check(Parses(e.grpc) /\ Parses(e.rest) /\ Parses(e.shutdown), "parse"),
                Check("DB_HOST" \in e.set, "errDBHostRequired"),
                Check("DB_PORT" \in e.set, "errDBPortRequired"),
                Check("DB_NAME" \in e.set, "errDBNameRequired"),
                Check("DB_USER" \in e.set, "errDBUserRequired"),
                Check("DB_PASS" \in e.set, "errDBPasswordRequired") >>)

(* The fields of Config a run depends on; every int is taken, zero and the *)
(* negative ones too.                                                      *)
Config(e) ==
  [GRPCTimeoutSec |-> Atoi(e.grpc, 2),
   RESTTimeoutSec |-> Atoi(e.rest, 3),
   ShutdownTimeoutSec |-> Atoi(e.shutdown, 10),
   LogLevel |-> IF e.level = "" THEN "INFO" ELSE e.level]

-----------------------------------------------------------------------------
(* The logger.                                                             *)

Severity(level) ==
  CASE level = "DEBUG" -> -4 [] level = "INFO" -> 0
    [] level = "WARN" -> 4   [] level = "ERROR" -> 8

ParseLevel(text) == IF text \in {"DEBUG", "WARN", "ERROR"} THEN text ELSE "INFO"

(* slog's handler, as rebuildLogger sets it up.                            *)
Enabled(level, configured) == Severity(level) >= Severity(configured)

(* A deviation of LoggingHandler: a failure is a warning.                  *)
LogFailureAsWarn(failed) == IF failed THEN "WARN" ELSE "INFO"

LoggingHandler(failed) == IF failed THEN "ERROR" ELSE "INFO"

(* Is the line of a gRPC call with this outcome written?                   *)
GrpcLineWritten(e, result) ==
  Enabled(LoggingHandler(GrpcCode(result) # "OK"), ParseLevel(Config(e).LogLevel))
=============================================================================
