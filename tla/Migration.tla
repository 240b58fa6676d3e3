------------------------------ MODULE Migration ------------------------------
(***************************************************************************)
(* `make migrate': any number of runs of migrate.go against one database,  *)
(* each loading its configuration, opening golang-migrate's PostgreSQL     *)
(* driver and calling Up.                                                  *)
(*                                                                         *)
(* There is one migration, and it is one statement: CREATE TABLE logs.     *)
(* golang-migrate (which is not part of the repository) runs it between    *)
(* two writes to schema_migrations, the version marked dirty before and    *)
(* clean after, each of the three a transaction of its own, under an       *)
(* advisory lock that the server holds for the session.  A run may be      *)
(* killed, or lose its connection, at any point: the server finishes or    *)
(* gives up the statement in hand and then drops the lock.  Nothing in the *)
(* repository runs the down migration.                                     *)
(***************************************************************************)
CONSTANTS Migrators,    \* the runs, concurrent or one after the other
          Nobody

ASSUME MigratorAssumption == Nobody \notin Migrators

VARIABLES
  at,        \* where each run stands
  up,        \* what Up has come to: "none", "nil", "noChange" or "error"
  exit,      \* how the run ended: "success" is exit code 0, "failure" 1
  sql,       \* the statement of the session: in hand, or its outcome
  lock,      \* the session that holds the advisory lock
  version,   \* the version in schema_migrations: "none", "dirty" or "clean"
  table      \* is there a table logs?

mvars == <<at, up, exit, sql, lock, version, table>>

Body == {"setDirty", "create", "setClean"}
InHand == {"dirty", "create", "clean"}
Over == {"exited", "killed"}

MInit ==
  /\ at = [m \in Migrators |-> "config"]
  /\ up = [m \in Migrators |-> "none"]
  /\ exit = [m \in Migrators |-> "none"]
  /\ sql = [m \in Migrators |-> "idle"]
  /\ lock = Nobody
  /\ version = "none"
  /\ table = FALSE

ExitWith(m, code) ==
  /\ at' = [at EXCEPT ![m] = "exited"]
  /\ exit' = [exit EXCEPT ![m] = code]

(* The configuration does not load, the driver cannot be made, or the lock *)
(* does not come within the migrator's time.                               *)
GiveUp(m) ==
  /\ at[m] \in {"config", "driver", "lock"}
  /\ ExitWith(m, "failure")
  /\ UNCHANGED <<up, sql, lock, version, table>>

LoadConfig(m) ==
  /\ at[m] = "config"
  /\ at' = [at EXCEPT ![m] = "driver"]
  /\ UNCHANGED <<up, exit, sql, lock, version, table>>

(* A deviation of OpenDriver: the lock is not given back.                  *)
OpenDriverLocked(m) ==
  /\ at[m] = "driver"
  /\ lock = Nobody
  /\ lock' = m
  /\ at' = [at EXCEPT ![m] = "lock"]
  /\ UNCHANGED <<up, exit, sql, version, table>>

(* postgres.WithInstance makes schema_migrations if need be, under the same *)
(* lock, for which it waits as long as it takes.                           *)
OpenDriver(m) ==
  /\ at[m] = "driver"
  /\ lock = Nobody
  /\ at' = [at EXCEPT ![m] = "lock"]
  /\ UNCHANGED <<up, exit, sql, lock, version, table>>

Lock(m) ==
  /\ at[m] = "lock"
  /\ lock = Nobody
  /\ lock' = m
  /\ at' = [at EXCEPT ![m] = "version"]
  /\ UNCHANGED <<up, exit, sql, version, table>>

Issue(m, place, statement) ==
  /\ at' = [at EXCEPT ![m] = place]
  /\ sql' = [sql EXCEPT ![m] = statement]

UpReturns(m, result) ==
  /\ at' = [at EXCEPT ![m] = "unlock"]
  /\ up' = [up EXCEPT ![m] = result]

(* A deviation of ReadVersion: a dirty version is started over.            *)
StartOver(m) ==
  /\ at[m] = "version"
  /\ IF version # "clean"
       THEN Issue(m, "setDirty", "dirty") /\ UNCHANGED up
       ELSE UpReturns(m, "noChange") /\ UNCHANGED sql
  /\ UNCHANGED <<exit, lock, version, table>>

(* A dirty version is an error, the newest one is ErrNoChange.             *)
ReadVersion(m) ==
  /\ at[m] = "version"
  /\ \/ /\ version = "none"
        /\ Issue(m, "setDirty", "dirty") /\ UNCHANGED up
     \/ /\ version = "clean"
        /\ UpReturns(m, "noChange") /\ UNCHANGED sql
     \/ UpReturns(m, "error") /\ UNCHANGED sql     \* dirty, or not to be read
  /\ UNCHANGED <<exit, lock, version, table>>

(* A statement has succeeded: the next one goes out, or Up returns nil.    *)
Proceed(m) ==
  /\ sql[m] = "applied"
  /\ \/ at[m] = "setDirty" /\ Issue(m, "create", "create") /\ UNCHANGED up
     \/ at[m] = "create" /\ Issue(m, "setClean", "clean") /\ UNCHANGED up
     \/ at[m] = "setClean" /\ UpReturns(m, "nil") /\ UNCHANGED sql
  /\ UNCHANGED <<exit, lock, version, table>>

(* The statement fails, or the connection breaks under it.                 *)
BodyFails(m) ==
  /\ at[m] \in Body
  /\ UpReturns(m, "error")
  /\ UNCHANGED <<exit, sql, lock, version, table>>

(* A deviation of Finish: an error of Up is logged, and no more.           *)
FinishErrorIgnored(m) ==
  /\ at[m] = "unlock"
  /\ sql[m] \notin InHand
  /\ lock' = Nobody
  /\ ExitWith(m, "success")
  /\ UNCHANGED <<up, sql, version, table>>

(* Up gives the lock back and runMigration its verdict: nil and ErrNoChange *)
(* are success.                                                            *)
Finish(m) ==
  /\ at[m] = "unlock"
  /\ sql[m] \notin InHand
  /\ lock' = Nobody
  /\ ExitWith(m, IF up[m] = "error" THEN "failure" ELSE "success")
  /\ UNCHANGED <<up, sql, version, table>>

(* The unlocking fails with the connection, and its error joins what Up had *)
(* to say; ErrNoChange may still be found in it.                           *)
FinishLocked(m) ==
  /\ at[m] = "unlock"
  /\ \/ ExitWith(m, "failure")
     \/ up[m] = "noChange" /\ ExitWith(m, "success")
  /\ UNCHANGED <<up, sql, lock, version, table>>

Killed(m) ==
  /\ at[m] \notin Over
  /\ at' = [at EXCEPT ![m] = "killed"]
  /\ UNCHANGED <<up, exit, sql, lock, version, table>>

(* The server runs the statement it has in hand, or gives it up.           *)
Apply(m) ==
  /\ \/ sql[m] = "dirty" /\ version' = "dirty" /\ UNCHANGED table
     \/ sql[m] = "create" /\ ~ table /\ table' = TRUE /\ UNCHANGED version
     \/ sql[m] = "clean" /\ version' = "clean" /\ UNCHANGED table
  /\ sql' = [sql EXCEPT ![m] = "applied"]
  /\ UNCHANGED <<at, up, exit, lock>>

Refuse(m) ==
  /\ sql[m] \in InHand
  /\ sql' = [sql EXCEPT ![m] = "failed"]
  /\ UNCHANGED <<at, up, exit, lock, version, table>>

(* A deviation of SessionEnds: the lock is gone before the statement is.   *)
SessionEndsAtOnce(m) ==
  /\ at[m] \in Over
  /\ lock = m
  /\ lock' = Nobody
  /\ UNCHANGED <<at, up, exit, sql, version, table>>

(* The server notices that the client is gone, once the statement is over. *)
SessionEnds(m) ==
  /\ at[m] \in Over
  /\ lock = m
  /\ sql[m] \notin InHand
  /\ lock' = Nobody
  /\ UNCHANGED <<at, up, exit, sql, version, table>>

(* The steps of main and runMigration, and those of the server.            *)
Runs(m) ==
  \/ LoadConfig(m) \/ OpenDriver(m) \/ Lock(m) \/ ReadVersion(m) \/ Proceed(m)
  \/ BodyFails(m) \/ Finish(m) \/ FinishLocked(m)

Serves(m) == Apply(m) \/ Refuse(m)

MAtRest ==
  /\ lock = Nobody
  /\ \A m \in Migrators : at[m] \in Over
  /\ UNCHANGED mvars

MNext ==
  \/ \E m \in Migrators :
        Runs(m) \/ GiveUp(m) \/ Killed(m) \/ Serves(m) \/ SessionEnds(m)
  \/ MAtRest

MSpec == MInit /\ [][MNext]_mvars

(***************************************************************************)
(* Fairness: a run that can go on does, and the server answers and notices *)
(* who is gone.  Nobody is asked to give up.                               *)
(***************************************************************************)
MFairness ==
  \A m \in Migrators :
    /\ WF_mvars(Runs(m))
    /\ WF_mvars(Serves(m))
    /\ WF_mvars(SessionEnds(m))

MFairSpec == MSpec /\ MFairness

-----------------------------------------------------------------------------
(* Properties.                                                             *)

MTypeOK ==
  /\ at \in [Migrators -> {"config", "driver", "lock", "version", "unlock"} \cup Body \cup Over]
  /\ up \in [Migrators -> {"none", "nil", "noChange", "error"}]
  /\ exit \in [Migrators -> {"none", "success", "failure"}]
  /\ sql \in [Migrators -> {"idle", "applied", "failed"} \cup InHand]
  /\ lock \in Migrators \cup {Nobody}
  /\ version \in {"none", "dirty", "clean"}
  /\ table \in BOOLEAN

(* `make migrate' that succeeds leaves a database one can serve from: the  *)
(* table is there and its version is clean, whoever made them and whoever  *)
(* was killed over it, and they stay.                                      *)
SuccessIsComplete ==
  \A m \in Migrators : exit[m] = "success" => table /\ version = "clean"

(* Concurrent runs never work on the schema at the same time, not even the *)
(* statement a dead one has left with the server.                          *)
OneAtATime ==
  \A m, n \in Migrators :
    sql[m] \in InHand /\ (sql[n] \in InHand \/ at[n] \in {"version"} \cup Body) => m = n

Works(m) == at[m] \in Body \/ sql[m] \in InHand
Working == \E m \in Migrators : Works(m)

Broken == version = "dirty" /\ ~ Working

(* A migration that broke off half-way, by a crash or a lost connection, is *)
(* nobody's to finish, to start over or to declare done: every later run   *)
(* leaves it as it is until someone repairs the database by hand.          *)
BrokenStaysBroken == [][Broken => Broken']_mvars

(* Whoever holds the lock can go on without anybody else: it is working,    *)
(* about to give the lock back, or gone, and then the server does; none of *)
(* those that wait for the lock has it.                                    *)
HolderGoesOn ==
  lock # Nobody => at[lock] \in {"version", "unlock"} \cup Body \cup Over

(* Whatever runs, crashes and lost connections do, they do to the schema   *)
(* what SchemaContract allows: the schema is the table and the version     *)
(* together, and is in the hands of whoever holds the lock and works.      *)
Schema ==
  IF version = "clean" /\ table THEN "ready"
  ELSE IF version = "none" /\ ~ table THEN "absent" ELSE "partial"

InHandsOf ==
  IF Schema = "partial" /\ lock # Nobody /\ Works(lock) THEN lock ELSE Nobody

Contract == INSTANCE SchemaContract
              WITH schema <- Schema, by <- InHandsOf, verdict <- exit

KeepsSchemaContract == Contract!SchemaSpec

(* No run hangs behind another one, crashed or not.                        *)
EveryMigrationEnds == \A m \in Migrators : at[m] = "driver" ~> at[m] \in Over
=============================================================================
