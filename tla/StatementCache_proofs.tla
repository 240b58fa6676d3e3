------------------------ MODULE StatementCache_proofs ------------------------
(***************************************************************************)
(* Theorems of Migration and StatementCache together, for any number of    *)
(* runs, calls and arguments.                                              *)
(*                                                                         *)
(* Migrations: whoever works on the schema, or has left a statement with   *)
(* the server, holds the lock (Holds), and what each stage of the work has *)
(* found and left behind is then nobody else's to change (Stage).          *)
(* Statements: a map's entries are what their keys ask for (EntryInv), and *)
(* a goroutine reads or writes a map only inside its mutex (LockInv).      *)
(***************************************************************************)
EXTENDS StatementCache, TLAPS

Holds(m) ==
  /\ at[m] \in {"version", "unlock"} \cup Body => lock = m
  /\ sql[m] \in InHand => lock = m

Stage(m) ==
  /\ at[m] \in {"config", "driver", "lock", "version"} => sql[m] = "idle"
  /\ at[m] = "setDirty" => /\ sql[m] \in {"dirty", "applied", "failed"}
                           /\ sql[m] = "applied" => version = "dirty"
  /\ at[m] = "create" => /\ sql[m] \in {"create", "applied", "failed"}
                         /\ version = "dirty"
                         /\ sql[m] = "applied" => table
  /\ at[m] = "setClean" => /\ sql[m] \in {"clean", "applied", "failed"}
                           /\ table
                           /\ sql[m] = "applied" => version = "clean"
  /\ sql[m] = "dirty" => version = "none"
  /\ sql[m] = "create" => version = "dirty"
  /\ sql[m] = "clean" => table /\ version = "dirty"
  /\ at[m] = "unlock" => up[m] # "none"
  /\ up[m] \in {"nil", "noChange"} => version = "clean"
  /\ exit[m] = "success" => version = "clean"
  /\ at[m] # "exited" => exit[m] = "none"

MInv ==
  /\ MTypeOK
  /\ version = "clean" => table
  /\ version = "none" => ~ table
  /\ HolderGoesOn
  /\ \A m \in Migrators : Holds(m) /\ Stage(m)

LEMMA InitMInv == MInit => MInv
<1> SUFFICES ASSUME MInit PROVE MInv
  OBVIOUS
<1>1. MTypeOK
  BY DEF MInit, MTypeOK
<1>2. \A m \in Migrators : Holds(m) /\ Stage(m)
  BY DEF MInit, Holds, Stage, Body, InHand
<1> QED
  BY <1>1, <1>2 DEF MInv, MInit, HolderGoesOn

LEMMA MTypeStep == MTypeOK /\ [MNext]_mvars => MTypeOK'
<1> SUFFICES ASSUME MTypeOK, [MNext]_mvars PROVE MTypeOK'
  OBVIOUS
<1> USE DEF MTypeOK, Body, InHand, Over, ExitWith, UpReturns, Issue
<1>1. ASSUME NEW m \in Migrators, GiveUp(m) \/ LoadConfig(m) \/ OpenDriver(m) \/ Lock(m)
      PROVE  MTypeOK'
  BY <1>1 DEF GiveUp, LoadConfig, OpenDriver, Lock
<1>2. ASSUME NEW m \in Migrators, ReadVersion(m) PROVE MTypeOK'
  BY <1>2 DEF ReadVersion
<1>3. ASSUME NEW m \in Migrators, Proceed(m) PROVE MTypeOK'
  BY <1>3 DEF Proceed
<1>4. ASSUME NEW m \in Migrators, BodyFails(m) \/ Finish(m) \/ FinishLocked(m)
      PROVE  MTypeOK'
  BY <1>4 DEF BodyFails, Finish, FinishLocked
<1>5. ASSUME NEW m \in Migrators, Killed(m) \/ Apply(m) \/ Refuse(m) \/ SessionEnds(m)
      PROVE  MTypeOK'
  BY <1>5 DEF Killed, Apply, Refuse, SessionEnds
<1>6. CASE MAtRest \/ UNCHANGED mvars
  BY <1>6 DEF MAtRest, mvars
<1> QED
  BY <1>1, <1>2, <1>3, <1>4, <1>5, <1>6 DEF MNext, Runs, Serves

LEMMA MInvStep == MInv /\ [MNext]_mvars => MInv'
<1> SUFFICES ASSUME MInv, [MNext]_mvars PROVE MInv'
  OBVIOUS
<1>0. /\ MTypeOK /\ MTypeOK' /\ HolderGoesOn
      /\ version = "clean" => table
      /\ version = "none" => ~ table
      /\ \A m \in Migrators : Holds(m) /\ Stage(m)
  BY MTypeStep DEF MInv
<1>1. (version = "clean" => table)' /\ (version = "none" => ~ table)'
  BY <1>0 DEF MNext, Runs, Serves, GiveUp, LoadConfig, OpenDriver, Lock, ReadVersion,
     Proceed, BodyFails, Finish, FinishLocked, Killed, Apply, Refuse, SessionEnds,
     MAtRest, mvars, Stage
<1>2. ASSUME NEW n \in Migrators PROVE Holds(n)' /\ Stage(n)'
  <2>0. Holds(n) /\ Stage(n) /\ MTypeOK
    BY <1>0
  <2> USE <2>0, MigratorAssumption
      DEF MTypeOK, Holds, Stage, Body, InHand, Over, ExitWith, UpReturns, Issue
  <2>1. ASSUME NEW m \in Migrators, GiveUp(m) PROVE Holds(n)' /\ Stage(n)'
    BY <2>1 DEF GiveUp
  <2>2. ASSUME NEW m \in Migrators, LoadConfig(m) \/ OpenDriver(m)
        PROVE  Holds(n)' /\ Stage(n)'
    BY <2>2 DEF LoadConfig, OpenDriver
  <2>3. ASSUME NEW m \in Migrators, Lock(m) PROVE Holds(n)' /\ Stage(n)'
    BY <2>3 DEF Lock
  <2>4. ASSUME NEW m \in Migrators, ReadVersion(m) PROVE Holds(n)' /\ Stage(n)'
    <3>1. Holds(m) /\ Stage(m)
      BY <1>0
    <3> QED
      BY <2>4, <3>1 DEF ReadVersion
  <2>5. ASSUME NEW m \in Migrators, Proceed(m) PROVE Holds(n)' /\ Stage(n)'
    <3>1. Holds(m) /\ Stage(m)
      BY <1>0
    <3>2. CASE n = m
      BY <2>5, <3>1, <3>2 DEF Proceed
    <3>3. CASE n # m
      BY <2>5, <3>1, <3>3 DEF Proceed
    <3> QED
      BY <3>2, <3>3
  <2>6. ASSUME NEW m \in Migrators, BodyFails(m) PROVE Holds(n)' /\ Stage(n)'
    <3>1. Holds(m) /\ Stage(m)
      BY <1>0
    <3> QED
      BY <2>6, <3>1 DEF BodyFails
  <2>7. ASSUME NEW m \in Migrators, Finish(m) \/ FinishLocked(m)
        PROVE  Holds(n)' /\ Stage(n)'
    <3>1. Holds(m) /\ Stage(m)
      BY <1>0
    <3>2. CASE Finish(m)
      BY <3>1, <3>2 DEF Finish
    <3>3. CASE FinishLocked(m)
      BY <3>1, <3>3 DEF FinishLocked
    <3> QED
      BY <2>7, <3>2, <3>3
  <2>8. ASSUME NEW m \in Migrators, Killed(m) \/ Refuse(m) PROVE Holds(n)' /\ Stage(n)'
    BY <2>8 DEF Killed, Refuse
  <2>9. ASSUME NEW m \in Migrators, Apply(m) PROVE Holds(n)' /\ Stage(n)'
    <3>1. Holds(m) /\ Stage(m) /\ lock = m
      BY <1>0, <2>9 DEF Apply
    <3>2. CASE n = m
      BY <2>9, <3>1, <3>2 DEF Apply
    <3>3. CASE n # m
      BY <2>9, <3>1, <3>3 DEF Apply
    <3> QED
      BY <3>2, <3>3
  <2>10. ASSUME NEW m \in Migrators, SessionEnds(m) PROVE Holds(n)' /\ Stage(n)'
    BY <2>10 DEF SessionEnds
  <2>11. CASE MAtRest \/ UNCHANGED mvars
    BY <2>11 DEF MAtRest, mvars
  <2> QED
    BY <2>1, <2>2, <2>3, <2>4, <2>5, <2>6, <2>7, <2>8, <2>9, <2>10, <2>11
    DEF MNext, Runs, Serves
<1>3. HolderGoesOn'
  <2> USE <1>0, MigratorAssumption
      DEF HolderGoesOn, MTypeOK, Body, Over, ExitWith, UpReturns, Issue
  <2>1. ASSUME NEW m \in Migrators, GiveUp(m) \/ LoadConfig(m) \/ OpenDriver(m) \/ Lock(m)
        PROVE  HolderGoesOn'
    BY <2>1 DEF GiveUp, LoadConfig, OpenDriver, Lock
  <2>2. ASSUME NEW m \in Migrators, ReadVersion(m) \/ Proceed(m) \/ BodyFails(m)
        PROVE  HolderGoesOn'
    BY <2>2 DEF ReadVersion, Proceed, BodyFails
  <2>3. ASSUME NEW m \in Migrators, Finish(m) \/ FinishLocked(m) \/ Killed(m)
        PROVE  HolderGoesOn'
    BY <2>3 DEF Finish, FinishLocked, Killed
  <2>4. ASSUME NEW m \in Migrators, Apply(m) \/ Refuse(m) \/ SessionEnds(m)
        PROVE  HolderGoesOn'
    BY <2>4 DEF Apply, Refuse, SessionEnds
  <2>5. CASE MAtRest \/ UNCHANGED mvars
    BY <2>5 DEF MAtRest, mvars
  <2> QED
    BY <2>1, <2>2, <2>3, <2>4, <2>5 DEF MNext, Runs, Serves
<1> QED
  BY <1>0, <1>1, <1>2, <1>3 DEF MInv

(* What the statements do leaves the migrations alone.                     *)
LEMMA MigrationStep == [CacheNext]_cacheVars => [MNext]_mvars
  BY DEF CacheNext, StmtStep, RLock, Lookup, ExecOk, ExecFails, WLock, Store,
     ProcessEnds, CacheAtRest, cacheVars

(* The statements drive the migrations nowhere Migration does not: what is  *)
(* proved of it holds beside any calls.                                    *)
THEOREM MigrationsAlone == CacheSpec => MSpec
<1>1. CacheInit => MInit
  BY DEF CacheInit
<1> QED
  BY <1>1, MigrationStep, PTL DEF CacheSpec, MSpec

(* Locks, statements, versions and verdicts keep to their ranges, and to   *)
(* one another, whoever runs and whoever is killed.                        *)
THEOREM MigrationInvariance == MSpec => []MInv
<1> QED
  BY InitMInv, MInvStep, PTL DEF MSpec

(* Every variable of the migrations and the database keeps to the values   *)
(* of its kind, for any number of runs.                                    *)
THEOREM MigrationTypeCorrect == MSpec => []MTypeOK
<1>1. MInv => MTypeOK
  BY DEF MInv
<1> QED
  BY <1>1, MigrationInvariance, PTL

(* A migration that reports success has left the table and a clean version *)
(* behind, however many ran and however many were killed.                  *)
THEOREM SuccessComplete == MSpec => []SuccessIsComplete
<1>1. MInv => SuccessIsComplete
  BY DEF MInv, Stage, SuccessIsComplete
<1> QED
  BY <1>1, MigrationInvariance, PTL

(* Nobody holds the lock who would have to wait for another.               *)
THEOREM HoldersGoOn == MSpec => []HolderGoesOn
<1>1. MInv => HolderGoesOn
  BY DEF MInv
<1> QED
  BY <1>1, MigrationInvariance, PTL

(* No two runs ever have the schema in hand, dead ones included.           *)
THEOREM OneMigration == MSpec => []OneAtATime
<1>1. MInv => OneAtATime
  BY DEF MInv, Holds, OneAtATime
<1> QED
  BY <1>1, MigrationInvariance, PTL

(* A broken migration is left as it is by every run after it.              *)
THEOREM StaysBroken == MSpec => BrokenStaysBroken
<1>1. MInv /\ [MNext]_mvars => [Broken => Broken']_mvars
  <2> SUFFICES ASSUME MInv, MNext, Broken PROVE Broken'
    BY DEF Broken, Working, Works, mvars
  <2>0. /\ MTypeOK /\ version = "dirty"
        /\ \A m \in Migrators : at[m] \notin Body /\ sql[m] \notin InHand
    BY DEF MInv, Broken, Working, Works
  <2>1. version' = "dirty" /\ \A n \in Migrators : at'[n] \notin Body /\ sql'[n] \notin InHand
    BY <2>0 DEF MNext, Runs, Serves, GiveUp, LoadConfig, OpenDriver, Lock, ReadVersion,
       Proceed, BodyFails, Finish, FinishLocked, Killed, Apply, Refuse, SessionEnds,
       MAtRest, mvars, MTypeOK, Body, InHand, ExitWith, UpReturns
  <2> QED
    BY <2>1 DEF Broken, Working, Works
<1> QED
  BY <1>1, MigrationInvariance, PTL DEF MSpec, BrokenStaysBroken

-----------------------------------------------------------------------------
(* Migration implements SchemaContract: a step is one of the contract's    *)
(* under the mapping of Migration, or leaves schema, hands and verdicts.   *)

Mapped == <<Schema, InHandsOf, exit>>

(* Steps that leave the table and the version alone.                       *)
LEMMA SchemaKept ==
  ASSUME version' = version, table' = table
  PROVE  Schema' = Schema
  BY DEF Schema

(* A step that lets go of the schema, or leaves hands as they are.         *)
LEMMA LetsGo ==
  ASSUME MInv, version' = version, table' = table, exit' = exit,
         InHandsOf' \in {InHandsOf, Nobody}
  PROVE  [Contract!SchemaNext]_Mapped
<1>1. Schema' = Schema
  BY SchemaKept
<1>2. CASE InHandsOf' = InHandsOf
  BY <1>1, <1>2 DEF Mapped
<1>3. CASE InHandsOf # Nobody /\ InHandsOf' = Nobody
  BY <1>1, <1>3 DEF Contract!SchemaNext, Contract!Abandon
<1> QED
  BY <1>2, <1>3

LEMMA Reports ==
  ASSUME MInv, NEW m \in Migrators, NEW code \in {"success", "failure"},
         ExitWith(m, code), at[m] # "exited", code = "success" => version = "clean",
         version' = version, table' = table, InHandsOf' = InHandsOf
  PROVE  Contract!SchemaNext
<1>1. Schema' = Schema
  BY SchemaKept
<1>2. exit[m] = "none" /\ (code = "success" => Schema = "ready")
  BY DEF MInv, Stage, Schema
<1>3. Contract!Report(m, code)
  BY <1>1, <1>2 DEF Contract!Report, ExitWith
<1> QED
  BY <1>3 DEF Contract!SchemaNext

LEMMA InitMapsSchema == MInit => Contract!SchemaInit
  BY DEF MInit, Contract!SchemaInit, Schema, InHandsOf

LEMMA ApplyMaps ==
  ASSUME MInv, NEW m \in Migrators, Apply(m)
  PROVE  [Contract!SchemaNext]_Mapped
<1>0. /\ MTypeOK /\ Holds(m) /\ Stage(m) /\ lock = m /\ m # Nobody
      /\ sql[m] \in InHand /\ Works(m)
      /\ at' = at /\ lock' = lock /\ exit' = exit
      /\ version = "none" => ~ table
  BY MigratorAssumption DEF MInv, Apply, Holds, InHand, Works
<1>1. CASE sql[m] = "dirty"
  <2>1. Schema = "absent" /\ Schema' = "partial"
    BY <1>0, <1>1 DEF Apply, Schema, Stage
  <2>2. InHandsOf = Nobody /\ InHandsOf' \in {m, Nobody}
    BY <1>0, <2>1 DEF InHandsOf
  <2> QED
    BY <1>0, <2>1, <2>2 DEF Contract!SchemaNext, Contract!Start
<1>2. CASE sql[m] = "create"
  <2>1. /\ Schema = "partial" /\ Schema' = "partial"
        /\ version' = version
    BY <1>0, <1>2 DEF Apply, Schema, Stage
  <2>2. InHandsOf = m /\ InHandsOf' \in {m, Nobody}
    BY <1>0, <2>1 DEF InHandsOf
  <2> QED
    BY <1>0, <2>1, <2>2 DEF Contract!SchemaNext, Contract!Abandon, Mapped
<1>3. CASE sql[m] = "clean"
  <2>1. Schema = "partial" /\ Schema' = "ready"
    BY <1>0, <1>3 DEF Apply, Schema, Stage
  <2>2. InHandsOf = m /\ InHandsOf' = Nobody
    BY <1>0, <2>1 DEF InHandsOf
  <2> QED
    BY <1>0, <2>1, <2>2 DEF Contract!SchemaNext, Contract!Complete
<1> QED
  BY <1>1, <1>2, <1>3 DEF Apply

LEMMA SchemaStep == MInv /\ [MNext]_mvars => [Contract!SchemaNext]_Mapped
<1> SUFFICES ASSUME MInv, [MNext]_mvars PROVE [Contract!SchemaNext]_Mapped
  OBVIOUS
<1>0. /\ MTypeOK /\ HolderGoesOn
      /\ \A m \in Migrators : Holds(m) /\ Stage(m)
  BY DEF MInv
<1> USE <1>0, MigratorAssumption DEF MTypeOK
<1>1. ASSUME NEW m \in Migrators, LoadConfig(m) \/ OpenDriver(m)
      PROVE  [Contract!SchemaNext]_Mapped
  <2>1. /\ UNCHANGED <<exit, sql, lock, version, table>> /\ at[m] \notin Body /\ at'[m] \notin Body
        /\ \A n \in Migrators \ {m} : at'[n] = at[n]
    BY <1>1 DEF LoadConfig, OpenDriver, Body
  <2>2. InHandsOf' = InHandsOf
    BY <2>1 DEF InHandsOf, Works, Schema
  <2> QED
    BY <2>1, <2>2, LetsGo
<1>2. ASSUME NEW m \in Migrators, Lock(m) PROVE [Contract!SchemaNext]_Mapped
  <2>1. UNCHANGED <<exit, sql, version, table>> /\ lock = Nobody /\ lock' = m
        /\ at'[m] \notin Body /\ sql[m] \notin InHand
    BY <1>2 DEF Lock, Body, Stage, InHand
  <2>2. InHandsOf' = Nobody
    BY <2>1 DEF InHandsOf, Works
  <2> QED
    BY <2>1, <2>2, LetsGo
<1>3. ASSUME NEW m \in Migrators, ReadVersion(m) PROVE [Contract!SchemaNext]_Mapped
  <2>1. /\ UNCHANGED <<exit, lock, version, table>> /\ lock = m
        /\ Schema # "partial" \/ (at'[m] \notin Body /\ sql'[m] \notin InHand)
    BY <1>3 DEF ReadVersion, Holds, Issue, UpReturns, MInv, Schema, Stage, Body, InHand
  <2>2. InHandsOf' = Nobody
    BY <2>1, SchemaKept DEF InHandsOf, Works
  <2> QED
    BY <2>1, <2>2, LetsGo
<1>4. ASSUME NEW m \in Migrators, Proceed(m) \/ BodyFails(m) \/ Killed(m) \/ Refuse(m)
      PROVE  [Contract!SchemaNext]_Mapped
  <2>1. UNCHANGED <<exit, lock, version, table>>
    BY <1>4 DEF Proceed, BodyFails, Killed, Refuse
  <2>2. Works(lock)' /\ lock # Nobody => Works(lock)
    BY <1>4 DEF Proceed, BodyFails, Killed, Refuse, Works, Issue, UpReturns, Body, InHand, Over
  <2>3. InHandsOf' \in {InHandsOf, Nobody}
    BY <2>1, <2>2, SchemaKept DEF InHandsOf
  <2> QED
    BY <2>1, <2>3, LetsGo
<1>5. ASSUME NEW m \in Migrators, GiveUp(m) PROVE [Contract!SchemaNext]_Mapped
  <2>1. /\ UNCHANGED <<sql, lock, version, table>> /\ ExitWith(m, "failure")
        /\ at[m] \notin Body \cup {"exited"}
    BY <1>5 DEF GiveUp, Body
  <2>2. InHandsOf' = InHandsOf
    BY <2>1, SchemaKept DEF InHandsOf, Works, ExitWith, Body
  <2> QED
    BY <2>1, <2>2, Reports
<1>6. ASSUME NEW m \in Migrators, Finish(m) PROVE [Contract!SchemaNext]_Mapped
  <2>1. /\ UNCHANGED <<sql, version, table>> /\ at[m] = "unlock" /\ lock = m /\ lock' = Nobody
        /\ sql[m] \notin InHand
    BY <1>6 DEF Finish, Holds
  <2>2. InHandsOf' = InHandsOf
    BY <2>1 DEF InHandsOf, Works, Body
  <2>3. PICK code \in {"success", "failure"} :
          ExitWith(m, code) /\ (code = "success" => version = "clean")
    BY <1>6 DEF Finish, Stage
  <2> QED
    BY <2>1, <2>2, <2>3, Reports
<1>7. ASSUME NEW m \in Migrators, FinishLocked(m) PROVE [Contract!SchemaNext]_Mapped
  <2>1. UNCHANGED <<sql, lock, version, table>> /\ at[m] = "unlock"
    BY <1>7 DEF FinishLocked
  <2>2. PICK code \in {"success", "failure"} :
          ExitWith(m, code) /\ (code = "success" => version = "clean")
    BY <1>7 DEF FinishLocked, Stage
  <2>3. InHandsOf' = InHandsOf
    BY <2>1, <2>2, SchemaKept DEF InHandsOf, Works, ExitWith, Body
  <2> QED
    BY <2>1, <2>2, <2>3, Reports
<1>8. ASSUME NEW m \in Migrators, SessionEnds(m) PROVE [Contract!SchemaNext]_Mapped
  <2>1. UNCHANGED <<exit, version, table>> /\ lock' = Nobody
    BY <1>8 DEF SessionEnds
  <2>2. InHandsOf' = Nobody
    BY <2>1 DEF InHandsOf
  <2> QED
    BY <2>1, <2>2, LetsGo
<1>9. CASE MAtRest \/ UNCHANGED mvars
  BY <1>9 DEF MAtRest, mvars, Mapped, Schema, InHandsOf, Works
<1> QED
  BY <1>1, <1>2, <1>3, <1>4, <1>5, <1>6, <1>7, <1>8, <1>9, ApplyMaps
  DEF MNext, Runs, Serves

(* Any number of runs, killed or cut off anywhere, do to the schema what   *)
(* SchemaContract allows and report what it allows them to.                *)
THEOREM SchemaKeeps == MSpec => KeepsSchemaContract
<1> QED
  BY InitMapsSchema, SchemaStep, MigrationInvariance, PTL
  DEF MSpec, KeepsSchemaContract, Contract!SchemaSpec, Mapped, Contract!schemaVars

-----------------------------------------------------------------------------
(* The statements.                                                         *)

(* A key says which statement it is for.                                   *)
LEMMA KeyTells ==
  ASSUME NEW a \in Args, NEW b \in Args, a.op = b.op, Key(a) = Key(b)
  PROVE  Text(a) = Text(b)
<1>1. CASE a.op = "insert"
  <2>1. a.columns = b.columns /\ a.nz = b.nz
    BY <1>1 DEF Key
  <2> QED
    BY <1>1, <2>1 DEF Text
<1>2. CASE a.op = "update"
  <2>1. a.columns = b.columns
    BY <1>2 DEF Key
  <2> QED
    BY <1>2, <2>1 DEF Text
<1>3. CASE a.op = "upsert"
  <2>1. /\ a.onConflict = b.onConflict /\ a.conflict = b.conflict
        /\ a.update = b.update /\ a.insert = b.insert /\ a.nz = b.nz
    BY <1>3 DEF Key
  <2>2. UpsertText(a) = UpsertText(b)
    BY <2>1 DEF UpsertText, UpsertTarget
  <2> QED
    BY <1>3, <2>2 DEF Text
<1> QED
  BY <1>1, <1>2, <1>3, ArgAssumption

LockInv ==
  /\ rlocked = {s \in Stmts : pos[s] = "reading"}
  /\ wlocked = {s \in Stmts : pos[s] = "writing"}
  /\ MapNotTorn

EntryInv ==
  \A e \in cache, s \in Stmts :
    e.op = arg[s].op /\ e.key = Key(arg[s]) => e.text = Text(arg[s])

TextOf(s) ==
  /\ text[s] # NoStmt => text[s] = Text(arg[s])
  /\ pos[s] \in {"exec", "wlock", "writing"} => text[s] = Text(arg[s])

TextInv == \A s \in Stmts : TextOf(s)

ProvenInv ==
  /\ \A s \in Stmts : pos[s] \in {"wlock", "writing"} => text[s] \in proven /\ table
  /\ CachedIsProven

CInv == CacheTypeOK /\ LockInv /\ EntryInv /\ TextInv /\ ProvenInv

LEMMA InitCInv == CacheInit => CInv
  BY DEF CacheInit, CInv, CacheTypeOK, LockInv, MapNotTorn, EntryInv, TextInv, TextOf,
     ProvenInv, CachedIsProven

LEMMA CacheTypeStep == CacheTypeOK /\ [CacheNext]_cacheVars => CacheTypeOK'
  BY DEF CacheTypeOK, CacheNext, StmtStep, RLock, Lookup, ExecOk, ExecFails, WLock, Store,
     ProcessEnds, CacheAtRest, GoTo, cacheVars, svars, Ended

LEMMA LockInvStep == CacheTypeOK /\ LockInv /\ [CacheNext]_cacheVars => LockInv'
<1> SUFFICES ASSUME CacheTypeOK, LockInv, [CacheNext]_cacheVars PROVE LockInv'
  OBVIOUS
<1> USE DEF CacheTypeOK, LockInv, MapNotTorn, SameMap, GoTo, Ended
<1>1. ASSUME NEW s \in Stmts, RLock(s) PROVE LockInv'
  BY <1>1 DEF RLock, MayRead
<1>2. ASSUME NEW s \in Stmts, Lookup(s) PROVE LockInv'
  <2>1. /\ rlocked' = rlocked \ {s} /\ wlocked' = wlocked /\ arg' = arg
        /\ pos'[s] \in {"exec", "failed"}
        /\ \A t \in Stmts \ {s} : pos'[t] = pos[t]
    BY <1>2 DEF Lookup
  <2>2. pos[s] = "reading"
    BY <1>2 DEF Lookup
  <2>3. rlocked' = {t \in Stmts : pos'[t] = "reading"}
    BY <2>1
  <2>4. wlocked' = {t \in Stmts : pos'[t] = "writing"}
    BY <2>1, <2>2
  <2>5. MapNotTorn'
    BY <2>1
  <2> QED
    BY <2>3, <2>4, <2>5
<1>3. ASSUME NEW s \in Stmts, ExecOk(s) \/ ExecFails(s) PROVE LockInv'
  <2>1. /\ rlocked' = rlocked /\ wlocked' = wlocked /\ arg' = arg /\ pos[s] = "exec"
        /\ \E p \in {"done", "wlock", "failed"} : pos' = [pos EXCEPT ![s] = p]
    BY <1>3 DEF ExecOk, ExecFails
  <2> QED
    BY <2>1
<1>4. ASSUME NEW s \in Stmts, WLock(s) PROVE LockInv'
  BY <1>4 DEF WLock, MayWrite
<1>5. ASSUME NEW s \in Stmts, Store(s) PROVE LockInv'
  BY <1>5 DEF Store
<1>6. CASE ProcessEnds
  BY <1>6 DEF ProcessEnds
<1>7. CASE (MNext /\ UNCHANGED svars) \/ CacheAtRest \/ UNCHANGED cacheVars
  BY <1>7 DEF CacheAtRest, cacheVars, svars
<1> QED
  BY <1>1, <1>2, <1>3, <1>4, <1>5, <1>6, <1>7 DEF CacheNext, StmtStep

LEMMA EntryInvStep ==
  CacheTypeOK /\ EntryInv /\ TextInv /\ [CacheNext]_cacheVars => EntryInv'
<1> SUFFICES ASSUME CacheTypeOK, EntryInv, TextInv, [CacheNext]_cacheVars PROVE EntryInv'
  OBVIOUS
<1>1. CASE arg' = arg /\ cache' \subseteq cache
  BY <1>1 DEF EntryInv
<1>2. ASSUME NEW s \in Stmts, Store(s) PROVE EntryInv'
  <2>1. arg' = arg /\ cache' \subseteq cache \cup {Entry(s, text[s])}
    BY <1>2 DEF Store
  <2>2. text[s] = Text(arg[s])
    BY <1>2 DEF Store, TextInv, TextOf
  <2>3. ASSUME NEW t \in Stmts, arg[s].op = arg[t].op, Key(arg[s]) = Key(arg[t])
        PROVE  text[s] = Text(arg[t])
    BY <2>2, <2>3, KeyTells DEF CacheTypeOK
  <2>4. LET e == Entry(s, text[s])
        IN  e.op = arg[s].op /\ e.key = Key(arg[s]) /\ e.text = text[s]
    BY DEF Entry
  <2> QED
    BY <2>1, <2>3, <2>4 DEF EntryInv
<1>3. ASSUME ~ \E s \in Stmts : Store(s) PROVE arg' = arg /\ cache' \subseteq cache
  BY <1>3 DEF CacheNext, StmtStep, RLock, Lookup, ExecOk, ExecFails, WLock, ProcessEnds,
     CacheAtRest, cacheVars, svars
<1> QED
  BY <1>1, <1>2, <1>3

LEMMA TextInvStep ==
  CacheTypeOK /\ EntryInv /\ TextInv /\ [CacheNext]_cacheVars => TextInv'
<1> SUFFICES ASSUME CacheTypeOK, EntryInv, TextInv, [CacheNext]_cacheVars, NEW t \in Stmts
             PROVE  TextOf(t)'
  BY DEF TextInv
<1>0. TextOf(t)
  BY DEF TextInv
<1> USE <1>0 DEF CacheTypeOK, TextOf, GoTo, Ended
<1>1. ASSUME NEW s \in Stmts, Lookup(s) PROVE TextOf(t)'
  <2>1. arg' = arg /\ \A u \in Stmts \ {s} : text'[u] = text[u] /\ pos'[u] = pos[u]
    BY <1>1 DEF Lookup
  <2>2. \/ text'[s] = Text(arg[s])
        \/ text'[s] = text[s] /\ pos'[s] = "failed"
    BY <1>1 DEF Lookup, Cached, EntryInv
  <2> QED
    BY <2>1, <2>2
<1>2. ASSUME NEW s \in Stmts, RLock(s) \/ ExecOk(s) \/ ExecFails(s) \/ WLock(s) \/ Store(s)
      PROVE  TextOf(t)'
  BY <1>2 DEF RLock, ExecOk, ExecFails, WLock, Store
<1>3. CASE ProcessEnds
  BY <1>3 DEF ProcessEnds
<1>4. CASE (MNext /\ UNCHANGED svars) \/ CacheAtRest \/ UNCHANGED cacheVars
  BY <1>4 DEF CacheAtRest, cacheVars, svars
<1> QED
  BY <1>1, <1>2, <1>3, <1>4 DEF CacheNext, StmtStep

(* The table stays.                                                        *)
LEMMA TableStays == [CacheNext]_cacheVars /\ table => table'
  BY DEF CacheNext, StmtStep, RLock, Lookup, ExecOk, ExecFails, WLock, Store,
     ProcessEnds, CacheAtRest, cacheVars, mvars, MNext, Runs, Serves, GiveUp, LoadConfig,
     OpenDriver, Lock, ReadVersion, Proceed, BodyFails, Finish, FinishLocked, Killed,
     Apply, Refuse, SessionEnds, MAtRest

LEMMA ProvenInvStep == CacheTypeOK /\ ProvenInv /\ [CacheNext]_cacheVars => ProvenInv'
<1> SUFFICES ASSUME CacheTypeOK, ProvenInv, [CacheNext]_cacheVars PROVE ProvenInv'
  OBVIOUS
<1>0. table => table'
  BY TableStays
<1> USE <1>0 DEF CacheTypeOK, ProvenInv, CachedIsProven, GoTo, Ended
<1>1. ASSUME NEW s \in Stmts, Lookup(s) PROVE ProvenInv'
  BY <1>1 DEF Lookup
<1>2. ASSUME NEW s \in Stmts, ExecOk(s) PROVE ProvenInv'
  BY <1>2 DEF ExecOk
<1>3. ASSUME NEW s \in Stmts, RLock(s) \/ ExecFails(s) \/ WLock(s) PROVE ProvenInv'
  BY <1>3 DEF RLock, ExecFails, WLock
<1>4. ASSUME NEW s \in Stmts, Store(s) PROVE ProvenInv'
  <2>1. Entry(s, text[s]).text = text[s]
    BY DEF Entry
  <2> QED
    BY <1>4, <2>1 DEF Store
<1>5. CASE ProcessEnds
  BY <1>5 DEF ProcessEnds
<1>6. CASE (MNext /\ UNCHANGED svars) \/ CacheAtRest \/ UNCHANGED cacheVars
  BY <1>6 DEF CacheAtRest, cacheVars, svars
<1> QED
  BY <1>1, <1>2, <1>3, <1>4, <1>5, <1>6 DEF CacheNext, StmtStep

LEMMA CacheInvariance == CacheSpec => []CInv
<1>1. CInv /\ [CacheNext]_cacheVars => CInv'
  BY CacheTypeStep, LockInvStep, EntryInvStep, TextInvStep, ProvenInvStep DEF CInv
<1> QED
  BY <1>1, InitCInv, PTL DEF CacheSpec

(* Types, for any number of calls and any arguments.                       *)
THEOREM CacheTypeCorrect == CacheSpec => []CacheTypeOK
<1>1. CInv => CacheTypeOK
  BY DEF CInv
<1> QED
  BY <1>1, CacheInvariance, PTL

(* Whatever is in the maps, and whoever put it there: a call runs its own  *)
(* statement.                                                              *)
THEOREM RunsOwnStatement == CacheSpec => []OwnStatement
<1>1. CInv => OwnStatement
  BY DEF CInv, TextInv, TextOf, OwnStatement
<1> QED
  BY <1>1, CacheInvariance, PTL

(* No map is touched by one goroutine while another one writes it.         *)
THEOREM NeverTorn == CacheSpec => []MapNotTorn
<1>1. CInv => MapNotTorn
  BY DEF CInv, LockInv
<1> QED
  BY <1>1, CacheInvariance, PTL

(* Wherever the calls of any number of goroutines have got to, somebody at *)
(* each map need not wait: the mutexes deadlock nobody.                    *)
THEOREM NoDeadlock == CacheSpec => []SomebodyMoves
<1>1. CInv => SomebodyMoves
  <2> SUFFICES ASSUME CInv, NEW s \in Stmts, pos[s] \notin Ended
               PROVE  \E t \in Stmts : SameMap(s, t) /\ Unhindered(t)
    BY DEF SomebodyMoves
  <2>0. CacheTypeOK /\ LockInv
    BY DEF CInv
  <2>1. ASSUME NEW w \in Stmts, pos[w] = "wlock"
        PROVE  \E t \in Stmts : SameMap(w, t) /\ Unhindered(t)
    <3>1. CASE MayWrite(w)
      BY <2>1, <3>1 DEF Unhindered, SameMap
    <3>2. CASE ~ MayWrite(w)
      <4>1. PICK t \in rlocked \cup wlocked : SameMap(w, t)
        BY <3>2 DEF MayWrite
      <4>2. t \in Stmts /\ pos[t] \in {"reading", "writing"}
        BY <2>0 DEF LockInv
      <4> QED
        BY <4>1, <4>2 DEF Unhindered
    <3> QED
      BY <3>1, <3>2
  <2>2. CASE pos[s] \in {"reading", "exec", "writing"}
    BY <2>2 DEF Unhindered, SameMap
  <2>3. CASE pos[s] = "new"
    <3>1. CASE MayRead(s)
      BY <2>3, <3>1 DEF Unhindered, SameMap
    <3>2. CASE ~ MayRead(s)
      <4>1. PICK t \in Stmts : SameMap(s, t) /\ (t \in wlocked \/ pos[t] = "wlock")
        BY <3>2 DEF MayRead
      <4>2. CASE t \in wlocked
        BY <2>0, <4>1, <4>2 DEF LockInv, Unhindered
      <4>3. CASE pos[t] = "wlock"
        BY <2>1, <4>1, <4>3 DEF SameMap
      <4> QED
        BY <4>1, <4>2, <4>3
    <3> QED
      BY <3>1, <3>2
  <2> QED
    BY <2>0, <2>1, <2>2, <2>3 DEF CacheTypeOK
<1> QED
  BY <1>1, CacheInvariance, PTL

(* Only statements that have worked, on a table that is there, are kept.   *)
THEOREM CachedWorked == CacheSpec => []CachedIsProven
<1>1. CInv => CachedIsProven
  BY DEF CInv, ProvenInv
<1> QED
  BY <1>1, CacheInvariance, PTL
=============================================================================
