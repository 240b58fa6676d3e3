-------------------------- MODULE MCStatementCache --------------------------
(* StatementCache with three migrations or three calls.                    *)
EXTENDS StatementCache

Infer == [kind |-> "infer", cols |-> {}]
None == [kind |-> "none", cols |-> {}]
Level == [kind |-> "whitelist", cols |-> {"level"}]

Insert(nz) == [op |-> "insert", columns |-> Infer, nz |-> nz]
Update(c) == [op |-> "update", columns |-> c, nz |-> {}]
Upsert(b, u) == [op |-> "upsert", onConflict |-> b, conflict |-> {}, update |-> u,
                 insert |-> Infer, nz |-> {"id"}]

(* What LogRepository does, with metadata and without, and what else the   *)
(* package offers.                                                         *)
MCArgs ==
  {Insert({"id"}), Insert({"id", "metadata"}), Update(Level), Update(None),
   Upsert(TRUE, Infer), Upsert(FALSE, Infer), Upsert(TRUE, None)}

CONSTANTS m1, s1, s2, s3

(* Three first calls over one map, or two with a third elsewhere.          *)
Triples ==
  {<<Insert({"id"}), Insert({"id"}), Insert({"id", "metadata"})>>,
   <<Update(Level), Update(None), Update(Level)>>,
   <<Upsert(TRUE, Infer), Upsert(FALSE, Infer), Insert({"id"})>>,
   <<Upsert(TRUE, Infer), Upsert(TRUE, None), Update(Level)>>}

(* Calls and migrations meet in the table only, so they are taken apart:   *)
(* three calls beside one migration, the others having died before they    *)
(* did anything, or every migration, with the calls of a process that is   *)
(* gone.                                                                   *)
Calling ==
  /\ at = [m \in Migrators |-> IF m = m1 THEN "config" ELSE "killed"]
  /\ pos = [s \in Stmts |-> "new"]
  /\ <<arg[s1], arg[s2], arg[s3]>> \in Triples

Migrating ==
  /\ at = [m \in Migrators |-> "config"]
  /\ pos = [s \in Stmts |-> "killed"]
  /\ arg = [s \in Stmts |-> Insert({"id"})]

MCInit ==
  /\ arg \in [Stmts -> Args]
  /\ Calling \/ Migrating
  /\ up = [m \in Migrators |-> "none"] /\ exit = [m \in Migrators |-> "none"]
  /\ sql = [m \in Migrators |-> "idle"] /\ lock = Nobody
  /\ version = "none" /\ table = FALSE
  /\ text = [s \in Stmts |-> NoStmt] /\ hit = [s \in Stmts |-> FALSE]
  /\ cache = {} /\ rlocked = {} /\ wlocked = {} /\ proven = {}

MCSpec == MCInit /\ [][CacheNext]_cacheVars /\ CacheFairness /\ MFairness
=============================================================================
