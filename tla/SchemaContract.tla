--------------------------- MODULE SchemaContract ---------------------------
(***************************************************************************)
(* What `make migrate' promises about the schema, with no word about locks *)
(* or versions: it is absent, then in one run's hands, and then ready or   *)
(* left half-made.                                                         *)
(*                                                                         *)
(* The promises, all of them in the guards below:                          *)
(*   - the schema is begun once, and whoever begins it is the only one to  *)
(*     have it in hand;                                                    *)
(*   - nobody takes up what another run has let go of;                     *)
(*   - success is reported of a schema that is ready, and of no other;     *)
(*   - a schema that is ready stays so, and a run has one verdict.         *)
(***************************************************************************)
CONSTANTS Migrators, Nobody

VARIABLES schema,     \* "absent", "partial" or "ready"
          by,         \* the run that has a partial schema in hand
          verdict     \* what each run reported

schemaVars == <<schema, by, verdict>>

SchemaInit ==
  /\ schema = "absent"
  /\ by = Nobody
  /\ verdict = [m \in Migrators |-> "none"]

(* The run may be gone by the time its first statement takes effect.       *)
Start(m) ==
  /\ schema = "absent" /\ schema' = "partial"
  /\ by' \in {m, Nobody}
  /\ UNCHANGED verdict

Complete ==
  /\ by # Nobody /\ by' = Nobody
  /\ schema' = "ready"
  /\ UNCHANGED verdict

Abandon ==
  /\ by # Nobody /\ by' = Nobody
  /\ UNCHANGED <<schema, verdict>>

Report(m, v) ==
  /\ verdict[m] = "none"
  /\ v = "success" => schema = "ready"
  /\ verdict' = [verdict EXCEPT ![m] = v]
  /\ UNCHANGED <<schema, by>>

SchemaNext ==
  \/ Complete \/ Abandon
  \/ \E m \in Migrators :
        Start(m) \/ \E v \in {"success", "failure"} : Report(m, v)

SchemaSpec == SchemaInit /\ [][SchemaNext]_schemaVars
=============================================================================
