--------------------------- MODULE StatementCache ---------------------------
(***************************************************************************)
(* The statements of the generated models package in the serving process,  *)
(* over the table that Migration makes.  Log.Insert, Log.Update and        *)
(* Log.Upsert each keep the statements they have built in a map of their   *)
(* own, under a key made of their arguments; a sync.RWMutex guards each    *)
(* map.  The map is read before the statement runs and written after it    *)
(* has succeeded, so of several first calls each builds and stores it.     *)
(*                                                                         *)
(* Columns are sets: the order in a list changes neither what a statement  *)
(* does nor whether two lists are the same key.  A key is written as its   *)
(* parts: no column name is the beginning of another, so nothing is lost   *)
(* where the code runs names together.  No option functions are passed to  *)
(* Upsert, as nothing in the repository passes any.                        *)
(***************************************************************************)
EXTENDS Migration

CONSTANTS Stmts,     \* calls of Insert, Update or Upsert, one goroutine each
          Args       \* what they may be called with

ASSUME ArgAssumption == \A a \in Args : a.op \in {"insert", "update", "upsert"}

VARIABLES
  arg,       \* the arguments of each call
  pos,       \* where its goroutine stands
  text,      \* the statement it runs, or NoStmt
  hit,       \* the map had it
  cache,     \* the maps: a set of [op, key, text]
  rlocked,   \* the calls holding their map's mutex for reading
  wlocked,   \* ... and for writing
  proven     \* history: the statements that have succeeded

svars == <<arg, pos, text, hit, cache, rlocked, wlocked, proven>>
cacheVars == <<mvars, svars>>

-----------------------------------------------------------------------------
(* Columns, statements and keys.                                           *)

AllColumns ==
  {"id", "trace_id", "timestamp", "level", "service", "message", "metadata"}
ColumnsWithDefault == {"id", "trace_id", "metadata"}
PrimaryKey == {"id"}

(* boil.Columns: what an argument of that type makes of it, given the      *)
(* columns with a default that the object sets (nz).                       *)
InsertColumnSet(c, nz) ==
  CASE c.kind = "infer" -> (AllColumns \ ColumnsWithDefault) \cup nz
    [] c.kind = "whitelist" -> c.cols
    [] c.kind = "none" -> {}

InsertReturns(c, nz) ==
  IF c.kind = "none" THEN {} ELSE ColumnsWithDefault \ InsertColumnSet(c, nz)

UpdateColumnSet(c) ==
  CASE c.kind = "infer" -> AllColumns \ PrimaryKey
    [] c.kind = "whitelist" -> c.cols
    [] c.kind = "none" -> {}

(* A deviation of Key: the defaults that are set do not count.             *)
KeyWithoutDefaults(a) ==
  CASE a.op \in {"insert", "update"} -> [columns |-> a.columns]
    [] a.op = "upsert" -> [onConflict |-> a.onConflict, conflict |-> a.conflict,
                           update |-> a.update, insert |-> a.insert]

(* makeCacheKey, and the key Upsert writes for itself.  Update leaves nz   *)
(* out: its statement does not depend on it.                               *)
Key(a) ==
  CASE a.op = "insert" -> [columns |-> a.columns, nz |-> a.nz]
    [] a.op = "update" -> [columns |-> a.columns]
    [] a.op = "upsert" -> [onConflict |-> a.onConflict, conflict |-> a.conflict,
                           update |-> a.update, insert |-> a.insert, nz |-> a.nz]

(* The conflict an Upsert names: the one it is given, or the primary key.  *)
UpsertTarget(a) ==
  IF a.conflict = {} /\ a.onConflict /\ UpdateColumnSet(a.update) # {}
    THEN PrimaryKey ELSE a.conflict

(* buildUpsertQueryPostgres: with no wish to update, it does nothing on    *)
(* conflict.                                                               *)
UpsertText(a) ==
  LET insert == InsertColumnSet(a.insert, a.nz)
      update == UpdateColumnSet(a.update)
  IN  [verb |-> "upsert",
       columns |-> insert,
       target |-> UpsertTarget(a),
       set |-> IF a.onConflict THEN update ELSE {},
       returning |-> AllColumns \ (insert \cap update)]

(* The statement a call builds: its verb, the columns it writes, and what  *)
(* else is in its text.                                                    *)
Text(a) ==
  CASE a.op = "insert" -> [verb |-> "insert",
                           columns |-> InsertColumnSet(a.columns, a.nz),
                           returning |-> InsertReturns(a.columns, a.nz)]
    [] a.op = "update" -> [verb |-> "update", columns |-> UpdateColumnSet(a.columns)]
    [] a.op = "upsert" -> UpsertText(a)

(* An update of no column is an error of its own.                          *)
Buildable(a) ==
  CASE a.op = "insert" -> TRUE
    [] a.op = "update" -> UpdateColumnSet(a.columns) # {}
    [] a.op = "upsert" -> a.onConflict => UpdateColumnSet(a.update) # {}

NoStmt == [verb |-> "none"]

-----------------------------------------------------------------------------
SameMap(s, t) == arg[s].op = arg[t].op

CacheInit ==
  /\ MInit
  /\ arg \in [Stmts -> Args]
  /\ pos = [s \in Stmts |-> "new"]
  /\ text = [s \in Stmts |-> NoStmt]
  /\ hit = [s \in Stmts |-> FALSE]
  /\ cache = {} /\ rlocked = {} /\ wlocked = {} /\ proven = {}

GoTo(s, p) == pos' = [pos EXCEPT ![s] = p]

(* A deviation of RLock: the map is read without it.                       *)
ReadUnlocked(s) ==
  /\ pos[s] = "new"
  /\ GoTo(s, "reading")
  /\ UNCHANGED <<mvars, arg, text, hit, cache, rlocked, wlocked, proven>>

(* RWMutex: no reader comes in while there is a writer, or one is waiting,  *)
(* and no writer while there is anybody.                                   *)
MayRead(s) == ~ \E t \in Stmts : SameMap(s, t) /\ (t \in wlocked \/ pos[t] = "wlock")
MayWrite(s) == ~ \E t \in rlocked \cup wlocked : SameMap(s, t)

RLock(s) ==
  /\ pos[s] = "new"
  /\ MayRead(s)
  /\ rlocked' = rlocked \cup {s}
  /\ GoTo(s, "reading")
  /\ UNCHANGED <<mvars, arg, text, hit, cache, wlocked, proven>>

Entry(s, t) == [op |-> arg[s].op, key |-> Key(arg[s]), text |-> t]
Cached(s) == {e \in cache : e.op = arg[s].op /\ e.key = Key(arg[s])}

(* A deviation of Lookup: on a miss that cannot be built, the read lock is *)
(* not given back.                                                         *)
LookupKeepsLock(s) ==
  /\ pos[s] = "reading"
  /\ \/ \E e \in Cached(s) : /\ text' = [text EXCEPT ![s] = e.text]
                             /\ hit' = [hit EXCEPT ![s] = TRUE]
                             /\ rlocked' = rlocked \ {s}
                             /\ GoTo(s, "exec")
     \/ /\ Cached(s) = {} /\ Buildable(arg[s])
        /\ text' = [text EXCEPT ![s] = Text(arg[s])]
        /\ rlocked' = rlocked \ {s}
        /\ GoTo(s, "exec") /\ UNCHANGED hit
     \/ /\ Cached(s) = {} /\ ~ Buildable(arg[s])
        /\ GoTo(s, "failed") /\ UNCHANGED <<text, hit, rlocked>>
  /\ UNCHANGED <<mvars, arg, cache, wlocked, proven>>

(* The map is read and the lock given back; on a miss the statement is     *)
(* built, or the call fails.                                               *)
Lookup(s) ==
  /\ pos[s] = "reading"
  /\ rlocked' = rlocked \ {s}
  /\ \/ \E e \in Cached(s) : /\ text' = [text EXCEPT ![s] = e.text]
                             /\ hit' = [hit EXCEPT ![s] = TRUE]
                             /\ GoTo(s, "exec")
     \/ /\ Cached(s) = {} /\ Buildable(arg[s])
        /\ text' = [text EXCEPT ![s] = Text(arg[s])]
        /\ GoTo(s, "exec") /\ UNCHANGED hit
     \/ /\ Cached(s) = {} /\ ~ Buildable(arg[s])
        /\ GoTo(s, "failed") /\ UNCHANGED <<text, hit>>
  /\ UNCHANGED <<mvars, arg, cache, wlocked, proven>>

(* The database has run the statement, for which there must be a table.    *)
ExecOk(s) ==
  /\ pos[s] = "exec"
  /\ table
  /\ proven' = proven \cup {text[s]}
  /\ GoTo(s, IF hit[s] THEN "done" ELSE "wlock")
  /\ UNCHANGED <<mvars, arg, text, hit, cache, rlocked, wlocked>>

(* A deviation of ExecFails: what was built is kept all the same.          *)
ExecFailsKept(s) ==
  /\ pos[s] = "exec"
  /\ GoTo(s, IF hit[s] THEN "failed" ELSE "wlock")
  /\ UNCHANGED <<mvars, arg, text, hit, cache, rlocked, wlocked, proven>>

(* The statement fails, or its reply is lost: nothing is kept.             *)
ExecFails(s) ==
  /\ pos[s] = "exec"
  /\ GoTo(s, "failed")
  /\ UNCHANGED <<mvars, arg, text, hit, cache, rlocked, wlocked, proven>>

WLock(s) ==
  /\ pos[s] = "wlock"
  /\ MayWrite(s)
  /\ wlocked' = wlocked \cup {s}
  /\ GoTo(s, "writing")
  /\ UNCHANGED <<mvars, arg, text, hit, cache, rlocked, proven>>

(* The map is written, over what another first call may have left there.   *)
Store(s) ==
  /\ pos[s] = "writing"
  /\ cache' = (cache \ Cached(s)) \cup {Entry(s, text[s])}
  /\ wlocked' = wlocked \ {s}
  /\ GoTo(s, "done")
  /\ UNCHANGED <<mvars, arg, text, hit, rlocked, proven>>

Ended == {"done", "failed", "killed"}

(* The serving process ends, its maps and mutexes with it; the calls still *)
(* to come are the next one's.                                             *)
ProcessEnds ==
  /\ cache # {} \/ \E s \in Stmts : pos[s] \notin {"new"} \cup Ended
  /\ pos' = [s \in Stmts |-> IF pos[s] \in {"new"} \cup Ended THEN pos[s] ELSE "killed"]
  /\ cache' = {} /\ rlocked' = {} /\ wlocked' = {}
  /\ UNCHANGED <<mvars, arg, text, hit, proven>>

StmtStep(s) ==
  RLock(s) \/ Lookup(s) \/ ExecOk(s) \/ ExecFails(s) \/ WLock(s) \/ Store(s)

CacheAtRest ==
  /\ \A m \in Migrators : at[m] \in Over
  /\ lock = Nobody
  /\ \A s \in Stmts : pos[s] \in Ended
  /\ UNCHANGED cacheVars

CacheNext ==
  \/ \E s \in Stmts : StmtStep(s)
  \/ ProcessEnds
  \/ MNext /\ UNCHANGED svars
  \/ CacheAtRest

CacheSpec == CacheInit /\ [][CacheNext]_cacheVars

(* A runnable goroutine runs, and an exchange with the database ends: the  *)
(* calls carry a context with a deadline.                                  *)
CacheFairness == \A s \in Stmts : WF_cacheVars(StmtStep(s))

CacheFairSpec == CacheSpec /\ CacheFairness /\ MFairness

-----------------------------------------------------------------------------
(* Properties.                                                             *)

CacheTypeOK ==
  /\ arg \in [Stmts -> Args]
  /\ pos \in [Stmts -> {"new", "reading", "exec", "wlock", "writing"} \cup Ended]
  /\ hit \in [Stmts -> BOOLEAN]
  /\ DOMAIN text = Stmts

(* A call runs the statement its own arguments ask for, however many calls  *)
(* with other arguments share the map, and whoever stored what it found: an *)
(* entry with an id of its own is never inserted with the id left out.     *)
OwnStatement ==
  \A s \in Stmts : text[s] # NoStmt => text[s] = Text(arg[s])

(* No goroutine reads or writes a map another one is writing, which would  *)
(* take the whole process down.                                            *)
MapNotTorn ==
  \A s, t \in Stmts :
    pos[s] = "writing" /\ pos[t] \in {"reading", "writing"} /\ SameMap(s, t) => s = t

(* Not everyone waits for everyone at a map: with every call there that has *)
(* not ended, there is one at the same map that need not wait.             *)
Unhindered(s) ==
  \/ pos[s] \in {"reading", "exec", "writing"}
  \/ pos[s] = "new" /\ MayRead(s)
  \/ pos[s] = "wlock" /\ MayWrite(s)

SomebodyMoves ==
  \A s \in Stmts : pos[s] \notin Ended => \E t \in Stmts : SameMap(s, t) /\ Unhindered(t)

(* What the maps hold has worked: a call that came before the migration, or *)
(* met a database in trouble, leaves nothing behind for the calls after it. *)
CachedIsProven == \A e \in cache : e.text \in proven /\ table

(* No call hangs on a mutex: every one that is begun ends.                 *)
EveryStatementEnds == \A s \in Stmts : pos[s] # "new" ~> pos[s] \in Ended
=============================================================================
