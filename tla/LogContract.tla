---------------------------- MODULE LogContract ----------------------------
(***************************************************************************)
(* What the service promises about a log entry, with no word about how it  *)
(* is kept: a call asks for one entry to be stored under one key, the      *)
(* entry may be stored, stored entries may be announced to the two         *)
(* consumers of logs (the NATS subject and the Elasticsearch index), and   *)
(* the call gets one verdict.                                              *)
(*                                                                         *)
(* The promises, all of them in the guards below:                          *)
(*   - "ok" is said only of an entry that is stored;                       *)
(*   - a consumer only hears of stored entries;                            *)
(*   - the NATS subject hears of a key at most once, however often its     *)
(*     clients retry;                                                      *)
(*   - a call that was told "error" is never announced, though its entry   *)
(*     may turn out to be stored;                                          *)
(*   - stored entries and verdicts are never taken back.                   *)
(***************************************************************************)
CONSTANTS Calls,      \* the calls, each sent once; a retry is another call
          Keys        \* the identities of stored entries

VARIABLES stored,     \* set of [key, by]: the entries and who stored them
          announced,  \* set of keys the NATS subject has carried
          heard,      \* set of [call, at]: which consumer knows which call
          verdict     \* what each call was told

cvars == <<stored, announced, heard, verdict>>

Consumers == {"nats", "es"}
Verdicts == {"pending", "ok", "error", "aborted"}

StoredBy(c) == \E e \in stored : e.by = c

CInit ==
  /\ stored = {}
  /\ announced = {}
  /\ heard = {}
  /\ verdict = [c \in Calls |-> "pending"]

(* An entry may appear at any time, even after its call was told "error".  *)
Store(c, k) ==
  /\ ~ StoredBy(c)
  /\ \A e \in stored : e.key # k
  /\ stored' = stored \cup {[key |-> k, by |-> c]}
  /\ UNCHANGED <<announced, heard, verdict>>

(* The NATS subject carries the entry of a call, for the first time.       *)
Announce(c, k) ==
  /\ [key |-> k, by |-> c] \in stored
  /\ k \notin announced
  /\ verdict[c] # "error"
  /\ announced' = announced \cup {k}
  /\ heard' = heard \cup {[call |-> c, at |-> "nats"]}
  /\ UNCHANGED <<stored, verdict>>

(* The index takes the entry of a call (again, perhaps).                   *)
Index(c) ==
  /\ StoredBy(c)
  /\ verdict[c] # "error"
  /\ heard' = heard \cup {[call |-> c, at |-> "es"]}
  /\ UNCHANGED <<stored, announced, verdict>>

SayOk(c) ==
  /\ verdict[c] = "pending"
  /\ StoredBy(c)
  /\ verdict' = [verdict EXCEPT ![c] = "ok"]
  /\ UNCHANGED <<stored, announced, heard>>

SayError(c) ==
  /\ verdict[c] = "pending"
  /\ \A at \in Consumers : [call |-> c, at |-> at] \notin heard
  /\ verdict' = [verdict EXCEPT ![c] = "error"]
  /\ UNCHANGED <<stored, announced, heard>>

(* The process died, or the handler did, before a verdict was reached: any *)
(* number of calls at once.                                                *)
Abort ==
  /\ \E S \in SUBSET {c \in Calls : verdict[c] = "pending"} :
        verdict' = [c \in Calls |-> IF c \in S THEN "aborted" ELSE verdict[c]]
  /\ UNCHANGED <<stored, announced, heard>>

CNext ==
  \/ Abort
  \/ \E c \in Calls :
        \/ Index(c) \/ SayOk(c) \/ SayError(c)
        \/ \E k \in Keys : Store(c, k) \/ Announce(c, k)

CSpec == CInit /\ [][CNext]_cvars
=============================================================================
