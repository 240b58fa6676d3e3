------------------------- MODULE LogUseCase_refines -------------------------
(***************************************************************************)
(* LogUseCase implements LogContract, for every value of the constants:    *)
(* the refinement mapping is the instance Contract of LogUseCase.  Each    *)
(* step of the use case or of a service it drives is one step of the       *)
(* contract, or leaves what the contract speaks of alone.                  *)
(***************************************************************************)
EXTENDS LogUseCase_proofs

Mapped == <<Stored, Announced, Heard, Verdict>>

LEMMA InitMaps == Init => Contract!CInit
<1> SUFFICES ASSUME Init PROVE Contract!CInit
  OBVIOUS
<1>1. Stored = {} /\ Announced = {}
  BY DEF Init, Stored, Announced
<1>2. Heard = {}
  BY DEF Init, Heard
<1>3. Verdict = [c \in Calls |-> "pending"]
  BY DEF Init, Verdict
<1> QED
  BY <1>1, <1>2, <1>3 DEF Contract!CInit

-----------------------------------------------------------------------------
(* What the mapped variables depend on.                                    *)

LEMMA TableKept == req' = req /\ rows' = rows => Stored' = Stored
  BY DEF Stored

LEMMA ConsumersKept ==
  req' = req /\ bus' = bus /\ docs' = docs => Announced' = Announced /\ Heard' = Heard
  BY DEF Announced, Heard, LogID

VerdictOf(c) ==
  IF IsGet(c) \/ (pc[c] # "killed" /\ res[c] = "none") THEN "pending"
  ELSE IF res[c] = "ok" THEN "ok"
  ELSE IF res[c] = "repoErr" THEN "error"
  ELSE "aborted"

LEMMA VerdictAt == Verdict = [c \in Calls |-> VerdictOf(c)]
  BY DEF Verdict, VerdictOf

LEMMA VerdictAtNext == Verdict' = [c \in Calls |-> VerdictOf(c)']
  BY DEF Verdict, VerdictOf

LEMMA VerdictKept ==
  ASSUME \A d \in Calls : VerdictOf(d)' = VerdictOf(d)
  PROVE  Verdict' = Verdict
  BY VerdictAt, VerdictAtNext

(* The verdict of one call is set, the others stay.                        *)
LEMMA VerdictSet ==
  ASSUME NEW c \in Calls, NEW v, VerdictOf(c)' = v,
         \A d \in Calls \ {c} : VerdictOf(d)' = VerdictOf(d)
  PROVE  Verdict' = [Verdict EXCEPT ![c] = v]
  BY VerdictAt, VerdictAtNext

(* A row's maker, as the contract sees it.                                 *)
LEMMA StoredIffRow ==
  ASSUME TypeOK, NEW c \in Calls
  PROVE  /\ Row(c) \in rows => /\ [key |-> LogID(c), by |-> c] \in Stored
                               /\ Contract!StoredBy(c)
         /\ Contract!StoredBy(c) => \E r \in rows : r.key = LogID(c)
<1>1. Row(c) \in rows => [key |-> LogID(c), by |-> c] \in Stored
  BY DEF Stored, Row
<1>2. ASSUME Contract!StoredBy(c) PROVE \E r \in rows : r.key = LogID(c)
  <2>1. PICK r \in rows : r.by = c
    BY <1>2 DEF Contract!StoredBy, Stored
  <2>2. PICK d \in Calls : r = Row(d)
    BY <2>1 DEF TypeOK, PossibleRows
  <2> QED
    BY <2>1, <2>2 DEF Row
<1> QED
  BY <1>1, <1>2 DEF Contract!StoredBy

LEMMA HeardMeans ==
  ASSUME IInv, NEW c \in Calls, NEW at, [call |-> c, at |-> at] \in Heard
  PROVE  Carried(c) \/ esSent[c] > 0
<1>1. CASE \E i \in DOMAIN bus : bus[i] = c
  BY <1>1 DEF Carried
<1>2. CASE docs[c] > 0
  <2>1. docs[c] <= esSent[c] /\ docs[c] \in 0 .. Attempts /\ esSent[c] \in 0 .. Attempts
    BY DEF IInv, HeardInv, HeardOf, TypeOK
  <2> QED
    BY <1>2, <2>1, BoundAssumption
<1> QED
  BY <1>1, <1>2 DEF Heard

LEMMA AppendRange ==
  ASSUME NEW s \in Seq(Calls), NEW e \in Calls
  PROVE  {Append(s, e)[i] : i \in DOMAIN Append(s, e)} = {s[i] : i \in DOMAIN s} \cup {e}
<1>1. /\ DOMAIN Append(s, e) = 1 .. Len(s) + 1
      /\ DOMAIN s = 1 .. Len(s)
      /\ Len(s) \in Nat
      /\ \A i \in 1 .. Len(s) : Append(s, e)[i] = s[i]
      /\ Append(s, e)[Len(s) + 1] = e
  BY AppendProperties
<1> DEFINE t == Append(s, e)
<1> HIDE DEF t
<1>2. DOMAIN t = DOMAIN s \cup {Len(s) + 1}
  BY <1>1 DEF t
<1>3. \A i \in DOMAIN s : t[i] = s[i]
  BY <1>1 DEF t
<1>4. t[Len(s) + 1] = e
  BY <1>1 DEF t
<1>5. {t[i] : i \in DOMAIN t} = {s[i] : i \in DOMAIN s} \cup {e}
  BY <1>2, <1>3, <1>4
<1> QED
  BY <1>5 DEF t

-----------------------------------------------------------------------------
(* The steps that the contract sees.                                       *)

LEMMA ErrorMaps ==
  ASSUME IInv, [Next]_vars, NEW c \in Calls, InsertNotSent(c) \/ InsertFails(c)
  PROVE  Contract!SayError(c)
<1>1. /\ pc[c] \in {"insert", "await"} /\ Return(c, "repoErr")
      /\ req' = req /\ rows' = rows /\ bus' = bus /\ docs' = docs
  BY DEF InsertNotSent, InsertFails, dbVars, natsVars, esVars
<1>2. IsSend(c) /\ ~ IsGet(c) /\ res[c] = "none"
  <2>1. IsSend(c) /\ res[c] = "none"
    BY <1>1 DEF IInv, KindInv, KindOf, StepInv, StepOf
  <2> QED
    BY <2>1 DEF IsSend, IsGet
<1>3. VerdictOf(c) = "pending" /\ VerdictOf(c)' = "error"
  BY <1>1, <1>2 DEF VerdictOf, IsGet, IInv, TypeOK, Return, Goto
<1>4. \A d \in Calls \ {c} : VerdictOf(d)' = VerdictOf(d)
  BY <1>1 DEF VerdictOf, IsGet, IInv, TypeOK, Return, Goto
<1>5. Verdict' = [Verdict EXCEPT ![c] = "error"] /\ Verdict[c] = "pending"
  BY <1>3, <1>4, VerdictAt, VerdictSet
<1>6. \A at : [call |-> c, at |-> at] \notin Heard
  <2>1. ~ (Carried(c) \/ esSent[c] > 0)
    BY <1>1 DEF IInv, HeardInv, HeardOf
  <2> QED
    BY <2>1, HeardMeans
<1> QED
  BY <1>1, <1>5, <1>6, TableKept, ConsumersKept DEF Contract!SayError

LEMMA OkMaps ==
  ASSUME IInv, [Next]_vars, NEW c \in Calls, IndexReturns(c)
  PROVE  Contract!SayOk(c)
<1>1. /\ pc[c] = "index" /\ Return(c, "ok")
      /\ req' = req /\ rows' = rows /\ bus' = bus /\ docs' = docs
  BY DEF IndexReturns, dbVars, natsVars, esVars
<1>2. IsSend(c) /\ res[c] = "none" /\ Row(c) \in rows
  BY <1>1 DEF IInv, KindInv, KindOf, StepInv, StepOf, RowInv
<1>3. VerdictOf(c) = "pending" /\ VerdictOf(c)' = "ok"
  BY <1>1, <1>2 DEF VerdictOf, IsSend, IsGet, IInv, TypeOK, Return, Goto
<1>4. \A d \in Calls \ {c} : VerdictOf(d)' = VerdictOf(d)
  BY <1>1 DEF VerdictOf, IsGet, IInv, TypeOK, Return, Goto
<1>5. Verdict' = [Verdict EXCEPT ![c] = "ok"] /\ Verdict[c] = "pending"
  BY <1>3, <1>4, VerdictAt, VerdictSet
<1>6. Contract!StoredBy(c)
  BY <1>2, StoredIffRow DEF IInv
<1> QED
  BY <1>1, <1>5, <1>6, TableKept, ConsumersKept DEF Contract!SayOk

LEMMA StoreMaps ==
  ASSUME IInv, [Next]_vars, NEW c \in Calls, DbApply(c)
  PROVE  \E k \in Uuids \cup Calls : Contract!Store(c, k)
<1>1. /\ LogID(c) # Malformed /\ ~ KeyTaken(LogID(c))
      /\ stmt[c] = "sent" /\ rows' = rows \cup {Row(c)}
      /\ req' = req /\ pc' = pc /\ res' = res /\ bus' = bus /\ docs' = docs
  BY DEF DbApply, callVars, natsVars, esVars
<1>2. LogID(c) \in Uuids \cup Calls
  <2>1. Row(c) \in rows' /\ KeyInv' /\ Row(c).key = LogID(c)
    BY <1>1, IInvStep DEF IInv, Row
  <2> QED
    BY <2>1 DEF KeyInv, Uuids, UuidOf
<1>3. ~ Contract!StoredBy(c)
  BY <1>1, StoredIffRow DEF IInv, KeyTaken
<1>4. \A e \in Stored : e.key # LogID(c)
  BY <1>1 DEF Stored, KeyTaken
<1>5. Stored' = Stored \cup {[key |-> LogID(c), by |-> c]}
  <2> DEFINE E(r) == [key |-> r.key, by |-> r.by]
  <2>1. Stored' = {E(r) : r \in rows'} /\ Stored = {E(r) : r \in rows}
    BY DEF Stored
  <2>2. E(Row(c)) = [key |-> LogID(c), by |-> c]
    BY DEF Row
  <2> HIDE DEF E
  <2> QED
    BY <1>1, <2>1, <2>2
<1>6. Verdict' = Verdict
  BY <1>1, VerdictKept DEF VerdictOf, IsGet
<1> QED
  BY <1>1, <1>2, <1>3, <1>4, <1>5, <1>6, ConsumersKept DEF Contract!Store

LEMMA FlushMaps ==
  ASSUME IInv, [Next]_vars, NatsFlush
  PROVE  \E c \in Calls, k \in Uuids \cup Calls : Carried(c) /\ Contract!Announce(c, k)
<1> DEFINE c == Head(buf)
<1>1. /\ buf # <<>> /\ bus' = Append(bus, c) /\ req' = req
      /\ pc' = pc /\ res' = res /\ rows' = rows /\ docs' = docs
  BY DEF NatsFlush, callVars, dbVars, esVars
<1>2. c \in Calls /\ 1 \in DOMAIN buf /\ c = buf[1]
  BY <1>1, TailAt DEF IInv, TypeOK
<1> HIDE DEF c
<1>3. Carried(c) /\ stmt[c] = "applied" /\ res[c] # "repoErr" /\ Row(c) \in rows
  BY <1>2 DEF Carried, IInv, HeardInv, HeardOf, RowInv
<1>4. [key |-> LogID(c), by |-> c] \in Stored
  BY <1>2, <1>3, StoredIffRow DEF IInv
<1>5. LogID(c) \in Uuids \cup Calls
  BY <1>3 DEF IInv, KeyInv, Row
<1>6. LogID(c) \notin Announced
  <2> SUFFICES ASSUME NEW i \in DOMAIN bus, LogID(bus[i]) = LogID(c)
               PROVE  FALSE
    BY DEF Announced
  <2>1. bus[i] \in Calls /\ Carried(bus[i])
    BY DEF Carried, IInv, TypeOK
  <2>2. bus[i] = c
    BY <1>2, <1>3, <2>1, OneCarrierPerKey
  <2> QED
    BY <1>2, <2>2 DEF IInv, OnceInv
<1>7. {bus'[i] : i \in DOMAIN bus'} = {bus[i] : i \in DOMAIN bus} \cup {c}
  <2>1. bus \in Seq(Calls)
    BY DEF IInv, TypeOK
  <2> QED
    BY <1>1, <1>2, <2>1, AppendRange
<1>8. Announced' = Announced \cup {LogID(c)}
  <2>1. \A d : LogID(d)' = LogID(d)
    BY <1>1 DEF LogID
  <2> QED
    BY <1>7, <2>1 DEF Announced
<1>9. Heard' = Heard \cup {[call |-> c, at |-> "nats"]}
  BY <1>1, <1>7 DEF Heard
<1>10. Verdict' = Verdict
  BY <1>1, VerdictKept DEF VerdictOf, IsGet
<1>11. Verdict[c] # "error"
  BY <1>2, <1>3, VerdictAt DEF VerdictOf
<1>12. Contract!Announce(c, LogID(c))
  BY <1>1, <1>4, <1>6, <1>8, <1>9, <1>10, <1>11, TableKept DEF Contract!Announce
<1> QED
  BY <1>2, <1>3, <1>5, <1>12

LEMMA IngestMaps ==
  ASSUME IInv, [Next]_vars, NEW c \in Calls, EsIngest(c)
  PROVE  Contract!Index(c)
<1>1. /\ docs[c] < esSent[c] /\ docs' = [docs EXCEPT ![c] = @ + 1] /\ req' = req
      /\ pc' = pc /\ res' = res /\ rows' = rows /\ bus' = bus
  BY DEF EsIngest, callVars, dbVars, natsVars
<1>2. docs \in [Calls -> 0 .. Attempts] /\ esSent[c] \in 0 .. Attempts
  BY DEF IInv, TypeOK
<1>3. esSent[c] > 0 /\ docs'[c] > 0 /\ \A d \in Calls \ {c} : docs'[d] = docs[d]
  BY <1>1, <1>2, BoundAssumption
<1>4. Row(c) \in rows /\ res[c] # "repoErr"
  BY <1>3 DEF IInv, HeardInv, HeardOf, RowInv
<1>5. Heard' = Heard \cup {[call |-> c, at |-> "es"]}
  <2>1. {d \in Calls : docs'[d] > 0} = {d \in Calls : docs[d] > 0} \cup {c}
    BY <1>3
  <2> QED
    BY <1>1, <2>1 DEF Heard
<1>6. Announced' = Announced
  BY <1>1 DEF Announced, LogID
<1>7. Verdict' = Verdict
  BY <1>1, VerdictKept DEF VerdictOf, IsGet
<1>8. Verdict[c] # "error"
  BY <1>4, VerdictAt DEF VerdictOf
<1>9. Contract!StoredBy(c)
  BY <1>4, StoredIffRow DEF IInv
<1> QED
  BY <1>1, <1>5, <1>6, <1>7, <1>8, <1>9, TableKept DEF Contract!Index

(* A panic and an exit take the verdict from the calls in S.               *)
LEMMA AbortMaps ==
  ASSUME req' = req, rows' = rows, bus' = bus, docs' = docs,
         NEW S \in SUBSET Calls,
         \A d \in S : VerdictOf(d) = "pending" /\ VerdictOf(d)' = "aborted",
         \A d \in Calls \ S : VerdictOf(d)' = VerdictOf(d)
  PROVE  Contract!Abort
<1>1. S \in SUBSET {c \in Calls : Verdict[c] = "pending"}
  BY VerdictAt
<1>2. Verdict' = [c \in Calls |-> IF c \in S THEN "aborted" ELSE Verdict[c]]
  BY VerdictAt, VerdictAtNext
<1> QED
  BY <1>1, <1>2, TableKept, ConsumersKept DEF Contract!Abort

LEMMA PanicMaps ==
  ASSUME IInv, [Next]_vars, NEW c \in Calls, Panic(c)
  PROVE  Contract!Abort
<1>1. /\ pc[c] \in Running /\ Return(c, "panic")
      /\ req' = req /\ rows' = rows /\ bus' = bus /\ docs' = docs
  BY DEF Panic, dbVars, natsVars, esVars
<1>2. res[c] = "none" /\ pc[c] # "killed"
  BY <1>1 DEF IInv, StepInv, StepOf, Running
<1>3. \A d \in Calls \ {c} : VerdictOf(d)' = VerdictOf(d)
  BY <1>1 DEF VerdictOf, IsGet, IInv, TypeOK, Return, Goto
<1>4. CASE IsGet(c)
  <2>1. \A d \in Calls : VerdictOf(d)' = VerdictOf(d)
    BY <1>1, <1>3, <1>4 DEF VerdictOf, IsGet
  <2> QED
    <3> DEFINE S == {}
    <3>1. S \in SUBSET Calls /\ Calls \ S = Calls
      OBVIOUS
    <3>2. /\ \A d \in S : VerdictOf(d) = "pending" /\ VerdictOf(d)' = "aborted"
          /\ \A d \in Calls \ S : VerdictOf(d)' = VerdictOf(d)
      BY <2>1
    <3> HIDE DEF S
    <3> QED
      BY <1>1, <3>1, <3>2, AbortMaps
<1>5. CASE ~ IsGet(c)
  <2>1. VerdictOf(c) = "pending" /\ VerdictOf(c)' = "aborted"
    BY <1>1, <1>2, <1>5 DEF VerdictOf, IsGet, IInv, TypeOK, Return, Goto
  <2> QED
    BY <1>1, <1>3, <2>1, AbortMaps
<1> QED
  BY <1>4, <1>5

LEMMA ExitMaps ==
  ASSUME IInv, [Next]_vars, Exit
  PROVE  Contract!Abort
<1> DEFINE S == {c \in Calls : IsSend(c) /\ pc[c] \in Running}
<1>1. /\ pc' = [c \in Calls |-> IF pc[c] \in Running THEN "killed" ELSE pc[c]]
      /\ req' = req /\ res' = res /\ rows' = rows /\ bus' = bus /\ docs' = docs
  BY DEF Exit, Kill, dbVars, esVars
<1>2. ASSUME NEW d \in S PROVE VerdictOf(d) = "pending" /\ VerdictOf(d)' = "aborted"
  <2>1. ~ IsGet(d) /\ res[d] = "none" /\ pc[d] # "killed" /\ pc'[d] = "killed"
    BY <1>1 DEF IInv, StepInv, StepOf, Running, IsSend, IsGet
  <2> QED
    BY <1>1, <2>1 DEF VerdictOf, IsGet
<1>3. ASSUME NEW d \in Calls \ S PROVE VerdictOf(d)' = VerdictOf(d)
  <2>1. IsSend(d) \/ IsGet(d)
    BY KindsFixed DEF IInv
  <2>2. IsGet(d) \/ pc'[d] = pc[d]
    BY <1>1, <2>1
  <2> QED
    BY <1>1, <2>2 DEF VerdictOf, IsGet
<1> HIDE DEF S
<1>4. S \in SUBSET Calls
  BY DEF S
<1> QED
  BY <1>1, <1>2, <1>3, <1>4, AbortMaps

-----------------------------------------------------------------------------
(* The steps that the contract does not see.                               *)

LEMMA StutterMaps ==
  ASSUME req' = req, rows' = rows, bus' = bus, docs' = docs,
         \A d \in Calls : VerdictOf(d)' = VerdictOf(d)
  PROVE  UNCHANGED Mapped
  BY TableKept, ConsumersKept, VerdictKept DEF Mapped

LEMMA InnerSteps ==
  ASSUME IInv, [Next]_vars, NEW c \in Calls,
         \/ Begin(c) \/ SendInsert(c) \/ InsertOk(c) \/ Publish(c) \/ IndexLog(c)
         \/ DbReject(c)
  PROVE  UNCHANGED Mapped
<1>1. /\ req' = req /\ rows' = rows /\ bus' = bus /\ docs' = docs /\ res' = res
      /\ \A d \in Calls : pc'[d] # "killed" <=> pc[d] # "killed"
  BY DEF IInv, TypeOK, Goto, Begin, SendInsert, InsertOk, Publish, IndexLog, DbReject,
     callVars, dbVars, natsVars, esVars
<1> QED
  BY <1>1, StutterMaps DEF VerdictOf, IsGet

LEMMA ReaderSteps ==
  ASSUME IInv, [Next]_vars, NEW c \in Calls, Query(c) \/ QueryFails(c)
  PROVE  UNCHANGED Mapped
<1>1. /\ req' = req /\ rows' = rows /\ bus' = bus /\ docs' = docs
      /\ pc[c] = "query" /\ \E r : Return(c, r)
  BY DEF Query, QueryFails, dbVars, natsVars, esVars
<1>2. IsGet(c)
  BY <1>1 DEF IInv, KindInv, KindOf
<1>3. \A d \in Calls \ {c} : pc'[d] = pc[d] /\ res'[d] = res[d]
  BY <1>1 DEF IInv, TypeOK, Return, Goto
<1> QED
  BY <1>1, <1>2, <1>3, StutterMaps DEF VerdictOf, IsGet

LEMMA OtherSteps ==
  ASSUME \/ \E c \in Calls, how \in CtxEndings : CtxEnds(c, how)
         \/ NatsDrop \/ AtRest \/ UNCHANGED vars
  PROVE  UNCHANGED Mapped
<1>1. /\ req' = req /\ rows' = rows /\ bus' = bus /\ docs' = docs
      /\ pc' = pc /\ res' = res
  BY DEF CtxEnds, NatsDrop, AtRest, vars, callVars, dbVars, natsVars, esVars
<1> QED
  BY <1>1, StutterMaps DEF VerdictOf, IsGet

LEMMA NextMaps == IInv /\ [Next]_vars => [Contract!CNext]_Mapped
<1> SUFFICES ASSUME IInv, [Next]_vars PROVE Contract!CNext \/ UNCHANGED Mapped
  OBVIOUS
<1>1. ASSUME NEW c \in Calls, InsertNotSent(c) \/ InsertFails(c) PROVE Contract!CNext
  BY <1>1, ErrorMaps DEF Contract!CNext
<1>2. ASSUME NEW c \in Calls, IndexReturns(c) PROVE Contract!CNext
  BY <1>2, OkMaps DEF Contract!CNext
<1>3. ASSUME NEW c \in Calls, DbApply(c) PROVE Contract!CNext
  BY <1>3, StoreMaps DEF Contract!CNext
<1>4. ASSUME NEW c \in Calls, EsIngest(c) PROVE Contract!CNext
  BY <1>4, IngestMaps DEF Contract!CNext
<1>5. ASSUME NEW c \in Calls, Panic(c) PROVE Contract!CNext
  BY <1>5, PanicMaps DEF Contract!CNext
<1>6. CASE NatsFlush
  BY <1>6, FlushMaps DEF Contract!CNext
<1>7. CASE Exit
  BY <1>7, ExitMaps DEF Contract!CNext
<1>8. ASSUME NEW c \in Calls,
             \/ Begin(c) \/ SendInsert(c) \/ InsertOk(c) \/ Publish(c)
             \/ IndexLog(c) \/ DbReject(c) \/ Query(c) \/ QueryFails(c)
      PROVE  UNCHANGED Mapped
  BY <1>8, InnerSteps, ReaderSteps
<1>9. CASE \/ \E c \in Calls, how \in CtxEndings : CtxEnds(c, how)
           \/ NatsDrop \/ AtRest \/ UNCHANGED vars
  BY <1>9, OtherSteps
<1> QED
  BY <1>1, <1>2, <1>3, <1>4, <1>5, <1>6, <1>7, <1>8, <1>9
  DEF Next, UseCaseStep, SendLog, GetLogs, External

(* The use case keeps the contract: whatever the calls do concurrently, and *)
(* whatever is lost, late, repeated or killed, its callers and consumers   *)
(* see a behaviour of LogContract.                                         *)
THEOREM Implements == Spec => ImplementsContract
<1>1. Init => Contract!CInit
  BY InitMaps
<1>2. IInv /\ [Next]_vars => [Contract!CNext]_(Contract!cvars)
  BY NextMaps DEF Contract!cvars, Mapped
<1> QED
  BY <1>1, <1>2, Invariance, PTL DEF Spec, ImplementsContract, Contract!CSpec
=============================================================================
