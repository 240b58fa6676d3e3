------------------------- MODULE LogUseCase_proofs -------------------------
(***************************************************************************)
(* Theorems of LogUseCase for every set of calls, requests and ids, and    *)
(* every bound.                                                            *)
(*                                                                         *)
(* The argument: a row is stored exactly by a call whose INSERT was        *)
(* applied (RowInv), and a call passes the point where it publishes only   *)
(* after it has seen that (StepInv).  Whatever the consumers hear of comes *)
(* from a call past that point (HeardInv), once (OnceInv), and the primary *)
(* key leaves one such call per key (KeyInv).                              *)
(***************************************************************************)
EXTENDS LogUseCase, TLAPS, SequenceTheorems, FiniteSetTheorems

(* Where a call stands goes with what it asks for and with its INSERT.     *)
KindOf(c) ==
  /\ pc[c] \in {"insert", "await", "publish", "index"} => IsSend(c)
  /\ pc[c] = "query" => IsGet(c)
  /\ stmt[c] # "none" => IsSend(c)

KindInv == \A c \in Calls : KindOf(c)

RowInv == \A c \in Calls : stmt[c] = "applied" <=> Row(c) \in rows

KeyInv ==
  /\ \A r, s \in rows : r.key = s.key => r = s
  /\ \A r \in rows : r.key \in Uuids \cup Calls

StepOf(c) ==
  /\ pc[c] \in {"publish", "index"} => stmt[c] = "applied"
  /\ IsSend(c) /\ res[c] = "ok" => stmt[c] = "applied"
  /\ pc[c] = "ret" <=> res[c] # "none"
  /\ pc[c] \in {"idle", "insert", "query"} => stmt[c] = "none"

StepInv == \A c \in Calls : StepOf(c)

ResultOf(c) ==
  /\ IsGet(c) /\ res[c] = "ok" => page[c] # {}
  /\ res[c] = "noLogs" => IsGet(c)

ResultInv == \A c \in Calls : ResultOf(c)

HeardOf(c) ==
  /\ Carried(c) \/ esSent[c] > 0 =>
       /\ stmt[c] = "applied"
       /\ pc[c] \in {"index", "ret", "killed"}
       /\ res[c] # "repoErr"
  /\ docs[c] <= esSent[c]

HeardInv == \A c \in Calls : HeardOf(c)

OnceInv ==
  /\ \A i, j \in DOMAIN bus : bus[i] = bus[j] => i = j
  /\ \A i, j \in DOMAIN buf : buf[i] = buf[j] => i = j
  /\ \A i \in DOMAIN bus, j \in DOMAIN buf : bus[i] # buf[j]

IInv ==
  /\ TypeOK /\ KindInv /\ RowInv /\ KeyInv /\ StepInv /\ ResultInv
  /\ HeardInv /\ OnceInv

-----------------------------------------------------------------------------
(* Every action leaves the requests alone.                                 *)
LEMMA RequestsFixed == [Next]_vars => req' = req
<1> USE DEF vars, callVars, dbVars, natsVars, esVars
<1>1. ASSUME NEW c \in Calls, Begin(c) \/ UseCaseStep(c) PROVE req' = req
  BY <1>1 DEF Begin, UseCaseStep, SendLog, GetLogs, SendInsert, InsertNotSent,
     InsertOk, InsertFails, Publish, IndexLog, IndexReturns, Query, QueryFails, Panic
<1>2. ASSUME NEW c \in Calls, NEW how \in CtxEndings, CtxEnds(c, how) PROVE req' = req
  BY <1>2 DEF CtxEnds
<1>3. CASE External
  BY <1>3 DEF External, DbApply, DbReject, EsIngest, NatsFlush, NatsDrop
<1>4. CASE Exit
  BY <1>4 DEF Exit, Kill
<1>5. CASE AtRest
  BY <1>5 DEF AtRest
<1> QED
  BY <1>1, <1>2, <1>3, <1>4, <1>5 DEF Next

LEMMA InitIInv == Init => IInv
<1> SUFFICES ASSUME Init PROVE IInv
  OBVIOUS
<1>1. TypeOK
  BY BoundAssumption DEF Init, TypeOK
<1>2. KindInv /\ RowInv /\ KeyInv /\ StepInv /\ ResultInv
  BY DEF Init, KindInv, KindOf, RowInv, KeyInv, StepInv, StepOf, ResultInv, ResultOf
<1>3. HeardInv /\ OnceInv
  BY BoundAssumption DEF Init, HeardInv, HeardOf, OnceInv, Carried
<1> QED
  BY <1>1, <1>2, <1>3 DEF IInv

-----------------------------------------------------------------------------
(* Types.                                                                  *)

LEMMA PossibleFixed == req' = req => PossibleRows' = PossibleRows
  BY DEF PossibleRows, IsSend, Row, LogID

LEMMA TypeStep == TypeOK /\ KindInv /\ [Next]_vars => TypeOK'
<1> SUFFICES ASSUME TypeOK, KindInv, [Next]_vars PROVE TypeOK'
  OBVIOUS
<1>0. PossibleRows' = PossibleRows
  BY RequestsFixed, PossibleFixed
<1> USE BoundAssumption, <1>0
    DEF TypeOK, Running, Ended, Goto, Return, callVars, dbVars, natsVars, esVars
<1>1. ASSUME NEW c \in Calls, Begin(c) PROVE TypeOK'
  BY <1>1 DEF Begin
<1>2. ASSUME NEW c \in Calls, SendInsert(c) PROVE TypeOK'
  BY <1>2 DEF SendInsert
<1>3. ASSUME NEW c \in Calls, InsertNotSent(c) \/ InsertOk(c) \/ InsertFails(c) PROVE TypeOK'
  BY <1>3 DEF InsertNotSent, InsertOk, InsertFails
<1>4. ASSUME NEW c \in Calls, Publish(c) PROVE TypeOK'
  <2>1. buf' \in Seq(Calls)
    <3>1. Append(buf, c) \in Seq(Calls)
      OBVIOUS
    <3> QED
      BY <1>4, <3>1 DEF Publish
  <2> QED
    BY <1>4, <2>1 DEF Publish
<1>5. ASSUME NEW c \in Calls, IndexLog(c) PROVE TypeOK'
  BY <1>5 DEF IndexLog
<1>6. ASSUME NEW c \in Calls, IndexReturns(c) \/ QueryFails(c) \/ Panic(c) PROVE TypeOK'
  BY <1>6 DEF IndexReturns, QueryFails, Panic
<1>7. ASSUME NEW c \in Calls, Query(c) PROVE TypeOK'
  <2>1. PICK P \in Pages(req[c]) :
          /\ page' = [page EXCEPT ![c] = P]
          /\ Return(c, IF P = {} THEN "noLogs" ELSE "ok")
    BY <1>7 DEF Query
  <2>2. P \subseteq rows
    BY DEF Pages, Matching
  <2> QED
    BY <1>7, <2>1, <2>2 DEF Query
<1>8. ASSUME NEW c \in Calls, NEW how \in CtxEndings, CtxEnds(c, how) PROVE TypeOK'
  BY <1>8 DEF CtxEnds, CtxEndings
<1>9. ASSUME NEW c \in Calls, DbApply(c) PROVE TypeOK'
  <2>1. Row(c) \in PossibleRows
    BY <1>9 DEF DbApply, KindInv, KindOf, PossibleRows
  <2>2. rows' \subseteq PossibleRows' /\ page' \in [Calls -> SUBSET rows']
    BY <1>9, <2>1 DEF DbApply
  <2> QED
    BY <1>9, <2>2 DEF DbApply
<1>10. ASSUME NEW c \in Calls, DbReject(c) \/ EsIngest(c) PROVE TypeOK'
  <2>1. CASE DbReject(c)
    BY <2>1 DEF DbReject
  <2>2. CASE EsIngest(c)
    BY <2>2 DEF EsIngest
  <2> QED
    BY <1>10, <2>1, <2>2
<1>11. CASE NatsFlush \/ NatsDrop \/ Exit
  <2>1. CASE NatsFlush \/ NatsDrop
    <3>1. buf # <<>>
      BY <2>1 DEF NatsFlush, NatsDrop
    <3>2. Head(buf) \in Calls /\ Tail(buf) \in Seq(Calls)
      BY <3>1
    <3>3. Append(bus, Head(buf)) \in Seq(Calls)
      BY <3>2
    <3> QED
      BY <2>1, <3>2, <3>3 DEF NatsFlush, NatsDrop
  <2>2. CASE Exit
    BY <2>2 DEF Exit, Kill
  <2> QED
    BY <1>11, <2>1, <2>2
<1>12. CASE AtRest \/ UNCHANGED vars
  BY <1>12 DEF AtRest, vars
<1> QED
  BY <1>1, <1>2, <1>3, <1>4, <1>5, <1>6, <1>7, <1>8, <1>9, <1>10, <1>11, <1>12
  DEF Next, UseCaseStep, SendLog, GetLogs, External

-----------------------------------------------------------------------------
(* The calls and their rows.                                               *)

LEMMA KindsFixed ==
  ASSUME TypeOK, [Next]_vars, NEW d \in Calls
  PROVE  /\ IsSend(d)' <=> IsSend(d)
         /\ IsGet(d)' <=> IsGet(d)
         /\ IsSend(d) \/ IsGet(d)
         /\ ~ (IsSend(d) /\ IsGet(d))
         /\ LogID(d)' = LogID(d)
         /\ Row(d)' = Row(d)
<1>1. req' = req /\ req[d] \in Requests
  BY RequestsFixed DEF TypeOK
<1> QED
  BY <1>1, RequestAssumption DEF IsSend, IsGet, LogID, Row

LEMMA KindStep == TypeOK /\ KindInv /\ [Next]_vars => KindInv'
<1> SUFFICES ASSUME TypeOK, KindInv, [Next]_vars, NEW d \in Calls
             PROVE  KindOf(d)'
  BY DEF KindInv
<1>0. /\ IsSend(d)' <=> IsSend(d)
      /\ IsGet(d)' <=> IsGet(d)
      /\ IsSend(d) \/ IsGet(d)
      /\ KindOf(d)
  BY KindsFixed DEF KindInv
<1> USE <1>0 DEF TypeOK, KindOf, Goto, Return, callVars, dbVars, natsVars, esVars
<1>1. ASSUME NEW c \in Calls, Begin(c) PROVE KindOf(d)'
  BY <1>1 DEF Begin
<1>2. ASSUME NEW c \in Calls, SendInsert(c) PROVE KindOf(d)'
  BY <1>2 DEF SendInsert
<1>3. ASSUME NEW c \in Calls, InsertNotSent(c) \/ InsertOk(c) \/ InsertFails(c)
      PROVE  KindOf(d)'
  BY <1>3 DEF InsertNotSent, InsertOk, InsertFails
<1>4. ASSUME NEW c \in Calls, Publish(c) \/ IndexLog(c) \/ IndexReturns(c)
      PROVE  KindOf(d)'
  BY <1>4 DEF Publish, IndexLog, IndexReturns
<1>5. ASSUME NEW c \in Calls, Query(c) \/ QueryFails(c) \/ Panic(c)
      PROVE  KindOf(d)'
  BY <1>5 DEF Query, QueryFails, Panic
<1>6. ASSUME NEW c \in Calls, NEW how \in CtxEndings, CtxEnds(c, how)
      PROVE  KindOf(d)'
  BY <1>6 DEF CtxEnds
<1>7. ASSUME NEW c \in Calls, DbApply(c) \/ DbReject(c) \/ EsIngest(c)
      PROVE  KindOf(d)'
  BY <1>7 DEF DbApply, DbReject, EsIngest
<1>8. CASE NatsFlush \/ NatsDrop \/ AtRest \/ UNCHANGED vars
  BY <1>8 DEF NatsFlush, NatsDrop, AtRest, vars
<1>9. CASE Exit
  BY <1>9 DEF Exit, Kill
<1> QED
  BY <1>1, <1>2, <1>3, <1>4, <1>5, <1>6, <1>7, <1>8, <1>9
  DEF Next, UseCaseStep, SendLog, GetLogs, External

(* The INSERT of a call goes one way, and a row is made by DbApply only.   *)
LEMMA RowStep == TypeOK /\ KindInv /\ RowInv /\ KeyInv /\ StepInv /\ [Next]_vars
                   => RowInv' /\ KeyInv' /\ rows \subseteq rows'
<1> SUFFICES ASSUME TypeOK, KindInv, RowInv, KeyInv, StepInv, [Next]_vars
             PROVE  RowInv' /\ KeyInv' /\ rows \subseteq rows'
  OBVIOUS
<1>0. \A d \in Calls : Row(d)' = Row(d)
  BY KindsFixed
<1>1. CASE stmt' = stmt /\ rows' = rows
  BY <1>0, <1>1 DEF RowInv, KeyInv
<1>2. ASSUME NEW c \in Calls, DbApply(c)
      PROVE  RowInv' /\ KeyInv' /\ rows \subseteq rows'
  <2>1. rows' = rows \cup {Row(c)} /\ stmt' = [stmt EXCEPT ![c] = "applied"]
    BY <1>2 DEF DbApply
  <2>2. RowInv'
    <3> SUFFICES ASSUME NEW d \in Calls
                 PROVE  stmt'[d] = "applied" <=> Row(d) \in rows'
      BY <1>0 DEF RowInv
    <3>1. CASE d = c
      BY <2>1, <3>1 DEF TypeOK
    <3>2. CASE d # c
      <4>1. Row(d) # Row(c)
        BY <3>2 DEF Row
      <4> QED
        BY <2>1, <3>2, <4>1 DEF RowInv, TypeOK
    <3> QED
      BY <3>1, <3>2
  <2>3. \A r \in rows : r.key # Row(c).key
    BY <1>2 DEF DbApply, KeyTaken, Row
  <2>4. Row(c).key \in Uuids \cup Calls
    <3>1. IsSend(c) /\ req[c] \in Requests /\ LogID(c) # Malformed
      BY <1>2 DEF DbApply, KindInv, KindOf, TypeOK
    <3>2. req[c].id \in Ids \cup {NoId}
      BY <3>1, RequestAssumption DEF IsSend
    <3> QED
      BY <3>1, <3>2 DEF Row, LogID, Uuids
  <2>5. KeyInv'
    BY <2>1, <2>3, <2>4 DEF KeyInv
  <2> QED
    BY <2>1, <2>2, <2>5
<1>3. ASSUME NEW c \in Calls, SendInsert(c) \/ DbReject(c)
      PROVE  RowInv' /\ KeyInv' /\ rows \subseteq rows'
  <2>1. rows' = rows /\ \A d \in Calls : stmt'[d] = "applied" <=> stmt[d] = "applied"
    BY <1>3 DEF SendInsert, DbReject, StepInv, StepOf, TypeOK, callVars, natsVars, esVars
  <2> QED
    BY <1>0, <2>1 DEF RowInv, KeyInv
<1>4. ASSUME NEW c \in Calls,
             \/ Begin(c) \/ InsertNotSent(c) \/ InsertOk(c) \/ InsertFails(c)
             \/ Publish(c) \/ IndexLog(c) \/ IndexReturns(c)
             \/ Query(c) \/ QueryFails(c) \/ Panic(c) \/ EsIngest(c)
      PROVE  stmt' = stmt /\ rows' = rows
  BY <1>4 DEF Begin, InsertNotSent, InsertOk, InsertFails, Publish, IndexLog,
     IndexReturns, Query, QueryFails, Panic, EsIngest, dbVars
<1>5. ASSUME NEW c \in Calls, NEW how \in CtxEndings, CtxEnds(c, how)
      PROVE  stmt' = stmt /\ rows' = rows
  BY <1>5 DEF CtxEnds, dbVars
<1>6. CASE NatsFlush \/ NatsDrop \/ Exit \/ AtRest \/ UNCHANGED vars
  BY <1>1, <1>6 DEF NatsFlush, NatsDrop, Exit, Kill, AtRest, vars, dbVars
<1> QED
  BY <1>1, <1>2, <1>3, <1>4, <1>5, <1>6
  DEF Next, UseCaseStep, SendLog, GetLogs, External

LEMMA StepStep == TypeOK /\ KindInv /\ StepInv /\ [Next]_vars => StepInv'
<1> SUFFICES ASSUME TypeOK, KindInv, StepInv, [Next]_vars, NEW d \in Calls
             PROVE  StepOf(d)'
  BY DEF StepInv
<1>0. /\ IsSend(d)' <=> IsSend(d)
      /\ ~ (IsSend(d) /\ IsGet(d))
      /\ KindOf(d) /\ StepOf(d)
  BY KindsFixed DEF KindInv, StepInv
<1> USE <1>0 DEF TypeOK, KindOf, StepOf, Running, Ended, Goto, Return,
        callVars, dbVars, natsVars, esVars
<1>1. ASSUME NEW c \in Calls, Begin(c) PROVE StepOf(d)'
  BY <1>1 DEF Begin
<1>2. ASSUME NEW c \in Calls, SendInsert(c) PROVE StepOf(d)'
  BY <1>2 DEF SendInsert
<1>3. ASSUME NEW c \in Calls, InsertNotSent(c) \/ InsertOk(c) \/ InsertFails(c)
      PROVE  StepOf(d)'
  BY <1>3 DEF InsertNotSent, InsertOk, InsertFails
<1>4. ASSUME NEW c \in Calls, Publish(c) \/ IndexLog(c) \/ IndexReturns(c)
      PROVE  StepOf(d)'
  BY <1>4 DEF Publish, IndexLog, IndexReturns
<1>5. ASSUME NEW c \in Calls, Query(c) \/ QueryFails(c) \/ Panic(c)
      PROVE  StepOf(d)'
  BY <1>5 DEF Query, QueryFails, Panic
<1>6. ASSUME NEW c \in Calls, NEW how \in CtxEndings, CtxEnds(c, how)
      PROVE  StepOf(d)'
  BY <1>6 DEF CtxEnds
<1>7. ASSUME NEW c \in Calls, DbApply(c) \/ DbReject(c) \/ EsIngest(c)
      PROVE  StepOf(d)'
  BY <1>7 DEF DbApply, DbReject, EsIngest
<1>8. CASE NatsFlush \/ NatsDrop \/ AtRest \/ UNCHANGED vars
  BY <1>8 DEF NatsFlush, NatsDrop, AtRest, vars
<1>9. CASE Exit
  BY <1>9 DEF Exit, Kill
<1> QED
  BY <1>1, <1>2, <1>3, <1>4, <1>5, <1>6, <1>7, <1>8, <1>9
  DEF Next, UseCaseStep, SendLog, GetLogs, External

(* A result is never taken back.                                           *)
LEMMA ResultKept ==
  ASSUME TypeOK, StepInv, [Next]_vars, NEW d \in Calls, res[d] # "none"
  PROVE  res'[d] = res[d]
<1>0. pc[d] = "ret"
  BY DEF StepInv, StepOf
<1> USE <1>0 DEF TypeOK, Running, Goto, Return, callVars, dbVars, natsVars, esVars
<1>1. ASSUME NEW c \in Calls, Begin(c) \/ UseCaseStep(c) PROVE res'[d] = res[d]
  BY <1>1 DEF Begin, UseCaseStep, SendLog, GetLogs, SendInsert, InsertNotSent,
     InsertOk, InsertFails, Publish, IndexLog, IndexReturns, Query, QueryFails, Panic
<1>2. ASSUME NEW c \in Calls, NEW how \in CtxEndings, CtxEnds(c, how)
      PROVE  res'[d] = res[d]
  BY <1>2 DEF CtxEnds
<1>3. CASE External \/ Exit \/ AtRest \/ UNCHANGED vars
  BY <1>3 DEF External, DbApply, DbReject, EsIngest, NatsFlush, NatsDrop, Exit, Kill,
     AtRest, vars
<1> QED
  BY <1>1, <1>2, <1>3 DEF Next

(* What a call returned, and with which page, is settled once.             *)
LEMMA ResultStep == TypeOK /\ KindInv /\ StepInv /\ ResultInv /\ [Next]_vars => ResultInv'
<1> SUFFICES ASSUME TypeOK, KindInv, StepInv, ResultInv, [Next]_vars, NEW d \in Calls
             PROVE  ResultOf(d)'
  BY DEF ResultInv
<1>0. /\ IsGet(d)' <=> IsGet(d)
      /\ ~ (IsSend(d) /\ IsGet(d))
      /\ KindOf(d) /\ StepOf(d) /\ ResultOf(d)
  BY KindsFixed DEF KindInv, StepInv, ResultInv
<1> USE <1>0 DEF TypeOK, KindOf, StepOf, ResultOf, Goto, Return, callVars, dbVars, natsVars, esVars
<1>1. CASE res' = res /\ page' = page
  BY <1>1
<1>2. ASSUME NEW c \in Calls, InsertNotSent(c) \/ InsertFails(c) \/ QueryFails(c) \/ Panic(c)
      PROVE  ResultOf(d)'
  BY <1>2 DEF InsertNotSent, InsertFails, QueryFails, Panic
<1>3. ASSUME NEW c \in Calls, IndexReturns(c) PROVE ResultOf(d)'
  BY <1>3 DEF IndexReturns
<1>4. ASSUME NEW c \in Calls, Query(c) PROVE ResultOf(d)'
  <2>1. PICK P \in Pages(req[c]) :
          /\ page' = [page EXCEPT ![c] = P]
          /\ Return(c, IF P = {} THEN "noLogs" ELSE "ok")
    BY <1>4 DEF Query
  <2>2. pc[c] = "query"
    BY <1>4 DEF Query
  <2>3. CASE c = d
    BY <2>1, <2>2, <2>3
  <2>4. CASE c # d
    BY <2>1, <2>4
  <2> QED
    BY <2>3, <2>4
<1>5. ASSUME NEW c \in Calls,
             \/ Begin(c) \/ SendInsert(c) \/ InsertOk(c) \/ Publish(c) \/ IndexLog(c)
             \/ DbApply(c) \/ DbReject(c) \/ EsIngest(c)
      PROVE  res' = res /\ page' = page
  BY <1>5 DEF Begin, SendInsert, InsertOk, Publish, IndexLog, DbApply, DbReject, EsIngest
<1>6. ASSUME NEW c \in Calls, NEW how \in CtxEndings, CtxEnds(c, how)
      PROVE  res' = res /\ page' = page
  BY <1>6 DEF CtxEnds
<1>7. CASE NatsFlush \/ NatsDrop \/ Exit \/ AtRest \/ UNCHANGED vars
  BY <1>1, <1>7 DEF NatsFlush, NatsDrop, Exit, Kill, AtRest, vars
<1> QED
  BY <1>1, <1>2, <1>3, <1>4, <1>5, <1>6, <1>7
  DEF Next, UseCaseStep, SendLog, GetLogs, External

-----------------------------------------------------------------------------
(* The messages.                                                           *)

LEMMA AppendAt ==
  ASSUME NEW S, NEW s \in Seq(S), NEW e \in S
  PROVE  \A i \in DOMAIN Append(s, e) :
            \/ i \in DOMAIN s /\ Append(s, e)[i] = s[i]
            \/ i = Len(s) + 1 /\ Append(s, e)[i] = e
<1>1. /\ DOMAIN Append(s, e) = 1 .. Len(s) + 1
      /\ DOMAIN s = 1 .. Len(s)
      /\ Len(s) \in Nat
      /\ \A i \in 1 .. Len(s) : Append(s, e)[i] = s[i]
      /\ Append(s, e)[Len(s) + 1] = e
  BY AppendProperties
<1>2. TAKE i \in DOMAIN Append(s, e)
<1>3. i \in 1 .. Len(s) \/ i = Len(s) + 1
  BY <1>1
<1> QED
  BY <1>1, <1>3

LEMMA TailAt ==
  ASSUME NEW S, NEW s \in Seq(S), s # <<>>
  PROVE  /\ \A i \in DOMAIN Tail(s) :
               i \in Nat \ {0} /\ i + 1 \in DOMAIN s /\ Tail(s)[i] = s[i + 1]
         /\ 1 \in DOMAIN s /\ Head(s) = s[1] /\ Head(s) \in S
<1>1. /\ DOMAIN Tail(s) = 1 .. Len(s) - 1
      /\ DOMAIN s = 1 .. Len(s)
      /\ Len(s) \in Nat \ {0}
      /\ \A i \in 1 .. Len(s) - 1 : Tail(s)[i] = s[i + 1]
      /\ Head(s) = s[1]
  BY EmptySeq, HeadTailProperties
<1>2. 1 \in DOMAIN s /\ Head(s) \in S
  BY <1>1
<1> QED
  BY <1>1, <1>2

(* A call comes to be carried by its own Publish and by nothing else.      *)
LEMMA CarriedStep ==
  ASSUME TypeOK, [Next]_vars, NEW d \in Calls, Carried(d)'
  PROVE  Carried(d) \/ Publish(d)
<1> USE DEF TypeOK, Carried
<1>1. CASE buf' = buf /\ bus' = bus
  BY <1>1
<1>2. ASSUME NEW c \in Calls, Publish(c) PROVE Carried(d) \/ Publish(d)
  <2>1. bus' = bus
    BY <1>2 DEF Publish
  <2>2. CASE buf' = Append(buf, c)
    <3>1. \A i \in DOMAIN buf' :
             \/ i \in DOMAIN buf /\ buf'[i] = buf[i]
             \/ i = Len(buf) + 1 /\ buf'[i] = c
      BY <2>2, AppendAt
    <3> QED
      BY <1>2, <2>1, <3>1
  <2> QED
    BY <1>1, <1>2, <2>1, <2>2 DEF Publish
<1>3. CASE NatsFlush
  <2>1. /\ buf # <<>>
        /\ bus' = Append(bus, Head(buf)) /\ buf' = Tail(buf)
    BY <1>3 DEF NatsFlush
  <2>2. 1 \in DOMAIN buf /\ Head(buf) = buf[1] /\ Head(buf) \in Calls
    BY <2>1, TailAt
  <2>3. \A i \in DOMAIN bus' :
           \/ i \in DOMAIN bus /\ bus'[i] = bus[i]
           \/ i = Len(bus) + 1 /\ bus'[i] = buf[1]
    <3> HIDE DEF TypeOK
    <3>1. bus \in Seq(Calls) /\ Head(buf) \in Calls
      BY <2>2 DEF TypeOK
    <3>2. \A i \in DOMAIN Append(bus, Head(buf)) :
             \/ i \in DOMAIN bus /\ Append(bus, Head(buf))[i] = bus[i]
             \/ i = Len(bus) + 1 /\ Append(bus, Head(buf))[i] = Head(buf)
      BY <3>1, AppendAt
    <3> QED
      BY <2>1, <2>2, <3>2
  <2>4. \A i \in DOMAIN buf' : i + 1 \in DOMAIN buf /\ buf'[i] = buf[i + 1]
    BY <2>1, TailAt
  <2> QED
    BY <2>2, <2>3, <2>4
<1>4. CASE NatsDrop
  <2>1. buf # <<>> /\ bus' = bus /\ buf' = Tail(buf)
    BY <1>4 DEF NatsDrop
  <2>2. \A i \in DOMAIN buf' : i + 1 \in DOMAIN buf /\ buf'[i] = buf[i + 1]
    BY <2>1, TailAt
  <2> QED
    BY <2>1, <2>2
<1>5. CASE Exit
  BY <1>5 DEF Exit, Kill
<1>6. ASSUME NEW c \in Calls,
             \/ Begin(c) \/ SendInsert(c) \/ InsertNotSent(c) \/ InsertOk(c)
             \/ InsertFails(c) \/ IndexLog(c) \/ IndexReturns(c) \/ Query(c)
             \/ QueryFails(c) \/ Panic(c) \/ DbApply(c) \/ DbReject(c) \/ EsIngest(c)
      PROVE  buf' = buf /\ bus' = bus
  BY <1>6 DEF Begin, SendInsert, InsertNotSent, InsertOk, InsertFails, IndexLog,
     IndexReturns, Query, QueryFails, Panic, DbApply, DbReject, EsIngest, natsVars
<1>7. ASSUME NEW c \in Calls, NEW how \in CtxEndings, CtxEnds(c, how)
      PROVE  buf' = buf /\ bus' = bus
  BY <1>7 DEF CtxEnds, natsVars
<1>8. CASE AtRest \/ UNCHANGED vars
  BY <1>1, <1>8 DEF AtRest, vars
<1> QED
  BY <1>1, <1>2, <1>3, <1>4, <1>5, <1>6, <1>7, <1>8
  DEF Next, UseCaseStep, SendLog, GetLogs, External

LEMMA HeardStep == TypeOK /\ StepInv /\ HeardInv /\ [Next]_vars => HeardInv'
<1> SUFFICES ASSUME TypeOK, StepInv, HeardInv, [Next]_vars, NEW d \in Calls
             PROVE  HeardOf(d)'
  BY DEF HeardInv
<1>0. /\ StepOf(d) /\ HeardOf(d)
      /\ Carried(d)' => Carried(d) \/ Publish(d)
  BY CarriedStep DEF StepInv, HeardInv
<1> DEFINE Sent == Carried(d) \/ esSent[d] > 0
<1>1. Sent' => \/ Sent
               \/ pc[d] \in {"publish", "index"} /\ pc'[d] = "index" /\ res' = res
  <2>1. CASE Publish(d)
    BY <2>1 DEF Publish, Goto, TypeOK
  <2>2. ASSUME NEW c \in Calls, IndexLog(c), esSent'[d] > 0, ~ Sent
        PROVE  pc[d] = "index" /\ pc'[d] = "index" /\ res' = res
    BY <2>2 DEF IndexLog, TypeOK, callVars
  <2>3. ASSUME NEW c \in Calls,
               \/ Begin(c) \/ SendInsert(c) \/ InsertNotSent(c) \/ InsertOk(c)
               \/ InsertFails(c) \/ Publish(c) \/ IndexReturns(c) \/ Query(c)
               \/ QueryFails(c) \/ Panic(c) \/ DbApply(c) \/ DbReject(c) \/ EsIngest(c)
        PROVE  esSent' = esSent
    BY <2>3 DEF Begin, SendInsert, InsertNotSent, InsertOk, InsertFails, Publish,
       IndexReturns, Query, QueryFails, Panic, DbApply, DbReject, EsIngest, esVars
  <2>4. ASSUME NEW c \in Calls, NEW how \in CtxEndings, CtxEnds(c, how)
        PROVE  esSent' = esSent
    BY <2>4 DEF CtxEnds, esVars
  <2>5. CASE NatsFlush \/ NatsDrop \/ Exit \/ AtRest \/ UNCHANGED vars
    BY <1>0, <2>1, <2>5 DEF NatsFlush, NatsDrop, Exit, Kill, AtRest, vars, esVars
  <2> QED
    BY <1>0, <2>1, <2>2, <2>3, <2>4, <2>5
    DEF Next, UseCaseStep, SendLog, GetLogs, External
<1> DEFINE Kept ==
      /\ stmt[d] = "applied" => stmt'[d] = "applied"
      /\ pc[d] \in {"index", "ret", "killed"} => pc'[d] \in {"index", "ret", "killed"}
      /\ pc[d] \in {"index", "ret", "killed"} /\ res[d] # "repoErr" => res'[d] # "repoErr"
      /\ docs'[d] <= esSent'[d]
<1>2. Kept
  <2> USE <1>0 DEF TypeOK, HeardOf, Running, Goto, Return, callVars, dbVars, natsVars, esVars
  <2>1. ASSUME NEW c \in Calls, Begin(c) \/ SendInsert(c) \/ InsertNotSent(c) PROVE Kept
    <3>1. CASE Begin(c)
      BY <3>1 DEF Begin
    <3>2. CASE SendInsert(c)
      BY <3>2 DEF SendInsert, StepOf
    <3>3. CASE InsertNotSent(c)
      BY <3>3 DEF InsertNotSent
    <3> QED
      BY <2>1, <3>1, <3>2, <3>3
  <2>2. ASSUME NEW c \in Calls, InsertOk(c) \/ InsertFails(c) \/ Publish(c) PROVE Kept
    BY <2>2 DEF InsertOk, InsertFails, Publish
  <2>3. ASSUME NEW c \in Calls, IndexReturns(c) \/ Query(c) \/ QueryFails(c) \/ Panic(c)
        PROVE  Kept
    BY <2>3 DEF IndexReturns, Query, QueryFails, Panic
  <2>4. ASSUME NEW c \in Calls, IndexLog(c) PROVE Kept
    BY <2>4, BoundAssumption DEF IndexLog
  <2>5. ASSUME NEW c \in Calls, EsIngest(c) PROVE Kept
    BY <2>5, BoundAssumption DEF EsIngest
  <2>6. ASSUME NEW c \in Calls, DbApply(c) \/ DbReject(c) PROVE Kept
    BY <2>6 DEF DbApply, DbReject
  <2>7. ASSUME NEW c \in Calls, NEW how \in CtxEndings, CtxEnds(c, how) PROVE Kept
    BY <2>7 DEF CtxEnds
  <2>8. CASE NatsFlush \/ NatsDrop \/ Exit \/ AtRest \/ UNCHANGED vars
    BY <2>8 DEF NatsFlush, NatsDrop, Exit, Kill, AtRest, vars
  <2> QED
    BY <2>1, <2>2, <2>3, <2>4, <2>5, <2>6, <2>7, <2>8
    DEF Next, UseCaseStep, SendLog, GetLogs, External
<1>3. CASE Sent
  BY <1>0, <1>2, <1>3 DEF HeardOf
<1>4. CASE pc[d] \in {"publish", "index"} /\ pc'[d] = "index" /\ res' = res
  BY <1>0, <1>2, <1>4 DEF HeardOf, StepOf
<1>5. CASE ~ Sent'
  BY <1>2, <1>5 DEF HeardOf
<1> QED
  BY <1>1, <1>3, <1>4, <1>5

LEMMA OnceStep == TypeOK /\ HeardInv /\ OnceInv /\ [Next]_vars => OnceInv'
<1> SUFFICES ASSUME TypeOK, HeardInv, OnceInv, [Next]_vars PROVE OnceInv'
  OBVIOUS
<1> USE DEF TypeOK, OnceInv
<1>1. CASE buf' = buf /\ bus' = bus
  BY <1>1
<1>2. ASSUME NEW c \in Calls, Publish(c) PROVE OnceInv'
  <2>1. ~ Carried(c) /\ bus' = bus
    BY <1>2 DEF HeardInv, HeardOf, Publish
  <2>2. CASE buf' = Append(buf, c)
    <3>1. \A i \in DOMAIN buf' :
             \/ i \in DOMAIN buf /\ buf'[i] = buf[i]
             \/ i = Len(buf) + 1 /\ buf'[i] = c
      BY <2>2, AppendAt
    <3>2. \A i \in DOMAIN bus : bus[i] # c
      BY <2>1 DEF Carried
    <3>3. \A i \in DOMAIN buf : buf[i] # c
      BY <2>1 DEF Carried
    <3>4. \A i, j \in DOMAIN buf' : buf'[i] = buf'[j] => i = j
      BY <3>1, <3>3
    <3>5. \A i \in DOMAIN bus, j \in DOMAIN buf' : bus[i] # buf'[j]
      BY <3>1, <3>2
    <3> QED
      BY <2>1, <3>4, <3>5
  <2> QED
    BY <1>1, <1>2, <2>1, <2>2 DEF Publish
<1>3. CASE NatsFlush
  <2>1. buf # <<>> /\ bus' = Append(bus, Head(buf)) /\ buf' = Tail(buf)
    BY <1>3 DEF NatsFlush
  <2>2. 1 \in DOMAIN buf /\ Head(buf) = buf[1] /\ Head(buf) \in Calls
    BY <2>1, TailAt
  <2>3. \A i \in DOMAIN bus' :
           \/ i \in DOMAIN bus /\ bus'[i] = bus[i]
           \/ i = Len(bus) + 1 /\ bus'[i] = buf[1]
    <3> HIDE DEF TypeOK
    <3>1. bus \in Seq(Calls) /\ Head(buf) \in Calls
      BY <2>2 DEF TypeOK
    <3>2. \A i \in DOMAIN Append(bus, Head(buf)) :
             \/ i \in DOMAIN bus /\ Append(bus, Head(buf))[i] = bus[i]
             \/ i = Len(bus) + 1 /\ Append(bus, Head(buf))[i] = Head(buf)
      BY <3>1, AppendAt
    <3> QED
      BY <2>1, <2>2, <3>2
  <2>4. \A i \in DOMAIN buf' :
           i \in Nat \ {0} /\ i + 1 \in DOMAIN buf /\ buf'[i] = buf[i + 1]
    BY <2>1, TailAt
  <2>5. \A i, j \in DOMAIN bus' : bus'[i] = bus'[j] => i = j
    <3>1. \A i \in DOMAIN bus : bus[i] # buf[1]
      BY <2>2
    <3> QED
      BY <2>3, <3>1
  <2>6. \A i, j \in DOMAIN buf' : buf'[i] = buf'[j] => i = j
    <3> SUFFICES ASSUME NEW i \in DOMAIN buf', NEW j \in DOMAIN buf', buf'[i] = buf'[j]
                 PROVE  i = j
      OBVIOUS
    <3>1. i + 1 = j + 1
      BY <2>4
    <3> QED
      BY <2>4, <3>1
  <2>7. \A i \in DOMAIN bus', j \in DOMAIN buf' : bus'[i] # buf'[j]
    <3> SUFFICES ASSUME NEW i \in DOMAIN bus', NEW j \in DOMAIN buf', bus'[i] = buf'[j]
                 PROVE  FALSE
      OBVIOUS
    <3>1. j \in Nat \ {0} /\ j + 1 \in DOMAIN buf /\ buf'[j] = buf[j + 1]
      BY <2>4
    <3>2. CASE i \in DOMAIN bus /\ bus'[i] = bus[i]
      BY <3>1, <3>2
    <3>3. CASE bus'[i] = buf[1]
      <4>1. j + 1 = 1
        BY <2>2, <3>1, <3>3
      <4> QED
        BY <3>1, <4>1
    <3> QED
      BY <2>3, <3>2, <3>3
  <2> QED
    BY <2>5, <2>6, <2>7
<1>4. CASE NatsDrop
  <2>1. buf # <<>> /\ bus' = bus /\ buf' = Tail(buf)
    BY <1>4 DEF NatsDrop
  <2>2. \A i \in DOMAIN buf' :
           i \in Nat \ {0} /\ i + 1 \in DOMAIN buf /\ buf'[i] = buf[i + 1]
    BY <2>1, TailAt
  <2>3. \A i, j \in DOMAIN buf' : buf'[i] = buf'[j] => i = j
    <3> SUFFICES ASSUME NEW i \in DOMAIN buf', NEW j \in DOMAIN buf', buf'[i] = buf'[j]
                 PROVE  i = j
      OBVIOUS
    <3>1. i + 1 = j + 1
      BY <2>2
    <3> QED
      BY <2>2, <3>1
  <2> QED
    BY <2>1, <2>2, <2>3
<1>5. CASE Exit
  BY <1>5 DEF Exit, Kill
<1>6. ASSUME NEW c \in Calls,
             \/ Begin(c) \/ SendInsert(c) \/ InsertNotSent(c) \/ InsertOk(c)
             \/ InsertFails(c) \/ IndexLog(c) \/ IndexReturns(c) \/ Query(c)
             \/ QueryFails(c) \/ Panic(c) \/ DbApply(c) \/ DbReject(c) \/ EsIngest(c)
      PROVE  buf' = buf /\ bus' = bus
  BY <1>6 DEF Begin, SendInsert, InsertNotSent, InsertOk, InsertFails, IndexLog,
     IndexReturns, Query, QueryFails, Panic, DbApply, DbReject, EsIngest, natsVars
<1>7. ASSUME NEW c \in Calls, NEW how \in CtxEndings, CtxEnds(c, how)
      PROVE  buf' = buf /\ bus' = bus
  BY <1>7 DEF CtxEnds, natsVars
<1>8. CASE AtRest \/ UNCHANGED vars
  BY <1>1, <1>8 DEF AtRest, vars
<1> QED
  BY <1>1, <1>2, <1>3, <1>4, <1>5, <1>6, <1>7, <1>8
  DEF Next, UseCaseStep, SendLog, GetLogs, External

LEMMA IInvStep == IInv /\ [Next]_vars => IInv'
  BY TypeStep, KindStep, RowStep, StepStep, ResultStep, HeardStep, OnceStep DEF IInv

-----------------------------------------------------------------------------
(* What holds in every reachable state.                                    *)

(* The inductive invariant holds of the specification.                     *)
THEOREM Invariance == Spec => []IInv
<1>1. Init => IInv
  BY InitIInv
<1>2. IInv /\ [Next]_vars => IInv'
  BY IInvStep
<1> QED
  BY <1>1, <1>2, PTL DEF Spec

(* Every variable keeps its type, whatever the calls, requests and bounds: *)
(* in particular the index client never sends more than Attempts requests  *)
(* for an entry, and a page never holds a row the table does not.          *)
THEOREM TypeCorrect == Spec => []TypeOK
<1>1. IInv => TypeOK
  BY DEF IInv
<1> QED
  BY <1>1, Invariance, PTL

(* SendLog returns nil only for an entry the logs table holds under its own *)
(* id, written by that very call.                                          *)
THEOREM AckStored == Spec => []AckIsStored
<1>1. IInv => AckIsStored
  BY DEF IInv, StepInv, StepOf, RowInv, AckIsStored
<1> QED
  BY <1>1, Invariance, PTL

(* NATS (its client's buffer included) and the index hear of stored entries *)
(* only.                                                                   *)
THEOREM HeardStored == Spec => []HeardIsStored
<1>1. IInv => HeardIsStored
  BY DEF IInv, HeardInv, HeardOf, RowInv, HeardIsStored
<1> QED
  BY <1>1, Invariance, PTL

(* A call that returned ErrRepositoryFailure is never published or indexed. *)
THEOREM FailedSilent == Spec => []FailedIsSilent
<1>1. IInv => FailedIsSilent
  <2> SUFFICES ASSUME IInv, NEW c \in Calls, res[c] = "repoErr"
               PROVE  ~ Carried(c) /\ esSent[c] = 0
    BY DEF FailedIsSilent
  <2>1. ~ Carried(c) /\ ~ (esSent[c] > 0)
    BY DEF IInv, HeardInv, HeardOf
  <2>2. esSent[c] \in 0 .. Attempts
    BY DEF IInv, TypeOK
  <2> QED
    BY <2>1, <2>2, BoundAssumption
<1> QED
  BY <1>1, Invariance, PTL

(* Calls that are carried and share a key are one call: the primary key of *)
(* the logs table is what deduplicates the announcements.                  *)
LEMMA OneCarrierPerKey ==
  ASSUME IInv, NEW c \in Calls, NEW d \in Calls, Carried(c), Carried(d),
         LogID(c) = LogID(d)
  PROVE  c = d
<1>1. Row(c) \in rows /\ Row(d) \in rows
  BY DEF IInv, HeardInv, HeardOf, RowInv
<1>2. Row(c) = Row(d)
  BY <1>1 DEF IInv, KeyInv, Row
<1> QED
  BY <1>2 DEF Row

(* No key is published twice on logs.send, however many calls carry it, in *)
(* whatever spelling, and however their replies and retries interleave.    *)
THEOREM OncePublished == Spec => []PublishedOnce
<1>1. ASSUME IInv PROVE PublishedOnce
  <2> DEFINE out == bus \o buf
  <2>1. /\ buf \in Seq(Calls) /\ bus \in Seq(Calls)
    BY <1>1 DEF IInv, TypeOK
  <2>2. /\ DOMAIN bus = 1 .. Len(bus) /\ DOMAIN buf = 1 .. Len(buf)
        /\ Len(bus) \in Nat /\ Len(buf) \in Nat
        /\ DOMAIN out = 1 .. Len(bus) + Len(buf)
    BY <2>1, ConcatProperties
  <2>3. \A i \in DOMAIN out :
           \/ i \in DOMAIN bus /\ out[i] = bus[i]
           \/ i - Len(bus) \in DOMAIN buf /\ out[i] = buf[i - Len(bus)]
    <3>1. TAKE i \in DOMAIN out
    <3>2. out[i] = IF i <= Len(bus) THEN bus[i] ELSE buf[i - Len(bus)]
      BY <2>1, <2>2, ConcatProperties
    <3> HIDE DEF out
    <3> QED
      BY <2>2, <3>2
  <2> HIDE DEF out
  <2>4. SUFFICES ASSUME NEW i \in DOMAIN out, NEW j \in DOMAIN out,
                        LogID(out[i]) = LogID(out[j])
                 PROVE  i = j
    BY DEF PublishedOnce, out
  <2>5. /\ out[i] \in Calls /\ Carried(out[i])
        /\ out[j] \in Calls /\ Carried(out[j])
    <3>1. /\ \A k \in DOMAIN bus : bus[k] \in Calls
          /\ \A k \in DOMAIN buf : buf[k] \in Calls
      BY <2>1
    <3> QED
      BY <2>3, <3>1 DEF Carried
  <2>6. out[i] = out[j]
    BY <1>1, <2>4, <2>5, OneCarrierPerKey
  <2>7. OnceInv
    BY <1>1 DEF IInv
  <2>8. i \in Nat /\ j \in Nat
    BY <2>2
  <2>9. CASE i \in DOMAIN bus /\ out[i] = bus[i]
    BY <2>3, <2>6, <2>7, <2>9 DEF OnceInv
  <2>10. CASE i - Len(bus) \in DOMAIN buf /\ out[i] = buf[i - Len(bus)]
    <3>1. i - Len(bus) = j - Len(bus)
      BY <2>3, <2>6, <2>7, <2>10 DEF OnceInv
    <3> QED
      BY <2>2, <2>8, <3>1
  <2> QED
    BY <2>3, <2>9, <2>10
<1> QED
  BY <1>1, Invariance, PTL

-----------------------------------------------------------------------------
(* What the servers above the use case need of its invariant.              *)

(* A call that was cancelled stays cancelled.                              *)
LEMMA CancelledKept ==
  ASSUME TypeOK, [Next]_vars, NEW d \in Calls, ctx[d] = "cancelled"
  PROVE  ctx'[d] = "cancelled"
<1> USE DEF TypeOK, callVars
<1>1. ASSUME NEW c \in Calls, Begin(c) \/ UseCaseStep(c) PROVE ctx' = ctx
  BY <1>1 DEF Begin, UseCaseStep, SendLog, GetLogs, SendInsert, InsertNotSent,
     InsertOk, InsertFails, Publish, IndexLog, IndexReturns, Query, QueryFails, Panic
<1>2. ASSUME NEW c \in Calls, NEW how \in CtxEndings, CtxEnds(c, how)
      PROVE  ctx'[d] = ctx[d]
  BY <1>2 DEF CtxEnds
<1>3. CASE External \/ Exit \/ AtRest \/ UNCHANGED vars
  BY <1>3 DEF External, DbApply, DbReject, EsIngest, NatsFlush, NatsDrop, Exit, Kill,
     AtRest, vars
<1> QED
  BY <1>1, <1>2, <1>3 DEF Next

(* Only Begin takes a call out of "idle".                                  *)
LEMMA IdleThrough ==
  ASSUME TypeOK, NEW d \in Calls, pc[d] = "idle",
         \/ \E c \in Calls : UseCaseStep(c)
         \/ \E c \in Calls, how \in CtxEndings : CtxEnds(c, how)
         \/ External \/ Kill \/ UNCHANGED vars
  PROVE  pc'[d] = "idle"
<1>0. pc \in [Calls -> {"idle"} \cup Running \cup Ended]
  BY DEF TypeOK
<1>1. ASSUME NEW c \in Calls, UseCaseStep(c) PROVE pc'[d] = "idle"
  BY <1>0, <1>1 DEF UseCaseStep, SendLog, GetLogs, SendInsert, InsertNotSent,
     InsertOk, InsertFails, Publish, IndexLog, IndexReturns, Query, QueryFails, Panic,
     Goto, Return, Running, callVars
<1>2. ASSUME NEW c \in Calls, NEW how \in CtxEndings, CtxEnds(c, how) PROVE pc' = pc
  BY <1>2 DEF CtxEnds
<1>3. CASE External
  BY <1>3 DEF External, DbApply, DbReject, EsIngest, NatsFlush, NatsDrop, callVars
<1>4. CASE Kill
  BY <1>0, <1>4 DEF Kill, Running
<1>5. CASE UNCHANGED vars
  BY <1>5 DEF vars
<1> QED
  BY <1>1, <1>2, <1>3, <1>4, <1>5

(* A call without an applied INSERT is one nobody hears of.                *)
LEMMA UnappliedIsSilent ==
  ASSUME IInv, NEW c \in Calls, stmt[c] # "applied"
  PROVE  ~ Carried(c) /\ esSent[c] = 0 /\ StoredRows(c) = {}
<1>1. ~ Carried(c) /\ esSent[c] = 0
  BY BoundAssumption DEF IInv, HeardInv, HeardOf, TypeOK
<1>2. ASSUME NEW r \in rows, r.by = c PROVE FALSE
  <2>1. PICK d \in Calls : r = Row(d)
    BY DEF IInv, TypeOK, PossibleRows
  <2>2. d = c
    BY <1>2, <2>1 DEF Row
  <2> QED
    BY <2>1, <2>2 DEF IInv, RowInv
<1> QED
  BY <1>1, <1>2 DEF StoredRows

(* So is one that came back with an error.                                 *)
LEMMA FailedCallIsSilent ==
  ASSUME IInv, NEW c \in Calls, res[c] \in {"noLogs", "repoErr"}
  PROVE  ~ Carried(c) /\ esSent[c] = 0
<1>1. CASE res[c] = "noLogs"
  <2>1. stmt[c] # "applied"
    BY <1>1 DEF IInv, ResultInv, ResultOf, KindInv, KindOf, IsGet, IsSend
  <2> QED
    BY <2>1, UnappliedIsSilent
<1>2. CASE res[c] = "repoErr"
  BY <1>2, BoundAssumption DEF IInv, HeardInv, HeardOf, TypeOK
<1> QED
  BY <1>1, <1>2
-----------------------------------------------------------------------------
(* What GetLogs may not miss, for every number of rows: a page with room    *)
(* for the whole table is everything that matches, since a subset with as  *)
(* many elements as a finite set is that set.                              *)

FiniteRows == IsFiniteSet(rows)

LEMMA RowsGrow ==
  ASSUME [Next]_vars
  PROVE  rows' = rows \/ \E c \in Calls : rows' = rows \cup {Row(c)}
<1> USE DEF vars, dbVars
<1>1. ASSUME NEW c \in Calls, Begin(c) \/ UseCaseStep(c) PROVE rows' = rows
  BY <1>1 DEF Begin, UseCaseStep, SendLog, GetLogs, SendInsert, InsertNotSent,
     InsertOk, InsertFails, Publish, IndexLog, IndexReturns, Query, QueryFails, Panic
<1>2. ASSUME NEW c \in Calls, NEW how \in CtxEndings, CtxEnds(c, how) PROVE rows' = rows
  BY <1>2 DEF CtxEnds
<1>3. ASSUME NEW c \in Calls, DbApply(c) PROVE rows' = rows \cup {Row(c)}
  BY <1>3 DEF DbApply
<1>4. ASSUME NEW c \in Calls, DbReject(c) \/ EsIngest(c) PROVE rows' = rows
  BY <1>4 DEF DbReject, EsIngest
<1>5. CASE NatsFlush \/ NatsDrop \/ Exit \/ AtRest
  BY <1>5 DEF NatsFlush, NatsDrop, Exit, Kill, AtRest
<1> QED
  BY <1>1, <1>2, <1>3, <1>4, <1>5 DEF Next, External

LEMMA FiniteStep == FiniteRows /\ [Next]_vars => FiniteRows'
<1> SUFFICES ASSUME FiniteRows, [Next]_vars PROVE IsFiniteSet(rows')
  BY DEF FiniteRows
<1>1. \A c \in Calls : IsFiniteSet(rows \cup {Row(c)})
  BY FS_AddElement DEF FiniteRows
<1> QED
  BY <1>1, RowsGrow DEF FiniteRows

(* A page with room for every match and no offset holds every match.       *)
LEMMA WholePage ==
  ASSUME FiniteRows, NEW q \in Requests, q.op = "get",
         q.offset = 0, Cardinality(Matching(q)) <= q.limit, NEW P \in Pages(q)
  PROVE  P = Matching(q)
<1>1. Matching(q) \in SUBSET rows
  BY DEF Matching
<1>2. IsFiniteSet(Matching(q))
  BY <1>1, FS_Subset DEF FiniteRows
<1>3. Cardinality(Matching(q)) \in Nat
  BY <1>2, FS_CardinalityType DEF FiniteRows
<1>4. PageSize(Cardinality(Matching(q)), q.limit, q.offset) = Cardinality(Matching(q))
  BY <1>3, RequestAssumption DEF PageSize
<1>5. P \in SUBSET Matching(q) /\ Cardinality(P) = Cardinality(Matching(q))
  BY <1>4 DEF Pages
<1> QED
  BY <1>2, <1>5, FS_Subset

(* Only its own query gives a GetLogs call a result of this kind.          *)
LEMMA AnsweredByQuery ==
  ASSUME IInv, [Next]_vars, NEW c \in Calls, IsGet(c), res[c] = "none",
         res'[c] \in {"ok", "noLogs"}
  PROVE  Query(c)
<1>0. TypeOK /\ KindOf(c)
  BY DEF IInv, KindInv
<1> USE <1>0 DEF TypeOK, Goto, Return, callVars
<1>1. ASSUME NEW d \in Calls, Query(d) PROVE c = d
  BY <1>1 DEF Query
<1>2. ASSUME NEW d \in Calls, IndexReturns(d) PROVE FALSE
  BY <1>2 DEF IndexReturns, KindOf, IsGet, IsSend
<1>3. ASSUME NEW d \in Calls,
             \/ Begin(d) \/ SendInsert(d) \/ InsertOk(d) \/ Publish(d) \/ IndexLog(d)
             \/ InsertNotSent(d) \/ InsertFails(d) \/ QueryFails(d) \/ Panic(d)
      PROVE  FALSE
  BY <1>3 DEF Begin, SendInsert, InsertOk, Publish, IndexLog, InsertNotSent,
     InsertFails, QueryFails, Panic
<1>4. ASSUME NEW d \in Calls, NEW how \in CtxEndings, CtxEnds(d, how) PROVE FALSE
  BY <1>4 DEF CtxEnds
<1>5. CASE External \/ Exit \/ AtRest \/ UNCHANGED vars
  BY <1>5 DEF External, DbApply, DbReject, EsIngest, NatsFlush, NatsDrop, Exit, Kill,
     AtRest, vars
<1> QED
  BY <1>1, <1>2, <1>3, <1>4, <1>5 DEF Next, UseCaseStep, SendLog, GetLogs

(* GetLogs misses no acknowledged entry that matches, however large the    *)
(* table and however many writers, as long as the page has room for it.    *)
THEOREM ReadsAll == Spec => ReadsAcknowledged
<1>1. Init => FiniteRows
  BY FS_EmptySet DEF Init, FiniteRows
<1>2. IInv /\ FiniteRows /\ [Next]_vars =>
        [\A c, d \in Calls :
           /\ IsGet(c) /\ res[c] = "none" /\ res'[c] \in {"ok", "noLogs"}
           /\ req[c].offset = 0 /\ Cardinality(Matching(req[c])) <= req[c].limit
           /\ IsSend(d) /\ res[d] = "ok" /\ req[d].service = req[c].service
           /\ req[c].level \in {NoText, req[d].level}
           => Row(d) \in page'[c]]_vars
  <2> SUFFICES ASSUME IInv, FiniteRows, [Next]_vars, NEW c \in Calls, NEW d \in Calls,
                      IsGet(c), res[c] = "none", res'[c] \in {"ok", "noLogs"},
                      req[c].offset = 0, Cardinality(Matching(req[c])) <= req[c].limit,
                      IsSend(d), res[d] = "ok", req[d].service = req[c].service,
                      req[c].level \in {NoText, req[d].level}
               PROVE  Row(d) \in page'[c]
    OBVIOUS
  <2>1. PICK P \in Pages(req[c]) : page' = [page EXCEPT ![c] = P]
    BY AnsweredByQuery DEF Query
  <2>2. req[c] \in Requests /\ page'[c] = P
    BY <2>1 DEF IInv, TypeOK
  <2>3. P = Matching(req[c])
    BY <2>2, WholePage DEF IsGet
  <2>4. Row(d) \in rows
    BY DEF IInv, StepInv, StepOf, RowInv
  <2>5. Row(d).service = req[d].service /\ Row(d).level = req[d].level
    BY DEF Row
  <2>6. Row(d) \in Matching(req[c])
    BY <2>4, <2>5 DEF Matching
  <2> QED
    BY <2>2, <2>3, <2>6
<1> QED
  BY <1>1, <1>2, FiniteStep, Invariance, PTL DEF Spec, ReadsAcknowledged

(* There are as many matching rows as acknowledged entries, or more: each  *)
(* call has a row of its own.                                              *)
LEMMA RowPerAcknowledged ==
  ASSUME IInv, FiniteRows, NEW q
  PROVE  /\ IsFiniteSet(Matching(q))
         /\ Cardinality(Acknowledged(q)) \in Nat
         /\ Cardinality(Acknowledged(q)) <= Cardinality(Matching(q))
<1> DEFINE A == Acknowledged(q)
           f == [d \in A |-> Row(d)]
<1>1. IsFiniteSet(Matching(q))
  BY FS_Subset DEF Matching, FiniteRows
<1>2. ASSUME NEW d \in A PROVE Row(d) \in Matching(q)
  <2>1. Row(d) \in rows /\ Row(d).service = req[d].service /\ Row(d).level = req[d].level
    BY DEF Acknowledged, IInv, StepInv, StepOf, RowInv, Row
  <2> QED
    BY <2>1 DEF Acknowledged, Matching
<1>3. ASSUME NEW d \in A, NEW e \in A, Row(d) = Row(e) PROVE d = e
  BY <1>3 DEF Row
<1>4. f \in Injection(A, Matching(q))
  BY <1>2, <1>3 DEF Injection, IsInjective
<1>5. IsFiniteSet(A) /\ Cardinality(A) <= Cardinality(Matching(q))
  <2> HIDE DEF f, A
  <2> QED
    BY <1>1, <1>4, FS_Injection
<1> QED
  BY <1>1, <1>5, FS_CardinalityType

(* A short page ends its listing, for any number of writers and readers,   *)
(* any table and any limit and offset.                                     *)
THEOREM PagesFull == Spec => PagesAreFull
<1>1. Init => FiniteRows
  BY FS_EmptySet DEF Init, FiniteRows
<1>2. IInv /\ FiniteRows /\ [Next]_vars =>
        [\A c \in Calls :
           IsGet(c) /\ res[c] = "none" /\ res'[c] \in {"ok", "noLogs"} =>
             LET size == Cardinality(page'[c])
             IN  \/ size = req[c].limit
                 \/ req[c].offset + size >= Cardinality(Acknowledged(req[c]))]_vars
  <2> SUFFICES ASSUME IInv, FiniteRows, [Next]_vars, NEW c \in Calls,
                      IsGet(c), res[c] = "none", res'[c] \in {"ok", "noLogs"}
               PROVE  \/ Cardinality(page'[c]) = req[c].limit
                      \/ req[c].offset + Cardinality(page'[c])
                           >= Cardinality(Acknowledged(req[c]))
    OBVIOUS
  <2> DEFINE q == req[c]
             n == Cardinality(Matching(q))
             a == Cardinality(Acknowledged(q))
             size == PageSize(n, q.limit, q.offset)
  <2>1. PICK P \in Pages(q) : page' = [page EXCEPT ![c] = P]
    BY AnsweredByQuery DEF Query
  <2>2. page'[c] = P /\ Cardinality(P) = size
    BY <2>1 DEF IInv, TypeOK, Pages
  <2>3. n \in Nat /\ a \in Nat /\ a <= n
    BY RowPerAcknowledged, FS_CardinalityType
  <2>4. q.limit \in Int /\ q.offset \in Int
    BY RequestAssumption DEF IInv, TypeOK, IsGet
  <2> HIDE DEF n, a, q
  <2>5. size = q.limit \/ q.offset + size >= a
    BY <2>3, <2>4 DEF PageSize
  <2> QED
    BY <2>2, <2>5 DEF n, a, q
<1> QED
  BY <1>1, <1>2, FiniteStep, Invariance, PTL DEF Spec, PagesAreFull
=============================================================================
