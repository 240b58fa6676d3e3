-------------------------- MODULE Lifecycle_proofs --------------------------
(***************************************************************************)
(* Theorems of Lifecycle for every set of requests and every number of     *)
(* signals.                                                                *)
(***************************************************************************)
EXTENDS Lifecycle, TLAPS

(* Requests are in flight only with a server that has been listening.      *)
ServedInv ==
  /\ main = "boot" => grpc = "off" /\ rest = "off"
  /\ \A r \in Reqs : reqs[r] = "active" =>
       /\ r \in GrpcReqs => grpc = "serving"
       /\ r \in RestReqs => rest \in {"serving", "closed"}

ClosedInv == waiter \in {"shutdown", "done"} => rest # "serving"

LInv == LTypeOK /\ SignalReachesRun /\ ServedInv /\ ClosedInv /\ CutHasCause

LEMMA InitLInv == LInit => LInv
<1> SUFFICES ASSUME LInit PROVE LInv
  OBVIOUS
<1>1. LTypeOK
  <2>1. told \in BOOLEAN
    BY Zenon DEF LInit
  <2>2. signals \in 0 .. MaxSignals /\ reqs \in [Reqs -> {"new", "active", "answered", "cut"}]
    BY LifecycleAssumption DEF LInit
  <2> QED
    BY <2>1, <2>2 DEF LInit, LTypeOK
<1>2. SignalReachesRun /\ ServedInv /\ ClosedInv /\ CutHasCause
  BY DEF LInit, SignalReachesRun, ServedInv, ClosedInv, CutHasCause
<1> QED
  BY <1>1, <1>2 DEF LInv

(* An ending leaves the goroutines where they are and cuts what is active. *)
LEMMA EndKeeps ==
  ASSUME LInv, NEW how \in {"exited", "failed", "signalled"}, EndProcess(how),
         signals' \in 0 .. MaxSignals, told' = told,
         \/ told
         \/ how = "signalled"
         \/ how = "failed" /\ \A r \in Reqs : reqs[r] = "active" => r \in RestReqs
  PROVE  LInv'
<1> USE LifecycleAssumption DEF LInv, LTypeOK, EndProcess, chans
<1>1. LTypeOK'
  OBVIOUS
<1>2. SignalReachesRun' /\ ServedInv' /\ ClosedInv'
  BY DEF SignalReachesRun, ServedInv, ClosedInv
<1>3. CutHasCause'
  BY DEF CutHasCause
<1> QED
  BY <1>1, <1>2, <1>3

LEMMA MainKeeps == LInv /\ MainStep => LInv'
<1> SUFFICES ASSUME LInv, MainStep PROVE LInv'
  OBVIOUS
<1> USE LifecycleAssumption
<1>1. CASE BootFails
  <2>1. \A r \in Reqs : reqs[r] # "active"
    BY <1>1 DEF BootFails, LInv, ServedInv, Reqs
  <2> QED
    BY <1>1, <2>1, EndKeeps DEF BootFails, LInv, LTypeOK
<1>2. CASE Spawn
  <2>1. \A r \in Reqs : reqs[r] # "active"
    BY <1>2 DEF Spawn, LInv, ServedInv, Reqs
  <2> QED
    BY <1>2, <2>1 DEF Spawn, chans, world, LInv, LTypeOK, SignalReachesRun, ServedInv,
       ClosedInv, CutHasCause
<1>3. CASE Register \/ Receive \/ CloseDb
  BY <1>3 DEF Register, Receive, CloseDb, MainGoes, chans, world, LInv, LTypeOK,
     SignalReachesRun, ServedInv, ClosedInv, CutHasCause
<1>4. CASE MainReturns
  BY <1>4, EndKeeps DEF MainReturns, LInv, LTypeOK, SignalReachesRun
<1> QED
  BY <1>1, <1>2, <1>3, <1>4 DEF MainStep

LEMMA ServersKeep == LInv /\ (GrpcStart \/ RestStart \/ WaiterStep) => LInv'
<1> SUFFICES ASSUME LInv, GrpcStart \/ RestStart \/ WaiterStep PROVE LInv'
  OBVIOUS
<1> USE LifecycleAssumption
<1>1. CASE GrpcListens
  BY <1>1 DEF GrpcListens, GrpcGoes, chans, world, LInv, LTypeOK, SignalReachesRun, ServedInv,
     ClosedInv, CutHasCause
<1>2. CASE GrpcBindFails
  <2>1. \A r \in Reqs : reqs[r] = "active" => r \in RestReqs
    BY <1>2 DEF GrpcBindFails, LInv, ServedInv, Reqs
  <2> QED
    BY <1>2, <2>1, EndKeeps DEF GrpcBindFails, LInv, LTypeOK
<1>3. CASE RestStart
  BY <1>3 DEF RestStart, StartREST, RestListens, RestBindFails, RestGoes, chans, world,
     LInv, LTypeOK, SignalReachesRun, ServedInv, ClosedInv, CutHasCause, Reqs
<1>4. CASE WaiterStep
  BY <1>4 DEF WaiterStep, WaiterRegisters, Shutdown, ShutdownReturns, WaiterGoes, world,
     LInv, LTypeOK, SignalReachesRun, ServedInv, ClosedInv, CutHasCause
<1> QED
  BY <1>1, <1>2, <1>3, <1>4 DEF GrpcStart

LEMMA OutsideKeeps == LInv /\ (Signal \/ RequestStep) => LInv'
<1> SUFFICES ASSUME LInv, Signal \/ RequestStep PROVE LInv'
  OBVIOUS
<1> USE LifecycleAssumption
<1>1. CASE Signal
  <2>0. signals' \in 0 .. MaxSignals /\ told' \in BOOLEAN
    BY <1>1 DEF Signal, LInv, LTypeOK
  <2>1. CASE ~ (MainAsked \/ WaiterAsked) /\ EndProcess("signalled")
    <3>1. told \in BOOLEAN /\ told' = (told \/ MainAsked)
      BY <1>1 DEF Signal, LInv, LTypeOK
    <3>2. told' = told
      BY <2>1, <3>1, Zenon
    <3> QED
      BY <2>0, <2>1, <3>2, EndKeeps
  <2>2. CASE /\ mainCh' = IF MainAsked THEN Offer(mainCh) ELSE mainCh
             /\ waiterCh' = IF WaiterAsked THEN Offer(waiterCh) ELSE waiterCh
             /\ UNCHANGED <<process, main, grpc, rest, waiter, reqs>>
    <3>1. told' <=> told \/ MainAsked
      BY <1>1 DEF Signal
    <3>2. LTypeOK'
      BY <2>0, <2>2 DEF Offer, LInv, LTypeOK
    <3>3. SignalReachesRun'
      BY <2>2, <3>1 DEF Offer, MainAsked, LInv, LTypeOK, SignalReachesRun
    <3>4. ServedInv' /\ ClosedInv'
      BY <2>2 DEF LInv, ServedInv, ClosedInv
    <3>5. CutHasCause'
      BY <2>2, <3>1 DEF LInv, CutHasCause
    <3> QED
      BY <3>2, <3>3, <3>4, <3>5 DEF LInv
  <2> QED
    BY <1>1, <2>1, <2>2 DEF Signal
<1>2. ASSUME NEW r \in Reqs, Accept(r) \/ Answer(r) PROVE LInv'
  BY <1>2 DEF Accept, Answer, RequestGoes, chans, LInv, LTypeOK, SignalReachesRun, ServedInv,
     ClosedInv, CutHasCause
<1> QED
  BY <1>1, <1>2 DEF RequestStep

THEOREM LifecycleInvariance == LSpec => []LInv
<1>1. LInv /\ [LNext]_lvars => LInv'
  <2>1. LInv /\ UNCHANGED lvars => LInv'
    BY DEF lvars, chans, world, LInv, LTypeOK, SignalReachesRun, ServedInv, ClosedInv, CutHasCause
  <2> QED
    BY <2>1, MainKeeps, ServersKeep, OutsideKeeps DEF LNext, LAtRest
<1> QED
  BY <1>1, InitLInv, PTL DEF LSpec

(* main, the two servers, the waiter, the buffered channels and the        *)
(* requests keep to their ranges, whatever the order of signals.           *)
THEOREM LifecycleTypeCorrect == LSpec => []LTypeOK
<1>1. LInv => LTypeOK
  BY DEF LInv
<1> QED
  BY <1>1, LifecycleInvariance, PTL

(* However many signals there are and whenever they come: run wakes up for  *)
(* one that was sent to it, and none that was sent to it is lost.          *)
THEOREM SignalsReachRun == LSpec => []SignalReachesRun
<1>1. LInv => SignalReachesRun
  BY DEF LInv
<1> QED
  BY <1>1, LifecycleInvariance, PTL

(* Whatever is cut off has a signal to thank for it, one run was told of or *)
(* one nobody had asked for yet, or the gRPC port, which costs REST        *)
(* requests only.                                                          *)
THEOREM CutsExplained == LSpec => []CutHasCause
<1>1. LInv => CutHasCause
  BY DEF LInv
<1> QED
  BY <1>1, LifecycleInvariance, PTL

(* Told to shut down, before or after it listened, the REST server takes    *)
(* no request any more.                                                    *)
THEOREM RestClosed == LSpec => RestStaysClosed
<1>1. LInv /\ [LNext]_lvars =>
        [\A r \in RestReqs :
           waiter \in {"shutdown", "done"} =>
             ~ (reqs[r] = "new" /\ reqs'[r] = "active")]_lvars
  <2> SUFFICES ASSUME LInv, LNext, NEW r \in RestReqs, waiter \in {"shutdown", "done"},
                      reqs[r] = "new", reqs'[r] = "active"
               PROVE  FALSE
    OBVIOUS
  <2>0. r \in Reqs /\ reqs \in [Reqs -> {"new", "active", "answered", "cut"}]
    BY DEF Reqs, LInv, LTypeOK
  <2>1. \A how : ~ EndProcess(how)
    BY <2>0 DEF EndProcess
  <2>2. ~ UNCHANGED reqs
    OBVIOUS
  <2>3. RequestStep
    BY <2>1, <2>2 DEF LNext, LAtRest, lvars, world, MainStep, BootFails, Spawn, Register,
       Receive, CloseDb, MainReturns, MainGoes, GrpcStart, GrpcListens, GrpcBindFails,
       GrpcGoes, RestStart, StartREST, RestListens, RestBindFails, RestGoes, WaiterStep,
       WaiterRegisters, Shutdown, ShutdownReturns, WaiterGoes, Signal
  <2>4. rest = "serving"
    BY <2>0, <2>3 DEF RequestStep, Accept, Answer, RequestGoes
  <2> QED
    BY <2>4 DEF LInv, ClosedInv
<1> QED
  BY <1>1, LifecycleInvariance, PTL DEF LSpec, RestStaysClosed
=============================================================================
