----------------------------- MODULE Lifecycle ------------------------------
(***************************************************************************)
(* The goroutines of cmd/main.go between the start and the end of the      *)
(* process: run itself (`main'), startGRPCServer (`grpc'), echo's Start    *)
(* (`rest') and the goroutine that waits for a signal to shut the REST     *)
(* server down (`waiter').                                                 *)
(*                                                                         *)
(* Two of them ask for the same signals, each through a channel of its own *)
(* with room for one, at a time of their own; until the first has asked, a *)
(* signal ends the process.  run returns on its signal without waiting for *)
(* the waiter, and the process takes every request in flight with it.      *)
(* What a request does while it is in flight is the matter of GrpcServer   *)
(* and RestServer.                                                         *)
(***************************************************************************)
EXTENDS Naturals

CONSTANTS
  GrpcReqs, RestReqs,    \* requests that may come in by either interface
  MaxSignals             \* bound on the signals somebody sends

ASSUME LifecycleAssumption == GrpcReqs \cap RestReqs = {} /\ MaxSignals \in Nat

VARIABLES
  process,    \* "up", or how it ended
  main, grpc, rest, waiter,
  mainCh, waiterCh,      \* signals in the two channels
  signals,    \* signals sent so far
  told,       \* history: one of them came after run had asked for them
  reqs        \* what became of each request

chans == <<mainCh, waiterCh>>
world == <<signals, told, reqs>>
lvars == <<process, main, grpc, rest, waiter, chans, world>>

Reqs == GrpcReqs \cup RestReqs

LInit ==
  /\ process = "up"
  /\ main = "boot"
  /\ grpc = "off" /\ rest = "off" /\ waiter = "off"
  /\ mainCh = 0 /\ waiterCh = 0
  /\ signals = 0
  /\ told = FALSE
  /\ reqs = [r \in Reqs |-> "new"]

MainGoes(from, to) ==
  /\ process = "up"
  /\ main = from
  /\ main' = to
  /\ UNCHANGED <<process, grpc, rest, waiter, world>>

GrpcGoes(from, to) ==
  /\ process = "up"
  /\ grpc = from
  /\ grpc' = to
  /\ UNCHANGED <<process, main, rest, waiter, chans, world>>

RestGoes(from, to) ==
  /\ process = "up"
  /\ rest = from
  /\ rest' = to
  /\ UNCHANGED <<process, main, grpc, chans, world>>

WaiterGoes(from, to) ==
  /\ process = "up"
  /\ waiter = from
  /\ waiter' = to
  /\ UNCHANGED <<process, main, grpc, mainCh, world>>

(* The process ends: nobody waits for the requests in flight.              *)
EndProcess(how) ==
  /\ process = "up"
  /\ process' = how
  /\ reqs' = [r \in Reqs |-> IF reqs[r] = "active" THEN "cut" ELSE reqs[r]]
  /\ UNCHANGED <<main, grpc, rest, waiter, chans>>

-----------------------------------------------------------------------------
(* run.                                                                    *)

(* Configuration, database, NATS or Elasticsearch client cannot be had.    *)
BootFails == main = "boot" /\ EndProcess("failed") /\ UNCHANGED <<signals, told>>

(* The two go statements.                                                  *)
Spawn ==
  /\ process = "up"
  /\ main = "boot"
  /\ main' = "spawned"
  /\ grpc' = "starting"
  /\ rest' = "spawned"
  /\ UNCHANGED <<process, waiter, chans, world>>

(* signal.Notify.                                                          *)
Register == MainGoes("spawned", "registered") /\ UNCHANGED chans

(* A deviation of Receive: run waits for the shutdown of the REST server.  *)
ReceiveAfterShutdown ==
  /\ waiter = "done"
  /\ mainCh > 0 /\ mainCh' = 0
  /\ MainGoes("registered", "woken")
  /\ UNCHANGED waiterCh

(* <-sigCh                                                                 *)
Receive ==
  /\ mainCh > 0 /\ mainCh' = 0
  /\ MainGoes("registered", "woken")
  /\ UNCHANGED waiterCh

(* run returns: its deferred Close leaves the requests without a database. *)
CloseDb == MainGoes("woken", "closed") /\ UNCHANGED chans

(* main returns.                                                           *)
MainReturns == main = "closed" /\ EndProcess("exited") /\ UNCHANGED <<signals, told>>

-----------------------------------------------------------------------------
(* startGRPCServer: an address that cannot be bound is an os.Exit(1).      *)

GrpcListens == GrpcGoes("starting", "serving")
GrpcBindFails == grpc = "starting" /\ EndProcess("failed") /\ UNCHANGED <<signals, told>>

-----------------------------------------------------------------------------
(* startRESTServer, which starts two goroutines more.                      *)

StartREST ==
  /\ RestGoes("spawned", "starting")
  /\ waiter' = "started"

(* A deviation of RestListens: Shutdown leaves no mark on a server that has *)
(* not started.                                                            *)
RestListensAnyway == RestGoes("starting", "serving") /\ UNCHANGED waiter

(* echo's Start; after a Shutdown it comes back with ErrServerClosed.      *)
RestListens ==
  /\ RestGoes("starting", IF waiter \in {"shutdown", "done"} THEN "closed" ELSE "serving")
  /\ UNCHANGED waiter

(* A deviation of RestBindFails: fatal, as it is for gRPC.                 *)
RestBindFailsFatal == rest = "starting" /\ EndProcess("failed") /\ UNCHANGED <<signals, told>>

(* The address cannot be bound: the error is logged, the process stays up. *)
RestBindFails == RestGoes("starting", "failed") /\ UNCHANGED waiter

WaiterRegisters == WaiterGoes("started", "registered") /\ UNCHANGED <<rest, waiterCh>>

(* The signal: echo's Shutdown closes the listener, ...                    *)
Shutdown ==
  /\ waiterCh > 0 /\ waiterCh' = 0
  /\ WaiterGoes("registered", "shutdown")
  /\ rest' = IF rest = "serving" THEN "closed" ELSE rest

(* ... and returns when no REST request is in flight, or when the timeout   *)
(* has passed, which may be at any time; its error is only logged.         *)
ShutdownReturns == WaiterGoes("shutdown", "done") /\ UNCHANGED <<rest, waiterCh>>

-----------------------------------------------------------------------------
(* The outside: requests and signals.                                      *)

RequestGoes(r, from, to) ==
  /\ process = "up"
  /\ reqs[r] = from
  /\ reqs' = [reqs EXCEPT ![r] = to]
  /\ UNCHANGED <<process, main, grpc, rest, waiter, chans, signals, told>>

Accept(r) ==
  /\ r \in GrpcReqs => grpc = "serving"
  /\ r \in RestReqs => rest = "serving"
  /\ RequestGoes(r, "new", "active")

(* With a result or, the database closed or not, with an error.            *)
Answer(r) == RequestGoes(r, "active", "answered")

MainAsked == main \in {"registered", "woken", "closed"}
WaiterAsked == waiter \in {"registered", "shutdown", "done"}

(* A deviation of Offer: a channel without room, and nobody at its end.    *)
OfferUnbuffered(ch) == ch

(* The runtime drops a signal for which the channel has no room.           *)
Offer(ch) == IF ch = 0 THEN 1 ELSE ch

(* A signal goes to every channel that was asked for; nobody having asked, *)
(* it ends the process.                                                    *)
Signal ==
  /\ process = "up"
  /\ signals < MaxSignals
  /\ signals' = signals + 1
  /\ told' = (told \/ MainAsked)
  /\ \/ /\ MainAsked \/ WaiterAsked
        /\ mainCh' = IF MainAsked THEN Offer(mainCh) ELSE mainCh
        /\ waiterCh' = IF WaiterAsked THEN Offer(waiterCh) ELSE waiterCh
        /\ UNCHANGED <<process, main, grpc, rest, waiter, reqs>>
     \/ ~ (MainAsked \/ WaiterAsked) /\ EndProcess("signalled")

MainStep == BootFails \/ Spawn \/ Register \/ Receive \/ CloseDb \/ MainReturns
GrpcStart == GrpcListens \/ GrpcBindFails
RestStart == StartREST \/ RestListens \/ RestBindFails
WaiterStep == WaiterRegisters \/ Shutdown \/ ShutdownReturns
RequestStep == \E r \in Reqs : Accept(r) \/ Answer(r)

(* The process is gone, or serves with nothing to do.                      *)
LAtRest ==
  /\ \/ process # "up"
     \/ /\ main = "registered" /\ mainCh = 0
        /\ grpc = "serving" /\ rest \in {"serving", "failed", "closed"}
        /\ waiter \in {"registered", "done"}
        /\ \A r \in Reqs : reqs[r] # "active"
  /\ UNCHANGED lvars

LNext ==
  \/ MainStep \/ GrpcStart \/ RestStart \/ WaiterStep
  \/ Signal \/ RequestStep \/ LAtRest

LSpec == LInit /\ [][LNext]_lvars

(* A runnable goroutine runs.  Nothing is asked of requests and signals,   *)
(* nor of Shutdown's return.                                               *)
LFairSpec ==
  /\ LSpec
  /\ WF_lvars(MainStep)
  /\ WF_lvars(GrpcStart)
  /\ WF_lvars(RestStart)
  /\ WF_lvars(WaiterRegisters \/ Shutdown)

-----------------------------------------------------------------------------
(* Properties.                                                             *)

LTypeOK ==
  /\ process \in {"up", "exited", "failed", "signalled"}
  /\ main \in {"boot", "spawned", "registered", "woken", "closed"}
  /\ grpc \in {"off", "starting", "serving"}
  /\ rest \in {"off", "spawned", "starting", "serving", "failed", "closed"}
  /\ waiter \in {"off", "started", "registered", "shutdown", "done"}
  /\ mainCh \in 0 .. 1 /\ waiterCh \in 0 .. 1
  /\ signals \in 0 .. MaxSignals
  /\ told \in BOOLEAN
  /\ reqs \in [Reqs -> {"new", "active", "answered", "cut"}]

(* A signal that comes after run has asked for signals ends the process,    *)
(* whatever the waiter, the servers and the requests are doing; it may not *)
(* hang on a request that does not end, or on a waiter that asked too late.*)
ToldEnds == told ~> process # "up"

(* The REST server takes no request once it has been told to shut down,     *)
(* even if it was told before it began to listen.                          *)
RestStaysClosed ==
  [][\A r \in RestReqs :
       waiter \in {"shutdown", "done"} => ~ (reqs[r] = "new" /\ reqs'[r] = "active")]_lvars

(* run wakes up for a signal that was sent to it, for nothing else, and for *)
(* every such signal: one that finds the channel full adds nothing, one    *)
(* that comes before <-sigCh waits there, and the waiter takes none of them.*)
SignalReachesRun == told <=> mainCh = 1 \/ main \in {"woken", "closed"}

(* A request in flight is cut off by a signal run was told of, by one that  *)
(* came before anybody had asked for signals, or by the gRPC port being     *)
(* taken, which happens to REST requests only.  So neither a REST server    *)
(* that cannot start nor a signal that only the waiter had asked for, and   *)
(* that leaves the process up without its REST server, costs an answer.     *)
CutHasCause ==
  \A r \in Reqs :
    reqs[r] = "cut" =>
      told \/ process = "signalled" \/ (process = "failed" /\ r \in RestReqs)

(* "Shutting down both servers gracefully" (cmd/main.go:115).               *)
GracefulExit == process = "exited" => \A r \in Reqs : reqs[r] # "cut"

=============================================================================
