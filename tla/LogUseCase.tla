----------------------------- MODULE LogUseCase -----------------------------
(***************************************************************************)
(* The use-case layer and what it drives: LogUseCaseImpl.SendLog and       *)
(* GetLogs over LogRepository (PostgreSQL), Producer (NATS) and            *)
(* LogSearcher (Elasticsearch).                                            *)
(*                                                                         *)
(* Every call runs in the goroutine of its request; calls interleave at    *)
(* the exchanges with the three external services.  The PostgreSQL server, *)
(* the NATS client's flusher and the index act on their own:  a statement  *)
(* that was sent may be applied before, after, or without its reply.       *)
(*                                                                         *)
(* A request is a record.  A SendLog request carries [op |-> "send", id,   *)
(* service, level, ...], a GetLogs request [op |-> "get", service, level,  *)
(* limit, offset, ...]; the other fields matter only to validation.  What  *)
(* a row holds of an entry is what the properties tell apart: its primary  *)
(* key, its service and level, and the call whose INSERT made it.          *)
(***************************************************************************)
EXTENDS Integers, Sequences, FiniteSets

CONSTANTS
  Calls,         \* executions of a handler; a client's retry is another call
  Requests,      \* the requests the calls may carry
  Ids,           \* the texts clients put into the id field
  NoId,          \* the absent id (the empty string)
  Canon,         \* what uuid a text denotes to PostgreSQL, or Malformed
  Malformed,     \* ... when it denotes none
  NoText,        \* an absent text (the empty string)
  BufferCap,     \* messages the NATS client holds back while disconnected
  Attempts       \* requests the Elasticsearch client makes for one document

UuidOf(text) == Canon[text]
Uuids == {UuidOf(t) : t \in Ids} \ {Malformed}

ASSUME IdAssumption ==
  /\ NoId \notin Ids
  /\ Calls \cap {UuidOf(t) : t \in Ids} = {}   \* generated ids are fresh
  /\ Malformed \notin Calls

ASSUME RequestAssumption ==
  \A r \in Requests :
    /\ r.op \in {"send", "get"}
    /\ r.op = "send" => r.id \in Ids \cup {NoId}
    /\ r.op = "get" => r.limit \in Int /\ r.offset \in Int

ASSUME BoundAssumption == BufferCap \in Nat /\ Attempts \in Nat

VARIABLES
  req,      \* the request of each call
  pc,       \* where the goroutine of the call stands in SendLog or GetLogs
  ctx,      \* the state of the context the call was given
  res,      \* what the use case returned
  stmt,     \* the INSERT of the call, as the PostgreSQL server sees it
  rows,     \* the logs table
  page,     \* what a GetLogs call got
  buf,      \* messages accepted by the NATS client and not yet on the wire
  bus,      \* messages the NATS server has carried, in order
  esSent,   \* index requests sent for the entry of a call
  docs      \* documents the index holds for the entry of a call

callVars == <<req, pc, ctx, res, page>>
dbVars == <<stmt, rows>>
natsVars == <<buf, bus>>
esVars == <<esSent, docs>>
vars == <<req, pc, ctx, res, stmt, rows, page, buf, bus, esSent, docs>>

-----------------------------------------------------------------------------
(* Keys, rows and pages.                                                   *)

IsSend(c) == req[c].op = "send"
IsGet(c) == req[c].op = "get"

(* The handlers complete a missing id with uuid.NewString(): an id no other *)
(* call has, so the call itself stands for it.                             *)
LogID(c) == IF req[c].id = NoId THEN c ELSE UuidOf(req[c].id)

Row(c) == [key |-> LogID(c), service |-> req[c].service,
           level |-> req[c].level, by |-> c]

PossibleRows == {Row(c) : c \in {d \in Calls : IsSend(d)}}
StoredRows(c) == {r \in rows : r.by = c}
KeyTaken(k) == \E r \in rows : r.key = k

(* A deviation of Matching: the absent level is compared like any other.   *)
MatchingEmptyLevel(q) == {r \in rows : r.service = q.service /\ r.level = q.level}

(* WHERE service = ? [AND level = ?]; a condition is left out when its     *)
(* argument is the empty string.                                           *)
Matching(q) ==
  {r \in rows : /\ q.service # NoText => r.service = q.service
                /\ q.level # NoText => r.level = q.level}

(* A deviation of PageSize: the last row of a listing is never paged to.   *)
PageSizeOneShort(n, limit, offset) ==
  IF offset + 1 >= n THEN 0
  ELSE IF limit < n - offset THEN limit ELSE n - offset - 1

(* LIMIT ? OFFSET ? over a query with no ORDER BY: any rows, as many as    *)
(* are left.                                                               *)
PageSize(n, limit, offset) ==
  IF offset >= n THEN 0 ELSE IF limit < n - offset THEN limit ELSE n - offset

Pages(q) ==
  LET M == Matching(q)
  IN  {P \in SUBSET M :
         Cardinality(P) = PageSize(Cardinality(M), q.limit, q.offset)}

-----------------------------------------------------------------------------
Running == {"insert", "await", "publish", "index", "query"}
Ended == {"ret", "killed"}

Init ==
  /\ req \in [Calls -> Requests]
  /\ pc = [c \in Calls |-> "idle"]
  /\ ctx = [c \in Calls |-> "live"]
  /\ res = [c \in Calls |-> "none"]
  /\ stmt = [c \in Calls |-> "none"]
  /\ rows = {}
  /\ page = [c \in Calls |-> {}]
  /\ buf = <<>>
  /\ bus = <<>>
  /\ esSent = [c \in Calls |-> 0]
  /\ docs = [c \in Calls |-> 0]

Goto(c, l) == pc' = [pc EXCEPT ![c] = l]

Return(c, r) ==
  /\ Goto(c, "ret")
  /\ res' = [res EXCEPT ![c] = r]

(* The handler calls the use case.                                         *)
Begin(c) ==
  /\ pc[c] = "idle"
  /\ Goto(c, IF IsSend(c) THEN "insert" ELSE "query")
  /\ UNCHANGED <<req, ctx, res, page, dbVars, natsVars, esVars>>

(* LogRepository.SendLog: database/sql looks at the context before it takes *)
(* a connection and sends the INSERT.                                      *)
SendInsert(c) ==
  /\ pc[c] = "insert"
  /\ ctx[c] = "live"
  /\ Goto(c, "await")
  /\ stmt' = [stmt EXCEPT ![c] = "sent"]
  /\ UNCHANGED <<req, ctx, res, page, rows, natsVars, esVars>>

(* The context has ended, or there is no connection to be had.             *)
InsertNotSent(c) ==
  /\ pc[c] = "insert"
  /\ Return(c, "repoErr")
  /\ UNCHANGED <<req, ctx, page, dbVars, natsVars, esVars>>

(* PostgreSQL runs the INSERT: the id must be a uuid, and a new one.       *)
DbApply(c) ==
  /\ stmt[c] = "sent"
  /\ LogID(c) # Malformed
  /\ ~ KeyTaken(LogID(c))
  /\ stmt' = [stmt EXCEPT ![c] = "applied"]
  /\ rows' = rows \cup {Row(c)}
  /\ UNCHANGED <<callVars, natsVars, esVars>>

(* The statement fails, is cancelled, or never reaches the server.         *)
DbReject(c) ==
  /\ stmt[c] = "sent"
  /\ stmt' = [stmt EXCEPT ![c] = "rejected"]
  /\ UNCHANGED <<callVars, rows, natsVars, esVars>>

(* The reply arrives: the row is stored, and SendLog goes on to publish.   *)
InsertOk(c) ==
  /\ pc[c] = "await"
  /\ stmt[c] = "applied"
  /\ Goto(c, "publish")
  /\ UNCHANGED <<req, ctx, res, page, dbVars, natsVars, esVars>>

(* Deviations of InsertFails: the early return is forgotten; a duplicate   *)
(* key is taken for success.                                               *)
InsertErrorIgnored(c) ==
  /\ pc[c] = "await"
  /\ Goto(c, "publish")
  /\ UNCHANGED <<req, ctx, res, page, dbVars, natsVars, esVars>>

DuplicateIsSuccess(c) ==
  /\ pc[c] = "await"
  /\ IF stmt[c] = "rejected" /\ KeyTaken(LogID(c))
       THEN Goto(c, "publish") /\ UNCHANGED res
       ELSE Return(c, "repoErr")
  /\ UNCHANGED <<req, ctx, page, dbVars, natsVars, esVars>>

(* The driver reports an error: the server's, the end of the context, or a *)
(* lost connection.  In the last two the row may be there, or may still    *)
(* come.  SendLog returns at once.                                         *)
InsertFails(c) ==
  /\ pc[c] = "await"
  /\ Return(c, "repoErr")
  /\ UNCHANGED <<req, ctx, page, dbVars, natsVars, esVars>>

(* Producer.Publish only hands the message to the NATS client.  An error   *)
(* (the buffer is full, the connection closed) is logged and forgotten.    *)
Publish(c) ==
  /\ pc[c] = "publish"
  /\ Goto(c, "index")
  /\ \/ Len(buf) < BufferCap /\ buf' = Append(buf, c)
     \/ UNCHANGED buf
  /\ UNCHANGED <<req, ctx, res, page, dbVars, bus, esVars>>

(* A deviation of IndexLog: the client never gives up.                     *)
IndexLogForever(c) ==
  /\ pc[c] = "index"
  /\ esSent' = [esSent EXCEPT ![c] = @ + 1]
  /\ UNCHANGED <<callVars, dbVars, natsVars, docs>>

(* LogSearcher.IndexLog under context.Background(): the client sends the   *)
(* request, and sends it again when it gets no usable answer.              *)
IndexLog(c) ==
  /\ pc[c] = "index"
  /\ esSent[c] < Attempts
  /\ esSent' = [esSent EXCEPT ![c] = @ + 1]
  /\ UNCHANGED <<callVars, dbVars, natsVars, docs>>

(* Deviations of IndexReturns: its error becomes the call's; it comes back *)
(* with a success only.                                                    *)
IndexErrorReturned(c) ==
  /\ pc[c] = "index"
  /\ \E r \in {"ok", "repoErr"} : Return(c, r)
  /\ UNCHANGED <<req, ctx, page, dbVars, natsVars, esVars>>

IndexReturnsOnSuccess(c) ==
  /\ pc[c] = "index"
  /\ docs[c] > 0
  /\ Return(c, "ok")
  /\ UNCHANGED <<req, ctx, page, dbVars, natsVars, esVars>>

(* IndexLog returns, with an answer or an error; the error is only logged, *)
(* so SendLog returns nil either way.                                      *)
IndexReturns(c) ==
  /\ pc[c] = "index"
  /\ Return(c, "ok")
  /\ UNCHANGED <<req, ctx, page, dbVars, natsVars, esVars>>

(* GetLogs: one SELECT.  No row is an error of its own.                    *)
Query(c) ==
  /\ pc[c] = "query"
  /\ ctx[c] = "live"
  /\ \E P \in Pages(req[c]) :
       /\ page' = [page EXCEPT ![c] = P]
       /\ Return(c, IF P = {} THEN "noLogs" ELSE "ok")
  /\ UNCHANGED <<req, ctx, dbVars, natsVars, esVars>>

QueryFails(c) ==
  /\ pc[c] = "query"
  /\ Return(c, "repoErr")
  /\ UNCHANGED <<req, ctx, page, dbVars, natsVars, esVars>>

(* The goroutine panics between two exchanges; the recovery middleware of  *)
(* either interface picks it up.                                           *)
Panic(c) ==
  /\ pc[c] \in Running \ {"await"}
  /\ Return(c, "panic")
  /\ UNCHANGED <<req, ctx, page, dbVars, natsVars, esVars>>

(* The context of the call ends, by its deadline or because the client went *)
(* away: before the use case is called, under it, or after it returned.    *)
CtxEnds(c, how) ==
  /\ pc[c] # "killed"
  /\ ctx[c] = "live"
  /\ ctx' = [ctx EXCEPT ![c] = how]
  /\ UNCHANGED <<req, pc, res, page, dbVars, natsVars, esVars>>

-----------------------------------------------------------------------------
(* The outside.                                                            *)

NatsFlush ==
  /\ buf # <<>>
  /\ bus' = Append(bus, Head(buf))
  /\ buf' = Tail(buf)
  /\ UNCHANGED <<callVars, dbVars, esVars>>

(* The connection breaks under a message that was being written.           *)
NatsDrop ==
  /\ buf # <<>>
  /\ buf' = Tail(buf)
  /\ UNCHANGED <<callVars, dbVars, bus, esVars>>

EsIngest(c) ==
  /\ docs[c] < esSent[c]
  /\ docs' = [docs EXCEPT ![c] = @ + 1]
  /\ UNCHANGED <<callVars, dbVars, natsVars, esSent>>

(* run() returns on the first signal without waiting for anybody, or the   *)
(* process crashes: the calls in flight are gone, and so are the messages  *)
(* the NATS client held.  The next process serves the calls still to come. *)
Kill ==
  /\ pc' = [c \in Calls |-> IF pc[c] \in Running THEN "killed" ELSE pc[c]]
  /\ buf' = <<>>
  /\ UNCHANGED <<req, ctx, res, page, dbVars, bus, esVars>>

Exit == (buf # <<>> \/ \E c \in Calls : pc[c] \in Running) /\ Kill

(* Every external service has come to rest, and every call has ended.      *)
Settled == buf = <<>> /\ \A c \in Calls : stmt[c] # "sent" /\ docs[c] = esSent[c]

AtRest == Settled /\ (\A c \in Calls : pc[c] \in Ended) /\ UNCHANGED vars

(* Insert, publish, index: the body of LogUseCaseImpl.SendLog.             *)
SendLog(c) ==
  \/ SendInsert(c) \/ InsertNotSent(c) \/ InsertOk(c) \/ InsertFails(c)
  \/ Publish(c) \/ IndexLog(c) \/ IndexReturns(c)

GetLogs(c) == Query(c) \/ QueryFails(c)

(* The steps of a call once its handler has called the use case.           *)
UseCaseStep(c) == SendLog(c) \/ GetLogs(c) \/ Panic(c)

(* The steps the process does not take.                                    *)
External ==
  \/ \E c \in Calls : DbApply(c) \/ DbReject(c) \/ EsIngest(c)
  \/ NatsFlush \/ NatsDrop

CtxEndings == {"deadline", "cancelled"}

Next ==
  \/ \E c \in Calls : Begin(c) \/ UseCaseStep(c)
  \/ \E c \in Calls, how \in CtxEndings : CtxEnds(c, how)
  \/ External \/ Exit \/ AtRest

Spec == Init /\ [][Next]_vars

(* The steps that fairness may be asked of: an exchange with the database   *)
(* ends, the driver watching the context and the server's reply, whichever  *)
(* is first.  Nothing bounds IndexReturns but the index itself.             *)
Exchange(c) ==
  \/ SendInsert(c) \/ InsertNotSent(c) \/ InsertOk(c) \/ InsertFails(c)
  \/ Publish(c) \/ Query(c) \/ QueryFails(c)

-----------------------------------------------------------------------------
(* Properties.                                                             *)

(* Every variable holds a value of its kind.                               *)
TypeOK ==
  /\ req \in [Calls -> Requests]
  /\ pc \in [Calls -> {"idle"} \cup Running \cup Ended]
  /\ ctx \in [Calls -> {"live", "deadline", "cancelled"}]
  /\ res \in [Calls -> {"none", "ok", "noLogs", "repoErr", "panic"}]
  /\ stmt \in [Calls -> {"none", "sent", "applied", "rejected"}]
  /\ rows \subseteq PossibleRows
  /\ page \in [Calls -> SUBSET rows]
  /\ buf \in Seq(Calls)
  /\ bus \in Seq(Calls)
  /\ esSent \in [Calls -> 0 .. Attempts]
  /\ docs \in [Calls -> 0 .. Attempts]

Carried(c) == (\E i \in DOMAIN bus : bus[i] = c) \/ (\E i \in DOMAIN buf : buf[i] = c)

(* A call that was told "ok" has its own row in the logs table, under its   *)
(* own id: an entry somebody else stored under that id does not count.      *)
(* SendLog returns nil only past the early return of log_usecase.go:63-75.  *)
AckIsStored ==
  \A c \in Calls : IsSend(c) /\ res[c] = "ok" => Row(c) \in rows

(* Nothing is published or indexed that the logs table does not hold: a     *)
(* consumer of logs.send or of logs-index never learns of an entry whose    *)
(* INSERT failed, was cancelled or has yet to run.                          *)
HeardIsStored ==
  \A c \in Calls : Carried(c) \/ esSent[c] > 0 => Row(c) \in rows

(* A call that returned ErrRepositoryFailure is silent for good, although   *)
(* its row may be stored before or after the answer.                        *)
FailedIsSilent ==
  \A c \in Calls : res[c] = "repoErr" => ~ Carried(c) /\ esSent[c] = 0

(* However many calls carry the same id, concurrently or one after the      *)
(* other, however they spell it, and whatever replies get lost on the way,  *)
(* the subject logs.send carries each stored key at most once.              *)
PublishedOnce ==
  LET out == bus \o buf
  IN  \A i, j \in DOMAIN out : LogID(out[i]) = LogID(out[j]) => i = j

(* GetLogs misses nothing it should see: when the page has room for every   *)
(* matching row, it holds the row of every matching call answered "ok"      *)
(* before, and "no logs found" is returned only where there is no such row. *)
ReadsAcknowledged ==
  [][\A c, d \in Calls :
       /\ IsGet(c) /\ res[c] = "none" /\ res'[c] \in {"ok", "noLogs"}
       /\ req[c].offset = 0 /\ Cardinality(Matching(req[c])) <= req[c].limit
       /\ IsSend(d) /\ res[d] = "ok" /\ req[d].service = req[c].service
       /\ req[c].level \in {NoText, req[d].level}
       => Row(d) \in page'[c]]_vars

(* The calls answered "ok" whose entries a query q asks for.               *)
Acknowledged(q) ==
  {d \in Calls : /\ IsSend(d) /\ res[d] = "ok"
                 /\ q.service # NoText => req[d].service = q.service
                 /\ q.level # NoText => req[d].level = q.level}

(* Whoever walks a listing page by page, raising the offset, may stop at a  *)
(* short page or at "no logs found": a page is cut short only by its limit  *)
(* or by the end of the listing, so that offset and page together reach     *)
(* past every entry acknowledged before.  Which entries a page holds is     *)
(* another matter, the query having no ORDER BY.                            *)
PagesAreFull ==
  [][\A c \in Calls :
       IsGet(c) /\ res[c] = "none" /\ res'[c] \in {"ok", "noLogs"} =>
         LET size == Cardinality(page'[c])
         IN  \/ size = req[c].limit
             \/ req[c].offset + size >= Cardinality(Acknowledged(req[c]))]_vars

(***************************************************************************)
(* The client-visible contract.  The subject has heard of a call when the  *)
(* NATS server has carried its message, the index when it holds a document.*)
(***************************************************************************)
Stored == {[key |-> r.key, by |-> r.by] : r \in rows}
Announced == {LogID(bus[i]) : i \in DOMAIN bus}
Heard ==
  {[call |-> bus[i], at |-> "nats"] : i \in DOMAIN bus}
    \cup {[call |-> c, at |-> "es"] : c \in {d \in Calls : docs[d] > 0}}

Verdict ==
  [c \in Calls |->
     IF IsGet(c) \/ (pc[c] # "killed" /\ res[c] = "none") THEN "pending"
     ELSE IF res[c] = "ok" THEN "ok"
     ELSE IF res[c] = "repoErr" THEN "error"
     ELSE "aborted"]

Contract == INSTANCE LogContract
  WITH Keys <- Uuids \cup Calls, stored <- Stored,
       announced <- Announced, heard <- Heard, verdict <- Verdict

(* The use case keeps the contract LogContract states for its callers.      *)
ImplementsContract == Contract!CSpec
=============================================================================
