---------------------------- MODULE MCLogUseCase ----------------------------
(* Small instances of LogUseCase.                                          *)
EXTENDS LogUseCase, TLC

CONSTANTS c1, c2, c3, lower, upper, junk, key, none

MCIds == {lower, upper, junk}

(* Two spellings of one uuid, and a text that is none.                     *)
MCCanon == [t \in MCIds |-> IF t = junk THEN "malformed" ELSE key]

SendOf(ids, levels) ==
  {[op |-> "send", id |-> i, service |-> "web", level |-> l] : i \in ids, l \in levels}

GetOf(levels, limits, offsets) ==
  {[op |-> "get", service |-> "web", level |-> l, limit |-> n, offset |-> o] :
     l \in levels, n \in limits, o \in offsets}

(* Writers share an id, spell it differently, or leave it out; those who   *)
(* leave it out write another level.                                       *)
WriterRequests == SendOf({lower, upper, junk}, {"INFO"}) \cup SendOf({none}, {"ERROR"})

(* A reader of everything, and one of a level, past its first entry.       *)
ReaderRequests == GetOf({""}, {2}, {0}) \cup GetOf({"ERROR"}, {1}, {1})

MCRequests == WriterRequests \cup ReaderRequests

Writers == {c1, c2}
Symmetry == Permutations(Writers)

(* c1 and c2 write, c3 reads.  A context ends only where the use case still *)
(* looks at it, and in one of the two ways it does not tell apart; how a   *)
(* context ended matters to the servers, whose runs leave it open.         *)
MCInit == Init /\ \A c \in Calls : IsSend(c) <=> c \in Writers

CtxMatters ==
  \A c \in Calls : ctx'[c] # ctx[c] => pc[c] \in {"insert", "query"} /\ ctx'[c] = "deadline"

MCSpec == MCInit /\ [][Next /\ CtxMatters]_vars
=============================================================================
