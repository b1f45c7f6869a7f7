----------------------------- MODULE FactStore -----------------------------
(***************************************************************************)
(* Publishing to a FactCast server.                                        *)
(*                                                                         *)
(* Clients publish facts either unconditionally (FactStore.publish) or     *)
(* with an optimistic lock (WithOptimisticLock.attempt): fetch a state     *)
(* token, run the business logic on the published facts, publish if        *)
(* nothing changed since the token was issued, retry otherwise.  Every     *)
(* operation of the store is a gRPC call: it runs on the server in a       *)
(* PostgreSQL transaction of its own, the client may lose the connection   *)
(* at any moment, and GrpcFactStore then sends the call again while the    *)
(* first one may still be running or have committed.  Publishing calls     *)
(* serialize on one advisory lock that is held until the transaction ends. *)
(***************************************************************************)
EXTENDS Naturals, Sequences, FiniteSets

CONSTANTS Clients,               \* threads that use the store
          FactIds,               \* UUIDs of facts
          Keys,                  \* what FactSpecs tell facts apart by
          Batches,               \* Batches[c]: the lists of facts that client c publishes
          Scope,                 \* Scope[c]: keys matched by its FactSpecs
          Retry,                 \* Retry[c]: its WithOptimisticLock.retry
          FastStateToken,        \* [c]: its server offers currentStateForSpecsJson
          IgnoreDuplicateFacts,  \* [c]: its property of that name
          MaxCalls,              \* bound: calls a client makes
          MaxRetries,            \* bound: retries of failed calls, per client
          MaxFaults              \* bound: lost connections and crashes

Fact == [id : FactIds, key : Keys]
Row  == [ser : Nat, id : FactIds, key : Keys]
Call == Clients \X (1..MaxCalls)

ASSUME BoundsAssumption == /\ Retry \in [Clients -> Nat] /\ MaxCalls \in Nat
                           /\ MaxRetries \in Nat /\ MaxFaults \in Nat
ASSUME BatchesAssumption == Batches \in [Clients -> SUBSET (Seq(Fact) \ {<<>>})]
ASSUME ScopeAssumption == Scope \in [Clients -> SUBSET Keys]
ASSUME FlagsAssumption == /\ FastStateToken \in [Clients -> BOOLEAN]
                          /\ IgnoreDuplicateFacts \in [Clients -> BOOLEAN]

VARIABLES log,      \* committed rows of table fact
          nextSer,  \* next value of the sequence behind column ser
          tokens,   \* committed rows of table tokenstore
          faults    \* connections lost and transactions crashed so far

(* The server's side of a call. *)
VARIABLES req,      \* req[k]: what was sent
          st,       \* st[k]: how far the call is, its reply in the end
          read,     \* read[k]: serial read for a new token
          rows      \* rows[k]: inserted, not yet committed

(* The client's side: WithOptimisticLock and GrpcFactStore. *)
VARIABLES pc,       \* pc[c]: where c is, its result in the end
          count,    \* count[c]: attempts started
          calls,    \* calls[c]: calls made, the last one is current
          retries,  \* retries[c]: calls that were sent again
          token,    \* token[c]: the token in use
          batch,    \* batch[c]: facts to publish
          part      \* part[c]: 0 if batch[c] goes out as a whole, i if batch[c][i]

dbVars     == <<log, nextSer, tokens>>
callVars   == <<req, st, read, rows>>
clientVars == <<pc, count, calls, retries, token, batch, part>>
vars       == <<dbVars, faults, callVars, clientVars>>

NoCall  == <<>>
Ops     == {"currentStateFor", "publishIfUnchanged", "invalidate", "publish"}

(* The transaction of a call in one of these states holds the lock. *)
TxStates == {"check", "insert", "refuse"}
Replies  == {"ok", "true", "false", "duplicate", "error", "fault"}
Results  == {"published", "unpublished", "exceeded", "failed"}

(* A token is named after the call that created it; its specs are Scope[c]. *)
Token == [id : Call, ser : Nat]

(* seen is not sent: it records what the business logic decided on. *)
Request == [op : Ops \cup {"none"}, batch : Seq(Fact), tok : Call \cup {NoCall},
            seen : SUBSET Row]

Req(op, facts, tok, seen) ==
  [op |-> op, batch |-> facts, tok |-> tok, seen |-> seen]

Init == /\ log = {} /\ nextSer = 1 /\ tokens = {} /\ faults = 0
        /\ req = [k \in Call |-> Req("none", <<>>, NoCall, {})]
        /\ st = [k \in Call |-> "unused"]
        /\ read = [k \in Call |-> 0]
        /\ rows = [k \in Call |-> {}]
        /\ pc = [c \in Clients |-> "idle"]
        /\ count = [c \in Clients |-> 0]
        /\ calls = [c \in Clients |-> 0]
        /\ retries = [c \in Clients |-> 0]
        /\ token = [c \in Clients |-> NoCall]
        /\ batch = [c \in Clients |-> <<>>]
        /\ part = [c \in Clients |-> 0]

-----------------------------------------------------------------------------
(* Queries on the fact table. *)

InScope(facts, keys) == {r \in facts : r.key \in keys}

(* Mutant: the sequence's last value instead of the largest committed serial. *)
SequenceValue(facts, n) == n = nextSer - 1

(* n is the largest serial among facts, 0 if there are none. *)
IsLastSer(facts, n) == /\ \A r \in facts : r.ser <= n
                       /\ n = 0 \/ \E r \in facts : r.ser = n

(* The rows that isStateUnchanged looks for. *)
Since(facts, keys, n) == {r \in InScope(facts, keys) : r.ser > n}

-----------------------------------------------------------------------------
(* The server: PgFactStore, AbstractFactStore, PgTokenStore. *)

(* getCurrentStateFor or getStateFor: plain reads, outside of any lock. *)
ReadState(k) ==
  /\ st[k] = "sent" /\ req[k].op = "currentStateFor"
  /\ \E n \in 0..nextSer :
       /\ IF FastStateToken[k[1]] THEN IsLastSer(log, n)
                                  ELSE IsLastSer(InScope(log, Scope[k[1]]), n)
       /\ read' = [read EXCEPT ![k] = n]
  /\ st' = [st EXCEPT ![k] = "read"]
  /\ UNCHANGED <<dbVars, faults, req, rows, clientVars>>

CreateToken(k) ==
  /\ st[k] = "read"
  /\ tokens' = tokens \cup {[id |-> k, ser |-> read[k]]}
  /\ st' = [st EXCEPT ![k] = "ok"]
  /\ UNCHANGED <<log, nextSer, faults, req, read, rows, clientVars>>

(* TokenStore.invalidate, as a call of its own. *)
Invalidate(k) ==
  /\ st[k] = "sent" /\ req[k].op = "invalidate"
  /\ tokens' = {t \in tokens : t.id # req[k].tok}
  /\ st' = [st EXCEPT ![k] = "ok"]
  /\ UNCHANGED <<log, nextSer, faults, req, read, rows, clientVars>>

IsPublishing(k) == req[k].op \in {"publish", "publishIfUnchanged"}

(* Read-only mode, a missing permission or a failed validation: refused
   before the lock is taken. *)
Reject(k) ==
  /\ st[k] = "sent" /\ IsPublishing(k)
  /\ st' = [st EXCEPT ![k] = "error"]
  /\ UNCHANGED <<dbVars, faults, req, read, rows, clientVars>>

(* Mutant: no lock. *)
NoLock == TRUE

LockIsFree == \A k \in Call : st[k] \notin TxStates

(* aquireExclusiveTXLock: waits for the end of the holder's transaction. *)
AquireExclusiveTXLock(k) ==
  /\ st[k] = "sent" /\ IsPublishing(k)
  /\ LockIsFree
  /\ st' = [st EXCEPT ![k] = IF req[k].op = "publish" THEN "insert" ELSE "check"]
  /\ UNCHANGED <<dbVars, faults, req, read, rows, clientVars>>

(* The token is known and nothing in its scope is newer than its serial. *)
StateUnchanged(k) ==
  \E t \in tokens : /\ t.id = req[k].tok
                    /\ Since(log, Scope[t.id[1]], t.ser) = {}

CheckState(k) ==
  /\ st[k] = "check"
  /\ st' = [st EXCEPT ![k] = IF StateUnchanged(k) THEN "insert" ELSE "refuse"]
  /\ UNCHANGED <<dbVars, faults, req, read, rows, clientVars>>

IdTaken(k, id) == \E r \in log \cup rows[k] : r.id = id

(* f is the fact of the batch whose turn it is. *)
IsNextFact(k, f) ==
  \E i \in 1..Len(req[k].batch) : /\ i = Cardinality(rows[k]) + 1
                                  /\ f = req[k].batch[i]

InsertFact(k) ==
  /\ st[k] = "insert"
  /\ \E f \in Fact :
       /\ IsNextFact(k, f) /\ ~IdTaken(k, f.id)
       /\ rows' = [rows EXCEPT ![k] =
                     @ \cup {[ser |-> nextSer, id |-> f.id, key |-> f.key]}]
  /\ nextSer' = nextSer + 1
  /\ UNCHANGED <<log, tokens, faults, req, st, read, clientVars>>

(* The unique index refuses the row and the transaction rolls back.  In
   publishIfUnchanged, the invalidate of the finally block then fails as well,
   and its exception hides the DuplicateFactException. *)
InsertDuplicate(k) ==
  /\ st[k] = "insert"
  /\ \E f \in Fact : IsNextFact(k, f) /\ IdTaken(k, f.id)
  /\ nextSer' = nextSer + 1
  /\ rows' = [rows EXCEPT ![k] = {}]
  /\ st' = [st EXCEPT ![k] = IF req[k].op = "publish" THEN "duplicate" ELSE "fault"]
  /\ UNCHANGED <<log, tokens, faults, req, read, clientVars>>

(* The rows appear, the token is gone, the lock is free. *)
Commit(k) ==
  /\ st[k] = "insert" /\ ~\E f \in Fact : IsNextFact(k, f)
  /\ log' = log \cup rows[k]
  /\ tokens' = {t \in tokens : t.id # req[k].tok}
  /\ rows' = [rows EXCEPT ![k] = {}]
  /\ st' = [st EXCEPT ![k] = IF req[k].op = "publish" THEN "ok" ELSE "true"]
  /\ UNCHANGED <<nextSer, faults, req, read, clientVars>>

(* publishIfUnchanged returns false; the token is gone all the same. *)
Refuse(k) ==
  /\ st[k] = "refuse"
  /\ tokens' = {t \in tokens : t.id # req[k].tok}
  /\ st' = [st EXCEPT ![k] = "false"]
  /\ UNCHANGED <<log, nextSer, faults, req, read, rows, clientVars>>

(* The server or its database connection dies: PostgreSQL rolls back. *)
Crash(k) ==
  /\ st[k] \notin Replies \cup {"unused"}
  /\ faults < MaxFaults
  /\ st' = [st EXCEPT ![k] = "fault"]
  /\ rows' = [rows EXCEPT ![k] = {}]
  /\ faults' = faults + 1
  /\ UNCHANGED <<dbVars, req, read, clientVars>>

(* The nightly job deletes old tokens; age is not modelled, so any. *)
Compact ==
  /\ \E old \in SUBSET tokens : old # {} /\ tokens' = tokens \ old
  /\ UNCHANGED <<log, nextSer, faults, callVars, clientVars>>

-----------------------------------------------------------------------------
(* The client: WithOptimisticLock and GrpcFactStore. *)

Current(c) == <<c, calls[c]>>

(* c makes its next call. *)
Send(c, request) ==
  /\ calls[c] < MaxCalls
  /\ calls' = [calls EXCEPT ![c] = @ + 1]
  /\ req' = [req EXCEPT ![<<c, calls[c] + 1>>] = request]
  /\ st' = [st EXCEPT ![<<c, calls[c] + 1>>] = "sent"]
  /\ UNCHANGED <<read, rows>>

(* Mutant: one attempt too many. *)
RetriesLeftOffByOne(c) == count[c] <= Retry[c]

(* while (++count <= retry) *)
RetriesLeft(c) == count[c] < Retry[c]

(* token = store.currentStateFor(factSpecs) *)
Attempt(c) ==
  /\ pc[c] \in {"idle", "loop"}
  /\ RetriesLeft(c)
  /\ count' = [count EXCEPT ![c] = @ + 1]
  /\ pc' = [pc EXCEPT ![c] = "currentStateFor"]
  /\ Send(c, Req("currentStateFor", <<>>, NoCall, {}))
  /\ UNCHANGED <<dbVars, faults, retries, token, batch, part>>

(* Mutant: the loop does not end when the retries are used up. *)
LoopForever(c) ==
  /\ pc[c] \in {"idle", "loop"}
  /\ ~RetriesLeft(c)
  /\ UNCHANGED vars

(* throw new OptimisticRetriesExceededException(retry) *)
RetriesExceeded(c) ==
  /\ pc[c] \in {"idle", "loop"}
  /\ ~RetriesLeft(c)
  /\ pc' = [pc EXCEPT ![c] = "exceeded"]
  /\ UNCHANGED <<dbVars, faults, callVars, count, calls, retries, token, batch, part>>

ReceiveToken(c) ==
  /\ pc[c] = "currentStateFor" /\ st[Current(c)] = "ok"
  /\ pc' = [pc EXCEPT ![c] = "run"]
  /\ token' = [token EXCEPT ![c] = Current(c)]
  /\ UNCHANGED <<dbVars, faults, callVars, count, calls, retries, batch, part>>

(* The business logic looks at the facts of its scope and publishes ... *)
RunPublish(c) ==
  /\ pc[c] = "run"
  /\ pc' = [pc EXCEPT ![c] = "publishIfUnchanged"]
  /\ \E b \in Batches[c] :
       /\ batch' = [batch EXCEPT ![c] = b]
       /\ Send(c, Req("publishIfUnchanged", b, token[c], InScope(log, Scope[c])))
  /\ UNCHANGED <<dbVars, faults, count, retries, token, part>>

(* ... or skips or aborts; the finally block invalidates the token. *)
RunWithoutPublication(c) ==
  /\ pc[c] = "run"
  /\ pc' = [pc EXCEPT ![c] = "invalidate"]
  /\ Send(c, Req("invalidate", <<>>, token[c], {}))
  /\ UNCHANGED <<dbVars, faults, count, retries, token, batch, part>>

(* Where the reply to a call that was not answered with facts leads.  true:
   andThen runs, attempt returns; false: sleep and try again; an exception
   leaves the loop, and the token is left to the server. *)
Receive(c) ==
  /\ \/ pc[c] = "invalidate" /\ st[Current(c)] = "ok"
        /\ pc' = [pc EXCEPT ![c] = "unpublished"]
     \/ pc[c] = "publishIfUnchanged" /\ st[Current(c)] = "true"
        /\ pc' = [pc EXCEPT ![c] = "published"]
     \/ pc[c] = "publishIfUnchanged" /\ st[Current(c)] = "false"
        /\ pc' = [pc EXCEPT ![c] = "loop"]
     \/ pc[c] \in Ops /\ st[Current(c)] = "error"
        /\ pc' = [pc EXCEPT ![c] = "failed"]
  /\ UNCHANGED <<dbVars, faults, callVars, count, calls, retries, token, batch, part>>

(* FactStore.publish, without a token. *)
Publish(c) ==
  /\ pc[c] = "idle"
  /\ pc' = [pc EXCEPT ![c] = "publish"]
  /\ \E b \in Batches[c] : /\ batch' = [batch EXCEPT ![c] = b]
                        /\ Send(c, Req("publish", b, NoCall, {}))
  /\ UNCHANGED <<dbVars, faults, count, retries, token, part>>

(* Mutant: a duplicate in a batch passes for success of the whole batch. *)
AnyDuplicatePasses(c) ==
  /\ pc[c] = "publish"
  /\ \/ st[Current(c)] = "ok"
     \/ st[Current(c)] = "duplicate" /\ IgnoreDuplicateFacts[c]

(* A single fact that is a duplicate counts as published, if so configured. *)
FactsArePublished(c) ==
  /\ pc[c] = "publish"
  /\ \/ st[Current(c)] = "ok"
     \/ /\ st[Current(c)] = "duplicate" /\ IgnoreDuplicateFacts[c]
        /\ Len(req[Current(c)].batch) = 1

(* publish returns: the batch went out as a whole, or its last fact did. *)
ReceivePublished(c) ==
  /\ FactsArePublished(c)
  /\ part[c] \in {0, Len(batch[c])}
  /\ pc' = [pc EXCEPT ![c] = "published"]
  /\ UNCHANGED <<dbVars, faults, callVars, count, calls, retries, token, batch, part>>

(* A batch with a duplicate is published once more, fact by fact. *)
PublishOneByOne(c) ==
  /\ \/ /\ pc[c] = "publish" /\ st[Current(c)] = "duplicate" /\ IgnoreDuplicateFacts[c]
        /\ part[c] = 0 /\ Len(batch[c]) > 1
     \/ /\ FactsArePublished(c)
        /\ part[c] \in 1..(Len(batch[c]) - 1)
  /\ part' = [part EXCEPT ![c] = @ + 1]
  /\ Send(c, Req("publish", <<batch[c][part[c] + 1]>>, NoCall, {}))
  /\ UNCHANGED <<dbVars, faults, pc, count, retries, token, batch>>

ReceiveDuplicate(c) ==
  /\ pc[c] = "publish" /\ st[Current(c)] = "duplicate" /\ ~IgnoreDuplicateFacts[c]
  /\ pc' = [pc EXCEPT ![c] = "failed"]
  /\ UNCHANGED <<dbVars, faults, callVars, count, calls, retries, token, batch, part>>

(* The current call failed with a retryable error: the server answered so, or
   the connection is lost, whatever the call is doing or has done by now. *)
CallFails(c) ==
  /\ pc[c] \in Ops
  /\ \/ st[Current(c)] = "fault" /\ UNCHANGED faults
     \/ faults < MaxFaults /\ faults' = faults + 1

(* runAndHandle, callAndHandle: the same call again. *)
RetryCall(c) ==
  /\ CallFails(c)
  /\ retries[c] < MaxRetries
  /\ retries' = [retries EXCEPT ![c] = @ + 1]
  /\ Send(c, req[Current(c)])
  /\ UNCHANGED <<dbVars, pc, count, token, batch, part>>

(* A failure while the facts go out one by one may also reach the enclosing
   publish, which starts over with the whole batch. *)
RetryBatch(c) ==
  /\ CallFails(c)
  /\ part[c] > 0 /\ retries[c] < MaxRetries
  /\ retries' = [retries EXCEPT ![c] = @ + 1]
  /\ part' = [part EXCEPT ![c] = 0]
  /\ Send(c, Req("publish", batch[c], NoCall, {}))
  /\ UNCHANGED <<dbVars, pc, count, token, batch>>

(* The attempts in the resilience window are exhausted. *)
GiveUp(c) ==
  /\ CallFails(c)
  /\ pc' = [pc EXCEPT ![c] = "failed"]
  /\ UNCHANGED <<dbVars, callVars, count, calls, retries, token, batch, part>>

-----------------------------------------------------------------------------
ServerStep(k) == \/ ReadState(k) \/ CreateToken(k) \/ Invalidate(k)
                 \/ Reject(k) \/ AquireExclusiveTXLock(k) \/ CheckState(k)
                 \/ InsertFact(k) \/ InsertDuplicate(k) \/ Commit(k) \/ Refuse(k)

ClientStep(c) == \/ Attempt(c) \/ RetriesExceeded(c) \/ ReceiveToken(c)
                 \/ RunPublish(c) \/ RunWithoutPublication(c) \/ Receive(c)
                 \/ ReceivePublished(c) \/ PublishOneByOne(c)
                 \/ ReceiveDuplicate(c)

OnFailedCall(c) == RetryCall(c) \/ RetryBatch(c) \/ GiveUp(c)

(* Everybody is done: only the nightly job is left. *)
Terminated == /\ \A c \in Clients : pc[c] \in Results
              /\ \A k \in Call : st[k] \in Replies \cup {"unused"}
              /\ UNCHANGED vars

Next == \/ \E k \in Call : ServerStep(k) \/ Crash(k)
        \/ \E c \in Clients : ClientStep(c) \/ Publish(c) \/ OnFailedCall(c)
        \/ Compact
        \/ Terminated

Spec == Init /\ [][Next]_vars

(* The server goes on with some call while any call can go on (the lock goes to
   a waiter when it is free), and so do the clients that have started; they
   react to a failed call.  Nothing is assumed of crashes, of lost connections,
   of Compact, or of a client that never starts. *)
Fairness ==
  /\ WF_vars(\E k \in Call : ServerStep(k))
  /\ WF_vars(\E c \in Clients :
               \/ pc[c] # "idle" /\ ClientStep(c)
               \/ pc[c] \in Ops /\ st[Current(c)] = "fault" /\ OnFailedCall(c))

FairSpec == Spec /\ Fairness

-----------------------------------------------------------------------------
TypeOK ==
  /\ log \subseteq Row /\ nextSer \in Nat /\ tokens \subseteq Token
  /\ faults \in 0..MaxFaults
  /\ req \in [Call -> Request]
  /\ st \in [Call -> {"unused", "sent", "read"} \cup TxStates \cup Replies]
  /\ read \in [Call -> Nat]
  /\ rows \in [Call -> SUBSET Row]
  /\ pc \in [Clients -> {"idle", "loop", "run"} \cup Ops \cup Results]
  /\ count \in [Clients -> Nat] /\ \A c \in Clients : count[c] <= Retry[c]
  /\ calls \in [Clients -> 0..MaxCalls]
  /\ retries \in [Clients -> 0..MaxRetries]
  /\ token \in [Clients -> Call \cup {NoCall}]
  /\ batch \in [Clients -> Seq(Fact)]
  /\ part \in [Clients -> Nat]

(* No lost update.  While publishIfUnchanged inserts, the facts in the scope of
   the lock are exactly the ones the business logic based its decision on: a
   conditional publication is never committed on a stale view
   (WithOptimisticLock.attempt, AbstractFactStore.publishIfUnchanged). *)
DecidedOnCurrentState ==
  \A k \in Call :
    st[k] = "insert" /\ req[k].op = "publishIfUnchanged"
      => InScope(log, Scope[k[1]]) = req[k].seen

(* When publish or attempt returns to the caller as published, every fact of
   the batch is in the log, whatever retries, duplicates and fallbacks to
   publishing one by one happened on the way (GrpcFactStore.publish). *)
PublishedIsLogged ==
  \A c \in Clients :
    pc[c] = "published" =>
      \A i \in 1..Len(batch[c]) : \E r \in log : r.id = batch[c][i].id

(* The log is append only, in the order of serials: what a commit makes visible
   is newer than everything visible before (PgFactStore.publish under
   AdvisoryWriteLock), which all readers by serial rely on. *)
Log == INSTANCE AppendOnlyLog
AppendsInOrder == Log!Spec

(* A client that started comes to an end: the lock is not held for ever, and
   the attempt loop is bounded (WithOptimisticLock.attempt). *)
EveryClientReturns ==
  \A c \in Clients : pc[c] # "idle" ~> pc[c] \in Results

=============================================================================
