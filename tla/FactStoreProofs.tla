-------------------------- MODULE FactStoreProofs --------------------------
(***************************************************************************)
(* Proofs about FactStore, for any number of clients, calls, retries and   *)
(* faults: the types, that no conditional publication is based on a stale  *)
(* view, that the fact table implements AppendOnlyLog, and that what is    *)
(* reported as published is in the log.                                    *)
(***************************************************************************)
EXTENDS FactStore, FiniteSetTheorems, TLAPS

(* What the clients know of their calls. *)
ClientInv ==
  \A c \in Clients :
    /\ pc[c] \in Ops => calls[c] >= 1
    /\ pc[c] = "run" => token[c] # NoCall
    /\ token[c] # NoCall => token[c][1] = c /\ st[token[c]] \in Replies

(* A call is sent once; the token it carries was handed out before. *)
CallInv ==
  \A k \in Call :
    /\ k[2] > calls[k[1]] => st[k] = "unused"
    /\ req[k].tok # NoCall => /\ req[k].tok[1] = k[1]
                              /\ st[req[k].tok] \in Replies
    /\ req[k].op = "publishIfUnchanged" => req[k].tok # NoCall

(* Tokens keep the serial that their call read. *)
TokenInv ==
  \A t \in tokens : st[t.id] \in Replies /\ read[t.id] = t.ser

(* The advisory lock is exclusive, and only its holder has pending rows. *)
LockInv ==
  /\ \A j, k \in Call : st[j] \in TxStates /\ st[k] \in TxStates => j = k
  /\ \A k \in Call : rows[k] # {} => st[k] = "insert"

(* Pending rows are newer than the log and than every serial ever read. *)
SerialInv ==
  /\ nextSer > 0
  /\ \A r \in log : r.ser < nextSer
  /\ \A j \in Call : read[j] < nextSer
  /\ \A k \in Call : \A r \in rows[k] :
       /\ 0 < r.ser /\ r.ser < nextSer
       /\ \A q \in log : q.ser < r.ser
       /\ \A j \in Call : read[j] < r.ser

(* Serials and ids stay unique when the pending rows are committed. *)
UniqueInv == /\ Log!Distinct(log)
             /\ \A k \in Call : Log!Distinct(log \cup rows[k])

(* What the business logic saw is in the log, and contains everything in its
   scope up to the serial of its token. *)
SeenInv ==
  \A k \in Call : req[k].op = "publishIfUnchanged" =>
    /\ req[k].seen \subseteq InScope(log, Scope[k[1]])
    /\ \A r \in InScope(log, Scope[k[1]]) :
         r.ser <= read[req[k].tok] => r \in req[k].seen

(* The inductive invariant: every part is needed for the step of another one. *)
IndInv == /\ TypeOK /\ ClientInv /\ CallInv /\ TokenInv /\ LockInv
          /\ SerialInv /\ UniqueInv /\ SeenInv /\ DecidedOnCurrentState

(* A fact with this id is in the log. *)
Logged(id) == \E r \in log : r.id = id

(* What call k has inserted, and what its reply says of the log. *)
CallOutcome(k) ==
  /\ st[k] \in TxStates => IsPublishing(k)
  /\ st[k] = "read" => req[k].op = "currentStateFor"
  /\ IsFiniteSet(rows[k])
  /\ \A i \in 1..Cardinality(rows[k]) : \E r \in rows[k] : r.id = req[k].batch[i].id
  /\ IsPublishing(k) /\ st[k] \in {"ok", "true"} =>
       \A i \in 1..Len(req[k].batch) : Logged(req[k].batch[i].id)
  /\ st[k] = "duplicate" /\ Len(req[k].batch) = 1 => Logged(req[k].batch[1].id)

(* What client c has published so far, and what its current call publishes. *)
ClientOutcome(c) ==
  /\ part[c] # 0 => pc[c] \in {"publish", "published", "failed"}
  /\ pc[c] = "publishIfUnchanged" => /\ IsPublishing(Current(c))
                                     /\ req[Current(c)].batch = batch[c]
  /\ pc[c] = "publish" =>
       /\ IsPublishing(Current(c))
       /\ part[c] = 0 => req[Current(c)].batch = batch[c]
       /\ part[c] # 0 => /\ part[c] <= Len(batch[c])
                         /\ req[Current(c)].batch = <<batch[c][part[c]]>>
       /\ \A i \in 1..Len(batch[c]) : i < part[c] => Logged(batch[c][i].id)
  /\ pc[c] = "published" => \A i \in 1..Len(batch[c]) : Logged(batch[c][i].id)

(* The inductive invariant of publication, on top of IndInv. *)
OutcomeInv == /\ \A k \in Call : CallOutcome(k)
              /\ \A c \in Clients : ClientOutcome(c)

USE DEF NoCall, vars, dbVars, callVars, clientVars

(* Sending a request keeps the types of what it changes. *)
LEMMA SendType ==
  ASSUME TypeOK, NEW c \in Clients, NEW q \in Request, Send(c, q)
  PROVE  /\ calls' \in [Clients -> 0..MaxCalls]
         /\ req' \in [Call -> Request]
         /\ st' \in [Call -> {"unused", "sent", "read"} \cup TxStates \cup Replies]
         /\ read' = read /\ rows' = rows
<1>1. calls[c] + 1 \in 1..MaxCalls
  BY BoundsAssumption DEF Send, TypeOK
<1>2. <<c, calls[c] + 1>> \in Call
  BY <1>1 DEF Call
<1>3. calls' \in [Clients -> 0..MaxCalls]
  BY <1>1, BoundsAssumption DEF Send, TypeOK
<1> QED
  BY <1>2, <1>3 DEF Send, TypeOK

(* The current call of a client that waits for a reply. *)
LEMMA CurrentType ==
  ASSUME TypeOK, ClientInv, NEW c \in Clients, pc[c] \in Ops
  PROVE  Current(c) \in Call
<1>1. calls[c] \in 1..MaxCalls
  BY BoundsAssumption DEF TypeOK, ClientInv
<1> QED
  BY <1>1 DEF Current, Call

(* Empty and single batches are sequences of facts. *)
LEMMA SmallBatches ==
  <<>> \in Seq(Fact) /\ \A f \in Fact : <<f>> \in Seq(Fact)
OBVIOUS

(* A request built from parts of the right types. *)
LEMMA RequestType ==
  ASSUME NEW op \in Ops, NEW b \in Seq(Fact), NEW t \in Call \cup {NoCall},
         NEW s \in SUBSET Row
  PROVE  Req(op, b, t, s) \in Request
BY DEF Req, Request

(* Every step keeps the types. *)
LEMMA TypeStep ==
  ASSUME IndInv, Next PROVE TypeOK'
<1> USE DEF TypeOK
<1>0. TypeOK /\ ClientInv
  BY DEF IndInv
<1>1. ASSUME NEW k \in Call, ServerStep(k) PROVE TypeOK'
  <2>1. CASE ReadState(k)
    BY <1>0, <2>1 DEF ReadState
  <2>2. CASE CreateToken(k)
    BY <1>0, <2>2 DEF CreateToken, Token, Replies
  <2>3. CASE Invalidate(k)
    BY <1>0, <2>3 DEF Invalidate, Replies
  <2>4. CASE Reject(k)
    BY <1>0, <2>4 DEF Reject, Replies
  <2>5. CASE AquireExclusiveTXLock(k)
    BY <1>0, <2>5 DEF AquireExclusiveTXLock, TxStates
  <2>6. CASE CheckState(k)
    BY <1>0, <2>6 DEF CheckState, TxStates
  <2>7. CASE InsertFact(k)
    <3>1. rows' \in [Call -> SUBSET Row] /\ nextSer' \in Nat
      BY <1>0, <2>7 DEF InsertFact, Row, Fact
    <3> QED
      BY <1>0, <2>7, <3>1 DEF InsertFact
  <2>8. CASE InsertDuplicate(k)
    BY <1>0, <2>8 DEF InsertDuplicate, Replies
  <2>9. CASE Commit(k)
    BY <1>0, <2>9 DEF Commit, Replies
  <2>10. CASE Refuse(k)
    BY <1>0, <2>10 DEF Refuse, Replies
  <2> QED
    BY <1>1, <2>1, <2>2, <2>3, <2>4, <2>5, <2>6, <2>7, <2>8, <2>9, <2>10
       DEF ServerStep
<1>2. ASSUME NEW k \in Call, Crash(k) PROVE TypeOK'
  BY <1>0, <1>2, BoundsAssumption DEF Crash, Replies
<1>3. ASSUME NEW c \in Clients, ClientStep(c) \/ Publish(c) PROVE TypeOK'
  <2>1. CASE Attempt(c)
    <3>1. Req("currentStateFor", <<>>, NoCall, {}) \in Request
      BY RequestType, SmallBatches DEF Ops
    <3>2. count' \in [Clients -> Nat] /\ \A d \in Clients : count'[d] <= Retry[d]
      <4>1. /\ count \in [Clients -> Nat] /\ \A d \in Clients : count[d] <= Retry[d]
            /\ Retry[c] \in Nat
        BY <1>0, BoundsAssumption
      <4>2. count' = [count EXCEPT ![c] = @ + 1] /\ count[c] < Retry[c]
        BY <2>1 DEF Attempt, RetriesLeft
      <4>3. count[c] + 1 \in Nat /\ count[c] + 1 <= Retry[c]
        BY <4>1, <4>2
      <4> QED
        BY <4>1, <4>2, <4>3
    <3> QED
      BY <1>0, <2>1, <3>1, <3>2, SendType DEF Attempt, Ops
  <2>2. CASE RetriesExceeded(c)
    BY <1>0, <2>2 DEF RetriesExceeded, Results
  <2>3. CASE ReceiveToken(c)
    BY <1>0, <2>3, CurrentType DEF ReceiveToken, Ops
  <2>4. CASE RunPublish(c)
    <3>1. PICK b \in Batches[c] :
            /\ batch' = [batch EXCEPT ![c] = b]
            /\ Send(c, Req("publishIfUnchanged", b, token[c], InScope(log, Scope[c])))
      BY <2>4 DEF RunPublish
    <3>2. b \in Seq(Fact)
      BY BatchesAssumption
    <3>3. Req("publishIfUnchanged", b, token[c], InScope(log, Scope[c])) \in Request
      BY <1>0, <3>2, RequestType DEF Ops, InScope
    <3> QED
      BY <1>0, <2>4, <3>1, <3>2, <3>3, SendType DEF RunPublish, Ops
  <2>5. CASE RunWithoutPublication(c)
    <3>1. Req("invalidate", <<>>, token[c], {}) \in Request
      BY <1>0, RequestType, SmallBatches DEF Ops
    <3> QED
      BY <1>0, <2>5, <3>1, SendType DEF RunWithoutPublication, Ops
  <2>6. CASE Receive(c)
    BY <1>0, <2>6 DEF Receive, Results
  <2>7. CASE ReceivePublished(c)
    BY <1>0, <2>7 DEF ReceivePublished, Results
  <2>8. CASE PublishOneByOne(c)
    <3>1. part[c] + 1 \in 1..Len(batch[c]) /\ batch[c] \in Seq(Fact)
      BY <1>0, <2>8 DEF PublishOneByOne
    <3>2. batch[c][part[c] + 1] \in Fact
      BY <3>1
    <3>3. Req("publish", <<batch[c][part[c] + 1]>>, NoCall, {}) \in Request
      BY <3>2, RequestType, SmallBatches DEF Ops
    <3>4. part' \in [Clients -> Nat]
      BY <1>0, <2>8 DEF PublishOneByOne
    <3>5. Send(c, Req("publish", <<batch[c][part[c] + 1]>>, NoCall, {}))
      BY <2>8 DEF PublishOneByOne
    <3>6. UNCHANGED <<dbVars, faults, pc, count, retries, token, batch>>
      BY <2>8 DEF PublishOneByOne
    <3> HIDE <2>8
    <3> QED
      BY <1>0, <3>3, <3>4, <3>5, <3>6, SendType
  <2>9. CASE ReceiveDuplicate(c)
    BY <1>0, <2>9 DEF ReceiveDuplicate, Results
  <2>10. CASE Publish(c)
    <3>1. PICK b \in Batches[c] : /\ batch' = [batch EXCEPT ![c] = b]
                               /\ Send(c, Req("publish", b, NoCall, {}))
      BY <2>10 DEF Publish
    <3>2. b \in Seq(Fact)
      BY BatchesAssumption
    <3>3. Req("publish", b, NoCall, {}) \in Request
      BY <3>2, RequestType DEF Ops
    <3> QED
      BY <1>0, <2>10, <3>1, <3>2, <3>3, SendType DEF Publish, Ops
  <2> QED
    BY <1>3, <2>1, <2>2, <2>3, <2>4, <2>5, <2>6, <2>7, <2>8, <2>9, <2>10
       DEF ClientStep
<1>4. ASSUME NEW c \in Clients, OnFailedCall(c) PROVE TypeOK'
  <2>1. CallFails(c)
    BY <1>4 DEF OnFailedCall, RetryCall, RetryBatch, GiveUp
  <2>2. faults' \in 0..MaxFaults /\ pc[c] \in Ops
    BY <1>0, <2>1, BoundsAssumption DEF CallFails
  <2>3. CASE RetryCall(c)
    <3>1. req[Current(c)] \in Request
      BY <1>0, <2>2, CurrentType
    <3>2. retries' \in [Clients -> 0..MaxRetries]
      BY <1>0, <2>3, BoundsAssumption DEF RetryCall
    <3> QED
      BY <1>0, <2>2, <2>3, <3>1, <3>2, SendType DEF RetryCall
  <2>4. CASE RetryBatch(c)
    <3>1. Req("publish", batch[c], NoCall, {}) \in Request
      BY <1>0, RequestType DEF Ops
    <3>2. retries' \in [Clients -> 0..MaxRetries]
      BY <1>0, <2>4, BoundsAssumption DEF RetryBatch
    <3> QED
      BY <1>0, <2>2, <2>4, <3>1, <3>2, SendType DEF RetryBatch
  <2>5. CASE GiveUp(c)
    BY <1>0, <2>2, <2>5 DEF GiveUp, Results
  <2> QED
    BY <1>4, <2>3, <2>4, <2>5 DEF OnFailedCall
<1>5. CASE Compact
  BY <1>0, <1>5 DEF Compact
<1>6. CASE Terminated
  BY <1>0, <1>6 DEF Terminated
<1> QED
  BY <1>1, <1>2, <1>3, <1>4, <1>5, <1>6 DEF Next

-----------------------------------------------------------------------------
(* A step of the server moves one call that is under way, and no other. *)
LEMMA ServerEffect ==
  ASSUME IndInv, NEW k \in Call, ServerStep(k) \/ Crash(k)
  PROVE  /\ UNCHANGED <<req, clientVars>>
         /\ log \subseteq log'
         /\ \A j \in Call \ {k} : /\ st'[j] = st[j] /\ read'[j] = read[j]
                                  /\ rows'[j] = rows[j]
         /\ st[k] \notin Replies \cup {"unused"}
         /\ st'[k] # "unused"
<1> USE DEF TypeOK, Replies, TxStates
<1>0. TypeOK
  BY DEF IndInv
<1>1. CASE ReadState(k)
  BY <1>0, <1>1 DEF ReadState
<1>2. CASE CreateToken(k)
  BY <1>0, <1>2 DEF CreateToken
<1>3. CASE Invalidate(k)
  BY <1>0, <1>3 DEF Invalidate
<1>4. CASE Reject(k)
  BY <1>0, <1>4 DEF Reject
<1>5. CASE AquireExclusiveTXLock(k)
  BY <1>0, <1>5 DEF AquireExclusiveTXLock
<1>6. CASE CheckState(k)
  BY <1>0, <1>6 DEF CheckState
<1>7. CASE InsertFact(k)
  BY <1>0, <1>7 DEF InsertFact
<1>8. CASE InsertDuplicate(k)
  BY <1>0, <1>8 DEF InsertDuplicate
<1>9. CASE Commit(k)
  BY <1>0, <1>9 DEF Commit
<1>10. CASE Refuse(k)
  BY <1>0, <1>10 DEF Refuse
<1>11. CASE Crash(k)
  BY <1>0, <1>11 DEF Crash
<1> QED
  BY <1>1, <1>2, <1>3, <1>4, <1>5, <1>6, <1>7, <1>8, <1>9, <1>10, <1>11
     DEF ServerStep

(* What every request of client c satisfies when it is sent. *)
GoodRequest(c, q) ==
  /\ q \in Request
  /\ q.tok # NoCall => q.tok[1] = c /\ st[q.tok] \in Replies
  /\ q.op = "publishIfUnchanged" =>
       /\ q.tok # NoCall
       /\ q.seen \subseteq InScope(log, Scope[c])
       /\ \A r \in InScope(log, Scope[c]) :
            r.ser <= read[q.tok] => r \in q.seen

(* A step of a client sends one good request, or leaves the calls alone. *)
LEMMA ClientEffect ==
  ASSUME IndInv, NEW c \in Clients,
         ClientStep(c) \/ Publish(c) \/ OnFailedCall(c)
  PROVE  /\ UNCHANGED dbVars
         /\ \/ UNCHANGED <<callVars, calls>>
            \/ \E q \in Request : GoodRequest(c, q) /\ Send(c, q)
<1>0. TypeOK /\ ClientInv /\ CallInv /\ SeenInv
  BY DEF IndInv
<1>1. CASE Attempt(c)
  <2>1. GoodRequest(c, Req("currentStateFor", <<>>, NoCall, {}))
    BY RequestType, SmallBatches DEF GoodRequest, Req, Ops
  <2> QED
    BY <1>1, <2>1 DEF Attempt, GoodRequest
<1>2. CASE RunPublish(c)
  <2>1. PICK b \in Batches[c] :
          Send(c, Req("publishIfUnchanged", b, token[c], InScope(log, Scope[c])))
    BY <1>2 DEF RunPublish
  <2>2. Req("publishIfUnchanged", b, token[c], InScope(log, Scope[c])) \in Request
    BY <1>0, RequestType, BatchesAssumption DEF Ops, InScope, TypeOK
  <2>3. GoodRequest(c, Req("publishIfUnchanged", b, token[c], InScope(log, Scope[c])))
    BY <1>0, <1>2, <2>2 DEF GoodRequest, Req, RunPublish, ClientInv
  <2> QED
    BY <1>2, <2>1, <2>2, <2>3 DEF RunPublish
<1>3. CASE RunWithoutPublication(c)
  <2>1. Req("invalidate", <<>>, token[c], {}) \in Request
    BY <1>0, RequestType, SmallBatches DEF Ops, TypeOK
  <2>2. GoodRequest(c, Req("invalidate", <<>>, token[c], {}))
    BY <1>0, <1>3, <2>1 DEF GoodRequest, Req, RunWithoutPublication, ClientInv
  <2> QED
    BY <1>3, <2>1, <2>2 DEF RunWithoutPublication
<1>4. CASE PublishOneByOne(c)
  <2>1. batch[c][part[c] + 1] \in Fact
    <3>1. part[c] + 1 \in 1..Len(batch[c]) /\ batch[c] \in Seq(Fact)
      BY <1>0, <1>4 DEF PublishOneByOne, TypeOK
    <3> QED
      BY <3>1
  <2>2. Req("publish", <<batch[c][part[c] + 1]>>, NoCall, {}) \in Request
    BY <2>1, RequestType, SmallBatches DEF Ops
  <2>3. GoodRequest(c, Req("publish", <<batch[c][part[c] + 1]>>, NoCall, {}))
    BY <2>2 DEF GoodRequest, Req
  <2> QED
    BY <1>4, <2>2, <2>3 DEF PublishOneByOne
<1>5. CASE Publish(c)
  <2>1. PICK b \in Batches[c] : Send(c, Req("publish", b, NoCall, {}))
    BY <1>5 DEF Publish
  <2>2. Req("publish", b, NoCall, {}) \in Request
    BY RequestType, BatchesAssumption DEF Ops
  <2>3. GoodRequest(c, Req("publish", b, NoCall, {}))
    BY <2>2 DEF GoodRequest, Req
  <2> QED
    BY <1>5, <2>1, <2>2, <2>3 DEF Publish
<1>6. CASE RetryCall(c)
  <2>1. Current(c) \in Call /\ Current(c)[1] = c
    BY <1>0, <1>6, CurrentType DEF RetryCall, CallFails, Current
  <2>2. GoodRequest(c, req[Current(c)])
    BY <1>0, <2>1 DEF GoodRequest, CallInv, SeenInv, TypeOK
  <2> QED
    BY <1>0, <1>6, <2>1, <2>2 DEF RetryCall, TypeOK
<1>7. CASE RetryBatch(c)
  <2>1. Req("publish", batch[c], NoCall, {}) \in Request
    BY <1>0, RequestType DEF Ops, TypeOK
  <2>2. GoodRequest(c, Req("publish", batch[c], NoCall, {}))
    BY <2>1 DEF GoodRequest, Req
  <2> QED
    BY <1>7, <2>1, <2>2 DEF RetryBatch
<1>8. CASE RetriesExceeded(c) \/ ReceiveToken(c) \/ Receive(c)
           \/ ReceivePublished(c) \/ ReceiveDuplicate(c) \/ GiveUp(c)
  BY <1>8 DEF RetriesExceeded, ReceiveToken, Receive, ReceivePublished,
              ReceiveDuplicate, GiveUp
<1> QED
  BY <1>1, <1>2, <1>3, <1>4, <1>5, <1>6, <1>7, <1>8 DEF ClientStep, OnFailedCall

(* Sending a good request keeps the invariants on calls, tokens and rows. *)
LEMMA SendStep ==
  ASSUME IndInv, NEW c \in Clients, NEW q \in Request, GoodRequest(c, q),
         Send(c, q), UNCHANGED dbVars
  PROVE  CallInv' /\ TokenInv' /\ LockInv' /\ SerialInv' /\ UniqueInv' /\ SeenInv'
         /\ DecidedOnCurrentState'
<1> DEFINE new == <<c, calls[c] + 1>>
<1>1. calls[c] \in Nat /\ calls[c] + 1 \in 1..MaxCalls
  BY BoundsAssumption DEF Send, IndInv, TypeOK
<1>2. new \in Call /\ new[1] = c /\ new[2] = calls[c] + 1
  BY <1>1 DEF Call
<1>3. st[new] = "unused"
  BY <1>1, <1>2 DEF IndInv, CallInv
<1>4. /\ req'[new] = q /\ st'[new] = "sent"
      /\ \A k \in Call \ {new} : req'[k] = req[k] /\ st'[k] = st[k]
      /\ calls' = [calls EXCEPT ![c] = calls[c] + 1] /\ read' = read /\ rows' = rows
  BY <1>2 DEF Send, IndInv, TypeOK
<1> HIDE DEF new
<1>5. \A k \in Call : st[k] \in Replies => k # new /\ st'[k] \in Replies
  BY <1>3, <1>4 DEF Replies
<1>6. "sent" \notin TxStates /\ "sent" # "insert"
  BY DEF TxStates
<1>7. CallInv'
  <2> SUFFICES ASSUME NEW k \in Call PROVE CallInv!(k)'
    BY DEF CallInv
  <2>1. CASE k = new
    <3>1. req'[k] = q /\ calls'[c] = calls[c] + 1 /\ k[1] = c /\ k[2] = calls[c] + 1
      BY <1>2, <1>4, <2>1 DEF IndInv, TypeOK
    <3>2. ~(k[2] > calls'[k[1]])
      BY <1>1, <3>1
    <3>3. q.tok # NoCall => q.tok \in Call /\ q.tok[1] = k[1] /\ st[q.tok] \in Replies
      BY <3>1 DEF GoodRequest, Request
    <3>4. q.tok # NoCall => st'[q.tok] \in Replies
      BY <1>5, <3>3
    <3>5. q.op = "publishIfUnchanged" => q.tok # NoCall
      BY DEF GoodRequest
    <3> QED
      BY <3>1, <3>2, <3>3, <3>4, <3>5
  <2>2. CASE k # new
    <3>1. k[2] > calls'[k[1]] => k[2] > calls[k[1]]
      BY <1>1, <1>4 DEF IndInv, TypeOK, Call
    <3>2. req'[k] = req[k] /\ st'[k] = st[k]
      BY <1>4, <2>2
    <3>3. req[k].tok \in Call \cup {NoCall}
      BY DEF IndInv, TypeOK, Request
    <3>4. CallInv!(k)
      BY DEF IndInv, CallInv
    <3>5. req[k].tok # NoCall => st'[req[k].tok] \in Replies
      BY <1>5, <3>3, <3>4
    <3> QED
      BY <3>1, <3>2, <3>4, <3>5
  <2> QED
    BY <2>1, <2>2
<1>8. TokenInv'
  BY <1>4, <1>5 DEF IndInv, TokenInv, TypeOK, Token
<1>9. LockInv'
  BY <1>3, <1>4, <1>6 DEF IndInv, LockInv
<1>10. SerialInv' /\ UniqueInv'
  BY <1>4 DEF IndInv, SerialInv, UniqueInv
<1>11. SeenInv'
  BY <1>2, <1>4 DEF IndInv, SeenInv, GoodRequest
<1>12. DecidedOnCurrentState'
  BY <1>4, <1>6 DEF IndInv, DecidedOnCurrentState
<1> QED
  BY <1>7, <1>8, <1>9, <1>10, <1>11, <1>12

-----------------------------------------------------------------------------
(* What the server does keeps the invariants, one lemma per invariant. *)

(* A call that is answered stays answered, so what clients hold of it stays true. *)
LEMMA ServerClientInv ==
  ASSUME IndInv, NEW k \in Call, ServerStep(k) \/ Crash(k)
  PROVE  ClientInv' /\ CallInv'
<1>1. /\ UNCHANGED <<req, clientVars>>
      /\ \A j \in Call \ {k} : st'[j] = st[j]
      /\ st[k] \notin Replies /\ st[k] # "unused" /\ st'[k] # "unused"
  BY ServerEffect
<1>2. \A j \in Call : st[j] \in Replies => st'[j] = st[j]
  BY <1>1
<1>3. \A j \in Call : st[j] = "unused" => st'[j] = "unused"
  BY <1>1
<1>4. ClientInv'
  BY <1>1, <1>2 DEF IndInv, ClientInv, TypeOK
<1>5. ASSUME NEW j \in Call PROVE CallInv!(j)'
  <2>1. req[j].tok \in Call \cup {NoCall} /\ CallInv!(j)
    BY DEF IndInv, TypeOK, Request, CallInv
  <2> QED
    BY <1>1, <1>2, <1>3, <2>1
<1> QED
  BY <1>4, <1>5 DEF CallInv

(* A token is created with the serial its call has read, and only removed. *)
LEMMA ServerTokenInv ==
  ASSUME IndInv, NEW k \in Call, ServerStep(k) \/ Crash(k)
  PROVE  TokenInv'
<1>1. /\ \A j \in Call \ {k} : st'[j] = st[j] /\ read'[j] = read[j]
      /\ st[k] \notin Replies
  BY ServerEffect
<1>2. \A t \in tokens : t.id \in Call /\ t.id # k /\ TokenInv!(t)
  BY <1>1 DEF IndInv, TypeOK, Token, TokenInv
<1>3. CASE CreateToken(k)
  <2>1. tokens' = tokens \cup {[id |-> k, ser |-> read[k]]} /\ read' = read
    BY <1>3 DEF CreateToken
  <2>2. st'[k] \in Replies
    BY <1>3 DEF CreateToken, IndInv, TypeOK, Replies
  <2> QED
    BY <1>1, <1>2, <2>1, <2>2 DEF TokenInv
<1>4. CASE ~CreateToken(k)
  <2>1. tokens' \subseteq tokens
    BY <1>4 DEF ServerStep, ReadState, Invalidate, Reject, AquireExclusiveTXLock,
       CheckState, InsertFact, InsertDuplicate, Commit, Refuse, Crash
  <2> QED
    BY <1>1, <1>2, <2>1 DEF TokenInv
<1> QED
  BY <1>3, <1>4

(* The lock passes to a call only when nobody holds it, and rows are pending
   only in the holder's transaction. *)
LEMMA ServerLockInv ==
  ASSUME IndInv, NEW k \in Call, ServerStep(k) \/ Crash(k)
  PROVE  LockInv'
<1> USE DEF TxStates
<1>0. TypeOK /\ LockInv
  BY DEF IndInv
<1>1. /\ \A j \in Call \ {k} : st'[j] = st[j] /\ rows'[j] = rows[j]
  BY ServerEffect
<1>2. CASE AquireExclusiveTXLock(k)
  <2>1. \A j \in Call : st[j] \notin TxStates /\ rows'[j] = {}
    BY <1>0, <1>2 DEF AquireExclusiveTXLock, LockIsFree, LockInv, TypeOK
  <2> QED
    BY <1>1, <2>1 DEF LockInv
<1>3. CASE CheckState(k) \/ InsertFact(k)
  <2>1. st[k] \in TxStates /\ (rows'[k] # {} => st'[k] = "insert")
    BY <1>0, <1>3 DEF CheckState, InsertFact, LockInv, TypeOK
  <2> QED
    BY <1>0, <1>1, <2>1 DEF LockInv
<1>4. CASE ~(AquireExclusiveTXLock(k) \/ CheckState(k) \/ InsertFact(k))
  <2>1. st'[k] \notin TxStates /\ rows'[k] = {}
    BY <1>0, <1>4 DEF ServerStep, ReadState, CreateToken, Invalidate, Reject,
       InsertDuplicate, Commit, Refuse, Crash, LockInv, TypeOK
  <2> QED
    BY <1>0, <1>1, <2>1 DEF LockInv
<1> QED
  BY <1>2, <1>3, <1>4

(* A serial that is read is one of a committed row, or 0: older than the rows
   that are pending.  A new row is newer than all that. *)
LEMMA ServerSerialInv ==
  ASSUME IndInv, NEW k \in Call, ServerStep(k) \/ Crash(k)
  PROVE  SerialInv'
<1>0. TypeOK /\ SerialInv /\ LockInv
  BY DEF IndInv
<1>1. \A j \in Call \ {k} : read'[j] = read[j] /\ rows'[j] = rows[j]
  BY ServerEffect
<1>2. CASE ReadState(k)
  <2>1. UNCHANGED <<log, nextSer, rows>>
    BY <1>2 DEF ReadState
  <2>2. \/ read'[k] = 0
        \/ \E r \in log : r.ser = read'[k]
    BY <1>0, <1>2 DEF ReadState, IsLastSer, InScope, TypeOK
  <2> QED
    BY <1>0, <1>1, <2>1, <2>2 DEF SerialInv
<1>3. CASE InsertFact(k)
  <2>1. /\ UNCHANGED <<log, read>> /\ nextSer' = nextSer + 1
        /\ \A r \in rows'[k] : r \in rows[k] \/ r.ser = nextSer
    BY <1>0, <1>3 DEF InsertFact, TypeOK
  <2>2. /\ nextSer \in Nat
        /\ \A r \in log : r.ser \in Nat
        /\ \A j \in Call : read[j] \in Nat /\ \A r \in rows[j] : r.ser \in Nat
    BY <1>0 DEF TypeOK, Row
  <2> QED
    BY <1>0, <1>1, <2>1, <2>2 DEF SerialInv
<1>4. CASE Commit(k)
  <2>1. /\ log' = log \cup rows[k] /\ UNCHANGED <<nextSer, read>>
        /\ \A j \in Call : rows'[j] = {}
    BY <1>0, <1>1, <1>4 DEF Commit, LockInv, TypeOK, TxStates
  <2> QED
    BY <1>0, <2>1 DEF SerialInv
<1>5. CASE InsertDuplicate(k) \/ Crash(k)
  <2>1. /\ UNCHANGED <<log, read>> /\ nextSer' \in {nextSer, nextSer + 1}
        /\ rows'[k] = {}
    BY <1>0, <1>5 DEF InsertDuplicate, Crash, TypeOK
  <2>2. /\ nextSer \in Nat
        /\ \A r \in log : r.ser \in Nat
        /\ \A j \in Call : read[j] \in Nat /\ \A r \in rows[j] : r.ser \in Nat
    BY <1>0 DEF TypeOK, Row
  <2> QED
    BY <1>0, <1>1, <2>1, <2>2 DEF SerialInv
<1>6. CASE CreateToken(k) \/ Invalidate(k) \/ Reject(k)
           \/ AquireExclusiveTXLock(k) \/ CheckState(k) \/ Refuse(k)
  <2>1. UNCHANGED <<log, nextSer, read, rows>>
    BY <1>6 DEF CreateToken, Invalidate, Reject, AquireExclusiveTXLock,
       CheckState, Refuse
  <2> QED
    BY <1>0, <2>1 DEF SerialInv
<1> QED
  BY <1>2, <1>3, <1>4, <1>5, <1>6 DEF ServerStep

(* A row is inserted only if its id is neither in the log nor pending, and with
   a serial that is larger than all others. *)
LEMMA ServerUniqueInv ==
  ASSUME IndInv, NEW k \in Call, ServerStep(k) \/ Crash(k)
  PROVE  UniqueInv'
<1>0. TypeOK /\ SerialInv /\ LockInv /\ UniqueInv
  BY DEF IndInv
<1>1. \A j \in Call \ {k} : rows'[j] = rows[j]
  BY ServerEffect
<1>2. CASE InsertFact(k)
  <2>1. PICK f \in Fact :
          /\ ~IdTaken(k, f.id)
          /\ rows' = [rows EXCEPT ![k] =
                        @ \cup {[ser |-> nextSer, id |-> f.id, key |-> f.key]}]
    BY <1>2 DEF InsertFact
  <2> DEFINE new == [ser |-> nextSer, id |-> f.id, key |-> f.key]
  <2>2. rows'[k] = rows[k] \cup {new} /\ log' = log
    BY <1>0, <1>2, <2>1 DEF TypeOK, InsertFact
  <2>3. \A r \in log \cup rows[k] : r.ser # new.ser /\ r.id # new.id
    <3>1. \A r \in log \cup rows[k] : r.ser \in Nat /\ r.ser < nextSer
      BY <1>0 DEF SerialInv, TypeOK, Row
    <3> QED
      BY <1>0, <2>1, <3>1 DEF IdTaken, TypeOK
  <2> HIDE DEF new
  <2>4. Log!Distinct(log \cup rows[k])
    BY <1>0 DEF UniqueInv
  <2>5. Log!Distinct((log \cup rows[k]) \cup {new})
    BY <2>3, <2>4 DEF Log!Distinct
  <2>6. log' \cup rows'[k] = (log \cup rows[k]) \cup {new}
    BY <2>2
  <2> QED
    BY <1>0, <1>1, <2>2, <2>5, <2>6 DEF UniqueInv
<1>3. CASE Commit(k)
  <2>1. log' = log \cup rows[k] /\ \A j \in Call : rows'[j] = {}
    BY <1>0, <1>1, <1>3 DEF Commit, LockInv, TypeOK, TxStates
  <2>2. \A j \in Call : log' \cup rows'[j] = log'
    BY <2>1
  <2> QED
    BY <1>0, <2>1, <2>2 DEF UniqueInv
<1>4. CASE ~(InsertFact(k) \/ Commit(k))
  <2>1. log' = log /\ (rows'[k] = rows[k] \/ rows'[k] = {})
    BY <1>0, <1>4 DEF ServerStep, ReadState, CreateToken, Invalidate, Reject,
       AquireExclusiveTXLock, CheckState, InsertDuplicate, Refuse, Crash, TypeOK
  <2>2. log \cup {} = log
    OBVIOUS
  <2> QED
    BY <1>0, <1>1, <2>1, <2>2 DEF UniqueInv
<1> QED
  BY <1>2, <1>3, <1>4

(* What commits after a token was issued is newer than the token: it was either
   pending then, or inserted later. *)
LEMMA ServerSeenInv ==
  ASSUME IndInv, NEW k \in Call, ServerStep(k) \/ Crash(k)
  PROVE  SeenInv'
<1>0. TypeOK /\ SerialInv /\ SeenInv /\ CallInv
  BY DEF IndInv
<1>1. /\ req' = req /\ log \subseteq log'
      /\ \A j \in Call \ {k} : read'[j] = read[j]
      /\ st[k] \notin Replies
  BY ServerEffect
<1>2. log' \subseteq log \cup rows[k]
  BY DEF ServerStep, ReadState, CreateToken, Invalidate, Reject,
     AquireExclusiveTXLock, CheckState, InsertFact, InsertDuplicate, Commit,
     Refuse, Crash
<1> SUFFICES ASSUME NEW j \in Call, req[j].op = "publishIfUnchanged"
             PROVE  /\ req[j].seen \subseteq InScope(log', Scope[j[1]])
                    /\ \A r \in InScope(log', Scope[j[1]]) :
                         r.ser <= read'[req[j].tok] => r \in req[j].seen
  BY <1>1 DEF SeenInv, InScope
<1>3. req[j].tok \in Call /\ req[j].tok # k
  BY <1>0, <1>1 DEF CallInv, TypeOK, Request
<1>4. read'[req[j].tok] = read[req[j].tok]
  BY <1>1, <1>3
<1>5. \A r \in rows[k] : ~(r.ser <= read[req[j].tok])
  BY <1>0, <1>3 DEF SerialInv, TypeOK, Row
<1> QED
  BY <1>0, <1>1, <1>2, <1>4, <1>5 DEF SeenInv, InScope

(* The check under the lock turns what the token promises into equality, and
   nobody else can commit while the lock is held. *)
LEMMA ServerDecided ==
  ASSUME IndInv, NEW k \in Call, ServerStep(k) \/ Crash(k)
  PROVE  DecidedOnCurrentState'
<1>0. TypeOK /\ CallInv /\ TokenInv /\ LockInv /\ SeenInv /\ DecidedOnCurrentState
  BY DEF IndInv
<1>1. req' = req /\ \A j \in Call \ {k} : st'[j] = st[j]
  BY ServerEffect
<1>2. CASE Commit(k)
  <2>1. \A j \in Call : st'[j] # "insert"
    BY <1>0, <1>1, <1>2 DEF Commit, LockInv, TypeOK, TxStates
  <2> QED
    BY <2>1 DEF DecidedOnCurrentState
<1>3. CASE CheckState(k)
  <2>1. log' = log
    BY <1>3 DEF CheckState
  <2>2. ASSUME st'[k] = "insert", req[k].op = "publishIfUnchanged"
        PROVE  InScope(log, Scope[k[1]]) = req[k].seen
    <3>1. StateUnchanged(k)
      BY <1>0, <1>3, <2>2 DEF CheckState, TypeOK
    <3>2. PICK t \in tokens : t.id = req[k].tok /\ Since(log, Scope[t.id[1]], t.ser) = {}
      BY <3>1 DEF StateUnchanged
    <3>3. t.ser = read[req[k].tok] /\ t.id[1] = k[1]
      BY <1>0, <2>2, <3>2 DEF TokenInv, CallInv
    <3>4. \A r \in InScope(log, Scope[k[1]]) : r.ser <= read[req[k].tok]
      <4>1. \A r \in InScope(log, Scope[k[1]]) : ~(r.ser > t.ser) /\ r.ser \in Nat
        BY <1>0, <3>2, <3>3 DEF Since, InScope, TypeOK, Row
      <4> QED
        BY <1>0, <3>3, <4>1 DEF TypeOK, Token
    <3> QED
      BY <1>0, <2>2, <3>4 DEF SeenInv
  <2> QED
    BY <1>0, <1>1, <2>1, <2>2 DEF DecidedOnCurrentState
<1>4. CASE ~(Commit(k) \/ CheckState(k))
  <2>1. /\ log' = log
        /\ st'[k] = "insert" /\ req[k].op = "publishIfUnchanged" => st[k] = "insert"
    BY <1>0, <1>4 DEF ServerStep, ReadState, CreateToken, Invalidate, Reject,
       AquireExclusiveTXLock, InsertFact, InsertDuplicate, Refuse, Crash, TypeOK
  <2> QED
    BY <1>0, <1>1, <2>1 DEF DecidedOnCurrentState
<1> QED
  BY <1>2, <1>3, <1>4

-----------------------------------------------------------------------------
(* A step of a client keeps what the clients know of their calls: a token is
   taken from a reply, and replies do not change. *)
LEMMA ClientClientInv ==
  ASSUME IndInv, NEW c \in Clients,
         ClientStep(c) \/ Publish(c) \/ OnFailedCall(c)
  PROVE  ClientInv'
<1>0. TypeOK /\ ClientInv /\ CallInv
  BY DEF IndInv
<1>1. \A k \in Call : st[k] \in Replies => st'[k] \in Replies
  <2>1. CASE UNCHANGED <<callVars, calls>>
    BY <2>1
  <2>2. CASE \E q \in Request : Send(c, q)
    <3> DEFINE new == <<c, calls[c] + 1>>
    <3>1. calls[c] \in Nat /\ calls[c] + 1 \in 1..MaxCalls
      BY <1>0, <2>2, BoundsAssumption DEF Send, TypeOK
    <3>2. new \in Call /\ new[1] = c /\ new[2] = calls[c] + 1
      BY <3>1 DEF Call
    <3>3. st[new] = "unused"
      BY <1>0, <3>1, <3>2 DEF CallInv
    <3>4. \A k \in Call \ {new} : st'[k] = st[k]
      BY <1>0, <2>2 DEF Send, TypeOK
    <3> HIDE DEF new
    <3> QED
      BY <3>3, <3>4 DEF Replies
  <2> QED
    BY <2>1, <2>2, ClientEffect
<1>2. \A d \in Clients : calls'[d] >= calls[d]
  <2>1. \A d \in Clients : calls[d] \in Nat
    BY <1>0, BoundsAssumption DEF TypeOK
  <2>2. calls' = calls \/ calls' = [calls EXCEPT ![c] = @ + 1]
    BY ClientEffect DEF Send
  <2>3. calls \in [Clients -> Nat]
    BY <1>0, <2>1 DEF TypeOK
  <2>4. CASE calls' = calls
    BY <2>1, <2>4
  <2>5. CASE calls' = [calls EXCEPT ![c] = @ + 1]
    BY <2>3, <2>5
  <2> QED
    BY <2>2, <2>4, <2>5
<1>3. \A d \in Clients : d # c => pc'[d] = pc[d] /\ token'[d] = token[d]
  BY <1>0 DEF ClientStep, OnFailedCall, Attempt, RetriesExceeded, ReceiveToken,
     RunPublish, RunWithoutPublication, Receive, ReceivePublished,
     PublishOneByOne, ReceiveDuplicate, Publish, RetryCall, RetryBatch, GiveUp,
     TypeOK
<1>4. ASSUME NEW d \in Clients, d # c PROVE ClientInv!(d)'
  <2>1. ClientInv!(d) /\ token[d] \in Call \cup {NoCall}
    BY <1>0 DEF ClientInv, TypeOK
  <2>2. calls[d] \in Nat /\ calls'[d] \in Nat /\ calls'[d] >= calls[d]
    BY <1>0, <1>2, TypeStep DEF TypeOK, Next
  <2> QED
    BY <1>1, <1>3, <1>4, <2>1, <2>2
<1>5. ClientInv!(c)'
  <2>1. ClientInv!(c) /\ token[c] \in Call \cup {NoCall} /\ calls[c] \in Nat
    BY <1>0 DEF ClientInv, TypeOK
  <2>2. CASE ReceiveToken(c)
    <3>1. Current(c) \in Call /\ Current(c)[1] = c
      BY <1>0, <2>2, CurrentType DEF ReceiveToken, Ops, Current
    <3>2. /\ token'[c] = Current(c) /\ st'[Current(c)] \in Replies
          /\ pc'[c] = "run"
      BY <1>0, <2>2 DEF ReceiveToken, TypeOK, Replies
    <3>3. Current(c) # NoCall
      BY DEF Current
    <3> QED
      BY <3>1, <3>2, <3>3 DEF Ops
  <2>3. CASE ~ReceiveToken(c)
    <3>1. token' = token /\ pc'[c] # "run"
      BY <1>0, <2>3 DEF ClientStep, OnFailedCall, Attempt, RetriesExceeded,
         RunPublish, RunWithoutPublication, Receive, ReceivePublished,
         PublishOneByOne, ReceiveDuplicate, Publish, RetryCall, RetryBatch,
         GiveUp, CallFails, FactsArePublished, TypeOK, Ops
    <3>2. pc'[c] \in Ops => calls'[c] >= 1
      <4>1. CASE Attempt(c) \/ RunPublish(c) \/ RunWithoutPublication(c)
                 \/ PublishOneByOne(c) \/ Publish(c) \/ RetryCall(c) \/ RetryBatch(c)
        BY <1>0, <2>1, <4>1 DEF Attempt, RunPublish, RunWithoutPublication,
           PublishOneByOne, Publish, RetryCall, RetryBatch, Send, TypeOK
      <4>2. CASE RetriesExceeded(c) \/ Receive(c) \/ ReceivePublished(c)
                 \/ ReceiveDuplicate(c) \/ GiveUp(c)
        BY <1>0, <4>2 DEF RetriesExceeded, Receive, ReceivePublished,
           ReceiveDuplicate, GiveUp, TypeOK, Ops
      <4> QED
        BY <2>3, <4>1, <4>2 DEF ClientStep, OnFailedCall
    <3> QED
      BY <1>1, <2>1, <3>1, <3>2
  <2> QED
    BY <2>2, <2>3
<1> QED
  BY <1>4, <1>5 DEF ClientInv

-----------------------------------------------------------------------------
(* The initial states satisfy IndInv. *)
LEMMA InitIndInv == Init => IndInv
<1> SUFFICES ASSUME Init PROVE IndInv
  OBVIOUS
<1>1. Req("none", <<>>, NoCall, {}) \in Request
  BY SmallBatches DEF Req, Request
<1>2. TypeOK
  BY <1>1, SmallBatches, BoundsAssumption DEF Init, TypeOK
<1>3. ClientInv /\ CallInv
  BY DEF Init, ClientInv, CallInv, Req, Ops
<1>4. TokenInv /\ LockInv /\ SerialInv
  BY DEF Init, TokenInv, LockInv, SerialInv, TxStates
<1>5. UniqueInv
  BY DEF Init, UniqueInv, Log!Distinct
<1>6. SeenInv /\ DecidedOnCurrentState
  BY DEF Init, SeenInv, DecidedOnCurrentState, Req
<1> QED
  BY <1>2, <1>3, <1>4, <1>5, <1>6 DEF IndInv

(* IndInv is inductive. *)
LEMMA NextIndInv == IndInv /\ [Next]_vars => IndInv'
<1> SUFFICES ASSUME IndInv, [Next]_vars PROVE IndInv'
  OBVIOUS
<1>1. ASSUME NEW k \in Call, ServerStep(k) \/ Crash(k) PROVE IndInv'
  <2>1. TypeOK'
    BY <1>1, TypeStep DEF Next
  <2> QED
    BY <1>1, <2>1, ServerClientInv, ServerTokenInv, ServerLockInv,
       ServerSerialInv, ServerUniqueInv, ServerSeenInv, ServerDecided DEF IndInv
<1>2. ASSUME NEW c \in Clients, ClientStep(c) \/ Publish(c) \/ OnFailedCall(c)
      PROVE  IndInv'
  <2>1. TypeOK' /\ ClientInv'
    BY <1>2, TypeStep, ClientClientInv DEF Next
  <2>2. UNCHANGED dbVars
    BY <1>2, ClientEffect
  <2>3. CASE UNCHANGED <<callVars, calls>>
    BY <2>1, <2>2, <2>3 DEF IndInv, CallInv, TokenInv, LockInv, SerialInv,
       UniqueInv, SeenInv, DecidedOnCurrentState
  <2>4. CASE \E q \in Request : GoodRequest(c, q) /\ Send(c, q)
    BY <2>1, <2>2, <2>4, SendStep DEF IndInv
  <2> QED
    BY <1>2, <2>3, <2>4, ClientEffect
<1>3. CASE Compact
  <2>1. TypeOK'
    BY <1>3, TypeStep DEF Next
  <2>2. tokens' \subseteq tokens /\ UNCHANGED <<log, nextSer, callVars, clientVars>>
    BY <1>3 DEF Compact
  <2> QED
    BY <2>1, <2>2 DEF IndInv, ClientInv, CallInv, TokenInv, LockInv, SerialInv,
       UniqueInv, SeenInv, DecidedOnCurrentState
<1>4. CASE UNCHANGED vars
  BY <1>4 DEF IndInv, TypeOK, ClientInv, CallInv, TokenInv, LockInv, SerialInv,
     UniqueInv, SeenInv, DecidedOnCurrentState
<1> QED
  BY <1>1, <1>2, <1>3, <1>4 DEF Next, Terminated

(* The inductive invariant holds in every state of every behaviour. *)
THEOREM Invariance == Spec => []IndInv
BY InitIndInv, NextIndInv, PTL DEF Spec

(* The variables of FactStore always have their types. *)
THEOREM TypeCorrect == Spec => []TypeOK
<1>1. IndInv => TypeOK
  BY DEF IndInv
<1> QED
  BY <1>1, Invariance, PTL

(* No lost update, for any number of clients and calls: publishIfUnchanged never
   inserts on a state that is not the one the business logic saw. *)
THEOREM NoLostUpdate == Spec => []DecidedOnCurrentState
<1>1. IndInv => DecidedOnCurrentState
  BY DEF IndInv
<1> QED
  BY <1>1, Invariance, PTL

(* A step of the store adds newer rows to the log, or none. *)
LEMMA LogStep == IndInv /\ [Next]_vars => [Log!Next]_log
<1> SUFFICES ASSUME IndInv, [Next]_vars, log' # log PROVE Log!Next
  OBVIOUS
<1>1. PICK k \in Call : Commit(k)
  <2>1. ASSUME NEW c \in Clients, ClientStep(c) \/ Publish(c) \/ OnFailedCall(c)
        PROVE  log' = log
    BY <2>1, ClientEffect
  <2> QED
    BY <2>1 DEF Next, Compact, Terminated, ServerStep, ReadState, CreateToken,
       Invalidate, Reject, AquireExclusiveTXLock, CheckState, InsertFact,
       InsertDuplicate, Refuse, Crash
<1>2. log' = log \cup rows[k] /\ rows[k] \subseteq Row
  BY <1>1 DEF Commit, IndInv, TypeOK
<1>3. log' \ log \subseteq rows[k] /\ log \cup (log' \ log) = log \cup rows[k]
  BY <1>2
<1>4. Log!Newer(log' \ log, log)
  BY <1>3 DEF Log!Newer, IndInv, SerialInv
<1>5. Log!Distinct(log \cup (log' \ log))
  BY <1>3 DEF IndInv, UniqueInv
<1> QED
  BY <1>2, <1>3, <1>4, <1>5 DEF Log!Next, Log!Append, Log!Row, Row

(* The fact table, with its sequence, its advisory lock and its transactions,
   implements the append-only log that all readers by serial rely on. *)
THEOREM ImplementsLog == Spec => AppendsInOrder
<1>1. Init => Log!Init
  BY DEF Init, Log!Init
<1> QED
  BY <1>1, LogStep, Invariance, PTL DEF Spec, AppendsInOrder, Log!Spec

-----------------------------------------------------------------------------
(* What is reported as published is in the log. *)

(* The log only grows. *)
LEMMA LogGrows == ASSUME IndInv, [Next]_vars PROVE log \subseteq log'
<1>1. CASE log' = log
  BY <1>1
<1>2. CASE log' # log
  <2>1. ASSUME NEW k \in Call, ServerStep(k) \/ Crash(k) PROVE log \subseteq log'
    BY <2>1, ServerEffect
  <2>2. ASSUME NEW c \in Clients, ClientStep(c) \/ Publish(c) \/ OnFailedCall(c)
        PROVE  log' = log
    BY <2>2, ClientEffect
  <2> QED
    BY <1>2, <2>1, <2>2 DEF Next, Compact, Terminated
<1> QED
  BY <1>1, <1>2

(* A call that does not move keeps its outcome. *)
LEMMA OutcomeStays ==
  ASSUME NEW k \in Call, CallOutcome(k), log \subseteq log',
         req'[k] = req[k], st'[k] = st[k], rows'[k] = rows[k]
  PROVE  CallOutcome(k)'
BY DEF CallOutcome, Logged, IsPublishing

(* A call that has inserted nothing and is not through has no outcome yet. *)
LEMMA NoOutcome ==
  ASSUME NEW k \in Call, rows'[k] = {}, st'[k] \notin {"read", "ok", "true", "duplicate"},
         st'[k] \in TxStates => IsPublishing(k)'
  PROVE  CallOutcome(k)'
<1>1. IsFiniteSet({}) /\ Cardinality({}) = 0
  BY FS_EmptySet
<1>2. \A i \in 1..Cardinality({}) : FALSE
  BY <1>1
<1> QED
  BY <1>1, <1>2 DEF CallOutcome

(* The fact of the batch whose turn it is. *)
LEMMA NextFactPlace ==
  ASSUME IndInv, OutcomeInv, NEW k \in Call
  PROVE  /\ Cardinality(rows[k]) \in Nat /\ Len(req[k].batch) \in Nat
         /\ \A f \in Fact : IsNextFact(k, f) => /\ Cardinality(rows[k]) + 1 <= Len(req[k].batch)
                                                /\ f = req[k].batch[Cardinality(rows[k]) + 1]
         /\ (\A f \in Fact : ~IsNextFact(k, f)) => Len(req[k].batch) <= Cardinality(rows[k])
<1>1. Cardinality(rows[k]) \in Nat
  BY FS_CardinalityType DEF OutcomeInv, CallOutcome
<1>2. req[k].batch \in Seq(Fact) /\ Len(req[k].batch) \in Nat
  <2>1. req[k].batch \in Seq(Fact)
    BY DEF IndInv, TypeOK, Request
  <2> QED
    BY <2>1
<1>3. ASSUME NEW f \in Fact, IsNextFact(k, f)
      PROVE  /\ Cardinality(rows[k]) + 1 <= Len(req[k].batch)
             /\ f = req[k].batch[Cardinality(rows[k]) + 1]
  <2>1. PICK i \in 1..Len(req[k].batch) : /\ i = Cardinality(rows[k]) + 1
                                          /\ f = req[k].batch[i]
    BY <1>3 DEF IsNextFact
  <2> QED
    BY <1>1, <1>2, <2>1
<1>4. ASSUME \A f \in Fact : ~IsNextFact(k, f), ~(Len(req[k].batch) <= Cardinality(rows[k]))
      PROVE  FALSE
  <2>1. Cardinality(rows[k]) + 1 \in 1..Len(req[k].batch)
    BY <1>1, <1>2, <1>4
  <2>2. req[k].batch[Cardinality(rows[k]) + 1] \in Fact
    BY <1>2, <2>1
  <2> QED
    BY <1>4, <2>1, <2>2 DEF IsNextFact
<1> QED
  BY <1>1, <1>2, <1>3, <1>4

(* A call without pending rows has none to count. *)
LEMMA RowsOfOthers ==
  ASSUME IndInv, NEW k \in Call, st[k] # "insert" PROVE rows[k] = {}
BY DEF IndInv, LockInv

(* The transaction inserts the facts of the batch in their order. *)
LEMMA InsertFactOutcome ==
  ASSUME IndInv, OutcomeInv, NEW k \in Call, InsertFact(k)
  PROVE  CallOutcome(k)'
<1> DEFINE n == Cardinality(rows[k])
<1>1. PICK f \in Fact :
        /\ IsNextFact(k, f)
        /\ rows' = [rows EXCEPT ![k] =
                      rows[k] \cup {[ser |-> nextSer, id |-> f.id, key |-> f.key]}]
  BY DEF InsertFact
<1>2. st[k] = "insert" /\ st' = st /\ req' = req /\ log' = log
  BY DEF InsertFact
<1> DEFINE new == [ser |-> nextSer, id |-> f.id, key |-> f.key]
<1>3. rows'[k] = rows[k] \cup {new}
  BY <1>1 DEF IndInv, TypeOK
<1>4. new \notin rows[k]
  <2>1. \A r \in rows[k] : r.ser < nextSer /\ nextSer \in Nat
    BY DEF IndInv, SerialInv, TypeOK
  <2>2. new \in rows[k] => nextSer < nextSer /\ nextSer \in Nat
    BY <2>1
  <2>3. \A m \in Nat : ~(m < m)
    OBVIOUS
  <2> QED
    BY <2>2, <2>3
<1>5. n \in Nat /\ n + 1 <= Len(req[k].batch) /\ f = req[k].batch[n + 1]
  BY <1>1, NextFactPlace
<1>6. IsFiniteSet(rows[k]) /\ \A i \in 1..n : \E r \in rows[k] : r.id = req[k].batch[i].id
  BY DEF OutcomeInv, CallOutcome
<1>7. IsFiniteSet(rows'[k]) /\ Cardinality(rows'[k]) = n + 1
  <2>1. \A S, x : IsFiniteSet(S) /\ x \notin S =>
          IsFiniteSet(S \cup {x}) /\ Cardinality(S \cup {x}) = Cardinality(S) + 1
    BY FS_AddElement
  <2> HIDE DEF new
  <2> QED
    BY <1>3, <1>4, <1>6, <2>1
<1>8. \A i \in 1..(n + 1) : \E r \in rows'[k] : r.id = req[k].batch[i].id
  <2>1. new.id = req[k].batch[n + 1].id /\ new \in rows'[k]
    BY <1>3, <1>5
  <2>2. \A i \in 1..(n + 1) : i \in 1..n \/ i = n + 1
    BY <1>5
  <2>3. ASSUME NEW i \in 1..n PROVE \E r \in rows'[k] : r.id = req[k].batch[i].id
    BY <1>3, <1>6
  <2> HIDE DEF new, n
  <2> QED
    BY <2>1, <2>2, <2>3
<1>9. IsPublishing(k)
  BY <1>2 DEF OutcomeInv, CallOutcome, TxStates
<1> HIDE DEF n, new
<1> QED
  BY <1>2, <1>7, <1>8, <1>9 DEF CallOutcome, IsPublishing

(* The unique index refuses a fact; if it is the only one, it is in the log. *)
LEMMA InsertDuplicateOutcome ==
  ASSUME IndInv, OutcomeInv, NEW k \in Call, InsertDuplicate(k)
  PROVE  CallOutcome(k)'
<1>1. PICK f \in Fact : IsNextFact(k, f) /\ IdTaken(k, f.id)
  BY DEF InsertDuplicate
<1>2. /\ st[k] = "insert" /\ req' = req /\ log' = log
      /\ rows'[k] = {} /\ st'[k] \in {"duplicate", "fault"}
  BY DEF InsertDuplicate, IndInv, TypeOK
<1>3. CASE Len(req[k].batch) = 1
  <2>1. Cardinality(rows[k]) = 0 /\ f = req[k].batch[1]
    <3>1. /\ Cardinality(rows[k]) \in Nat /\ Cardinality(rows[k]) + 1 <= 1
          /\ f = req[k].batch[Cardinality(rows[k]) + 1]
      BY <1>1, <1>3, NextFactPlace
    <3>2. \A m \in Nat : m + 1 <= 1 => m = 0 /\ m + 1 = 1
      OBVIOUS
    <3> QED
      BY <3>1, <3>2
  <2>2. rows[k] = {}
    BY <2>1, FS_EmptySet DEF OutcomeInv, CallOutcome
  <2>3. Logged(req[k].batch[1].id)
    BY <1>1, <2>1, <2>2 DEF IdTaken, Logged
  <2>4. IsFiniteSet({}) /\ Cardinality({}) = 0
    BY FS_EmptySet
  <2>5. \A i \in 1..Cardinality({}) : FALSE
    BY <2>4
  <2> QED
    BY <1>2, <2>3, <2>4, <2>5 DEF CallOutcome, Logged, TxStates
<1>4. CASE Len(req[k].batch) # 1
  <2>1. IsFiniteSet({}) /\ Cardinality({}) = 0
    BY FS_EmptySet
  <2>2. \A i \in 1..Cardinality({}) : FALSE
    BY <2>1
  <2> QED
    BY <1>2, <1>4, <2>1, <2>2 DEF CallOutcome, TxStates
<1> QED
  BY <1>3, <1>4

(* A commit makes the whole batch visible. *)
LEMMA CommitOutcome ==
  ASSUME IndInv, OutcomeInv, NEW k \in Call, Commit(k)
  PROVE  CallOutcome(k)'
<1>1. /\ st[k] = "insert" /\ req' = req /\ log' = log \cup rows[k]
      /\ rows'[k] = {} /\ st'[k] \in {"ok", "true"}
      /\ \A f \in Fact : ~IsNextFact(k, f)
  BY DEF Commit, IndInv, TypeOK
<1>2. /\ Cardinality(rows[k]) \in Nat /\ Len(req[k].batch) \in Nat
      /\ Len(req[k].batch) <= Cardinality(rows[k])
  BY <1>1, NextFactPlace
<1>3. \A i \in 1..Len(req[k].batch) : i \in 1..Cardinality(rows[k])
  BY <1>2
<1>4. \A i \in 1..Len(req[k].batch) : \E r \in log' : r.id = req[k].batch[i].id
  BY <1>1, <1>3 DEF OutcomeInv, CallOutcome
<1>5. IsFiniteSet({}) /\ Cardinality({}) = 0
  BY FS_EmptySet
<1>6. \A i \in 1..Cardinality({}) : FALSE
  BY <1>5
<1> QED
  BY <1>1, <1>4, <1>5, <1>6 DEF CallOutcome, Logged, TxStates

(* Every step of the server keeps the outcomes of all calls. *)
LEMMA ServerOutcome ==
  ASSUME IndInv, OutcomeInv, NEW k \in Call, ServerStep(k) \/ Crash(k)
  PROVE  \A j \in Call : CallOutcome(j)'
<1>1. /\ req' = req /\ log \subseteq log'
      /\ \A j \in Call \ {k} : st'[j] = st[j] /\ rows'[j] = rows[j]
  BY ServerEffect
<1>2. \A j \in Call \ {k} : CallOutcome(j)'
  BY <1>1, OutcomeStays DEF OutcomeInv
<1> SUFFICES CallOutcome(k)'
  BY <1>2
<1>3. CallOutcome(k)
  BY DEF OutcomeInv
<1>4. CASE ReadState(k)
  <2>1. /\ st[k] = "sent" /\ req[k].op = "currentStateFor" /\ st'[k] = "read"
        /\ rows'[k] = rows[k] /\ req'[k] = req[k]
    BY <1>4 DEF ReadState, IndInv, TypeOK
  <2> QED
    BY <1>3, <2>1 DEF CallOutcome, TxStates
<1>5. CASE CreateToken(k)
  <2>1. st[k] = "read" /\ st'[k] = "ok" /\ rows'[k] = rows[k] /\ req'[k] = req[k]
    BY <1>5 DEF CreateToken, IndInv, TypeOK
  <2> QED
    BY <1>3, <2>1 DEF CallOutcome, TxStates, IsPublishing
<1>6. CASE Invalidate(k)
  <2>1. st'[k] = "ok" /\ rows'[k] = rows[k] /\ req'[k] = req[k] /\ req[k].op = "invalidate"
    BY <1>6 DEF Invalidate, IndInv, TypeOK
  <2> QED
    BY <1>3, <2>1 DEF CallOutcome, TxStates, IsPublishing
<1>7. CASE Reject(k)
  <2>1. st[k] = "sent" /\ st'[k] = "error" /\ rows'[k] = rows[k] /\ req'[k] = req[k]
    BY <1>7 DEF Reject, IndInv, TypeOK
  <2> QED
    BY <2>1, RowsOfOthers, NoOutcome DEF TxStates
<1>8. CASE AquireExclusiveTXLock(k)
  <2>1. /\ st[k] = "sent" /\ IsPublishing(k) /\ st'[k] \in {"insert", "check"}
        /\ rows'[k] = rows[k] /\ req'[k] = req[k]
    BY <1>8 DEF AquireExclusiveTXLock, IndInv, TypeOK
  <2> QED
    BY <2>1, RowsOfOthers, NoOutcome DEF IsPublishing
<1>9. CASE CheckState(k)
  <2>1. /\ st[k] = "check" /\ st'[k] \in {"insert", "refuse"}
        /\ rows'[k] = rows[k] /\ req'[k] = req[k]
    BY <1>9 DEF CheckState, IndInv, TypeOK
  <2>2. IsPublishing(k)
    BY <1>3, <2>1 DEF CallOutcome, TxStates
  <2> QED
    BY <2>1, <2>2, RowsOfOthers, NoOutcome DEF IsPublishing
<1>10. CASE Refuse(k)
  <2>1. st[k] = "refuse" /\ st'[k] = "false" /\ rows'[k] = rows[k] /\ req'[k] = req[k]
    BY <1>10 DEF Refuse, IndInv, TypeOK
  <2> QED
    BY <2>1, RowsOfOthers, NoOutcome DEF TxStates
<1>11. CASE Crash(k)
  <2>1. st'[k] = "fault" /\ rows'[k] = {} /\ req'[k] = req[k]
    BY <1>11 DEF Crash, IndInv, TypeOK
  <2> QED
    BY <2>1, NoOutcome DEF TxStates
<1> QED
  BY <1>4, <1>5, <1>6, <1>7, <1>8, <1>9, <1>10, <1>11,
     InsertFactOutcome, InsertDuplicateOutcome, CommitOutcome DEF ServerStep

(* The outcome of a client whose call and variables stay as they are. *)
LEMMA ClientOutcomeStays ==
  ASSUME NEW c \in Clients, ClientOutcome(c), log \subseteq log',
         pc'[c] = pc[c], part'[c] = part[c], batch'[c] = batch[c], calls'[c] = calls[c],
         pc[c] \in Ops => req'[Current(c)] = req[Current(c)]
  PROVE  ClientOutcome(c)'
<1>1. Current(c)' = Current(c)
  BY DEF Current
<1>2. /\ pc[c] = "publish" => req'[Current(c)] = req[Current(c)]
      /\ pc[c] = "publishIfUnchanged" => req'[Current(c)] = req[Current(c)]
  BY DEF Ops
<1>3. \A id : Logged(id) => Logged(id)'
  BY DEF Logged
<1> QED
  BY <1>1, <1>2, <1>3 DEF ClientOutcome, IsPublishing

(* A client that sends a request moves no other call and no other client. *)
LEMMA SendOutcome ==
  ASSUME IndInv, OutcomeInv, NEW c \in Clients, NEW q \in Request, Send(c, q),
         UNCHANGED dbVars
  PROVE  /\ \A k \in Call : CallOutcome(k)'
         /\ Current(c)' \in Call /\ req'[Current(c)'] = q
         /\ \A d \in Clients : d # c /\ pc'[d] = pc[d] /\ part'[d] = part[d]
                               /\ batch'[d] = batch[d] => ClientOutcome(d)'
<1> DEFINE new == <<c, calls[c] + 1>>
<1>1. calls[c] \in Nat /\ calls[c] + 1 \in 1..MaxCalls
  BY BoundsAssumption DEF Send, IndInv, TypeOK
<1>2. new \in Call /\ new[1] = c /\ new[2] = calls[c] + 1
  BY <1>1 DEF Call
<1>3. st[new] = "unused"
  BY <1>1, <1>2 DEF IndInv, CallInv
<1>4. /\ req'[new] = q /\ st'[new] = "sent"
      /\ \A k \in Call \ {new} : req'[k] = req[k] /\ st'[k] = st[k]
      /\ calls' = [calls EXCEPT ![c] = calls[c] + 1] /\ rows' = rows
  BY <1>2 DEF Send, IndInv, TypeOK
<1>5. Current(c)' = new
  BY <1>4 DEF Current, IndInv, TypeOK
<1> HIDE DEF new
<1>6. ASSUME NEW k \in Call PROVE CallOutcome(k)'
  <2>1. CASE k = new
    BY <1>3, <1>4, <2>1, RowsOfOthers, NoOutcome DEF TxStates
  <2>2. CASE k # new
    <3>1. req'[k] = req[k] /\ st'[k] = st[k] /\ rows'[k] = rows[k] /\ log \subseteq log'
      BY <1>4, <2>2
    <3> QED
      BY <3>1, OutcomeStays DEF OutcomeInv
  <2> QED
    BY <2>1, <2>2
<1>7. ASSUME NEW d \in Clients, d # c, pc'[d] = pc[d], part'[d] = part[d],
             batch'[d] = batch[d]
      PROVE  ClientOutcome(d)'
  <2>1. calls'[d] = calls[d]
    BY <1>4, <1>7 DEF IndInv, TypeOK
  <2>2. Current(d) # new
    BY <1>2, <1>7 DEF Current
  <2>3. pc[d] \in Ops => req'[Current(d)] = req[Current(d)]
    BY <1>4, <2>2, CurrentType DEF IndInv
  <2>4. log \subseteq log' /\ ClientOutcome(d)
    BY DEF OutcomeInv
  <2> QED
    BY <1>7, <2>1, <2>3, <2>4, ClientOutcomeStays
<1> QED
  BY <1>2, <1>4, <1>5, <1>6, <1>7

(* What the reply to publish says, when it counts as success. *)
LEMMA FactsAreLogged ==
  ASSUME IndInv, OutcomeInv, NEW c \in Clients, FactsArePublished(c)
  PROVE  \A i \in 1..Len(req[Current(c)].batch) : Logged(req[Current(c)].batch[i].id)
<1>1. pc[c] = "publish" /\ IsPublishing(Current(c)) /\ Current(c) \in Call
  BY CurrentType DEF FactsArePublished, OutcomeInv, ClientOutcome, IndInv, Ops
<1>2. CASE st[Current(c)] = "ok"
  BY <1>1, <1>2 DEF OutcomeInv, CallOutcome
<1>3. CASE st[Current(c)] = "duplicate" /\ Len(req[Current(c)].batch) = 1
  <2>1. Logged(req[Current(c)].batch[1].id)
    BY <1>1, <1>3 DEF OutcomeInv, CallOutcome
  <2>2. \A i \in 1..1 : i = 1
    OBVIOUS
  <2> QED
    BY <1>3, <2>1, <2>2
<1> QED
  BY <1>2, <1>3 DEF FactsArePublished

(* The facts that went out one by one, up to the one that has just come back. *)
LEMMA PartsAreLogged ==
  ASSUME IndInv, OutcomeInv, NEW c \in Clients, FactsArePublished(c)
  PROVE  /\ part[c] = 0 => \A i \in 1..Len(batch[c]) : Logged(batch[c][i].id)
         /\ part[c] # 0 => \A i \in 1..Len(batch[c]) : i <= part[c] => Logged(batch[c][i].id)
<1>1. pc[c] = "publish" /\ ClientOutcome(c)
  BY DEF FactsArePublished, OutcomeInv
<1>2. \A i \in 1..Len(req[Current(c)].batch) : Logged(req[Current(c)].batch[i].id)
  BY FactsAreLogged
<1>3. CASE part[c] = 0
  BY <1>1, <1>2, <1>3 DEF ClientOutcome
<1>4. CASE part[c] # 0
  <2>1. /\ req[Current(c)].batch = <<batch[c][part[c]]>>
        /\ \A i \in 1..Len(batch[c]) : i < part[c] => Logged(batch[c][i].id)
    BY <1>1, <1>4 DEF ClientOutcome
  <2>2. Logged(batch[c][part[c]].id)
    BY <1>2, <2>1
  <2>3. part[c] \in Nat
    BY DEF IndInv, TypeOK
  <2>4. ASSUME NEW i \in 1..Len(batch[c]), i <= part[c] PROVE i < part[c] \/ i = part[c]
    BY <2>3, <2>4
  <2> QED
    BY <1>4, <2>1, <2>2, <2>4
<1> QED
  BY <1>3, <1>4

(* Every step of a client that makes no call keeps the outcomes. *)
LEMMA ReceiveOutcome ==
  ASSUME IndInv, OutcomeInv, NEW c \in Clients,
         \/ RetriesExceeded(c) \/ ReceiveToken(c) \/ Receive(c)
         \/ ReceivePublished(c) \/ ReceiveDuplicate(c) \/ GiveUp(c)
  PROVE  OutcomeInv'
<1> USE DEF TypeOK
<1>0. TypeOK
  BY DEF IndInv
<1>1. /\ UNCHANGED <<dbVars, callVars, calls, batch, part>>
      /\ \A d \in Clients \ {c} : pc'[d] = pc[d]
  BY <1>0 DEF RetriesExceeded, ReceiveToken, Receive, ReceivePublished, ReceiveDuplicate, GiveUp
<1>2. \A k \in Call : CallOutcome(k)'
  <2>1. req' = req /\ st' = st /\ rows' = rows /\ log \subseteq log'
    BY <1>1
  <2> QED
    BY <2>1, OutcomeStays DEF OutcomeInv
<1>3. \A d \in Clients \ {c} : ClientOutcome(d)'
  <2>1. req' = req /\ calls' = calls /\ batch' = batch /\ part' = part /\ log \subseteq log'
    BY <1>1
  <2> QED
    BY <1>1, <2>1, ClientOutcomeStays DEF OutcomeInv
<1>4. CASE pc'[c] \in {"exceeded", "run", "unpublished", "loop", "failed"}
  <2>1. /\ pc'[c] # "failed" => pc[c] \notin {"publish", "published", "failed"}
        /\ part'[c] = part[c] /\ ClientOutcome(c)
    BY <1>0, <1>1, <1>4 DEF RetriesExceeded, ReceiveToken, Receive, ReceivePublished,
       ReceiveDuplicate, GiveUp, OutcomeInv
  <2>2. ClientOutcome(c)'
    BY <1>4, <2>1 DEF ClientOutcome
  <2> QED
    BY <1>2, <1>3, <2>2 DEF OutcomeInv
<1>5. CASE pc'[c] = "published"
  <2>1. \A i \in 1..Len(batch[c]) : Logged(batch[c][i].id)
    <3>1. CASE Receive(c)
      <4>1. pc[c] = "publishIfUnchanged" /\ st[Current(c)] = "true"
        BY <1>0, <1>5, <3>1 DEF Receive
      <4>2. /\ IsPublishing(Current(c)) /\ req[Current(c)].batch = batch[c]
            /\ Current(c) \in Call
        BY <4>1, CurrentType DEF OutcomeInv, ClientOutcome, IndInv, Ops
      <4>3. \A i \in 1..Len(req[Current(c)].batch) : Logged(req[Current(c)].batch[i].id)
        BY <4>1, <4>2 DEF OutcomeInv, CallOutcome
      <4> QED
        BY <4>2, <4>3
    <3>2. CASE ReceivePublished(c)
      <4>1. FactsArePublished(c) /\ part[c] \in {0, Len(batch[c])}
        BY <3>2 DEF ReceivePublished
      <4>2. CASE part[c] = 0
        BY <4>1, <4>2, PartsAreLogged
      <4>3. CASE part[c] # 0
        <5>1. part[c] = Len(batch[c]) /\ part[c] \in Nat
          BY <1>0, <4>1, <4>3
        <5>2. \A i \in 1..part[c] : i <= part[c]
          BY <5>1
        <5> QED
          BY <4>1, <4>3, <5>1, <5>2, PartsAreLogged
      <4> QED
        BY <4>2, <4>3
    <3> QED
      BY <1>0, <1>5, <3>1, <3>2
         DEF RetriesExceeded, ReceiveToken, ReceiveDuplicate, GiveUp
  <2>2. log' = log /\ batch' = batch
    BY <1>1
  <2>3. ClientOutcome(c)'
    BY <1>5, <2>1, <2>2 DEF ClientOutcome, Logged
  <2> QED
    BY <1>2, <1>3, <2>3 DEF OutcomeInv
<1> QED
  BY <1>0, <1>4, <1>5 DEF RetriesExceeded, ReceiveToken, Receive, ReceivePublished,
     ReceiveDuplicate, GiveUp

(* So does every step that sends a call. *)
LEMMA CallOutcomes ==
  ASSUME IndInv, OutcomeInv, NEW c \in Clients,
         \/ Attempt(c) \/ RunPublish(c) \/ RunWithoutPublication(c)
         \/ Publish(c) \/ PublishOneByOne(c) \/ RetryCall(c) \/ RetryBatch(c)
  PROVE  OutcomeInv'
<1> USE DEF TypeOK
<1>0. TypeOK /\ ClientOutcome(c) /\ TypeOK'
  BY TypeStep DEF IndInv, OutcomeInv, Next, ClientStep, OnFailedCall
<1>1. /\ UNCHANGED dbVars
      /\ \A d \in Clients : d # c => pc'[d] = pc[d] /\ part'[d] = part[d] /\ batch'[d] = batch[d]
  BY <1>0 DEF Attempt, RunPublish, RunWithoutPublication, Publish, PublishOneByOne,
     RetryCall, RetryBatch
<1>2. ASSUME NEW q \in Request, Send(c, q), ClientOutcome(c)' PROVE OutcomeInv'
  BY <1>1, <1>2, SendOutcome DEF OutcomeInv
<1>3. ASSUME NEW q \in Request, Send(c, q) PROVE req'[Current(c)'] = q
  BY <1>1, <1>3, SendOutcome
<1>4. CASE Attempt(c)
  <2>1. Req("currentStateFor", <<>>, NoCall, {}) \in Request /\ pc'[c] = "currentStateFor"
    BY <1>0, <1>4, RequestType, SmallBatches DEF Ops, Attempt
  <2>2. ClientOutcome(c)'
    BY <1>0, <1>4, <2>1 DEF ClientOutcome, Attempt
  <2> QED
    BY <1>2, <1>4, <2>1, <2>2 DEF Attempt
<1>5. CASE RunPublish(c)
  <2>1. PICK b \in Batches[c] :
          /\ batch' = [batch EXCEPT ![c] = b]
          /\ Send(c, Req("publishIfUnchanged", b, token[c], InScope(log, Scope[c])))
    BY <1>5 DEF RunPublish
  <2> DEFINE q == Req("publishIfUnchanged", b, token[c], InScope(log, Scope[c]))
  <2>2. q \in Request
    BY <1>0, RequestType, BatchesAssumption DEF Ops, InScope
  <2>3. q.op = "publishIfUnchanged" /\ q.batch = b
    BY DEF Req
  <2>4. batch'[c] = b /\ pc'[c] = "publishIfUnchanged" /\ part'[c] = 0
    BY <1>0, <1>5, <2>1 DEF RunPublish, ClientOutcome
  <2>5. Send(c, q)
    BY <2>1
  <2> HIDE DEF q
  <2>6. req'[Current(c)'] = q
    BY <1>3, <2>2, <2>5
  <2>7. ClientOutcome(c)'
    BY <2>3, <2>4, <2>6 DEF ClientOutcome, IsPublishing
  <2> QED
    BY <1>2, <2>2, <2>5, <2>7
<1>6. CASE RunWithoutPublication(c)
  <2>1. Req("invalidate", <<>>, token[c], {}) \in Request /\ pc'[c] = "invalidate"
    BY <1>0, <1>6, RequestType, SmallBatches DEF Ops, RunWithoutPublication
  <2>2. ClientOutcome(c)'
    BY <1>0, <1>6, <2>1 DEF ClientOutcome, RunWithoutPublication
  <2> QED
    BY <1>2, <1>6, <2>1, <2>2 DEF RunWithoutPublication
<1>7. CASE Publish(c)
  <2>1. PICK b \in Batches[c] : /\ batch' = [batch EXCEPT ![c] = b]
                             /\ Send(c, Req("publish", b, NoCall, {}))
    BY <1>7 DEF Publish
  <2> DEFINE q == Req("publish", b, NoCall, {})
  <2>2. q \in Request
    BY RequestType, BatchesAssumption DEF Ops
  <2>3. q.op = "publish" /\ q.batch = b
    BY DEF Req
  <2>4. batch'[c] = b /\ pc'[c] = "publish" /\ part'[c] = 0
    BY <1>0, <1>7, <2>1 DEF Publish, ClientOutcome
  <2>5. Send(c, q)
    BY <2>1
  <2> HIDE DEF q
  <2>6. req'[Current(c)'] = q
    BY <1>3, <2>2, <2>5
  <2>7. \A i \in 1..Len(b) : ~(i < 0)
    OBVIOUS
  <2>8. ClientOutcome(c)'
    BY <2>3, <2>4, <2>6, <2>7 DEF ClientOutcome, IsPublishing
  <2> QED
    BY <1>2, <2>2, <2>5, <2>8
<1>8. CASE PublishOneByOne(c)
  <2> DEFINE q == Req("publish", <<batch[c][part[c] + 1]>>, NoCall, {})
  <2>1. /\ pc[c] = "publish" /\ pc'[c] = "publish" /\ batch' = batch /\ log' = log
        /\ part'[c] = part[c] + 1 /\ part[c] \in Nat /\ Len(batch[c]) \in Nat
        /\ part[c] + 1 <= Len(batch[c]) /\ batch[c] \in Seq(Fact)
    <3>1. part[c] \in Nat /\ batch[c] \in Seq(Fact) /\ Len(batch[c]) \in Nat
      BY <1>0
    <3>2. (part[c] = 0 /\ Len(batch[c]) > 1) \/ part[c] \in 1..(Len(batch[c]) - 1)
      BY <1>8 DEF PublishOneByOne
    <3>3. part[c] + 1 <= Len(batch[c])
      BY <3>1, <3>2
    <3>4. pc[c] = "publish" /\ pc' = pc /\ batch' = batch /\ log' = log /\ part'[c] = part[c] + 1
      BY <1>0, <1>8 DEF PublishOneByOne, FactsArePublished
    <3> QED
      BY <3>1, <3>3, <3>4
  <2>2. q \in Request
    <3>1. batch[c][part[c] + 1] \in Fact
      BY <2>1
    <3> QED
      BY <3>1, RequestType, SmallBatches DEF Ops
  <2>3. q.op = "publish" /\ q.batch = <<batch[c][part[c] + 1]>>
    BY DEF Req
  <2>4. Send(c, q)
    BY <1>8 DEF PublishOneByOne
  <2> HIDE DEF q
  <2>5. req'[Current(c)'] = q
    BY <1>3, <2>2, <2>4
  <2>6. \A i \in 1..Len(batch[c]) : i <= part[c] => Logged(batch[c][i].id)
    <3>1. CASE part[c] = 0
      <4>1. \A i \in 1..Len(batch[c]) : ~(i <= 0)
        BY <2>1
      <4> QED
        BY <3>1, <4>1
    <3>2. CASE part[c] # 0
      BY <1>8, <3>2, PartsAreLogged DEF PublishOneByOne
    <3> QED
      BY <3>1, <3>2
  <2>7. \A i \in 1..Len(batch[c]) : i < part'[c] => Logged(batch[c][i].id)
    <3>1. \A n \in Nat : \A i \in 1..Len(batch[c]) : i < n + 1 => i <= n
      BY <2>1
    <3> QED
      BY <2>1, <2>6, <3>1
  <2>8. part'[c] # 0 /\ part'[c] <= Len(batch[c])
    BY <2>1
  <2>9. ClientOutcome(c)'
    BY <2>1, <2>3, <2>5, <2>7, <2>8 DEF ClientOutcome, IsPublishing, Logged
  <2> QED
    BY <1>2, <2>2, <2>4, <2>9
<1>9. CASE RetryCall(c)
  <2>1. /\ pc' = pc /\ batch' = batch /\ part' = part /\ log' = log /\ pc[c] \in Ops
        /\ Send(c, req[Current(c)])
    BY <1>9 DEF RetryCall, CallFails
  <2>2. req[Current(c)] \in Request
    BY <1>0, <2>1, CurrentType DEF IndInv
  <2>3. req'[Current(c)'] = req[Current(c)]
    BY <1>3, <2>1, <2>2
  <2>4. ClientOutcome(c)'
    BY <1>0, <2>1, <2>3 DEF ClientOutcome, IsPublishing, Logged
  <2> QED
    BY <1>2, <2>1, <2>2, <2>4
<1>10. CASE RetryBatch(c)
  <2> DEFINE q == Req("publish", batch[c], NoCall, {})
  <2>1. /\ pc' = pc /\ batch' = batch /\ part'[c] = 0 /\ Send(c, q)
    BY <1>0, <1>10 DEF RetryBatch
  <2>2. q \in Request
    BY <1>0, RequestType DEF Ops
  <2>3. q.op = "publish" /\ q.batch = batch[c]
    BY DEF Req
  <2> HIDE DEF q
  <2>4. req'[Current(c)'] = q
    BY <1>3, <2>1, <2>2
  <2>5. \A i \in 1..Len(batch[c]) : ~(i < 0)
    OBVIOUS
  <2>6. ClientOutcome(c)'
    <3>1. part[c] # 0 /\ pc[c] \in Ops
      <4>1. part[c] > 0 /\ part[c] \in Nat /\ pc[c] \in Ops
        BY <1>0, <1>10 DEF RetryBatch, CallFails
      <4> QED
        BY <4>1
    <3>2. pc[c] = "publish"
      BY <1>0, <3>1 DEF ClientOutcome, Ops
    <3> QED
      BY <2>1, <2>3, <2>4, <2>5, <3>2 DEF ClientOutcome, IsPublishing
  <2> QED
    BY <1>2, <2>1, <2>2, <2>6
<1> QED
  BY <1>4, <1>5, <1>6, <1>7, <1>8, <1>9, <1>10

LEMMA InitOutcome == Init => OutcomeInv
<1> SUFFICES ASSUME Init PROVE OutcomeInv
  OBVIOUS
<1>1. IsFiniteSet({}) /\ Cardinality({}) = 0
  BY FS_EmptySet
<1>2. \A i \in 1..Cardinality({}) : FALSE
  BY <1>1
<1>3. \A k \in Call : st[k] = "unused" /\ rows[k] = {}
  BY DEF Init
<1>4. \A k \in Call : CallOutcome(k)
  BY <1>1, <1>2, <1>3 DEF CallOutcome, TxStates
<1>5. \A c \in Clients : pc[c] = "idle" /\ part[c] = 0
  BY DEF Init
<1>6. \A c \in Clients : ClientOutcome(c)
  BY <1>5 DEF ClientOutcome
<1> QED
  BY <1>4, <1>6 DEF OutcomeInv

LEMMA NextOutcome == IndInv /\ OutcomeInv /\ [Next]_vars => OutcomeInv'
<1> SUFFICES ASSUME IndInv, OutcomeInv, [Next]_vars PROVE OutcomeInv'
  OBVIOUS
<1>1. ASSUME NEW k \in Call, ServerStep(k) \/ Crash(k) PROVE OutcomeInv'
  <2>1. UNCHANGED <<req, clientVars>> /\ log \subseteq log'
    BY <1>1, ServerEffect
  <2>2. \A c \in Clients : ClientOutcome(c)'
    BY <2>1, ClientOutcomeStays DEF OutcomeInv
  <2> QED
    BY <1>1, <2>2, ServerOutcome DEF OutcomeInv
<1>2. ASSUME NEW c \in Clients, ClientStep(c) \/ Publish(c) \/ OnFailedCall(c)
      PROVE  OutcomeInv'
  BY <1>2, ReceiveOutcome, CallOutcomes DEF ClientStep, OnFailedCall
<1>3. CASE Compact \/ UNCHANGED vars
  <2>1. UNCHANGED <<log, callVars, clientVars>> /\ log \subseteq log'
    BY <1>3 DEF Compact
  <2>2. \A k \in Call : CallOutcome(k)'
    BY <2>1, OutcomeStays DEF OutcomeInv
  <2>3. \A c \in Clients : ClientOutcome(c)'
    BY <2>1, ClientOutcomeStays DEF OutcomeInv
  <2> QED
    BY <2>2, <2>3 DEF OutcomeInv
<1> QED
  BY <1>1, <1>2, <1>3 DEF Next, Terminated

(* For every number of clients, calls, retries and faults, and for batches of
   any length: when publish or attempt returns to its caller as published, every
   fact of the batch is in the log (GrpcFactStore.publish). *)
THEOREM NothingPublishedIsLost == Spec => []PublishedIsLogged
<1>1. OutcomeInv => PublishedIsLogged
  BY DEF OutcomeInv, ClientOutcome, PublishedIsLogged, Logged
<1>2. Spec => []OutcomeInv
  BY InitOutcome, NextOutcome, Invariance, PTL DEF Spec
<1> QED
  BY <1>1, <1>2, PTL

=============================================================================
