----------------------------- MODULE Projection -----------------------------
(***************************************************************************)
(* Several instances of an application keep one projection up to date in   *)
(* an external store: FactusImpl.subscribeAndBlock and FactusImpl.update,  *)
(* with the observers they install and ProjectorImpl.apply.                *)
(*                                                                         *)
(* The store holds what the handlers wrote and the position of the last    *)
(* fact, in one transaction if the projection is TransactionAware, and a   *)
(* lock (the writer token, here the one of Redis) that decides which       *)
(* instance may write.  Instances crash, handlers and commits fail, the    *)
(* lock expires when its owner is gone or late, and a subscription may be  *)
(* closed while its thread is still applying facts.                        *)
(*                                                                         *)
(* The subscription itself is external: over all of its connections it     *)
(* sends the facts after the position it was given, in order and once      *)
(* (ClientSubscription), and once per connection a fast-forward position   *)
(* that passes over no fact.                                               *)
(***************************************************************************)
EXTENDS Naturals, Sequences, SequencesExt, FiniteSets

CONSTANTS Instances,
          Nobody,      \* no instance
          Gone,        \* an instance that has crashed
          Facts,       \* serials of the facts that the projection handles
          MaxSerial,   \* the last serial in the log, of whatever fact
          MaxBatch,    \* maxNumberOfFactsToBuffer
          MaxFaults,   \* bound: crashes, failed handlers and commits, leases lost
          MaxCloses    \* bound: calls of close

ASSUME OwnerAssumption == Nobody # Gone /\ {Nobody, Gone} \cap Instances = {}
ASSUME SerialAssumption == MaxSerial \in Nat /\ Facts \subseteq 1 .. MaxSerial
ASSUME BatchAssumption == MaxBatch \in Nat \ {0}
ASSUME BoundsAssumption == MaxFaults \in Nat /\ MaxCloses \in Nat

(* The external store. *)
VARIABLES managed,       \* a ManagedProjection, or a SubscribedProjection
          transactional, \* TransactionAware
          applied,       \* the facts whose effect is in the store, as they were applied
          position,      \* the fact stream position, 0 if there is none
          lock           \* who holds the lock

(* Of each instance. *)
VARIABLES pc,            \* where the thread is that gets the facts
          liveness,      \* RedisWriterToken.liveness
          closing,       \* TokenAwareSubscription.close: "open", "closing" or "closed"
          start,         \* the position subscribed from
          cursor,        \* the last fact received
          forwarded,     \* the connection has brought its fast-forward position
          buffer,        \* BatchingFactObserver.buffer
          batch,         \* the facts given to ProjectorImpl.apply
          done,          \* how many of them have been handled
          doomed,        \* this is the retry of what precedes a failed fact
          lastApplied    \* lastPositionApplied, positionOfLastFactApplied; 0 is null

VARIABLES trespass,      \* an instance wrote without holding the lock
          faults, closes

kind == <<managed, transactional>>
store == <<applied, position>>
reading == <<start, cursor, forwarded>>
applying == <<batch, done, doomed>>
bounds == <<faults, closes>>
vars == <<kind, store, lock, pc, liveness, closing, reading, buffer, applying,
          lastApplied, trespass, bounds>>

Serials == 0 .. MaxSerial
Places == {"idle", "acquired", "listen", "apply", "position", "complete", "dead"}

TypeOK ==
  /\ managed \in BOOLEAN /\ transactional \in BOOLEAN /\ trespass \in BOOLEAN
  /\ applied \in Seq(Facts) /\ position \in Serials
  /\ lock \in Instances \cup {Nobody, Gone}
  /\ pc \in [Instances -> Places]
  /\ liveness \in [Instances -> BOOLEAN]
  /\ closing \in [Instances -> {"open", "closing", "closed"}]
  /\ start \in [Instances -> Serials] /\ cursor \in [Instances -> Serials]
  /\ lastApplied \in [Instances -> Serials]
  /\ buffer \in [Instances -> Seq(Facts)] /\ batch \in [Instances -> Seq(Facts)]
  /\ done \in [Instances -> Nat]
  /\ \A i \in Instances : Len(buffer[i]) <= MaxBatch /\ done[i] <= Len(batch[i])
  /\ doomed \in [Instances -> BOOLEAN] /\ forwarded \in [Instances -> BOOLEAN]
  /\ faults \in 0 .. MaxFaults /\ closes \in 0 .. MaxCloses

Init ==
  /\ managed \in BOOLEAN /\ transactional \in BOOLEAN /\ trespass = FALSE
  /\ applied = <<>> /\ position = 0 /\ lock = Nobody
  /\ pc = [i \in Instances |-> "idle"]
  /\ liveness = [i \in Instances |-> FALSE]
  /\ closing = [i \in Instances |-> "open"]
  /\ start = [i \in Instances |-> 0] /\ cursor = [i \in Instances |-> 0]
  /\ lastApplied = [i \in Instances |-> 0]
  /\ buffer = [i \in Instances |-> <<>>]
  /\ batch = [i \in Instances |-> <<>>] /\ done = [i \in Instances |-> 0]
  /\ doomed = [i \in Instances |-> FALSE] /\ forwarded = [i \in Instances |-> FALSE]
  /\ faults = 0 /\ closes = 0

Goes(i, place) == pc' = [pc EXCEPT ![i] = place]

(* The thread that gets the facts is over, and what it knew is forgotten. *)
Forget(i) ==
  /\ pc' = [pc EXCEPT ![i] = "idle"]
  /\ liveness' = [liveness EXCEPT ![i] = FALSE]
  /\ closing' = [closing EXCEPT ![i] = "open"]
  /\ start' = [start EXCEPT ![i] = 0] /\ cursor' = [cursor EXCEPT ![i] = 0]
  /\ lastApplied' = [lastApplied EXCEPT ![i] = 0]
  /\ buffer' = [buffer EXCEPT ![i] = <<>>]
  /\ batch' = [batch EXCEPT ![i] = <<>>] /\ done' = [done EXCEPT ![i] = 0]
  /\ doomed' = [doomed EXCEPT ![i] = FALSE]
  /\ forwarded' = [forwarded EXCEPT ![i] = FALSE]

(* Instance i writes to the store. *)
Writes(i) == trespass' = (trespass \/ lock # i)

Fault == faults < MaxFaults /\ faults' = faults + 1 /\ UNCHANGED closes

(* The facts with serials up to s. *)
FactsUpTo(s) == {f \in Facts : f <= s}

-----------------------------------------------------------------------------
(* The writer token. *)

(* acquireWriteToken: lock.tryLock. *)
AcquireToken(i) ==
  /\ pc[i] = "idle" /\ lock = Nobody
  /\ lock' = i
  /\ liveness' = [liveness EXCEPT ![i] = TRUE]
  /\ Goes(i, "acquired")
  /\ UNCHANGED <<kind, store, closing, reading, buffer, applying, lastApplied, trespass,
                 bounds>>

(* A slip: the token is not closed. *)
KeepToken(i) == UNCHANGED lock

(* RedisWriterToken.close, which leaves liveness as it is. *)
CloseToken(i) == lock' = IF lock = i THEN Nobody ELSE lock

(* The timer task: is the lock held, by whomever?  Only a                  *)
(* SubscribedProjection ever asks.                                         *)
RefreshLiveness(i) ==
  /\ ~managed /\ pc[i] # "idle" /\ closing[i] # "closed"
  /\ liveness' = [liveness EXCEPT ![i] = lock # Nobody]
  /\ UNCHANGED <<kind, store, lock, pc, closing, reading, buffer, applying, lastApplied,
                 trespass, bounds>>

(* The lock of an instance that is gone, and prolongs it no more, expires. *)
LockExpires ==
  /\ lock = Gone
  /\ lock' = Nobody
  /\ UNCHANGED <<kind, store, pc, liveness, closing, reading, buffer, applying,
                 lastApplied, trespass, bounds>>

(* It also expires when its owner is late to prolong it. *)
LeaseLost ==
  /\ lock \in Instances /\ Fault
  /\ lock' = Nobody
  /\ UNCHANGED <<kind, store, pc, liveness, closing, reading, buffer, applying,
                 lastApplied, trespass>>

-----------------------------------------------------------------------------
(* Subscription and facts. *)

(* A slip: the position is not passed on. *)
FromScratch == 0

(* SubscriptionRequest.fromNullable: the position in the store. *)
StartingAfter == position

(* doSubscribe and catchupProjection. *)
Subscribe(i) ==
  /\ pc[i] = "acquired"
  /\ start' = [start EXCEPT ![i] = StartingAfter]
  /\ cursor' = [cursor EXCEPT ![i] = StartingAfter]
  /\ lastApplied' = [lastApplied EXCEPT ![i] = 0]
  /\ Goes(i, "listen")
  /\ UNCHANGED <<kind, store, lock, liveness, closing, forwarded, buffer, applying, trespass,
                 bounds>>

Listening(i) == pc[i] = "listen" /\ closing[i] = "open"

(* A slip: one fact more than a transaction may hold. *)
BufferOverfull(i) == Len(buffer[i]) > MaxBatch

BufferIsFull(i) == Len(buffer[i]) >= MaxBatch

(* BatchingFactObserver.onNext. *)
Receive(i) ==
  /\ Listening(i) /\ ~BufferIsFull(i)
  /\ \E f \in Facts :
       /\ f > cursor[i] /\ \A g \in Facts : g > cursor[i] => f <= g
       /\ cursor' = [cursor EXCEPT ![i] = f]
       /\ buffer' = [buffer EXCEPT ![i] = Append(@, f)]
  /\ UNCHANGED <<kind, store, lock, pc, liveness, closing, start, forwarded, applying,
                 lastApplied, trespass, bounds>>

(* flush, when the buffer is full or a message ends, even of a closed      *)
(* subscription.  A SubscribedProjection asserts that its token is valid.  *)
Flush(i) ==
  /\ pc[i] = "listen" /\ buffer[i] # <<>>
  /\ buffer' = [buffer EXCEPT ![i] = <<>>]
  /\ IF managed \/ liveness[i]
     THEN batch' = [batch EXCEPT ![i] = buffer[i]] /\ Goes(i, "apply")
     ELSE UNCHANGED batch /\ Goes(i, "dead")
  /\ UNCHANGED <<kind, store, lock, liveness, closing, reading, done, doomed, lastApplied,
                 trespass, bounds>>

(* The connection breaks between two messages.  The next one starts after  *)
(* the last fact received, whatever was fast-forwarded to, and brings a    *)
(* position of its own.                                                    *)
Reconnect(i) ==
  /\ Listening(i) /\ buffer[i] = <<>> /\ forwarded[i]
  /\ forwarded' = [forwarded EXCEPT ![i] = FALSE]
  /\ UNCHANGED <<kind, store, lock, pc, liveness, closing, start, cursor, buffer, applying,
                 lastApplied, trespass, bounds>>

(* A slip: the position is taken to be ahead. *)
AlwaysForward(i, s) == TRUE

(* FactStreamPosition.isAfter: it may be older than that of a connection   *)
(* before, which came from another server.                                 *)
MayForward(i, s) == s > lastApplied[i]

(* Only a managed projection remembers where it was forwarded to, and only *)
(* if it had a state or has applied facts in this update.                  *)
Remembers(i) == managed /\ (start[i] # 0 \/ lastApplied[i] # 0)

(* onFastForward.  The server sends a position that is ahead of all it has *)
(* sent (PgFactStream.fastForward).                                        *)
FastForward(i) ==
  /\ Listening(i) /\ buffer[i] = <<>> /\ ~forwarded[i]
  /\ forwarded' = [forwarded EXCEPT ![i] = TRUE]
  /\ \E s \in Serials :
       /\ s > cursor[i] /\ \A f \in Facts : f > cursor[i] => f > s
       /\ IF MayForward(i, s)
          THEN /\ position' = s /\ Writes(i)
               /\ lastApplied' = [lastApplied EXCEPT ![i] = IF Remembers(i) THEN s ELSE @]
          ELSE UNCHANGED <<position, trespass, lastApplied>>
  /\ UNCHANGED <<kind, applied, lock, pc, liveness, closing, start, cursor, buffer,
                 applying, bounds>>

-----------------------------------------------------------------------------
(* ProjectorImpl.doApply. *)

Handled(i) == SubSeq(batch[i], 1, done[i])

(* callHandlerFor the next fact: its effect stays in the transaction, if   *)
(* there is one.                                                           *)
CallHandler(i) ==
  /\ pc[i] = "apply" /\ done[i] < Len(batch[i])
  /\ done' = [done EXCEPT ![i] = @ + 1]
  /\ IF transactional THEN UNCHANGED <<applied, pc, trespass>>
     ELSE /\ applied' = Append(applied, batch[i][done[i] + 1])
          /\ Writes(i)
          /\ Goes(i, "position")
  /\ UNCHANGED <<kind, position, lock, liveness, closing, reading, buffer, batch, doomed,
                 lastApplied, bounds>>

(* setFactStreamPositionIfAwareButNotTransactional. *)
SetPosition(i) ==
  /\ pc[i] = "position"
  /\ position' = batch[i][done[i]]
  /\ Writes(i)
  /\ Goes(i, "apply")
  /\ UNCHANGED <<kind, applied, lock, liveness, closing, reading, buffer, applying,
                 lastApplied, bounds>>

ApplyEnds(i, place) ==
  /\ Goes(i, place)
  /\ batch' = [batch EXCEPT ![i] = <<>>]
  /\ done' = [done EXCEPT ![i] = 0]
  /\ doomed' = [doomed EXCEPT ![i] = FALSE]

(* All are handled: commit with the position.  The retry of a prefix ends  *)
(* with the exception that caused it.                                      *)
Commit(i) ==
  /\ pc[i] = "apply" /\ done[i] = Len(batch[i])
  /\ IF transactional
     THEN applied' = applied \o batch[i] /\ position' = Last(batch[i]) /\ Writes(i)
     ELSE UNCHANGED <<store, trespass>>
  /\ lastApplied' = [lastApplied EXCEPT ![i] = IF doomed[i] THEN @ ELSE Last(batch[i])]
  /\ ApplyEnds(i, IF doomed[i] THEN "dead" ELSE "listen")
  /\ UNCHANGED <<kind, lock, liveness, closing, reading, buffer, bounds>>

(* A handler throws: rollback, and [0,n-1] is applied again. *)
HandlerFails(i) ==
  /\ pc[i] = "apply" /\ done[i] < Len(batch[i]) /\ Fault
  /\ IF transactional /\ done[i] > 0
     THEN /\ batch' = [batch EXCEPT ![i] = Handled(i)]
          /\ done' = [done EXCEPT ![i] = 0]
          /\ doomed' = [doomed EXCEPT ![i] = TRUE]
          /\ UNCHANGED pc
     ELSE ApplyEnds(i, "dead")
  /\ UNCHANGED <<kind, store, lock, liveness, closing, reading, buffer, lastApplied, trespass>>

(* The position or the commit fails, and everything is rolled back. *)
CommitFails(i) ==
  /\ transactional /\ pc[i] = "apply" /\ done[i] = Len(batch[i]) /\ Fault
  /\ ApplyEnds(i, "dead")
  /\ UNCHANGED <<kind, store, lock, liveness, closing, reading, buffer, lastApplied, trespass>>

-----------------------------------------------------------------------------
(* The ends of an update and of a subscription. *)

Complete(i) ==
  /\ managed /\ Listening(i) /\ buffer[i] = <<>>
  /\ \A f \in Facts : f <= cursor[i]
  /\ Goes(i, "complete")
  /\ UNCHANGED <<kind, store, lock, liveness, closing, reading, buffer, applying,
                 lastApplied, trespass, bounds>>

(* withLock closes the token, whether or not the update was successful. *)
UpdateEnds(i) ==
  /\ managed /\ pc[i] \in {"complete", "dead"}
  /\ CloseToken(i)
  /\ Forget(i)
  /\ UNCHANGED <<kind, store, trespass, bounds>>

(* TokenAwareSubscription.close, in a thread of the user: first the        *)
(* subscription, then the token.                                           *)
CloseSubscription(i) ==
  /\ ~managed /\ pc[i] \notin {"idle", "acquired"} /\ closing[i] = "open"
  /\ closes < MaxCloses /\ closes' = closes + 1 /\ UNCHANGED faults
  /\ closing' = [closing EXCEPT ![i] = "closing"]
  /\ UNCHANGED <<kind, store, lock, pc, liveness, reading, buffer, applying, lastApplied,
                 trespass>>

CloseWriterToken(i) ==
  /\ closing[i] = "closing"
  /\ closing' = [closing EXCEPT ![i] = "closed"]
  /\ CloseToken(i)
  /\ UNCHANGED <<kind, store, pc, liveness, reading, buffer, applying, lastApplied, trespass,
                 bounds>>

(* The thread of a closed subscription comes to its end. *)
ThreadEnds(i) ==
  /\ closing[i] = "closed" /\ pc[i] \in {"listen", "dead"} /\ buffer[i] = <<>>
  /\ Forget(i)
  /\ UNCHANGED <<kind, store, lock, trespass, bounds>>

(* The instance dies, with its buffers and transactions, and starts anew. *)
Crash(i) ==
  /\ pc[i] # "idle" /\ Fault
  /\ Forget(i)
  /\ lock' = IF lock = i THEN Gone ELSE lock
  /\ UNCHANGED <<kind, store, trespass>>

-----------------------------------------------------------------------------
Work(i) == \/ Subscribe(i) \/ Receive(i) \/ Flush(i) \/ CallHandler(i) \/ SetPosition(i)
           \/ Commit(i) \/ HandlerFails(i) \/ CommitFails(i)
           \/ Complete(i) \/ UpdateEnds(i) \/ CloseWriterToken(i) \/ ThreadEnds(i)

Next ==
  \/ \E i \in Instances : \/ AcquireToken(i) \/ Work(i) \/ RefreshLiveness(i)
                          \/ FastForward(i) \/ Reconnect(i) \/ CloseSubscription(i) \/ Crash(i)
  \/ LockExpires \/ LeaseLost

Spec == Init /\ [][Next]_vars

(* Threads run, instances ask for the token again and again, and the lock  *)
(* of an instance that is gone expires.                                    *)
Fairness == /\ \A i \in Instances : WF_vars(Work(i)) /\ SF_vars(AcquireToken(i))
            /\ WF_vars(LockExpires)

FairSpec == Spec /\ Fairness

-----------------------------------------------------------------------------
(* What the handlers did and the position agree, whoever wrote them and    *)
(* whatever crashed or failed, until an instance writes that does not hold *)
(* the lock.  With transactions every fact up to the position has been     *)
(* applied exactly once and in order.  Without, none is left out, and the  *)
(* position is behind by one fact at most, which is then applied again.    *)
StateMatchesPosition ==
  ~trespass =>
    IF transactional
    THEN /\ ToSet(applied) = FactsUpTo(position)
         /\ \A k \in 1 .. Len(applied) - 1 : applied[k] < applied[k + 1]
    ELSE /\ FactsUpTo(position) \subseteq ToSet(applied)
         /\ Cardinality(ToSet(applied) \ FactsUpTo(position)) <= 1
         /\ \A k \in 1 .. Len(applied) - 1 : applied[k] <= applied[k + 1]

(* While nobody writes without the lock, the projection only goes forward: *)
(* no restart, retry, reconnect or fast-forward, of whichever instance,    *)
(* takes the position back over a fact, and no handler is called for a     *)
(* fact that the position has passed (doSubscribe, ProjectorImpl).  The    *)
(* position as such may go back, over nothing, to the older fast-forward   *)
(* position of another connection, but not if it belongs to an update that *)
(* remembers where it was forwarded to (catchupProjection).                *)
OnlyForward ==
  [][~trespass' =>
       /\ FactsUpTo(position) \subseteq FactsUpTo(position')
       /\ \A k \in Len(applied) + 1 .. Len(applied') : applied'[k] > position
       /\ (\E i \in Instances : lock = i /\ Remembers(i)) => position' >= position]_vars

(* While nobody writes without the lock, all facts are applied sooner or   *)
(* later: an update that fails gives the lock back, the lock of a crashed  *)
(* instance expires, and the next instance continues.  The subscription    *)
(* of a SubscribedProjection that has died keeps its token until it is     *)
(* closed, so none may be dead.                                            *)
EveryFactIsApplied ==
  [](managed \/ \A i \in Instances : pc[i] # "dead") =>
    <>(trespass \/ Facts \subseteq ToSet(applied))

=============================================================================
