--------------------------- MODULE ProjectionProofs ---------------------------
(***************************************************************************)
(* Proofs about Projection, for any number of instances, facts, faults and *)
(* closed subscriptions: the types, and that until somebody writes without *)
(* the lock the state in the store and its position agree and the position *)
(* goes back over no fact.                                                 *)
(***************************************************************************)
EXTENDS Projection, FiniteSetTheorems, TLAPS

Ascending(s) == \A a, b \in 1 .. Len(s) : a < b => s[a] < s[b]

(* What the thread of instance i holds, whether it has the lock or not. *)
LocalInv(i) ==
  /\ pc[i] \in {"idle", "acquired"} => closing[i] = "open"
  /\ pc[i] # "listen" => buffer[i] = <<>>
  /\ pc[i] \in {"apply", "position"} <=> batch[i] # <<>>
  /\ pc[i] = "position" => ~transactional /\ done[i] > 0
  /\ batch[i] = <<>> => done[i] = 0 /\ ~doomed[i]
  /\ Ascending(buffer[i]) /\ Ascending(batch[i])
  /\ \A a \in 1 .. Len(buffer[i]) : buffer[i][a] <= cursor[i]
  /\ buffer[i] # <<>> => cursor[i] = Last(buffer[i])
  /\ batch[i] # <<>> /\ ~doomed[i] => cursor[i] = Last(batch[i])
  /\ start[i] <= cursor[i]

(* Whoever holds the lock has not ended and has not been closed. *)
LockInv == \A i \in Instances : lock = i => pc[i] # "idle" /\ closing[i] # "closed"

(* The facts of the batch that the position has not passed yet. *)
Unwritten(i) ==
  {a \in 1 .. Len(batch[i]) : transactional \/ a > done[i] \/ (pc[i] = "position" /\ a = done[i])}

(* Where the holder of the lock is with respect to the position. *)
WriterInv(i) ==
  /\ pc[i] = "listen" =>
       \A f \in Facts : f <= position <=>
         f <= cursor[i] /\ \A a \in 1 .. Len(buffer[i]) : f # buffer[i][a]
  /\ pc[i] \in {"apply", "position"} =>
       \A f \in Facts : f <= position <=>
         f <= Last(batch[i]) /\ \A a \in Unwritten(i) : f # batch[i][a]
  /\ pc[i] = "position" => batch[i][done[i]] \in ToSet(applied)

(* The state in the store and its position. *)
StoreInv ==
  /\ FactsUpTo(position) \subseteq ToSet(applied)
  /\ transactional => /\ ToSet(applied) \subseteq FactsUpTo(position)
                      /\ \A k \in 1 .. Len(applied) - 1 : applied[k] < applied[k + 1]
  /\ \A f \in ToSet(applied), g \in Facts : f > position /\ g > position => f <= g
  /\ \A k \in 1 .. Len(applied) - 1 : applied[k] <= applied[k + 1]

(* The inductive invariant. *)
IndInv == /\ TypeOK /\ LockInv
          /\ \A i \in Instances : LocalInv(i)
          /\ ~trespass => StoreInv /\ \A i \in Instances : lock = i => WriterInv(i)
-----------------------------------------------------------------------------
(* Sequences of facts. *)

LEMMA FactsAreNumbers == MaxSerial \in Nat /\ \A f \in Facts : f \in Nat /\ f \in Serials
BY SerialAssumption DEF Serials

LEMMA LastFact ==
  ASSUME NEW s \in Seq(Facts), s # <<>>
  PROVE  /\ Len(s) \in Nat /\ 1 <= Len(s) /\ Len(s) \in 1 .. Len(s)
         /\ Last(s) = s[Len(s)] /\ Last(s) \in Facts
<1>1. Len(s) \in Nat /\ Len(s) # 0
  OBVIOUS
<1>2. Len(s) \in 1 .. Len(s)
  BY <1>1
<1>3. s[Len(s)] \in Facts
  BY <1>2
<1> QED
  BY <1>1, <1>2, <1>3 DEF Last

LEMMA ToSetFacts == \A s \in Seq(Facts) : \A f : f \in ToSet(s) <=> \E a \in 1 .. Len(s) : f = s[a]
BY DEF ToSet

LEMMA AppliedFacts == TypeOK => ToSet(applied) \subseteq Facts
<1> SUFFICES ASSUME TypeOK, NEW f \in ToSet(applied) PROVE f \in Facts
  OBVIOUS
<1>1. applied \in Seq(Facts)
  BY DEF TypeOK
<1>2. PICK a \in 1 .. Len(applied) : f = applied[a]
  BY <1>1, ToSetFacts
<1> QED
  BY <1>1, <1>2

LEMMA EmptySequence == <<>> \in Seq(Facts) /\ Len(<<>>) = 0 /\ Ascending(<<>>)
<1>1. <<>> \in Seq(Facts) /\ Len(<<>>) = 0
  OBVIOUS
<1>2. \A a \in 1 .. 0 : FALSE
  OBVIOUS
<1> QED
  BY <1>1, <1>2 DEF Ascending

-----------------------------------------------------------------------------
(* Nothing that belongs to instance j changes. *)
Untouched(j) ==
  /\ pc'[j] = pc[j] /\ closing'[j] = closing[j] /\ start'[j] = start[j]
  /\ cursor'[j] = cursor[j] /\ lastApplied'[j] = lastApplied[j] /\ buffer'[j] = buffer[j]
  /\ batch'[j] = batch[j] /\ done'[j] = done[j] /\ doomed'[j] = doomed[j]

LEMMA UntouchedKeeps ==
  ASSUME NEW j \in Instances, Untouched(j), transactional' = transactional
  PROVE  /\ LocalInv(j) => LocalInv(j)'
         /\ position' = position /\ applied' = applied /\ WriterInv(j) => WriterInv(j)'
<1>1. LocalInv(j) => LocalInv(j)'
  BY DEF Untouched, LocalInv
<1>2. Unwritten(j)' = Unwritten(j)
  BY DEF Untouched, Unwritten
<1>3. position' = position /\ applied' = applied /\ WriterInv(j) => WriterInv(j)'
  BY <1>2 DEF Untouched, WriterInv
<1> QED
  BY <1>1, <1>3

(* A step of instance i that does not write to the store. *)
LEMMA StepKeeps ==
  ASSUME IndInv, TypeOK', NEW i \in Instances, \A j \in Instances \ {i} : Untouched(j),
         transactional' = transactional, UNCHANGED <<store, trespass>>, LocalInv(i)',
         lock' = lock \/ lock' \notin Instances \/ lock' = i,
         lock' = i => pc'[i] # "idle" /\ closing'[i] # "closed",
         ~trespass /\ lock' = i => WriterInv(i)'
  PROVE  IndInv'
<1>1. \A j \in Instances : LocalInv(j)'
  BY UntouchedKeeps DEF IndInv
<1>2. \A j \in Instances : lock' = j => j = i \/ lock = j
  OBVIOUS
<1>3. LockInv'
  BY <1>2 DEF IndInv, LockInv, Untouched
<1>4. ASSUME ~trespass' PROVE StoreInv' /\ \A j \in Instances : lock' = j => WriterInv(j)'
  <2>1. trespass' = trespass /\ position' = position /\ applied' = applied
    BY DEF store
  <2>2. StoreInv /\ \A j \in Instances : lock = j => WriterInv(j)
    BY <1>4, <2>1 DEF IndInv
  <2>3. StoreInv'
    BY <2>1, <2>2 DEF StoreInv, FactsUpTo
  <2>4. ASSUME NEW j \in Instances, lock' = j PROVE WriterInv(j)'
    <3>1. CASE j = i
      BY <1>4, <2>1, <2>4, <3>1
    <3>2. CASE j # i
      BY <1>2, <2>1, <2>2, <2>4, <3>2, UntouchedKeeps
    <3> QED
      BY <3>1, <3>2
  <2> QED
    BY <2>3, <2>4
<1> QED
  BY <1>1, <1>3, <1>4 DEF IndInv

(* A step of instance i that writes to the store, as the holder of the lock or not. *)
LEMMA WriteKeeps ==
  ASSUME IndInv, TypeOK', NEW i \in Instances, \A j \in Instances \ {i} : Untouched(j),
         transactional' = transactional, lock' = lock, Writes(i), LocalInv(i)',
         pc'[i] # "idle" /\ closing'[i] = closing[i],
         ~trespass /\ lock = i /\ StoreInv /\ WriterInv(i) => StoreInv' /\ WriterInv(i)'
  PROVE  IndInv'
<1>1. \A j \in Instances : LocalInv(j)'
  BY UntouchedKeeps DEF IndInv
<1>2. LockInv'
  BY DEF IndInv, LockInv, Untouched
<1>3. ASSUME ~trespass' PROVE StoreInv' /\ \A j \in Instances : lock' = j => WriterInv(j)'
  <2>1. ~trespass /\ lock = i
    BY <1>3 DEF Writes
  <2>2. StoreInv /\ WriterInv(i)
    BY <2>1 DEF IndInv
  <2> QED
    BY <2>1, <2>2
<1> QED
  BY <1>1, <1>2, <1>3 DEF IndInv

-----------------------------------------------------------------------------
(* The writer token. *)

LEMMA AcquireTokenKeeps ==
  ASSUME IndInv, NEW i \in Instances, AcquireToken(i)
  PROVE  IndInv'
<1>1. TypeOK /\ LocalInv(i)
  BY DEF IndInv
<1>2. /\ pc[i] = "idle" /\ lock' = i
      /\ liveness' = [liveness EXCEPT ![i] = TRUE] /\ pc' = [pc EXCEPT ![i] = "acquired"]
      /\ UNCHANGED <<kind, store, closing, reading, buffer, applying, lastApplied, trespass,
                     bounds>>
  BY DEF AcquireToken, Goes
<1>3. TypeOK'
  BY <1>1, <1>2 DEF TypeOK, Places, kind, store, reading, applying, bounds
<1>4. \A j \in Instances \ {i} : Untouched(j)
  BY <1>1, <1>2 DEF Untouched, TypeOK, reading, applying
<1>5. pc'[i] = "acquired"
  BY <1>1, <1>2 DEF TypeOK
<1>6. LocalInv(i)'
  BY <1>1, <1>2, <1>5 DEF LocalInv, reading, applying, kind
<1>7. WriterInv(i)' /\ closing'[i] # "closed"
  BY <1>1, <1>2, <1>5 DEF WriterInv, LocalInv
<1> QED
  BY <1>2, <1>3, <1>4, <1>5, <1>6, <1>7, StepKeeps DEF kind

LEMMA LivenessKeeps ==
  ASSUME IndInv, NEW i \in Instances, RefreshLiveness(i)
  PROVE  IndInv'
<1>1. TypeOK /\ LocalInv(i)
  BY DEF IndInv
<1>2. /\ liveness' = [liveness EXCEPT ![i] = lock # Nobody]
      /\ UNCHANGED <<kind, store, lock, pc, closing, reading, buffer, applying, lastApplied,
                     trespass, bounds>>
  BY DEF RefreshLiveness
<1>3. liveness' \in [Instances -> BOOLEAN]
  BY <1>1, <1>2 DEF TypeOK
<1>4. TypeOK'
  BY <1>1, <1>2, <1>3 DEF TypeOK, kind, store, reading, applying, bounds
<1>5. \A j \in Instances : Untouched(j)
  BY <1>2 DEF Untouched, reading, applying
<1> QED
  BY <1>1, <1>2, <1>4, <1>5, StepKeeps, UntouchedKeeps DEF IndInv, LockInv, kind, store, reading, applying

(* The lock expires. *)
LEMMA ExpiryKeeps ==
  ASSUME IndInv, LockExpires \/ LeaseLost
  PROVE  IndInv'
<1>1. TypeOK
  BY DEF IndInv
<1>2. /\ lock' = Nobody /\ faults' \in 0 .. MaxFaults /\ closes' = closes
      /\ UNCHANGED <<kind, store, pc, liveness, closing, reading, buffer, applying,
                     lastApplied, trespass>>
  BY <1>1, BoundsAssumption DEF LockExpires, LeaseLost, Fault, bounds, TypeOK
<1>3. TypeOK'
  BY <1>1, <1>2 DEF TypeOK, kind, store, reading, applying
<1>4. \A j \in Instances : Untouched(j)
  BY <1>2 DEF Untouched, reading, applying
<1>5. \A j \in Instances : LocalInv(j)' /\ lock' # j
  BY <1>2, <1>4, UntouchedKeeps, OwnerAssumption DEF IndInv, kind
<1>6. ~trespass' => StoreInv'
  BY <1>2 DEF IndInv, StoreInv, FactsUpTo, kind, store
<1> QED
  BY <1>3, <1>5, <1>6 DEF IndInv, LockInv
-----------------------------------------------------------------------------
(* Subscription and facts. *)

LEMMA SubscribeKeeps ==
  ASSUME IndInv, NEW i \in Instances, Subscribe(i)
  PROVE  IndInv'
<1>1. TypeOK /\ LocalInv(i)
  BY DEF IndInv
<1>2. /\ pc[i] = "acquired"
      /\ start' = [start EXCEPT ![i] = position] /\ cursor' = [cursor EXCEPT ![i] = position]
      /\ lastApplied' = [lastApplied EXCEPT ![i] = 0] /\ pc' = [pc EXCEPT ![i] = "listen"]
      /\ UNCHANGED <<kind, store, lock, liveness, closing, forwarded, buffer, applying,
                     trespass, bounds>>
  BY DEF Subscribe, StartingAfter, Goes
<1>3. TypeOK'
  <2>1. 0 \in Serials
    BY FactsAreNumbers DEF Serials
  <2> QED
    BY <1>1, <1>2, <2>1 DEF TypeOK, Places, kind, store, applying, bounds
<1>4. \A j \in Instances \ {i} : Untouched(j)
  BY <1>1, <1>2 DEF Untouched, TypeOK, applying
<1>5. pc'[i] = "listen" /\ cursor'[i] = position /\ start'[i] = position
  BY <1>1, <1>2 DEF TypeOK
<1>6. /\ buffer[i] = <<>> /\ batch[i] = <<>> /\ closing[i] = "open" /\ done[i] = 0 /\ ~doomed[i]
  BY <1>1, <1>2 DEF LocalInv
<1>7. /\ buffer' = buffer /\ batch' = batch /\ closing' = closing /\ done' = done
      /\ doomed' = doomed /\ position' = position
  BY <1>2 DEF applying, store
<1>8. Len(<<>>) = 0 /\ Ascending(<<>>) /\ \A a \in 1 .. Len(<<>>) : FALSE
  BY EmptySequence DEF Ascending
<1>9. LocalInv(i)'
  <2>1. position <= position
    BY <1>1, FactsAreNumbers DEF TypeOK, Serials
  <2> QED
    BY <1>5, <1>6, <1>7, <1>8, <2>1 DEF LocalInv
<1>10. WriterInv(i)'
  BY <1>5, <1>6, <1>7, <1>8 DEF WriterInv
<1> QED
  BY <1>2, <1>3, <1>4, <1>5, <1>6, <1>7, <1>9, <1>10, StepKeeps DEF kind

LEMMA ReceiveKeeps ==
  ASSUME IndInv, NEW i \in Instances, Receive(i)
  PROVE  IndInv'
<1>1. TypeOK /\ LocalInv(i)
  BY DEF IndInv
<1>2. PICK f \in Facts :
        /\ f > cursor[i] /\ \A g \in Facts : g > cursor[i] => f <= g
        /\ cursor' = [cursor EXCEPT ![i] = f]
        /\ buffer' = [buffer EXCEPT ![i] = Append(buffer[i], f)]
  BY DEF Receive
<1>3. /\ pc[i] = "listen" /\ closing[i] = "open" /\ ~(Len(buffer[i]) >= MaxBatch)
      /\ UNCHANGED <<kind, store, lock, pc, liveness, closing, start, forwarded, applying,
                     lastApplied, trespass, bounds>>
  BY DEF Receive, Listening, BufferIsFull
<1>4. f \in Nat /\ f \in Serials /\ cursor[i] \in Nat
  BY <1>1, FactsAreNumbers DEF TypeOK, Serials
<1>5. buffer[i] \in Seq(Facts) /\ Len(buffer[i]) \in Nat /\ MaxBatch \in Nat
  BY <1>1, BatchAssumption DEF TypeOK
<1> DEFINE n == Len(buffer[i])
<1>6. /\ buffer'[i] \in Seq(Facts) /\ Len(buffer'[i]) = n + 1 /\ buffer'[i][n + 1] = f
      /\ \A a \in 1 .. n : buffer'[i][a] = buffer[i][a]
      /\ buffer'[i] # <<>> /\ cursor'[i] = f
  <2>1. buffer'[i] = Append(buffer[i], f) /\ cursor'[i] = f
    BY <1>1, <1>2 DEF TypeOK
  <2> QED
    BY <1>5, <2>1
<1>7. TypeOK'
  <2>1. buffer' \in [Instances -> Seq(Facts)] /\ cursor' \in [Instances -> Serials]
    BY <1>1, <1>2, <1>4, <1>6 DEF TypeOK
  <2>2. Len(buffer'[i]) <= MaxBatch
    BY <1>3, <1>5, <1>6
  <2>3. \A j \in Instances : j # i => buffer'[j] = buffer[j]
    BY <1>1, <1>2 DEF TypeOK
  <2>4. \A j \in Instances : Len(buffer'[j]) <= MaxBatch /\ done'[j] <= Len(batch'[j])
    BY <1>1, <1>3, <2>2, <2>3 DEF TypeOK, applying
  <2> QED
    BY <1>1, <1>3, <2>1, <2>4 DEF TypeOK, kind, store, applying, bounds
<1>8. \A j \in Instances \ {i} : Untouched(j)
  BY <1>1, <1>2, <1>3 DEF Untouched, TypeOK, applying
<1>9. \A a \in 1 .. n + 1 : a \in 1 .. n \/ a = n + 1
  BY <1>5
<1>10. \A a \in 1 .. n : buffer[i][a] <= cursor[i] /\ buffer[i][a] \in Nat /\ buffer[i][a] < f
  <2>1. \A a \in 1 .. n : buffer[i][a] \in Facts
    BY <1>5
  <2>2. \A a \in 1 .. n : buffer[i][a] <= cursor[i]
    BY <1>1 DEF LocalInv
  <2> QED
    <3>1. ASSUME NEW a \in 1 .. n
          PROVE  buffer[i][a] <= cursor[i] /\ buffer[i][a] \in Nat /\ buffer[i][a] < f
      <4>1. buffer[i][a] \in Nat /\ buffer[i][a] <= cursor[i]
        BY <2>1, <2>2, FactsAreNumbers
      <4> QED
        BY <1>2, <1>4, <4>1
    <3> QED
      BY <3>1
<1> HIDE DEF n
<1>11. Ascending(buffer'[i])
  <2>1. Ascending(buffer[i])
    BY <1>1 DEF LocalInv
  <2>2. ASSUME NEW a \in 1 .. n + 1, NEW b \in 1 .. n + 1, a < b
        PROVE  buffer'[i][a] < buffer'[i][b]
    <3>1. n \in Nat
      BY <1>5 DEF n
    <3>2. a \in 1 .. n
      BY <2>2, <3>1
    <3>3. CASE b \in 1 .. n
      BY <1>6, <2>1, <2>2, <3>2, <3>3 DEF Ascending, n
    <3>4. CASE b = n + 1
      BY <1>6, <1>10, <3>2, <3>4
    <3> QED
      BY <1>9, <3>3, <3>4
  <2> QED
    BY <1>6, <2>2 DEF Ascending
<1>12. \A a \in 1 .. n + 1 : buffer'[i][a] <= f
  <2>1. \A a \in 1 .. n : buffer[i][a] <= f
    BY <1>4, <1>10
  <2>2. f <= f
    BY <1>4
  <2> QED
    BY <1>6, <1>9, <2>1, <2>2
<1>13. Last(buffer'[i]) = f
  BY <1>6, LastFact
<1>14. LocalInv(i)'
  <2>1. /\ pc' = pc /\ closing' = closing /\ transactional' = transactional
        /\ batch' = batch /\ done' = done /\ doomed' = doomed
    BY <1>3 DEF kind, applying
  <2>2. batch[i] = <<>>
    BY <1>1, <1>3 DEF LocalInv
  <2>3. start'[i] <= cursor'[i]
    <3>1. start'[i] = start[i] /\ start[i] <= cursor[i] /\ start[i] \in Nat
      BY <1>1, <1>3, FactsAreNumbers DEF LocalInv, TypeOK, Serials
    <3> QED
      BY <1>2, <1>4, <1>6, <3>1
  <2> QED
    BY <1>1, <1>3, <1>6, <1>11, <1>12, <1>13, <2>1, <2>2, <2>3 DEF LocalInv
<1>15. ASSUME ~trespass, lock' = i PROVE WriterInv(i)'
  <2>1. /\ pc'[i] = "listen" /\ position' = position
    BY <1>3 DEF store
  <2>2. \A g \in Facts : g <= position <=> g <= cursor[i] /\ \A a \in 1 .. n : g # buffer[i][a]
    BY <1>3, <1>15 DEF IndInv, WriterInv, n
  <2>3. ASSUME NEW g \in Facts
        PROVE  g <= position <=> g <= f /\ \A a \in 1 .. n + 1 : g # buffer'[i][a]
    <3>1. (\A a \in 1 .. n + 1 : g # buffer'[i][a]) <=>
            (g # f /\ \A a \in 1 .. n : g # buffer[i][a])
      <4>1. n + 1 \in 1 .. n + 1 /\ \A a \in 1 .. n : a \in 1 .. n + 1
        BY <1>5 DEF n
      <4> QED
        BY <1>6, <1>9, <4>1
    <3>2. g <= cursor[i] <=> g <= f /\ g # f
      BY <1>2, <1>4, FactsAreNumbers
    <3> QED
      BY <2>2, <3>1, <3>2
  <2> QED
    BY <1>6, <2>1, <2>3 DEF WriterInv
<1> QED
  BY <1>3, <1>7, <1>8, <1>14, <1>15, StepKeeps DEF kind, IndInv, LockInv

LEMMA FlushKeeps ==
  ASSUME IndInv, NEW i \in Instances, Flush(i)
  PROVE  IndInv'
<1>1. TypeOK /\ LocalInv(i)
  BY DEF IndInv
<1>2. /\ pc[i] = "listen" /\ buffer[i] # <<>> /\ buffer' = [buffer EXCEPT ![i] = <<>>]
      /\ UNCHANGED <<kind, store, lock, liveness, closing, reading, done, doomed, lastApplied,
                     trespass, bounds>>
  BY DEF Flush
<1>3. batch[i] = <<>> /\ done[i] = 0 /\ ~doomed[i]
  BY <1>1, <1>2 DEF LocalInv
<1>4. PICK to \in {"apply", "dead"} :
        /\ pc' = [pc EXCEPT ![i] = to]
        /\ batch' = [batch EXCEPT ![i] = IF to = "apply" THEN buffer[i] ELSE <<>>]
  <2>1. CASE managed \/ liveness[i]
    BY <2>1 DEF Flush, Goes
  <2>2. CASE ~(managed \/ liveness[i])
    <3>1. batch' = batch /\ pc' = [pc EXCEPT ![i] = "dead"]
      BY <2>2 DEF Flush, Goes
    <3>2. batch = [batch EXCEPT ![i] = <<>>]
      BY <1>1, <1>3 DEF TypeOK
    <3> QED
      BY <3>1, <3>2
  <2> QED
    BY <2>1, <2>2
<1>5. /\ pc'[i] = to /\ buffer'[i] = <<>>
      /\ batch'[i] = IF to = "apply" THEN buffer[i] ELSE <<>>
      /\ done'[i] = 0 /\ ~doomed'[i] /\ cursor'[i] = cursor[i] /\ closing'[i] = closing[i]
  BY <1>1, <1>2, <1>3, <1>4 DEF TypeOK, reading
<1>6. \A j \in Instances \ {i} : Untouched(j)
  BY <1>1, <1>2, <1>4 DEF Untouched, TypeOK, reading
<1>7. TypeOK'
  <2>1. /\ pc' \in [Instances -> Places] /\ buffer' \in [Instances -> Seq(Facts)]
        /\ batch' \in [Instances -> Seq(Facts)]
    BY <1>1, <1>2, <1>4, EmptySequence DEF TypeOK, Places
  <2>2. ASSUME NEW j \in Instances
        PROVE  Len(buffer'[j]) <= MaxBatch /\ done'[j] <= Len(batch'[j])
    <3>1. CASE j = i
      <4>1. Len(buffer'[i]) = 0 /\ MaxBatch \in Nat
        BY <1>5, EmptySequence, BatchAssumption
      <4>2. done'[i] = 0 /\ Len(batch'[i]) \in Nat
        BY <1>5, <2>1
      <4> QED
        BY <3>1, <4>1, <4>2
    <3>2. CASE j # i
      BY <1>1, <1>6, <3>2 DEF TypeOK, Untouched
    <3> QED
      BY <3>1, <3>2
  <2> QED
    BY <1>1, <1>2, <2>1, <2>2 DEF TypeOK, kind, store, reading, bounds
<1>8. LocalInv(i)'
  <2>1. /\ Ascending(buffer[i]) /\ cursor[i] = Last(buffer[i])
    BY <1>1, <1>2 DEF LocalInv
  <2>2. Ascending(<<>>) /\ \A a \in 1 .. Len(<<>>) : FALSE
    BY EmptySequence
  <2>3. start'[i] <= cursor'[i]
    BY <1>1, <1>2 DEF LocalInv, reading
  <2> QED
    BY <1>1, <1>2, <1>5, <2>1, <2>2, <2>3 DEF LocalInv
<1>9. ASSUME ~trespass, lock' = i PROVE WriterInv(i)'
  <2>1. CASE to = "dead"
    BY <1>5, <2>1 DEF WriterInv
  <2>2. CASE to = "apply"
    <3>1. /\ batch'[i] = buffer[i] /\ pc'[i] = "apply" /\ done'[i] = 0 /\ position' = position
          /\ cursor[i] = Last(buffer[i])
      BY <1>1, <1>2, <1>5, <2>2 DEF store, LocalInv
    <3>2. Unwritten(i)' = 1 .. Len(buffer[i])
      BY <3>1 DEF Unwritten
    <3>3. \A f \in Facts : f <= position <=>
            f <= cursor[i] /\ \A a \in 1 .. Len(buffer[i]) : f # buffer[i][a]
      BY <1>2, <1>9 DEF IndInv, WriterInv
    <3> QED
      BY <3>1, <3>2, <3>3 DEF WriterInv
  <2> QED
    BY <2>1, <2>2
<1> QED
  BY <1>2, <1>5, <1>6, <1>7, <1>8, <1>9, StepKeeps DEF kind, IndInv, LockInv

LEMMA FastForwardKeeps ==
  ASSUME IndInv, NEW i \in Instances, FastForward(i)
  PROVE  IndInv'
<1>1. TypeOK /\ LocalInv(i)
  BY DEF IndInv
<1>2. PICK s \in Serials :
        /\ s > cursor[i] /\ \A f \in Facts : f > cursor[i] => f > s
        /\ \/ /\ position' = s /\ Writes(i)
              /\ lastApplied' = [lastApplied EXCEPT ![i] = IF Remembers(i) THEN s ELSE @]
           \/ UNCHANGED <<position, trespass, lastApplied>>
  BY DEF FastForward
<1>3. /\ pc[i] = "listen" /\ buffer[i] = <<>> /\ closing[i] = "open"
      /\ forwarded' = [forwarded EXCEPT ![i] = TRUE]
      /\ UNCHANGED <<kind, applied, lock, pc, liveness, closing, start, cursor, buffer,
                     applying, bounds>>
  BY DEF FastForward, Listening
<1>4. /\ trespass' \in BOOLEAN /\ position' \in Serials
      /\ lastApplied' \in [Instances -> Serials]
  <2>1. trespass \in BOOLEAN /\ position \in Serials /\ lastApplied \in [Instances -> Serials]
    BY <1>1 DEF TypeOK
  <2>2. CASE UNCHANGED <<position, trespass, lastApplied>>
    BY <2>1, <2>2
  <2>3. CASE /\ position' = s /\ Writes(i)
             /\ lastApplied' = [lastApplied EXCEPT ![i] = IF Remembers(i) THEN s ELSE @]
    <3>1. lastApplied' \in [Instances -> Serials]
      BY <2>1, <2>3
    <3>2. trespass' \in BOOLEAN
      BY <2>3 DEF Writes
    <3> QED
      BY <2>3, <3>1, <3>2
  <2> QED
    BY <1>2, <2>2, <2>3
<1>5. TypeOK'
  BY <1>1, <1>3, <1>4 DEF TypeOK, kind, applying, bounds
<1>6. \A j \in Instances : j # i => Untouched(j)
  BY <1>1, <1>2, <1>3 DEF Untouched, applying, TypeOK
<1>7. LocalInv(i)'
  BY <1>1, <1>3 DEF LocalInv, applying, kind
<1>8. ASSUME position' = s, StoreInv, WriterInv(i) PROVE StoreInv' /\ WriterInv(i)'
  <2>1. s \in Nat /\ cursor[i] \in Nat /\ position \in Nat
    BY <1>1, FactsAreNumbers DEF TypeOK, Serials
  <2>2. \A a \in 1 .. Len(buffer[i]) : FALSE
    BY <1>3, EmptySequence
  <2>3. \A f \in Facts : f <= position <=> f <= cursor[i]
    BY <1>3, <1>8, <2>2 DEF WriterInv
  <2>4. \A f \in Facts : f <= s <=> f <= cursor[i]
    BY <1>2, <2>1, FactsAreNumbers
  <2>5. \A f \in Facts : (f <= s <=> f <= position) /\ (f > s <=> f > position)
    BY <2>1, <2>3, <2>4, FactsAreNumbers
  <2>6. ToSet(applied) \subseteq Facts
    BY <1>1, AppliedFacts
  <2>7. FactsUpTo(s) = FactsUpTo(position)
    BY <2>5 DEF FactsUpTo
  <2>8. StoreInv'
    <3>1. applied' = applied /\ transactional' = transactional
      BY <1>3 DEF kind
    <3>2. FactsUpTo(position)' = FactsUpTo(position)
      BY <1>8, <2>7 DEF FactsUpTo
    <3>3. \A f \in ToSet(applied), g \in Facts : f > s /\ g > s => f <= g
      BY <1>8, <2>5, <2>6 DEF StoreInv
    <3> QED
      BY <1>8, <3>1, <3>2, <3>3 DEF StoreInv
  <2>9. WriterInv(i)'
    <3>1. pc'[i] = "listen" /\ buffer' = buffer /\ cursor' = cursor
      BY <1>3
    <3> QED
      BY <1>8, <2>2, <2>4, <3>1 DEF WriterInv
  <2> QED
    BY <2>8, <2>9
<1>9. CASE position' = s /\ Writes(i)
  BY <1>3, <1>5, <1>6, <1>7, <1>8, <1>9, WriteKeeps DEF kind
<1>10. CASE UNCHANGED <<position, trespass, lastApplied>>
  <2>1. WriterInv(i) => WriterInv(i)'
    BY <1>3, <1>10, EmptySequence DEF WriterInv
  <2>2. lock = i => pc'[i] # "idle" /\ closing'[i] # "closed"
    BY <1>3
  <2>3. ~trespass /\ lock' = i => WriterInv(i)'
    BY <1>3, <2>1 DEF IndInv
  <2> QED
    BY <1>3, <1>5, <1>6, <1>7, <1>10, <2>2, <2>3, StepKeeps DEF kind, store
<1> QED
  BY <1>2, <1>9, <1>10

LEMMA ReconnectKeeps ==
  ASSUME IndInv, NEW i \in Instances, Reconnect(i)
  PROVE  IndInv'
<1>1. TypeOK
  BY DEF IndInv
<1>2. /\ forwarded' = [forwarded EXCEPT ![i] = FALSE]
      /\ UNCHANGED <<kind, store, lock, pc, liveness, closing, start, cursor, buffer, applying,
                     lastApplied, trespass, bounds>>
  BY DEF Reconnect
<1>3. TypeOK'
  BY <1>1, <1>2 DEF TypeOK, kind, store, applying, bounds
<1>4. \A j \in Instances : Untouched(j)
  BY <1>2 DEF Untouched, applying
<1> QED
  BY <1>2, <1>3, <1>4, StepKeeps, UntouchedKeeps DEF IndInv, LockInv, kind, store

-----------------------------------------------------------------------------
(* ProjectorImpl.doApply. *)

(* The first fact that is not written yet is the next one above the position. *)
LEMMA NextAbovePosition ==
  ASSUME TypeOK, NEW i \in Instances, LocalInv(i), WriterInv(i), ~transactional,
         pc[i] \in {"apply", "position"}, NEW m \in 1 .. Len(batch[i]),
         Unwritten(i) = {a \in 1 .. Len(batch[i]) : a >= m}
  PROVE  /\ batch[i][m] \in Facts /\ batch[i][m] > position /\ batch[i][m] <= Last(batch[i])
         /\ \A g \in Facts : g > position => batch[i][m] <= g
<1>1. batch[i] \in Seq(Facts) /\ batch[i] # <<>> /\ Ascending(batch[i]) /\ position \in Nat
  BY FactsAreNumbers DEF TypeOK, LocalInv, Serials
<1> DEFINE s == batch[i]
<1> HIDE DEF s
<1>2. s \in Seq(Facts) /\ s # <<>> /\ m \in 1 .. Len(s) /\ Ascending(s)
  BY <1>1 DEF s
<1>3. Len(s) \in Nat /\ Len(s) \in 1 .. Len(s) /\ Last(s) = s[Len(s)] /\ Last(s) \in Facts
  BY <1>2, LastFact
<1>4. \A a \in 1 .. Len(s) : s[a] \in Facts /\ s[a] \in Nat
  <2>1. \A a \in 1 .. Len(s) : s[a] \in Facts
    BY <1>2
  <2> QED
    BY <2>1, FactsAreNumbers
<1>5. \A a \in 1 .. Len(s) : a >= m => s[m] <= s[a]
  <2> SUFFICES ASSUME NEW a \in 1 .. Len(s), a >= m PROVE s[m] <= s[a]
    OBVIOUS
  <2>1. CASE a = m
    BY <1>2, <1>4, <2>1
  <2>2. CASE m < a
    BY <1>2, <1>4, <2>2 DEF Ascending
  <2> QED
    BY <1>2, <1>3, <2>1, <2>2
<1>6. \A f \in Facts : f <= position <=> f <= Last(s) /\ \A a \in 1 .. Len(s) : a >= m => f # s[a]
  BY DEF WriterInv, s
<1>7. s[m] <= Last(s)
  BY <1>2, <1>3, <1>5
<1>8. s[m] > position
  <2>1. ~(s[m] <= position)
    BY <1>2, <1>4, <1>6
  <2> QED
    BY <1>1, <1>2, <1>4, <2>1
<1>9. ASSUME NEW g \in Facts, g > position PROVE s[m] <= g
  <2>1. g \in Nat /\ ~(g <= position) /\ Last(s) \in Nat
    BY <1>1, <1>3, <1>9, FactsAreNumbers
  <2>2. CASE g > Last(s)
    BY <1>2, <1>4, <1>7, <2>1, <2>2
  <2>3. CASE g <= Last(s)
    BY <1>5, <1>6, <2>1, <2>3
  <2> QED
    BY <2>1, <2>2, <2>3
<1> QED
  BY <1>2, <1>4, <1>7, <1>8, <1>9 DEF s

LEMMA CallHandlerKeeps ==
  ASSUME IndInv, NEW i \in Instances, CallHandler(i)
  PROVE  IndInv'
<1>1. TypeOK /\ LocalInv(i)
  BY DEF IndInv
<1>2. /\ pc[i] = "apply" /\ done[i] < Len(batch[i])
      /\ done' = [done EXCEPT ![i] = done[i] + 1]
      /\ UNCHANGED <<kind, position, lock, liveness, closing, reading, buffer, batch, doomed,
                     lastApplied, bounds>>
  BY DEF CallHandler
<1>3. /\ batch[i] \in Seq(Facts) /\ batch[i] # <<>> /\ Len(batch[i]) \in Nat /\ done[i] \in Nat
      /\ done[i] + 1 \in 1 .. Len(batch[i]) /\ batch[i][done[i] + 1] \in Facts
      /\ \A a \in 1 .. Len(batch[i]) : a >= done[i] + 1 <=> a > done[i]
  <2>1. batch[i] \in Seq(Facts) /\ done[i] \in Nat /\ batch[i] # <<>>
    BY <1>1, <1>2 DEF TypeOK, LocalInv
  <2>2. done[i] + 1 \in 1 .. Len(batch[i])
    BY <1>2, <2>1
  <2> QED
    BY <2>1, <2>2
<1> DEFINE m == done[i] + 1
           x == batch[i][m]
<1>4. done'[i] = m /\ m \in Nat /\ m > 0
  BY <1>1, <1>2, <1>3 DEF TypeOK
<1>5. \A j \in Instances : done'[j] \in Nat /\ done'[j] <= Len(batch'[j])
  <2> SUFFICES ASSUME NEW j \in Instances PROVE done'[j] \in Nat /\ done'[j] <= Len(batch'[j])
    OBVIOUS
  <2>1. CASE j = i
    BY <1>2, <1>3, <1>4, <2>1
  <2>2. CASE j # i
    BY <1>1, <1>2, <2>2 DEF TypeOK
  <2> QED
    BY <2>1, <2>2
<1>6. done' \in [Instances -> Nat]
  BY <1>1, <1>2, <1>3 DEF TypeOK
<1> HIDE DEF m, x
<1>7. CASE transactional
  <2>1. UNCHANGED <<applied, pc, trespass>>
    BY <1>2, <1>7 DEF CallHandler
  <2>2. TypeOK'
    BY <1>1, <1>2, <1>5, <1>6, <2>1 DEF TypeOK, kind, reading, bounds
  <2>3. \A j \in Instances \ {i} : Untouched(j)
    BY <1>1, <1>2, <2>1 DEF Untouched, TypeOK, reading
  <2>4. LocalInv(i)'
    BY <1>1, <1>2, <1>3, <2>1 DEF LocalInv, reading, kind
  <2>5. ASSUME ~trespass, lock' = i PROVE WriterInv(i)'
    <3>1. WriterInv(i)
      BY <1>2, <2>5 DEF IndInv
    <3>2. Unwritten(i)' = Unwritten(i)
      BY <1>2, <1>7, <2>1 DEF Unwritten, kind
    <3> QED
      BY <1>2, <2>1, <3>1, <3>2 DEF WriterInv
  <2>6. UNCHANGED store /\ lock' = lock /\ closing' = closing /\ pc' = pc
    BY <1>2, <2>1 DEF store
  <2> QED
    BY <1>2, <2>1, <2>2, <2>3, <2>4, <2>5, <2>6, StepKeeps DEF kind, IndInv, LockInv
<1>8. CASE ~transactional
  <2>1. applied' = Append(applied, x) /\ Writes(i) /\ pc' = [pc EXCEPT ![i] = "position"]
    BY <1>2, <1>8 DEF CallHandler, Goes, m, x
  <2>2. applied \in Seq(Facts) /\ x \in Facts /\ x \in Nat /\ Len(applied) \in Nat
    BY <1>1, <1>3, FactsAreNumbers DEF TypeOK, m, x
  <2> DEFINE n == Len(applied)
  <2>3. /\ applied' \in Seq(Facts) /\ Len(applied') = n + 1 /\ applied'[n + 1] = x
        /\ \A a \in 1 .. n : applied'[a] = applied[a]
    BY <2>1, <2>2
  <2>4. TypeOK'
    <3>1. trespass' \in BOOLEAN
      BY <1>1, <2>1 DEF Writes, TypeOK
    <3>2. pc' \in [Instances -> Places]
      BY <1>1, <2>1 DEF TypeOK, Places
    <3> QED
      BY <1>1, <1>2, <1>5, <1>6, <2>3, <3>1, <3>2 DEF TypeOK, kind, reading, bounds
  <2>5. \A j \in Instances \ {i} : Untouched(j)
    BY <1>1, <1>2, <2>1 DEF Untouched, TypeOK, reading
  <2>6. pc'[i] = "position"
    BY <1>1, <2>1 DEF TypeOK
  <2>7. LocalInv(i)'
    BY <1>1, <1>2, <1>3, <1>4, <1>8, <2>6 DEF LocalInv, reading, kind
  <2>8. \A f : f \in ToSet(applied') <=> f \in ToSet(applied) \/ f = x
    <3>1. \A a \in 1 .. n + 1 : a \in 1 .. n \/ a = n + 1
      BY <2>2
    <3>2. n + 1 \in 1 .. n + 1 /\ \A a \in 1 .. n : a \in 1 .. n + 1
      BY <2>2
    <3> QED
      BY <2>2, <2>3, <3>1, <3>2, ToSetFacts
  <2> HIDE DEF n
  <2>9. ASSUME StoreInv, WriterInv(i) PROVE StoreInv' /\ WriterInv(i)'
    <3>1. Unwritten(i) = {a \in 1 .. Len(batch[i]) : a >= m}
      BY <1>2, <1>3, <1>8 DEF Unwritten, m
    <3>2. m \in 1 .. Len(batch[i])
      BY <1>3 DEF m
    <3>3. x > position /\ \A g \in Facts : g > position => x <= g
      BY <1>1, <1>2, <1>8, <2>9, <3>1, <3>2, NextAbovePosition DEF x
    <3>4. position' = position /\ batch' = batch /\ transactional' = transactional
      BY <1>2 DEF kind
    <3>5. StoreInv'
      <4>1. FactsUpTo(position') \subseteq ToSet(applied')
        BY <2>8, <2>9, <3>4 DEF StoreInv
      <4>2. \A f \in ToSet(applied'), g \in Facts : f > position' /\ g > position' => f <= g
        BY <2>8, <2>9, <3>3, <3>4 DEF StoreInv
      <4>3. ASSUME NEW k \in 1 .. Len(applied') - 1 PROVE applied'[k] <= applied'[k + 1]
        <5>1. n \in Nat /\ k \in 1 .. n
          BY <2>2, <2>3 DEF n
        <5>2. CASE k = n
          <6>0. n \in 1 .. Len(applied)
            BY <5>1, <5>2 DEF n
          <6>1. applied[n] \in ToSet(applied) /\ applied[n] \in Facts /\ applied[n] \in Nat
            <7>1. applied[n] \in Facts
              BY <2>2, <6>0
            <7>2. applied[n] \in ToSet(applied)
              BY <2>2, <6>0, ToSetFacts
            <7> QED
              BY <7>1, <7>2, FactsAreNumbers
          <6>2. position \in Nat
            BY <1>1, FactsAreNumbers DEF TypeOK, Serials
          <6>3. applied[n] <= x
            BY <2>2, <2>9, <3>3, <6>1, <6>2 DEF StoreInv
          <6> QED
            BY <2>3, <5>1, <5>2, <6>3
        <5>3. CASE k < n
          <6>1. k \in 1 .. Len(applied) - 1 /\ k + 1 \in 1 .. n
            BY <5>1, <5>3 DEF n
          <6> QED
            BY <2>3, <2>9, <5>1, <6>1 DEF StoreInv
        <5> QED
          BY <5>1, <5>2, <5>3
      <4> QED
        BY <1>8, <3>4, <4>1, <4>2, <4>3 DEF StoreInv, FactsUpTo
    <3>6. WriterInv(i)'
      <4>1. Unwritten(i)' = Unwritten(i)
        <5>1. Unwritten(i)' = {a \in 1 .. Len(batch[i]) : a > m \/ a = m}
          BY <1>4, <1>8, <2>6, <3>4 DEF Unwritten
        <5>2. \A a \in 1 .. Len(batch[i]) : (a > m \/ a = m) <=> a >= m
          BY <1>4
        <5> QED
          BY <3>1, <5>1, <5>2
      <4>2. batch'[i][done'[i]] \in ToSet(applied')
        BY <1>4, <2>8, <3>4 DEF x
      <4> QED
        BY <1>2, <2>6, <2>9, <3>4, <4>1, <4>2 DEF WriterInv
    <3> QED
      BY <3>5, <3>6
  <2> QED
    BY <1>2, <2>1, <2>4, <2>5, <2>6, <2>7, <2>9, WriteKeeps DEF kind
<1> QED
  BY <1>7, <1>8

LEMMA SetPositionKeeps ==
  ASSUME IndInv, NEW i \in Instances, SetPosition(i)
  PROVE  IndInv'
<1>1. TypeOK /\ LocalInv(i)
  BY DEF IndInv
<1>2. /\ pc[i] = "position" /\ position' = batch[i][done[i]] /\ Writes(i)
      /\ pc' = [pc EXCEPT ![i] = "apply"]
      /\ UNCHANGED <<kind, applied, lock, liveness, closing, reading, buffer, applying,
                     lastApplied, bounds>>
  BY DEF SetPosition, Goes
<1> DEFINE m == done[i]
           x == batch[i][m]
<1>3. /\ batch[i] \in Seq(Facts) /\ batch[i] # <<>> /\ ~transactional
      /\ m \in 1 .. Len(batch[i]) /\ x \in Facts
  <2>1. batch[i] \in Seq(Facts) /\ batch[i] # <<>> /\ ~transactional
    BY <1>1, <1>2 DEF TypeOK, LocalInv
  <2>2. m \in 1 .. Len(batch[i])
    BY <1>1, <1>2, <2>1 DEF TypeOK, LocalInv
  <2> QED
    BY <2>1, <2>2
<1> HIDE DEF m, x
<1>4. x \in Nat /\ x \in Serials
  BY <1>3, FactsAreNumbers
<1>5. position' = x /\ batch' = batch /\ done' = done /\ transactional' = transactional
  BY <1>2 DEF m, x, kind, applying
<1>6. TypeOK'
  <2>1. trespass' \in BOOLEAN
    BY <1>1, <1>2 DEF Writes, TypeOK
  <2>2. pc' \in [Instances -> Places]
    BY <1>1, <1>2 DEF TypeOK, Places
  <2> QED
    BY <1>1, <1>2, <1>4, <1>5, <2>1, <2>2 DEF TypeOK, kind, reading, applying, bounds
<1>7. \A j \in Instances \ {i} : Untouched(j)
  BY <1>1, <1>2 DEF Untouched, TypeOK, reading, applying
<1>8. pc'[i] = "apply"
  BY <1>1, <1>2 DEF TypeOK
<1>9. LocalInv(i)'
  BY <1>1, <1>2, <1>3, <1>8 DEF LocalInv, reading, applying, kind
<1>10. ASSUME StoreInv, WriterInv(i) PROVE StoreInv' /\ WriterInv(i)'
  <2>1. Len(batch[i]) \in Nat /\ m \in Nat
    BY <1>3
  <2>2. Unwritten(i) = {a \in 1 .. Len(batch[i]) : a >= m}
    <3>1. Unwritten(i) = {a \in 1 .. Len(batch[i]) : a > m \/ a = m}
      BY <1>2, <1>3 DEF Unwritten, m
    <3>2. \A a \in 1 .. Len(batch[i]) : (a > m \/ a = m) <=> a >= m
      BY <2>1
    <3> QED
      BY <3>1, <3>2
  <2>3. x > position /\ x <= Last(batch[i]) /\ \A g \in Facts : g > position => x <= g
    BY <1>1, <1>2, <1>3, <1>10, <2>2, NextAbovePosition DEF x
  <2>4. x \in ToSet(applied)
    BY <1>2, <1>10 DEF WriterInv, x, m
  <2>5. position \in Nat
    BY <1>1, FactsAreNumbers DEF TypeOK, Serials
  <2>6. \A f \in Facts : (f <= x <=> f <= position \/ f = x) /\ (f > x => f > position)
    <3> SUFFICES ASSUME NEW f \in Facts
                 PROVE (f <= x <=> f <= position \/ f = x) /\ (f > x => f > position)
      OBVIOUS
    <3>1. f \in Nat /\ (f > position => x <= f)
      BY <2>3, FactsAreNumbers
    <3> QED
      BY <1>4, <2>3, <2>5, <3>1
  <2>7. StoreInv'
    <3>1. FactsUpTo(x) \subseteq ToSet(applied)
      BY <1>10, <2>4, <2>6 DEF StoreInv, FactsUpTo
    <3>2. \A f \in ToSet(applied), g \in Facts : f > x /\ g > x => f <= g
      BY <1>1, <1>10, <2>6, AppliedFacts DEF StoreInv
    <3>3. applied' = applied
      BY <1>2
    <3> QED
      BY <1>3, <1>5, <1>10, <3>1, <3>2, <3>3 DEF StoreInv, FactsUpTo
  <2>8. Unwritten(i)' = {a \in 1 .. Len(batch[i]) : a > m}
    BY <1>3, <1>5, <1>8 DEF Unwritten, m
  <2>9. \A a \in 1 .. Len(batch[i]) : a > m => x # batch[i][a]
    <3> SUFFICES ASSUME NEW a \in 1 .. Len(batch[i]), a > m PROVE x # batch[i][a]
      OBVIOUS
    <3>1. x < batch[i][a]
      BY <1>1, <1>3 DEF LocalInv, Ascending, x
    <3>2. batch[i][a] \in Facts
      BY <1>3
    <3> QED
      BY <1>4, <3>1, <3>2, FactsAreNumbers
  <2>10. \A f \in Facts : f <= x <=> f <= Last(batch[i]) /\ \A a \in 1 .. Len(batch[i]) : a > m => f # batch[i][a]
    <3> SUFFICES ASSUME NEW f \in Facts
        PROVE f <= x <=> f <= Last(batch[i]) /\ \A a \in 1 .. Len(batch[i]) : a > m => f # batch[i][a]
      OBVIOUS
    <3>1. f <= position <=> f <= Last(batch[i]) /\ \A a \in Unwritten(i) : f # batch[i][a]
      BY <1>2, <1>10 DEF WriterInv
    <3>2. \A a \in 1 .. Len(batch[i]) : a >= m <=> (a > m \/ a = m)
      BY <2>1
    <3>3. (\A a \in Unwritten(i) : f # batch[i][a])
            <=> f # x /\ \A a \in 1 .. Len(batch[i]) : a > m => f # batch[i][a]
      BY <1>3, <2>2, <3>2 DEF x
    <3> QED
      BY <2>3, <2>6, <2>9, <3>1, <3>3
  <2>11. WriterInv(i)'
    BY <1>5, <1>8, <2>8, <2>10 DEF WriterInv
  <2> QED
    BY <2>7, <2>11
<1> QED
  BY <1>2, <1>6, <1>7, <1>8, <1>9, <1>10, WriteKeeps DEF kind

(* Batch a appended to what has been applied. *)
LEMMA Concatenated ==
  ASSUME NEW s \in Seq(Facts), NEW t \in Seq(Facts)
  PROVE  /\ s \o t \in Seq(Facts) /\ Len(s \o t) = Len(s) + Len(t)
         /\ Len(s) \in Nat /\ Len(t) \in Nat
         /\ \A k \in 1 .. Len(s) + Len(t) :
              \/ k \in 1 .. Len(s) /\ (s \o t)[k] = s[k]
              \/ k > Len(s) /\ k - Len(s) \in 1 .. Len(t) /\ (s \o t)[k] = t[k - Len(s)]
         /\ \A k \in 1 .. Len(s) : k \in 1 .. Len(s) + Len(t) /\ (s \o t)[k] = s[k]
         /\ \A k \in 1 .. Len(t) : Len(s) + k \in 1 .. Len(s) + Len(t) /\ (s \o t)[Len(s) + k] = t[k]
         /\ \A f : f \in ToSet(s \o t) <=> f \in ToSet(s) \/ f \in ToSet(t)
<1>1. s \o t \in Seq(Facts) /\ Len(s \o t) = Len(s) + Len(t) /\ Len(s) \in Nat /\ Len(t) \in Nat
  OBVIOUS
<1>2. ASSUME NEW k \in 1 .. Len(s) + Len(t)
      PROVE  \/ k \in 1 .. Len(s) /\ (s \o t)[k] = s[k]
             \/ k > Len(s) /\ k - Len(s) \in 1 .. Len(t) /\ (s \o t)[k] = t[k - Len(s)]
  BY <1>1
<1>3. ASSUME NEW k \in 1 .. Len(s)
      PROVE  k \in 1 .. Len(s) + Len(t) /\ (s \o t)[k] = s[k]
  BY <1>1
<1>4. ASSUME NEW k \in 1 .. Len(t)
      PROVE  Len(s) + k \in 1 .. Len(s) + Len(t) /\ (s \o t)[Len(s) + k] = t[k]
  <2>1. Len(s) + k \in 1 .. Len(s) + Len(t) /\ ~(Len(s) + k <= Len(s)) /\ Len(s) + k - Len(s) = k
    BY <1>1
  <2> QED
    BY <1>1, <1>2, <2>1
<1>5. ASSUME NEW f PROVE f \in ToSet(s \o t) <=> f \in ToSet(s) \/ f \in ToSet(t)
  <2>1. f \in ToSet(s \o t) <=> \E k \in 1 .. Len(s) + Len(t) : f = (s \o t)[k]
    BY <1>1, ToSetFacts
  <2>2. (f \in ToSet(s) <=> \E k \in 1 .. Len(s) : f = s[k])
        /\ (f \in ToSet(t) <=> \E k \in 1 .. Len(t) : f = t[k])
    BY ToSetFacts
  <2>3. f \in ToSet(s \o t) => f \in ToSet(s) \/ f \in ToSet(t)
    BY <1>2, <2>1, <2>2
  <2>4. f \in ToSet(s) \/ f \in ToSet(t) => f \in ToSet(s \o t)
    BY <1>3, <1>4, <2>1, <2>2
  <2> QED
    BY <2>3, <2>4
<1> QED
  BY <1>1, <1>2, <1>3, <1>4, <1>5

(* What the end of a batch leaves behind. *)
LEMMA ApplyEndsTypes ==
  ASSUME IndInv, NEW i \in Instances, NEW place \in Places, ApplyEnds(i, place),
         UNCHANGED buffer
  PROVE  /\ pc' \in [Instances -> Places] /\ pc'[i] = place
         /\ batch' \in [Instances -> Seq(Facts)] /\ batch'[i] = <<>>
         /\ done' \in [Instances -> Nat] /\ done'[i] = 0
         /\ doomed' \in [Instances -> BOOLEAN] /\ ~doomed'[i]
         /\ \A j \in Instances \ {i} :
              pc'[j] = pc[j] /\ batch'[j] = batch[j] /\ done'[j] = done[j] /\ doomed'[j] = doomed[j]
         /\ \A j \in Instances : Len(buffer'[j]) <= MaxBatch /\ done'[j] <= Len(batch'[j])
<1>1. TypeOK
  BY DEF IndInv
<1>2. /\ pc' = [pc EXCEPT ![i] = place] /\ batch' = [batch EXCEPT ![i] = <<>>]
      /\ done' = [done EXCEPT ![i] = 0] /\ doomed' = [doomed EXCEPT ![i] = FALSE]
  BY DEF ApplyEnds, Goes
<1>3. /\ pc' \in [Instances -> Places] /\ batch' \in [Instances -> Seq(Facts)]
      /\ done' \in [Instances -> Nat] /\ doomed' \in [Instances -> BOOLEAN]
  BY <1>1, <1>2, EmptySequence DEF TypeOK
<1>4. /\ pc'[i] = place /\ batch'[i] = <<>> /\ done'[i] = 0 /\ ~doomed'[i]
      /\ \A j \in Instances \ {i} :
           pc'[j] = pc[j] /\ batch'[j] = batch[j] /\ done'[j] = done[j] /\ doomed'[j] = doomed[j]
  BY <1>1, <1>2 DEF TypeOK
<1>5. ASSUME NEW j \in Instances
      PROVE  Len(buffer'[j]) <= MaxBatch /\ done'[j] <= Len(batch'[j])
  <2>1. CASE j = i
    <3>1. done'[i] = 0 /\ Len(batch'[i]) = 0
      BY <1>4, EmptySequence
    <3> QED
      BY <1>1, <2>1, <3>1 DEF TypeOK
  <2>2. CASE j # i
    BY <1>1, <1>4, <2>2 DEF TypeOK
  <2> QED
    BY <2>1, <2>2
<1> QED
  BY <1>3, <1>4, <1>5

LEMMA CommitKeeps ==
  ASSUME IndInv, NEW i \in Instances, Commit(i)
  PROVE  IndInv'
<1>1. TypeOK /\ LocalInv(i)
  BY DEF IndInv
<1> DEFINE place == IF doomed[i] THEN "dead" ELSE "listen"
           s == batch[i]
<1>2. /\ pc[i] = "apply" /\ done[i] = Len(s) /\ ApplyEnds(i, place)
      /\ lastApplied' = [lastApplied EXCEPT ![i] = IF doomed[i] THEN lastApplied[i] ELSE Last(s)]
      /\ UNCHANGED <<kind, lock, liveness, closing, reading, buffer, bounds>>
  BY DEF Commit
<1>3. s \in Seq(Facts) /\ s # <<>> /\ Ascending(s) /\ buffer[i] = <<>>
      /\ (~doomed[i] => cursor[i] = Last(s))
  BY <1>1, <1>2 DEF TypeOK, LocalInv
<1>4. /\ Len(s) \in Nat /\ Len(s) \in 1 .. Len(s) /\ Last(s) = s[Len(s)] /\ Last(s) \in Facts
      /\ Last(s) \in Nat /\ Last(s) \in Serials
  BY <1>3, LastFact, FactsAreNumbers
<1>5. place \in Places /\ place # "idle" /\ place \notin {"apply", "position", "acquired"}
  BY DEF Places
<1>6. (place = "listen" => ~doomed[i]) /\ lastApplied'[i] = IF doomed[i] THEN lastApplied[i] ELSE Last(s)
  BY <1>1, <1>2 DEF TypeOK
<1>7. lastApplied' \in [Instances -> Serials]
  BY <1>1, <1>2, <1>4 DEF TypeOK
<1> HIDE DEF place, s
<1>8. /\ pc' \in [Instances -> Places] /\ pc'[i] = place
      /\ batch' \in [Instances -> Seq(Facts)] /\ batch'[i] = <<>>
      /\ done' \in [Instances -> Nat] /\ done'[i] = 0
      /\ doomed' \in [Instances -> BOOLEAN] /\ ~doomed'[i]
      /\ \A j \in Instances \ {i} :
           pc'[j] = pc[j] /\ batch'[j] = batch[j] /\ done'[j] = done[j] /\ doomed'[j] = doomed[j]
      /\ \A j \in Instances : Len(buffer'[j]) <= MaxBatch /\ done'[j] <= Len(batch'[j])
  BY <1>2, <1>5, ApplyEndsTypes
<1>9. \A j \in Instances \ {i} : Untouched(j)
  BY <1>1, <1>2, <1>8 DEF Untouched, TypeOK, reading
<1>10. \A a \in 1 .. Len(<<>>) : FALSE
  BY EmptySequence
<1>11. LocalInv(i)'
  <2>1. /\ buffer'[i] = <<>> /\ closing' = closing /\ cursor' = cursor /\ start' = start
    BY <1>2, <1>3 DEF reading
  <2> QED
    BY <1>1, <1>2, <1>5, <1>8, <1>10, <2>1, EmptySequence DEF LocalInv
<1>12. ASSUME \A f \in Facts : f <= position' <=> f <= Last(s)
       PROVE  WriterInv(i)'
  <2>1. buffer'[i] = <<>> /\ cursor' = cursor /\ start' = start
    BY <1>2, <1>3 DEF reading
  <2>2. pc'[i] # "apply" /\ pc'[i] # "position"
    BY <1>5, <1>8
  <2>3. pc'[i] = "listen" => cursor'[i] = Last(s) /\ lastApplied'[i] = Last(s)
    BY <1>3, <1>6, <1>8, <2>1
  <2> QED
    BY <1>10, <1>12, <2>1, <2>2, <2>3 DEF WriterInv
<1>13. trespass' \in BOOLEAN /\ applied' \in Seq(Facts) /\ position' \in Serials
  <2>1. CASE transactional
    <3>1. applied' = applied \o s /\ position' = Last(s) /\ Writes(i)
      BY <2>1 DEF Commit, s
    <3>2. applied \o s \in Seq(Facts)
      BY <1>1, <1>3 DEF TypeOK
    <3> QED
      BY <1>1, <1>4, <3>1, <3>2 DEF Writes, TypeOK
  <2>2. CASE ~transactional
    BY <1>1, <2>2 DEF Commit, store, TypeOK
  <2> QED
    BY <2>1, <2>2
<1>14. TypeOK'
  BY <1>1, <1>2, <1>7, <1>8, <1>13 DEF TypeOK, kind, reading, bounds
<1>15. closing'[i] = closing[i] /\ pc'[i] # "idle" /\ transactional' = transactional /\ lock' = lock
  BY <1>2, <1>5, <1>8 DEF kind
<1>16. ASSUME WriterInv(i)
       PROVE  /\ ~transactional => \A f \in Facts : f <= position <=> f <= Last(s)
              /\ transactional => \A f \in Facts :
                   f <= position <=> f <= Last(s) /\ \A a \in 1 .. Len(s) : f # s[a]
  <2>1. CASE transactional
    <3>1. Unwritten(i) = 1 .. Len(s)
      BY <2>1 DEF Unwritten, s
    <3> QED
      BY <1>2, <1>16, <2>1, <3>1 DEF WriterInv, s
  <2>2. CASE ~transactional
    <3>1. \A a \in 1 .. Len(s) : ~(a > done[i])
      BY <1>2, <1>4
    <3>2. Unwritten(i) = {}
      BY <1>2, <2>2, <3>1 DEF Unwritten, s
    <3> QED
      BY <1>2, <1>16, <2>2, <3>2 DEF WriterInv, s
  <2> QED
    BY <2>1, <2>2
<1>17. CASE ~transactional
  <2>1. UNCHANGED <<store, trespass>>
    BY <1>17 DEF Commit
  <2>2. ASSUME ~trespass, lock' = i PROVE WriterInv(i)'
    <3>1. WriterInv(i)
      BY <1>15, <2>2 DEF IndInv
    <3> QED
      BY <1>12, <1>16, <1>17, <2>1, <3>1 DEF store
  <2>3. closing[i] # "closed" \/ lock' # i
    BY <1>15 DEF IndInv, LockInv
  <2> QED
    BY <1>9, <1>11, <1>14, <1>15, <2>1, <2>2, <2>3, StepKeeps
<1>18. CASE transactional
  <2>1. applied' = applied \o s /\ position' = Last(s) /\ Writes(i)
    BY <1>18 DEF Commit, s
  <2>2. applied \in Seq(Facts) /\ position \in Nat
    BY <1>1, FactsAreNumbers DEF TypeOK, Serials
  <2>3. ASSUME StoreInv, WriterInv(i) PROVE StoreInv' /\ WriterInv(i)'
    <3>1. WriterInv(i)'
      BY <1>12, <2>1
    <3>2. \A f \in Facts : f <= position <=> f <= Last(s) /\ f \notin ToSet(s)
      BY <1>3, <1>16, <1>18, <2>3, ToSetFacts
    <3>3. \A a \in 1 .. Len(s) : s[a] \in Facts /\ s[a] \in ToSet(s) /\ s[a] \in Nat
      <4>1. \A a \in 1 .. Len(s) : s[a] \in Facts
        BY <1>3
      <4>2. \A a \in 1 .. Len(s) : s[a] \in ToSet(s)
        BY <1>3, ToSetFacts
      <4> QED
        BY <4>1, <4>2, FactsAreNumbers
    <3>4. \A a \in 1 .. Len(s) : s[a] <= Last(s)
      <4> SUFFICES ASSUME NEW a \in 1 .. Len(s) PROVE s[a] <= Last(s)
        OBVIOUS
      <4>1. CASE a = Len(s)
        BY <1>4, <4>1
      <4>2. CASE a < Len(s)
        BY <1>3, <1>4, <3>3, <4>2 DEF Ascending
      <4> QED
        BY <1>4, <4>1, <4>2
    <3>5. \A f \in ToSet(s) : f \in Facts /\ f <= Last(s) /\ f \in Nat /\ f > position
      <4> SUFFICES ASSUME NEW f \in ToSet(s)
                   PROVE  f \in Facts /\ f <= Last(s) /\ f \in Nat /\ f > position
        OBVIOUS
      <4>1. PICK a \in 1 .. Len(s) : f = s[a]
        BY <1>3, ToSetFacts
      <4>2. f \in Facts /\ f <= Last(s) /\ f \in Nat
        BY <3>3, <3>4, <4>1
      <4>3. ~(f <= position)
        BY <3>2, <4>2
      <4> QED
        BY <2>2, <4>2, <4>3
    <3>6. \A f : f \in ToSet(applied) <=> f \in FactsUpTo(position)
      BY <1>18, <2>3 DEF StoreInv
    <3>7. \A f : f \in ToSet(applied') <=> f \in ToSet(applied) \/ f \in ToSet(s)
      BY <1>3, <2>1, <2>2, Concatenated
    <3>8. \A f : f \in ToSet(applied') <=> f \in FactsUpTo(position')
      BY <2>1, <3>2, <3>5, <3>6, <3>7 DEF FactsUpTo
    <3>9. \A f \in ToSet(applied) : f \in Facts /\ f \in Nat /\ f <= position
      BY <3>6, FactsAreNumbers DEF FactsUpTo
    <3> DEFINE p == Len(applied)
               q == Len(s)
               t == applied \o s
    <3>10. /\ t \in Seq(Facts) /\ Len(t) = p + q /\ p \in Nat /\ q \in Nat
           /\ \A k \in 1 .. p + q : \/ k \in 1 .. p /\ t[k] = applied[k]
                                    \/ k > p /\ k - p \in 1 .. q /\ t[k] = s[k - p]
      BY <1>3, <2>2, Concatenated
    <3>11. \A k \in 1 .. p : applied[k] \in ToSet(applied)
      BY <2>2, ToSetFacts
    <3> HIDE DEF p, q, t
    <3>12. ASSUME NEW k \in 1 .. Len(t) - 1 PROVE t[k] < t[k + 1]
      <4>1. k \in 1 .. p + q /\ k + 1 \in 1 .. p + q /\ k \in Nat
        BY <3>10
      <4>2. CASE k \in 1 .. p /\ t[k] = applied[k] /\ k + 1 \in 1 .. p /\ t[k + 1] = applied[k + 1]
        <5>1. k \in 1 .. p - 1
          BY <3>10, <4>2
        <5> QED
          BY <1>18, <2>3, <4>2, <5>1 DEF StoreInv, p
      <4>3. CASE k \in 1 .. p /\ t[k] = applied[k] /\ k + 1 - p \in 1 .. q /\ t[k + 1] = s[k + 1 - p]
        <5>1. t[k] \in Nat /\ t[k] <= position
          BY <3>9, <3>11, <4>3
        <5>2. t[k + 1] \in Nat /\ t[k + 1] > position
          BY <3>3, <3>5, <4>3 DEF q
        <5> QED
          BY <2>2, <5>1, <5>2
      <4>4. CASE k - p \in 1 .. q /\ t[k] = s[k - p] /\ k + 1 - p \in 1 .. q /\ t[k + 1] = s[k + 1 - p]
        <5>1. k - p < k + 1 - p
          BY <3>10, <4>1
        <5> QED
          BY <1>3, <4>4, <5>1 DEF Ascending, q
      <4>5. ~(k > p /\ k + 1 \in 1 .. p)
        BY <3>10, <4>1
      <4> QED
        BY <3>10, <4>1, <4>2, <4>3, <4>4, <4>5
    <3>13. \A k \in 1 .. Len(t) - 1 : t[k] <= t[k + 1]
      <4> SUFFICES ASSUME NEW k \in 1 .. Len(t) - 1 PROVE t[k] <= t[k + 1]
        OBVIOUS
      <4>1. k \in 1 .. Len(t) /\ k + 1 \in 1 .. Len(t)
        BY <3>10
      <4>2. t[k] \in Facts /\ t[k + 1] \in Facts
        BY <3>10, <4>1
      <4>3. t[k] \in Nat /\ t[k + 1] \in Nat
        BY <4>2, FactsAreNumbers
      <4> QED
        BY <3>12, <4>3
    <3>14. StoreInv'
      <4>1. \A f \in ToSet(applied') : f \in Nat /\ f <= position'
        BY <3>8, FactsAreNumbers DEF FactsUpTo
      <4>2. position' \in Nat
        BY <1>4, <2>1
      <4>3. \A f \in ToSet(applied') : ~(f > position')
        BY <4>1, <4>2
      <4>4. applied' = t
        BY <2>1 DEF t
      <4>5. FactsUpTo(position)' = FactsUpTo(position')
        BY DEF FactsUpTo
      <4> QED
        BY <3>8, <3>12, <3>13, <4>3, <4>4, <4>5 DEF StoreInv
    <3> QED
      BY <3>1, <3>14
  <2> QED
    BY <1>9, <1>11, <1>14, <1>15, <2>1, <2>3, WriteKeeps
<1> QED
  BY <1>17, <1>18

(* The batch is given up, and the thread with it. *)
LEMMA DyingKeeps ==
  ASSUME IndInv, NEW i \in Instances, pc[i] = "apply", ApplyEnds(i, "dead"), Fault,
         UNCHANGED <<kind, store, lock, liveness, closing, reading, buffer, lastApplied, trespass>>
  PROVE  IndInv'
<1>1. TypeOK /\ LocalInv(i)
  BY DEF IndInv
<1>2. /\ pc' \in [Instances -> Places] /\ pc'[i] = "dead"
      /\ batch' \in [Instances -> Seq(Facts)] /\ batch'[i] = <<>>
      /\ done' \in [Instances -> Nat] /\ done'[i] = 0
      /\ doomed' \in [Instances -> BOOLEAN] /\ ~doomed'[i]
      /\ \A j \in Instances \ {i} :
           pc'[j] = pc[j] /\ batch'[j] = batch[j] /\ done'[j] = done[j] /\ doomed'[j] = doomed[j]
      /\ \A j \in Instances : Len(buffer'[j]) <= MaxBatch /\ done'[j] <= Len(batch'[j])
  BY ApplyEndsTypes DEF Places
<1>3. \A j \in Instances \ {i} : Untouched(j)
  BY <1>1, <1>2 DEF Untouched, TypeOK, reading
<1>4. TypeOK'
  <2>1. faults' \in 0 .. MaxFaults /\ closes' = closes
    BY <1>1, BoundsAssumption DEF Fault, TypeOK
  <2> QED
    BY <1>1, <1>2, <2>1 DEF TypeOK, kind, store, reading
<1>5. LocalInv(i)'
  BY <1>1, <1>2, EmptySequence DEF LocalInv, reading
<1>6. WriterInv(i)'
  BY <1>2 DEF WriterInv
<1> QED
  BY <1>2, <1>3, <1>4, <1>5, <1>6, StepKeeps DEF kind, IndInv, LockInv

LEMMA HandlerFailsKeeps ==
  ASSUME IndInv, NEW i \in Instances, HandlerFails(i)
  PROVE  IndInv'
<1>1. TypeOK /\ LocalInv(i)
  BY DEF IndInv
<1>2. /\ pc[i] = "apply" /\ done[i] < Len(batch[i]) /\ Fault
      /\ UNCHANGED <<kind, store, lock, liveness, closing, reading, buffer, lastApplied, trespass>>
  BY DEF HandlerFails
<1>3. CASE ~(transactional /\ done[i] > 0)
  BY <1>2, <1>3, DyingKeeps DEF HandlerFails
<1>4. CASE transactional /\ done[i] > 0
  <2> DEFINE s == batch[i]
             d == done[i]
             t == SubSeq(s, 1, d)
  <2>1. /\ batch' = [batch EXCEPT ![i] = t] /\ done' = [done EXCEPT ![i] = 0]
        /\ doomed' = [doomed EXCEPT ![i] = TRUE] /\ pc' = pc
    BY <1>4 DEF HandlerFails, Handled
  <2>2. s \in Seq(Facts) /\ s # <<>> /\ Ascending(s) /\ d \in Nat /\ d > 0 /\ d < Len(s)
    BY <1>1, <1>2, <1>4 DEF TypeOK, LocalInv
  <2>3. Len(s) \in Nat /\ Len(s) \in 1 .. Len(s) /\ Last(s) = s[Len(s)] /\ Last(s) \in Facts
    BY <2>2, LastFact
  <2> HIDE DEF s, d
  <2>4. \A a \in 1 .. d : a \in 1 .. Len(s) /\ s[a] \in Facts
    <3>1. \A a \in 1 .. d : a \in 1 .. Len(s)
      BY <2>2, <2>3
    <3> QED
      BY <2>2, <3>1
  <2>5. t \in Seq(Facts) /\ Len(t) = d /\ t # <<>> /\ \A a \in 1 .. d : t[a] = s[a]
    <3>1. t \in Seq(Facts) /\ Len(t) = d
      BY <2>2, <2>3
    <3>2. \A a \in 1 .. d : t[a] = s[a]
      BY <2>2, <2>3
    <3> QED
      BY <2>2, <3>1, <3>2
  <2> HIDE DEF t
  <2>6. /\ batch'[i] = t /\ done'[i] = 0 /\ doomed'[i] /\ pc'[i] = "apply"
        /\ batch' \in [Instances -> Seq(Facts)] /\ done' \in [Instances -> Nat]
        /\ doomed' \in [Instances -> BOOLEAN]
    BY <1>1, <1>2, <2>1, <2>5 DEF TypeOK
  <2>7. \A j \in Instances \ {i} : Untouched(j)
    BY <1>1, <1>2, <2>1 DEF Untouched, TypeOK, reading
  <2>8. TypeOK'
    <3>1. faults' \in 0 .. MaxFaults /\ closes' = closes
      BY <1>1, <1>2, BoundsAssumption DEF Fault, TypeOK
    <3>2. ASSUME NEW j \in Instances
          PROVE  Len(buffer'[j]) <= MaxBatch /\ done'[j] <= Len(batch'[j])
      <4>1. CASE j = i
        BY <1>1, <1>2, <2>2, <2>5, <2>6, <4>1 DEF TypeOK
      <4>2. CASE j # i
        BY <1>1, <1>2, <2>7, <4>2 DEF TypeOK, Untouched
      <4> QED
        BY <4>1, <4>2
    <3> QED
      BY <1>1, <1>2, <2>1, <2>6, <3>1, <3>2 DEF TypeOK, kind, store, reading
  <2>9. Ascending(t)
    BY <2>2, <2>4, <2>5 DEF Ascending
  <2>10. LocalInv(i)'
    BY <1>1, <1>2, <2>5, <2>6, <2>9 DEF LocalInv, reading
  <2>11. ASSUME ~trespass, lock' = i PROVE WriterInv(i)'
    <3>1. WriterInv(i) /\ position' = position /\ transactional'
      BY <1>2, <1>4, <2>11 DEF IndInv, kind, store
    <3>2. Unwritten(i) = 1 .. Len(s) /\ Unwritten(i)' = 1 .. d
      BY <1>4, <2>5, <2>6, <3>1 DEF Unwritten, s
    <3>3. \A f \in Facts : f <= position <=> f <= Last(s) /\ \A a \in 1 .. Len(s) : f # s[a]
      BY <1>2, <3>1, <3>2 DEF WriterInv, s
    <3>4. Last(t) = s[d] /\ d \in 1 .. d /\ d \in 1 .. Len(s) /\ s[d] \in Facts
      BY <2>2, <2>4, <2>5, LastFact
    <3>5. s[d] < Last(s)
      BY <2>2, <2>3, <3>4 DEF Ascending
    <3>6. /\ s[d] \in Nat /\ Last(s) \in Nat /\ position \in Nat
          /\ \A f \in Facts : f \in Nat
      <4>1. position \in Nat
        BY <1>1, FactsAreNumbers DEF TypeOK, Serials
      <4> QED
        BY <2>3, <3>4, <4>1, FactsAreNumbers
    <3>7. s[d] > position
      <4>1. ~(s[d] <= position)
        BY <3>3, <3>4
      <4> QED
        BY <3>6, <4>1
    <3>8. ASSUME NEW f \in Facts
          PROVE  f <= position <=> f <= s[d] /\ \A a \in 1 .. d : f # t[a]
      <4>1. f \in Nat
        BY <3>6
      <4>2. ASSUME f <= position PROVE f <= s[d] /\ \A a \in 1 .. d : f # t[a]
        <5>1. f <= s[d]
          BY <3>6, <3>7, <4>1, <4>2
        <5> QED
          BY <2>4, <2>5, <3>3, <4>2, <5>1
      <4>3. ASSUME f <= s[d], \A a \in 1 .. d : f # t[a] PROVE f <= position
        <5>1. f <= Last(s)
          BY <3>5, <3>6, <4>1, <4>3
        <5>2. ASSUME NEW a \in 1 .. Len(s) PROVE f # s[a]
          <6>1. CASE a <= d
            <7>1. a \in 1 .. d
              BY <2>2, <6>1
            <7> QED
              BY <2>5, <4>3, <7>1
          <6>2. CASE a > d
            <7>1. s[d] < s[a] /\ s[a] \in Facts
              BY <2>2, <3>4, <6>2 DEF Ascending
            <7>2. s[a] \in Nat
              BY <3>6, <7>1
            <7> QED
              BY <3>6, <4>1, <4>3, <7>1, <7>2
          <6> QED
            BY <2>2, <6>1, <6>2
        <5> QED
          BY <3>3, <5>1, <5>2
      <4> QED
        BY <4>2, <4>3
    <3> QED
      BY <2>6, <3>1, <3>2, <3>4, <3>8 DEF WriterInv
  <2> QED
    BY <1>2, <2>6, <2>7, <2>8, <2>10, <2>11, StepKeeps DEF kind, IndInv, LockInv
<1> QED
  BY <1>3, <1>4

LEMMA CommitFailsKeeps ==
  ASSUME IndInv, NEW i \in Instances, CommitFails(i)
  PROVE  IndInv'
BY DyingKeeps DEF CommitFails

-----------------------------------------------------------------------------
(* The ends of an update and of a subscription. *)

LEMMA CompleteKeeps ==
  ASSUME IndInv, NEW i \in Instances, Complete(i)
  PROVE  IndInv'
<1>1. TypeOK /\ LocalInv(i)
  BY DEF IndInv
<1>2. /\ pc[i] = "listen" /\ buffer[i] = <<>> /\ pc' = [pc EXCEPT ![i] = "complete"]
      /\ UNCHANGED <<kind, store, lock, liveness, closing, reading, buffer, applying,
                     lastApplied, trespass, bounds>>
  BY DEF Complete, Listening, Goes
<1>3. pc'[i] = "complete" /\ pc' \in [Instances -> Places]
  BY <1>1, <1>2 DEF TypeOK, Places
<1>4. TypeOK'
  BY <1>1, <1>2, <1>3 DEF TypeOK, kind, store, reading, applying, bounds
<1>5. \A j \in Instances \ {i} : Untouched(j)
  BY <1>1, <1>2 DEF Untouched, TypeOK, reading, applying
<1>6. LocalInv(i)'
  BY <1>1, <1>2, <1>3 DEF LocalInv, reading, applying
<1>7. WriterInv(i)'
  BY <1>3 DEF WriterInv
<1> QED
  BY <1>2, <1>3, <1>4, <1>5, <1>6, <1>7, StepKeeps DEF kind, IndInv, LockInv

(* The thread of instance i is over, and i does not hold the lock any more. *)
LEMMA ForgetKeeps ==
  ASSUME IndInv, NEW i \in Instances, Forget(i), UNCHANGED <<kind, store, trespass, closes>>,
         faults' \in 0 .. MaxFaults, lock' \in Instances \cup {Nobody, Gone}, lock' # i,
         lock' = lock \/ lock' \notin Instances
  PROVE  IndInv'
<1>1. TypeOK
  BY DEF IndInv
<1>2. 0 \in Serials /\ 0 \in Nat /\ MaxBatch \in Nat
  BY FactsAreNumbers, BatchAssumption DEF Serials
<1>3. /\ pc'[i] = "idle" /\ closing'[i] = "open" /\ start'[i] = 0 /\ cursor'[i] = 0
      /\ buffer'[i] = <<>> /\ batch'[i] = <<>> /\ done'[i] = 0 /\ ~doomed'[i]
  BY <1>1 DEF Forget, TypeOK
<1>4. /\ pc' \in [Instances -> Places] /\ liveness' \in [Instances -> BOOLEAN]
      /\ closing' \in [Instances -> {"open", "closing", "closed"}]
      /\ start' \in [Instances -> Serials] /\ cursor' \in [Instances -> Serials]
      /\ lastApplied' \in [Instances -> Serials]
      /\ buffer' \in [Instances -> Seq(Facts)] /\ batch' \in [Instances -> Seq(Facts)]
      /\ done' \in [Instances -> Nat] /\ doomed' \in [Instances -> BOOLEAN]
      /\ forwarded' \in [Instances -> BOOLEAN]
  BY <1>1, <1>2, EmptySequence DEF Forget, TypeOK, Places
<1>5. \A j \in Instances \ {i} : Untouched(j)
  BY <1>1 DEF Forget, Untouched, TypeOK
<1>6. ASSUME NEW j \in Instances
      PROVE  Len(buffer'[j]) <= MaxBatch /\ done'[j] <= Len(batch'[j])
  <2>1. CASE j = i
    <3>1. Len(buffer'[i]) = 0 /\ Len(batch'[i]) = 0
      BY <1>3, EmptySequence
    <3> QED
      BY <1>2, <1>3, <2>1, <3>1
  <2>2. CASE j # i
    BY <1>1, <1>5, <2>2 DEF TypeOK, Untouched
  <2> QED
    BY <2>1, <2>2
<1>7. TypeOK'
  BY <1>1, <1>4, <1>6 DEF TypeOK, kind, store
<1>8. LocalInv(i)'
  BY <1>3, EmptySequence DEF LocalInv, Ascending
<1> QED
  BY <1>5, <1>7, <1>8, StepKeeps DEF kind

LEMMA UpdateEndsKeeps ==
  ASSUME IndInv, NEW i \in Instances, UpdateEnds(i)
  PROVE  IndInv'
<1>1. TypeOK
  BY DEF IndInv
<1> QED
  BY <1>1, ForgetKeeps, OwnerAssumption DEF UpdateEnds, CloseToken, TypeOK, bounds

LEMMA ThreadEndsKeeps ==
  ASSUME IndInv, NEW i \in Instances, ThreadEnds(i)
  PROVE  IndInv'
<1>1. TypeOK /\ lock # i
  BY DEF IndInv, LockInv, ThreadEnds
<1> QED
  BY <1>1, ForgetKeeps DEF ThreadEnds, TypeOK, bounds

LEMMA CrashKeeps ==
  ASSUME IndInv, NEW i \in Instances, Crash(i)
  PROVE  IndInv'
<1>1. TypeOK
  BY DEF IndInv
<1>2. faults' \in 0 .. MaxFaults /\ closes' = closes
  BY <1>1, BoundsAssumption DEF Crash, Fault, TypeOK
<1>3. lock' = IF lock = i THEN Gone ELSE lock
  BY DEF Crash
<1>4. lock' \in Instances \cup {Nobody, Gone} /\ lock' # i /\ (lock' = lock \/ lock' \notin Instances)
  BY <1>1, <1>3, OwnerAssumption DEF TypeOK
<1> QED
  BY <1>2, <1>4, ForgetKeeps DEF Crash

(* The user closes the subscription, or the token after it. *)
LEMMA ClosingKeeps ==
  ASSUME IndInv, NEW i \in Instances, CloseSubscription(i) \/ CloseWriterToken(i)
  PROVE  IndInv'
<1>1. TypeOK /\ LocalInv(i)
  BY DEF IndInv
<1>2. PICK to \in {"closing", "closed"} :
        /\ closing' = [closing EXCEPT ![i] = to]
        /\ to = "closed" => lock' # i
  BY <1>1, OwnerAssumption DEF CloseSubscription, CloseWriterToken, CloseToken
<1>3. /\ pc[i] \notin {"idle", "acquired"}
      /\ lock' = lock \/ lock' \notin Instances
      /\ lock' \in Instances \cup {Nobody, Gone}
      /\ UNCHANGED <<kind, store, pc, liveness, reading, buffer, applying, lastApplied, trespass>>
  BY <1>1, OwnerAssumption DEF CloseSubscription, CloseWriterToken, CloseToken, LocalInv, TypeOK
<1>4. faults' = faults /\ closes' \in 0 .. MaxCloses
  BY <1>1, BoundsAssumption DEF CloseSubscription, CloseWriterToken, bounds, TypeOK
<1>5. closing'[i] = to /\ closing' \in [Instances -> {"open", "closing", "closed"}]
  BY <1>1, <1>2 DEF TypeOK
<1>6. TypeOK'
  BY <1>1, <1>3, <1>4, <1>5 DEF TypeOK, kind, store, reading, applying
<1>7. \A j \in Instances \ {i} : Untouched(j)
  BY <1>1, <1>2, <1>3 DEF Untouched, TypeOK, reading, applying
<1>8. LocalInv(i)'
  BY <1>1, <1>3, <1>5 DEF LocalInv, kind, reading, applying
<1>9. ASSUME ~trespass, lock' = i PROVE WriterInv(i)'
  <2>1. WriterInv(i)
    BY <1>3, <1>9 DEF IndInv
  <2>2. Unwritten(i)' = Unwritten(i)
    BY <1>3 DEF Unwritten, kind, applying
  <2> QED
    BY <1>3, <2>1, <2>2 DEF WriterInv, store, reading, applying
<1> QED
  BY <1>2, <1>3, <1>5, <1>6, <1>7, <1>8, <1>9, StepKeeps DEF kind

-----------------------------------------------------------------------------
LEMMA InitIndInv == Init => IndInv
<1> SUFFICES ASSUME Init PROVE IndInv
  OBVIOUS
<1>1. /\ 0 \in Serials /\ 0 \in Nat /\ MaxBatch \in Nat /\ <<>> \in Seq(Facts) /\ Len(<<>>) = 0
      /\ 0 \in 0 .. MaxFaults /\ 0 \in 0 .. MaxCloses /\ 0 <= MaxBatch /\ 0 <= 0
  BY FactsAreNumbers, BatchAssumption, BoundsAssumption, EmptySequence DEF Serials
<1>2. TypeOK
  BY <1>1 DEF Init, TypeOK, Places
<1>3. LockInv
  BY OwnerAssumption DEF Init, LockInv
<1>4. ASSUME NEW i \in Instances PROVE LocalInv(i)
  <2>1. /\ pc[i] = "idle" /\ closing[i] = "open" /\ buffer[i] = <<>> /\ batch[i] = <<>>
        /\ done[i] = 0 /\ ~doomed[i] /\ start[i] <= cursor[i]
    BY <1>1 DEF Init
  <2>2. \A a \in 1 .. Len(<<>>) : FALSE
    BY <1>1
  <2> QED
    BY <2>1, <2>2, EmptySequence DEF LocalInv
<1>5. ToSet(<<>>) = {}
  <2>1. \A a \in 1 .. Len(<<>>) : FALSE
    BY <1>1
  <2>2. \A f : f \notin ToSet(<<>>)
    BY <1>1, <2>1, ToSetFacts
  <2> QED
    BY <2>2
<1>6. FactsUpTo(0) = {}
  <2>1. \A f \in Facts : ~(f <= 0)
    <3> SUFFICES ASSUME NEW f \in Facts PROVE ~(f <= 0)
      OBVIOUS
    <3>1. f \in 1 .. MaxSerial /\ MaxSerial \in Nat
      BY SerialAssumption
    <3> QED
      BY <3>1
  <2> QED
    BY <2>1 DEF FactsUpTo
<1>7. \A k \in 1 .. Len(<<>>) - 1 : FALSE
  <2>1. \A k \in 1 .. 0 - 1 : FALSE
    OBVIOUS
  <2> QED
    BY <1>1, <2>1
<1>8. StoreInv
  BY <1>5, <1>6, <1>7 DEF Init, StoreInv
<1>9. \A i \in Instances : lock # i
  BY OwnerAssumption DEF Init
<1> QED
  BY <1>2, <1>3, <1>4, <1>8, <1>9 DEF IndInv

LEMMA NextIndInv == IndInv /\ [Next]_vars => IndInv'
<1> SUFFICES ASSUME IndInv, [Next]_vars PROVE IndInv'
  OBVIOUS
<1>1. ASSUME NEW i \in Instances, Work(i) PROVE IndInv'
  BY <1>1, SubscribeKeeps, ReceiveKeeps, FlushKeeps, CallHandlerKeeps, SetPositionKeeps,
     CommitKeeps, HandlerFailsKeeps, CommitFailsKeeps, CompleteKeeps, UpdateEndsKeeps,
     ClosingKeeps, ThreadEndsKeeps DEF Work
<1>2. ASSUME NEW i \in Instances,
             \/ AcquireToken(i) \/ RefreshLiveness(i) \/ FastForward(i) \/ Reconnect(i)
             \/ CloseSubscription(i) \/ Crash(i)
      PROVE  IndInv'
  BY <1>2, AcquireTokenKeeps, LivenessKeeps, FastForwardKeeps, ReconnectKeeps, ClosingKeeps, CrashKeeps
<1>3. CASE LockExpires \/ LeaseLost
  BY <1>3, ExpiryKeeps
<1>4. CASE UNCHANGED vars
  <2>1. \A j \in Instances : LocalInv(j)'
    BY <1>4 DEF IndInv, LocalInv, vars, kind, reading, applying
  <2>2. TypeOK' /\ LockInv'
    BY <1>4 DEF IndInv, TypeOK, LockInv, vars, kind, store, reading, applying, bounds
  <2>3. StoreInv => StoreInv'
    BY <1>4 DEF StoreInv, FactsUpTo, vars, kind, store
  <2>4. ASSUME NEW j \in Instances, WriterInv(j) PROVE WriterInv(j)'
    <3>1. Untouched(j) /\ transactional' = transactional /\ position' = position /\ applied' = applied
      BY <1>4 DEF Untouched, vars, kind, store, reading, applying
    <3> QED
      BY <2>4, <3>1, UntouchedKeeps
  <2> QED
    BY <1>4, <2>1, <2>2, <2>3, <2>4 DEF IndInv, vars
<1> QED
  BY <1>1, <1>2, <1>3, <1>4 DEF Next

(* The invariant holds in every state of every behaviour of the instances. *)
THEOREM Invariance == Spec => []IndInv
BY InitIndInv, NextIndInv, PTL DEF Spec

(* What an instance buffers stays within maxNumberOfFactsToBuffer, and what *)
(* doApply has handled within the batch it was given.                       *)
THEOREM TypeCorrect == Spec => []TypeOK
<1>1. IndInv => TypeOK
  BY DEF IndInv
<1> QED
  BY <1>1, Invariance, PTL

(* As long as nobody writes without the lock, the handlers' effects and the *)
(* position of the projection agree, whoever wrote them, and whatever       *)
(* crashed, failed or was closed in between.                                *)
THEOREM StoreAgreesWithPosition == Spec => []StateMatchesPosition
<1>1. ASSUME IndInv PROVE StateMatchesPosition
  <2> SUFFICES ASSUME ~trespass PROVE StateMatchesPosition
    BY DEF StateMatchesPosition
  <2>1. StoreInv /\ TypeOK
    BY <1>1 DEF IndInv
  <2> DEFINE extra == ToSet(applied) \ FactsUpTo(position)
  <2>2. ASSUME NEW f \in extra, NEW g \in extra PROVE f = g
    <3>1. f \in Facts /\ g \in Facts /\ f \in ToSet(applied) /\ g \in ToSet(applied)
      BY <2>1, AppliedFacts
    <3>2. f \in Nat /\ g \in Nat /\ position \in Nat
      BY <2>1, <3>1, FactsAreNumbers DEF TypeOK, Serials
    <3>3. f > position /\ g > position
      BY <3>1, <3>2 DEF FactsUpTo
    <3>4. f <= g /\ g <= f
      BY <2>1, <3>1, <3>3 DEF StoreInv
    <3> QED
      BY <3>2, <3>4
  <2>3. Cardinality(extra) <= 1
    <3> HIDE DEF extra
    <3>1. CASE extra = {}
      <4>1. Cardinality(extra) = 0
        BY <3>1, FS_EmptySet
      <4> QED
        BY <4>1
    <3>2. CASE extra # {}
      <4>1. PICK f : f \in extra
        BY <3>2
      <4>2. extra = {f}
        BY <2>2, <4>1
      <4>3. Cardinality(extra) = 1
        BY <4>2, FS_Singleton
      <4> QED
        BY <4>3
    <3> QED
      BY <3>1, <3>2
  <2>4. CASE transactional
    <3>1. ToSet(applied) = FactsUpTo(position)
      BY <2>1, <2>4 DEF StoreInv
    <3> QED
      BY <2>1, <2>4, <3>1 DEF StateMatchesPosition, StoreInv
  <2>5. CASE ~transactional
    <3>1. /\ FactsUpTo(position) \subseteq ToSet(applied)
          /\ \A k \in 1 .. Len(applied) - 1 : applied[k] <= applied[k + 1]
      BY <2>1 DEF StoreInv
    <3> QED
      BY <2>3, <2>5, <3>1 DEF StateMatchesPosition
  <2> QED
    BY <2>4, <2>5
<1> QED
  BY <1>1, Invariance, PTL

-----------------------------------------------------------------------------
(* What a step adds to the store. *)
Forward ==
  /\ FactsUpTo(position) \subseteq FactsUpTo(position')
  /\ \A k \in Len(applied) + 1 .. Len(applied') : applied'[k] > position
  /\ (\E i \in Instances : lock = i /\ Remembers(i)) => position' >= position

(* What all of them but a fast-forward do. *)
Ahead == /\ position' >= position
         /\ \A k \in Len(applied) + 1 .. Len(applied') : applied'[k] > position

LEMMA AheadIsForward ==
  ASSUME TypeOK, TypeOK', Ahead
  PROVE  Forward
<1>1. position \in Nat /\ position' \in Nat
  BY FactsAreNumbers DEF TypeOK, Serials
<1>2. \A f \in Facts : f <= position => f <= position'
  BY <1>1, FactsAreNumbers DEF Ahead
<1> QED
  BY <1>2 DEF Ahead, Forward, FactsUpTo

LEMMA UnchangedIsAhead ==
  ASSUME TypeOK, UNCHANGED store
  PROVE  Ahead
<1>1. position \in Nat /\ Len(applied) \in Nat /\ position' = position /\ applied' = applied
  BY FactsAreNumbers DEF TypeOK, Serials, store
<1> QED
  BY <1>1 DEF Ahead

(* Whoever writes, with nobody having done so without the lock, has it. *)
LEMMA WriterHasLock ==
  ASSUME IndInv, NEW i \in Instances, Writes(i), ~trespass'
  PROVE  WriterInv(i) /\ LocalInv(i) /\ TypeOK
BY DEF IndInv, Writes

(* Where the holder of the lock is with respect to the position itself,   *)
(* not only to the facts up to it.                                         *)
PlaceInv(i) ==
  /\ pc[i] = "listen" /\ Remembers(i) => position \in {start[i], lastApplied[i]}
  /\ pc[i] = "apply" /\ ~transactional /\ done[i] > 0 => position = batch[i][done[i]]

FurtherInv == ~trespass => \A i \in Instances : lock = i => PlaceInv(i)

(* What PlaceInv(j) depends on, but for the position. *)
Stays(j) == /\ managed' = managed /\ pc'[j] = pc[j] /\ start'[j] = start[j]
            /\ lastApplied'[j] = lastApplied[j] /\ done'[j] = done[j] /\ batch'[j] = batch[j]

(* A step of instance i. *)
LEMMA PlaceStep ==
  ASSUME IndInv, FurtherInv, NEW i \in Instances, \A j \in Instances \ {i} : Stays(j),
         transactional' = transactional, UNCHANGED <<position, trespass>> \/ Writes(i),
         \A j \in Instances \ {i} : lock' = j => lock = j,
         ~trespass /\ lock' = i => PlaceInv(i)'
  PROVE  FurtherInv'
<1> SUFFICES ASSUME ~trespass', NEW j \in Instances, lock' = j PROVE PlaceInv(j)'
  BY DEF FurtherInv
<1>1. ~trespass
  BY DEF Writes
<1>2. CASE j = i
  BY <1>1, <1>2
<1>3. CASE j # i
  <2>0. lock = j
    BY <1>3
  <2>1. lock = j /\ position' = position
    BY <1>3, <2>0 DEF Writes
  <2>2. PlaceInv(j) /\ Stays(j)
    BY <1>1, <1>3, <2>1 DEF FurtherInv
  <2> QED
    BY <2>1, <2>2 DEF PlaceInv, Remembers, Stays, kind
<1> QED
  BY <1>2, <1>3

(* Steps that leave an instance in a place of which PlaceInv says nothing, *)
(* or as it is.                                                            *)
LEMMA PlainPlaces ==
  ASSUME IndInv, FurtherInv, NEW i \in Instances,
         \/ AcquireToken(i) \/ RefreshLiveness(i) \/ CloseSubscription(i) \/ Crash(i)
         \/ Receive(i) \/ Reconnect(i) \/ Complete(i) \/ UpdateEnds(i) \/ CloseWriterToken(i) \/ ThreadEnds(i)
  PROVE  FurtherInv'
<1>1. TypeOK
  BY DEF IndInv
<1>2. CASE AcquireToken(i)
  <2>1. /\ UNCHANGED <<kind, store, trespass, start, lastApplied, applying>>
        /\ pc' = [pc EXCEPT ![i] = "acquired"] /\ lock' = i
    BY <1>2 DEF AcquireToken, Goes, reading
  <2>2. pc'[i] = "acquired" /\ \A j \in Instances \ {i} : Stays(j)
    BY <1>1, <2>1 DEF TypeOK, Stays, kind, applying
  <2> QED
    BY <2>1, <2>2, PlaceStep DEF kind, store, PlaceInv
<1>3. CASE \/ RefreshLiveness(i) \/ CloseSubscription(i) \/ CloseWriterToken(i) \/ Receive(i)
            \/ Reconnect(i)
  <2>1. /\ UNCHANGED <<kind, store, trespass, pc, start, lastApplied, applying>>
        /\ lock' \in {lock, Nobody}
    BY <1>3 DEF RefreshLiveness, CloseSubscription, CloseWriterToken, CloseToken, Receive, Reconnect,
                reading
  <2>2. \A j \in Instances : Stays(j)
    BY <2>1 DEF Stays, kind, applying
  <2>3. \A j \in Instances : lock' = j => lock = j
    BY <2>1, OwnerAssumption
  <2>4. ~trespass /\ lock' = i => PlaceInv(i)'
    BY <2>1, <2>2, <2>3 DEF FurtherInv, PlaceInv, Remembers, Stays, kind, store
  <2> QED
    BY <2>1, <2>2, <2>3, <2>4, PlaceStep DEF kind, store
<1>4. CASE Complete(i)
  <2>1. /\ UNCHANGED <<kind, store, lock, trespass, start, lastApplied, applying>>
        /\ pc' = [pc EXCEPT ![i] = "complete"]
    BY <1>4 DEF Complete, Goes, reading
  <2>2. pc'[i] = "complete" /\ \A j \in Instances \ {i} : Stays(j)
    BY <1>1, <2>1 DEF TypeOK, Stays, kind, applying
  <2> QED
    BY <2>1, <2>2, PlaceStep DEF kind, store, PlaceInv
<1>5. CASE UpdateEnds(i) \/ ThreadEnds(i) \/ Crash(i)
  <2>1. /\ UNCHANGED <<kind, store, trespass>> /\ Forget(i)
        /\ lock' \in {lock, Nobody, Gone}
    BY <1>5 DEF UpdateEnds, ThreadEnds, Crash, CloseToken
  <2>2. pc'[i] = "idle" /\ \A j \in Instances \ {i} : Stays(j)
    BY <1>1, <2>1 DEF TypeOK, Stays, kind, Forget
  <2>3. \A j \in Instances : lock' = j => lock = j
    BY <2>1, OwnerAssumption
  <2> QED
    BY <2>1, <2>2, <2>3, PlaceStep DEF kind, store, PlaceInv
<1> QED
  BY <1>2, <1>3, <1>4, <1>5

LEMMA SubscribePlaces ==
  ASSUME IndInv, FurtherInv, NEW i \in Instances, Subscribe(i)
  PROVE  FurtherInv'
<1>1. /\ TypeOK /\ start' = [start EXCEPT ![i] = position]
      /\ lastApplied' = [lastApplied EXCEPT ![i] = 0] /\ pc' = [pc EXCEPT ![i] = "listen"]
      /\ UNCHANGED <<kind, store, lock, trespass, forwarded, applying>>
  BY DEF IndInv, Subscribe, StartingAfter, Goes
<1>2. pc'[i] = "listen" /\ start'[i] = position /\ \A j \in Instances \ {i} : Stays(j)
  BY <1>1 DEF TypeOK, Stays, kind, applying
<1> QED
  BY <1>1, <1>2, PlaceStep DEF kind, store, PlaceInv

LEMMA FlushPlaces ==
  ASSUME IndInv, FurtherInv, NEW i \in Instances, Flush(i)
  PROVE  FurtherInv'
<1>1. /\ TypeOK /\ LocalInv(i) /\ pc[i] = "listen"
      /\ pc' = [pc EXCEPT ![i] = "apply"] \/ pc' = [pc EXCEPT ![i] = "dead"]
      /\ batch' = [batch EXCEPT ![i] = buffer[i]] \/ batch' = batch
      /\ UNCHANGED <<kind, store, lock, reading, done, lastApplied, trespass>>
  BY DEF IndInv, Flush, Goes
<1>2. pc'[i] \in {"apply", "dead"} /\ done'[i] = 0 /\ \A j \in Instances \ {i} : Stays(j)
  BY <1>1 DEF TypeOK, LocalInv, Stays, kind, reading
<1> QED
  BY <1>1, <1>2, PlaceStep DEF kind, store, PlaceInv

LEMMA FastForwardPlaces ==
  ASSUME IndInv, FurtherInv, NEW i \in Instances, FastForward(i)
  PROVE  FurtherInv'
<1>1. /\ TypeOK /\ pc[i] = "listen" /\ UNCHANGED <<kind, lock, pc, start, applying>>
  BY DEF IndInv, FastForward, Listening
<1>2. PICK s \in Serials :
        \/ /\ position' = s /\ Writes(i)
           /\ lastApplied' = [lastApplied EXCEPT ![i] = IF Remembers(i) THEN s ELSE @]
        \/ UNCHANGED <<position, trespass, lastApplied>>
  BY DEF FastForward
<1>3. \A j \in Instances \ {i} : Stays(j)
  BY <1>1, <1>2 DEF TypeOK, Stays, applying, kind
<1>4. ASSUME ~trespass, lock' = i PROVE PlaceInv(i)'
  <2>1. PlaceInv(i)
    BY <1>1, <1>4 DEF FurtherInv
  <2>2. CASE UNCHANGED <<position, trespass, lastApplied>>
    BY <1>1, <2>1, <2>2 DEF PlaceInv, Remembers, kind, applying
  <2>3. CASE /\ position' = s
             /\ lastApplied' = [lastApplied EXCEPT ![i] = IF Remembers(i) THEN s ELSE @]
    <3>1. lastApplied'[i] = IF Remembers(i) THEN s ELSE lastApplied[i]
      BY <1>1, <2>3 DEF TypeOK
    <3>2. Remembers(i)' => Remembers(i)
      BY <1>1, <3>1 DEF Remembers, kind
    <3> QED
      BY <1>1, <2>3, <3>1, <3>2 DEF PlaceInv
  <2> QED
    BY <1>2, <2>2, <2>3
<1> QED
  BY <1>1, <1>2, <1>3, <1>4, PlaceStep DEF kind

LEMMA CallHandlerPlaces ==
  ASSUME IndInv, FurtherInv, NEW i \in Instances, CallHandler(i)
  PROVE  FurtherInv'
<1>1. /\ TypeOK /\ pc[i] = "apply" /\ done' = [done EXCEPT ![i] = @ + 1]
      /\ IF transactional THEN pc' = pc /\ trespass' = trespass
                          ELSE pc' = [pc EXCEPT ![i] = "position"] /\ Writes(i)
      /\ UNCHANGED <<kind, position, lock, reading, batch, lastApplied>>
  BY DEF IndInv, CallHandler, Goes
<1>2. \A j \in Instances \ {i} : Stays(j)
  BY <1>1 DEF TypeOK, Stays, kind, reading
<1>3. transactional \/ pc'[i] = "position"
  BY <1>1 DEF TypeOK
<1>4. PlaceInv(i)'
  BY <1>1, <1>3 DEF PlaceInv, kind
<1> QED
  BY <1>1, <1>2, <1>4, PlaceStep DEF kind

LEMMA SetPositionPlaces ==
  ASSUME IndInv, FurtherInv, NEW i \in Instances, SetPosition(i)
  PROVE  FurtherInv'
<1>1. /\ TypeOK /\ pc' = [pc EXCEPT ![i] = "apply"] /\ Writes(i) /\ position' = batch[i][done[i]]
      /\ UNCHANGED <<kind, lock, reading, applying, lastApplied>>
  BY DEF IndInv, SetPosition, Goes
<1>2. pc'[i] = "apply" /\ \A j \in Instances \ {i} : Stays(j)
  BY <1>1 DEF TypeOK, Stays, kind, reading, applying
<1> QED
  BY <1>1, <1>2, PlaceStep DEF kind, PlaceInv, applying

LEMMA CommitPlaces ==
  ASSUME IndInv, FurtherInv, NEW i \in Instances, Commit(i)
  PROVE  FurtherInv'
<1>1. /\ TypeOK /\ LocalInv(i) /\ pc[i] = "apply" /\ done[i] = Len(batch[i])
      /\ ApplyEnds(i, IF doomed[i] THEN "dead" ELSE "listen")
      /\ lastApplied' = [lastApplied EXCEPT ![i] = IF doomed[i] THEN @ ELSE Last(batch[i])]
      /\ UNCHANGED <<kind, lock, reading>>
      /\ IF transactional THEN position' = Last(batch[i]) /\ Writes(i)
                          ELSE UNCHANGED <<position, trespass>>
  BY DEF IndInv, Commit, store
<1>2. /\ pc'[i] = IF doomed[i] THEN "dead" ELSE "listen"
      /\ ~doomed[i] => lastApplied'[i] = Last(batch[i])
      /\ \A j \in Instances \ {i} : Stays(j)
  BY <1>1 DEF ApplyEnds, Goes, TypeOK, Stays, kind, reading
<1>3. batch[i] \in Seq(Facts) /\ batch[i] # <<>>
  BY <1>1 DEF LocalInv, TypeOK
<1>4. Len(batch[i]) > 0 /\ Last(batch[i]) = batch[i][Len(batch[i])]
  BY <1>3 DEF Last
<1>5. ASSUME ~trespass, lock' = i PROVE PlaceInv(i)'
  <2>1. PlaceInv(i)
    BY <1>1, <1>5 DEF FurtherInv
  <2>2. position' = Last(batch[i])
    BY <1>1, <1>4, <2>1 DEF PlaceInv
  <2> QED
    BY <1>2, <2>2 DEF PlaceInv
<1> QED
  BY <1>1, <1>2, <1>5, PlaceStep DEF kind

LEMMA FailurePlaces ==
  ASSUME IndInv, FurtherInv, NEW i \in Instances, HandlerFails(i) \/ CommitFails(i)
  PROVE  FurtherInv'
<1>1. /\ TypeOK /\ UNCHANGED <<kind, store, lock, reading, lastApplied, trespass>>
      /\ \/ transactional /\ pc[i] = "apply" /\ pc' = pc
            /\ batch' = [batch EXCEPT ![i] = Handled(i)] /\ done' = [done EXCEPT ![i] = 0]
         \/ ApplyEnds(i, "dead")
  BY DEF IndInv, HandlerFails, CommitFails
<1>2. \A j \in Instances \ {i} : Stays(j)
  BY <1>1 DEF ApplyEnds, Goes, TypeOK, Stays, kind, reading
<1>3. (transactional /\ pc'[i] = "apply") \/ pc'[i] = "dead"
  BY <1>1 DEF ApplyEnds, Goes, TypeOK
<1>4. PlaceInv(i)'
  BY <1>1, <1>3 DEF PlaceInv, kind
<1> QED
  BY <1>1, <1>2, <1>4, PlaceStep DEF kind, store

LEMMA FurtherStep == IndInv /\ FurtherInv /\ [Next]_vars => FurtherInv'
<1> SUFFICES ASSUME IndInv, FurtherInv, [Next]_vars PROVE FurtherInv'
  OBVIOUS
<1>1. ASSUME NEW i \in Instances, Work(i) PROVE FurtherInv'
  BY <1>1, PlainPlaces, SubscribePlaces, FlushPlaces, CallHandlerPlaces, SetPositionPlaces,
     CommitPlaces, FailurePlaces DEF Work
<1>2. ASSUME NEW i \in Instances,
             \/ AcquireToken(i) \/ RefreshLiveness(i) \/ FastForward(i) \/ Reconnect(i)
             \/ CloseSubscription(i) \/ Crash(i)
      PROVE  FurtherInv'
  BY <1>2, PlainPlaces, FastForwardPlaces
<1>3. CASE LockExpires \/ LeaseLost
  <2>1. /\ UNCHANGED <<kind, store, pc, reading, applying, lastApplied, trespass>> /\ lock' = Nobody
    BY <1>3 DEF LockExpires, LeaseLost
  <2> QED
    BY <2>1, OwnerAssumption DEF FurtherInv
<1>4. CASE UNCHANGED vars
  BY <1>4 DEF FurtherInv, PlaceInv, Remembers, vars, kind, store, reading, applying
<1> QED
  BY <1>1, <1>2, <1>3, <1>4 DEF Next

LEMMA StoreTypes ==
  ASSUME TypeOK
  PROVE  position \in Nat /\ applied \in Seq(Facts) /\ Len(applied) \in Nat
<1>1. position \in Nat /\ applied \in Seq(Facts)
  BY FactsAreNumbers DEF TypeOK, Serials
<1> QED
  BY <1>1

(* A fast-forward passes over no fact, and one that is remembered is ahead *)
(* of the one before.                                                      *)
LEMMA FastForwardIsForward ==
  ASSUME IndInv, TypeOK', FurtherInv, NEW i \in Instances, FastForward(i), ~trespass'
  PROVE  Forward
<1>1. TypeOK /\ LocalInv(i) /\ pc[i] = "listen" /\ buffer[i] = <<>> /\ applied' = applied
  BY DEF IndInv, FastForward, Listening
<1>2. position \in Nat /\ Len(applied) \in Nat
  BY <1>1, StoreTypes
<1>3. start[i] \in Nat /\ lastApplied[i] \in Nat /\ cursor[i] \in Nat
  BY <1>1, FactsAreNumbers DEF TypeOK, Serials
<1>4. CASE UNCHANGED position
  BY <1>1, <1>2, <1>4, AheadIsForward DEF Ahead
<1>5. CASE position' # position
  <2>1. PICK s \in Serials :
          /\ s > cursor[i] /\ \A f \in Facts : f > cursor[i] => f > s
          /\ s > lastApplied[i] /\ position' = s /\ Writes(i)
    BY <1>5 DEF FastForward, MayForward
  <2>2. WriterInv(i) /\ lock = i /\ ~trespass /\ s \in Nat
    <3>1. WriterInv(i)
      BY <2>1, WriterHasLock
    <3>2. lock = i /\ ~trespass
      BY <2>1 DEF Writes
    <3>3. s \in Nat
      BY FactsAreNumbers DEF Serials
    <3> QED
      BY <3>1, <3>2, <3>3
  <2>3. \A f \in Facts : f <= position => f <= s
    <3>1. \A f \in Facts : f <= position => f <= cursor[i]
      BY <1>1, <2>2 DEF WriterInv
    <3> QED
      BY <1>2, <1>3, <2>1, <2>2, <3>1, FactsAreNumbers
  <2>4. ASSUME Remembers(i) PROVE s >= position
    <3>1. position \in {start[i], lastApplied[i]}
      BY <1>1, <2>2, <2>4 DEF FurtherInv, PlaceInv
    <3>2. start[i] <= cursor[i]
      BY <1>1 DEF LocalInv
    <3> QED
      BY <1>2, <1>3, <2>1, <2>2, <3>1, <3>2
  <2> QED
    BY <1>1, <1>2, <2>1, <2>2, <2>3, <2>4 DEF Forward, FactsUpTo
<1> QED
  BY <1>4, <1>5

(* What is not written yet is beyond the position. *)
LEMMA UnwrittenIsAhead ==
  ASSUME TypeOK, NEW i \in Instances, LocalInv(i), WriterInv(i), pc[i] \in {"apply", "position"},
         NEW a \in Unwritten(i)
  PROVE  batch[i][a] \in Nat /\ batch[i][a] > position
<1>1. a \in 1 .. Len(batch[i]) /\ batch[i] \in Seq(Facts)
  BY DEF Unwritten, TypeOK
<1>2. batch[i][a] \in Facts /\ position \in Nat
  BY <1>1, FactsAreNumbers DEF TypeOK, Serials
<1>3. ~(batch[i][a] <= position)
  BY <1>2 DEF WriterInv
<1> QED
  BY <1>2, <1>3, FactsAreNumbers

LEMMA HandlingIsAhead ==
  ASSUME IndInv, NEW i \in Instances, CallHandler(i) \/ SetPosition(i), ~trespass'
  PROVE  Ahead
<1>1. TypeOK /\ LocalInv(i) /\ position \in Nat /\ Len(applied) \in Nat
  BY StoreTypes DEF IndInv
<1>2. CASE CallHandler(i)
  <2>1. CASE transactional
    BY <1>1, <1>2, <2>1, UnchangedIsAhead DEF CallHandler, store
  <2>2. CASE ~transactional
    <3>1. /\ pc[i] = "apply" /\ applied' = Append(applied, batch[i][done[i] + 1]) /\ Writes(i)
          /\ position' = position /\ done[i] < Len(batch[i]) /\ done[i] \in Nat
          /\ batch[i] \in Seq(Facts) /\ applied \in Seq(Facts)
      BY <1>1, <1>2, <2>2 DEF CallHandler, TypeOK
    <3>2. done[i] + 1 \in Unwritten(i)
      BY <3>1 DEF Unwritten
    <3>3. batch[i][done[i] + 1] > position
      BY <1>1, <3>1, <3>2, WriterHasLock, UnwrittenIsAhead
    <3>4. /\ \A k \in Len(applied) + 1 .. Len(applied') : k = Len(applied) + 1
          /\ applied'[Len(applied) + 1] = batch[i][done[i] + 1]
      BY <3>1
    <3> QED
      BY <1>1, <3>1, <3>3, <3>4 DEF Ahead
  <2> QED
    BY <2>1, <2>2
<1>3. CASE SetPosition(i)
  <2>1. /\ pc[i] = "position" /\ position' = batch[i][done[i]] /\ Writes(i) /\ applied' = applied
        /\ done[i] > 0 /\ done[i] \in Nat /\ done[i] <= Len(batch[i]) /\ batch[i] \in Seq(Facts)
    BY <1>1, <1>3 DEF SetPosition, LocalInv, TypeOK
  <2>2. done[i] \in Unwritten(i)
    BY <2>1 DEF Unwritten
  <2>3. batch[i][done[i]] > position /\ batch[i][done[i]] \in Nat
    BY <1>1, <2>1, <2>2, WriterHasLock, UnwrittenIsAhead
  <2> QED
    BY <1>1, <2>1, <2>3 DEF Ahead
<1> QED
  BY <1>2, <1>3

LEMMA CommitIsAhead ==
  ASSUME IndInv, NEW i \in Instances, Commit(i), ~trespass'
  PROVE  Ahead
<1>1. /\ TypeOK /\ LocalInv(i) /\ position \in Nat /\ Len(applied) \in Nat /\ pc[i] = "apply"
      /\ applied \in Seq(Facts) /\ batch[i] \in Seq(Facts) /\ batch[i] # <<>>
  <2>1. TypeOK /\ LocalInv(i) /\ pc[i] = "apply"
    BY DEF IndInv, Commit
  <2> QED
    BY <2>1, StoreTypes DEF TypeOK, LocalInv
<1>2. CASE transactional
  <2>1. applied' = applied \o batch[i] /\ position' = Last(batch[i]) /\ Writes(i)
    BY <1>2 DEF Commit
  <2>2. \A a \in 1 .. Len(batch[i]) : batch[i][a] \in Nat /\ batch[i][a] > position
    BY <1>1, <1>2, <2>1, WriterHasLock, UnwrittenIsAhead DEF Unwritten
  <2>3. Last(batch[i]) > position
    BY <1>1, <2>2, LastFact
  <2>4. ASSUME NEW k \in Len(applied) + 1 .. Len(applied') PROVE applied'[k] > position
    <3>1. /\ k - Len(applied) \in 1 .. Len(batch[i])
          /\ applied'[k] = batch[i][k - Len(applied)]
      BY <1>1, <2>1, <2>4
    <3> QED
      BY <2>2, <3>1
  <2>5. position' >= position
    <3>1. Last(batch[i]) \in Facts
      BY <1>1, LastFact
    <3> QED
      BY <1>1, <2>1, <2>3, <3>1, FactsAreNumbers
  <2> QED
    BY <2>4, <2>5 DEF Ahead
<1>3. CASE ~transactional
  BY <1>1, <1>3, UnchangedIsAhead DEF Commit
<1> QED
  BY <1>2, <1>3

LEMMA ForwardStep ==
  ASSUME IndInv, FurtherInv, [Next]_vars, ~trespass'
  PROVE  Forward
<1>1. TypeOK /\ TypeOK'
  BY NextIndInv DEF IndInv
<1>2. ASSUME NEW i \in Instances,
             \/ AcquireToken(i) \/ RefreshLiveness(i) \/ CloseSubscription(i) \/ Crash(i)
             \/ Reconnect(i) \/ Subscribe(i) \/ Receive(i) \/ Flush(i) \/ HandlerFails(i) \/ CommitFails(i)
             \/ Complete(i) \/ UpdateEnds(i) \/ CloseWriterToken(i) \/ ThreadEnds(i)
      PROVE  Forward
  <2>1. UNCHANGED store
    BY <1>2 DEF AcquireToken, RefreshLiveness, CloseSubscription, Crash, Reconnect, Subscribe, Receive, Flush,
                HandlerFails, CommitFails, Complete, UpdateEnds, CloseWriterToken, ThreadEnds
  <2> QED
    BY <1>1, <2>1, UnchangedIsAhead, AheadIsForward
<1>3. ASSUME NEW i \in Instances, FastForward(i) \/ CallHandler(i) \/ SetPosition(i) \/ Commit(i)
      PROVE  Forward
  BY <1>1, <1>3, FastForwardIsForward, HandlingIsAhead, CommitIsAhead, AheadIsForward
<1>4. CASE LockExpires \/ LeaseLost \/ UNCHANGED vars
  <2>1. UNCHANGED store
    BY <1>4 DEF LockExpires, LeaseLost, vars
  <2> QED
    BY <1>1, <2>1, UnchangedIsAhead, AheadIsForward
<1> QED
  BY <1>2, <1>3, <1>4 DEF Next, Work

(* As long as nobody writes without the lock, no restart, retry, reconnect *)
(* or fast-forward takes the position back over a fact, nor back at all if *)
(* the update remembers where it was forwarded to, and no handler is       *)
(* called for a fact that the position has passed.                         *)
THEOREM NeverBackOverAFact == Spec => OnlyForward
<1>1. Init => FurtherInv
  BY OwnerAssumption DEF Init, FurtherInv
<1>2. IndInv /\ FurtherInv /\ [Next]_vars => [~trespass' => Forward]_vars
  BY ForwardStep
<1>3. Spec => []FurtherInv
  BY <1>1, FurtherStep, Invariance, PTL DEF Spec
<1>4. Spec => [][~trespass' => Forward]_vars
  BY <1>2, <1>3, Invariance, PTL DEF Spec
<1> QED
  BY <1>4 DEF OnlyForward, Forward

=============================================================================
