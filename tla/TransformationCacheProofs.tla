---------------------- MODULE TransformationCacheProofs ----------------------
(***************************************************************************)
(* Proofs about TransformationCache, for any number of servers, facts and  *)
(* replacements of the transformation, and any number of faults: the       *)
(* types, and what two invalidations get rid of, which of them have come   *)
(* to nothing taken into account.                                          *)
(***************************************************************************)
EXTENDS TransformationCache, TLAPS

(* Made with a script that has been replaced. *)
Stale(edition) == ~Fresh(edition)

(* Node n has yet to complete a first invalidation, and then schedules the *)
(* second.                                                                 *)
FirstAhead(n) == signals[n] > 0 \/ pc[<<n, "bus">>] \in {"insert", "delete", "notify"}

SecondAhead(n) == timers[n] # {}

(* A thread holds a copy of the buffer, or a task, only while it needs it. *)
ThreadInv ==
  \A n \in Nodes :
    /\ pc[<<n, "worker">>] = "idle" => task[n].edition = None
    /\ \A thread \in Threads : pc[<<n, thread>>] # "insert" => copy[<<n, thread>>] = NoEntries

(* What comes to nothing leaves something in the table. *)
MissedInv == \A n \in Nodes : missed[n] # {} => spoilt

(* The chain is thrown away by every invalidation. *)
ChainInv ==
  \A n \in Nodes : Stale(chain[n]) => FirstAhead(n) \/ "first" \in missed[n]

(* A worker that still uses an old chain is waited for. *)
TaskInv ==
  \A n \in Nodes : Stale(task[n].edition) =>
    FirstAhead(n) \/ missed[n] # {} \/ \E t \in timers[n] : "worker" \in t

(* What it puts into the buffer is found there by an invalidation. *)
BufferInv ==
  \A n \in Nodes : \A f \in Facts :
    Stale(buffer[n][f]) => FirstAhead(n) \/ SecondAhead(n) \/ missed[n] # {}

(* A flush under way is followed by an invalidation. *)
FlushInv ==
  ~spoilt => \A n \in Nodes : \A f \in Facts :
    Stale(copy[<<n, "flusher">>][f]) => FirstAhead(n) \/ SecondAhead(n)

(* Some node is going to delete what is stale in the table. *)
TableInv ==
  ~spoilt => \A f \in Facts : Stale(table[f]) =>
    \E n \in Nodes : \/ FirstAhead(n) \/ SecondAhead(n)
                     \/ pc[<<n, "timer">>] \in {"insert", "delete"}

(* The inductive invariant. *)
IndInv == /\ TypeOK /\ ThreadInv /\ MissedInv /\ ChainInv /\ TaskInv /\ BufferInv
          /\ FlushInv /\ TableInv

USE DEF None

(* The threads of all nodes, and the empty cache. *)
LEMMA Threads4 == \A n \in Nodes : /\ <<n, "worker">> \in Nodes \X Threads
                                   /\ <<n, "flusher">> \in Nodes \X Threads
                                   /\ <<n, "bus">> \in Nodes \X Threads
                                   /\ <<n, "timer">> \in Nodes \X Threads
                                   /\ \A t \in {"flusher", "bus", "timer"} :
                                        <<n, t>> \in Nodes \X Threads
BY DEF Threads, Activities

LEMMA EmptyType == NoEntries \in Entries /\ NoTask \in [fact : Facts, edition : Editions]
<1>1. (CHOOSE f \in Facts : TRUE) \in Facts
  BY FactsAssumption
<1> QED
  BY <1>1, MaxEditionAssumption DEF NoEntries, Entries, Editions, NoTask

(* The steps of node n but for the replacement of a transformation. *)
NodeStep(n) == \/ Worker(n) \/ Flusher(n) \/ StoreNotifies(n) \/ Bus(n) \/ Timer(n)
               \/ LoseSignal(n) \/ Restart(n)

(* What may come to nothing in a step. *)
LEMMA Mishap ==
  ASSUME NEW n \in Nodes, NodeStep(n) \/ Store(n)
  PROVE  \/ UNCHANGED <<missed, faults>>
         \/ Fault /\ missed' \in {missed, [missed EXCEPT ![n] = @ \cup {"first"}],
                                   [missed EXCEPT ![n] = @ \cup {"second"}],
                                   [missed EXCEPT ![n] = {}]}
         \/ UNCHANGED faults /\ missed' = [missed EXCEPT ![n] = {}]
<1>1. CASE Worker(n) \/ Flusher(n) \/ StoreNotifies(n) \/ OnSignal(n) \/ Store(n)
  BY <1>1 DEF Worker, Flusher, StoreNotifies, OnSignal, Store, GetChain, Find, Transform,
     FlushClears, Insert, Compact, mishaps
<1>2. CASE OnTimer(n) \/ LoseSignal(n)
  BY <1>2 DEF OnTimer, LoseSignal, Misses, mishaps
<1>3. ASSUME NEW thread \in {"bus", "timer"}, Invalidation(n, thread)
      PROVE  \/ UNCHANGED <<missed, faults>>
             \/ Fault /\ missed' \in {missed, [missed EXCEPT ![n] = @ \cup {"first"}]}
             \/ UNCHANGED faults /\ missed' = [missed EXCEPT ![n] = {}]
  <2>1. CASE Insert(n, thread) \/ Delete(n, thread)
    BY <2>1 DEF Insert, Delete, mishaps
  <2>2. CASE DeleteFails(n, thread)
    BY <2>2 DEF DeleteFails, Misses
  <2>3. CASE Notify(n, thread)
    BY <2>3 DEF Notify
  <2> QED
    BY <1>3, <2>1, <2>2, <2>3 DEF Invalidation
<1>4. CASE Restart(n)
  BY <1>4 DEF Restart
<1> QED
  BY <1>1, <1>2, <1>3, <1>4 DEF NodeStep, Bus, Timer

LEMMA MishapTypes ==
  ASSUME missed \in [Nodes -> SUBSET {"first", "second"}], faults \in 0 .. MaxFaults,
         NEW n \in Nodes, NodeStep(n) \/ Store(n)
  PROVE  missed' \in [Nodes -> SUBSET {"first", "second"}] /\ faults' \in 0 .. MaxFaults
<1>1. missed[n] \cup {"first"} \in SUBSET {"first", "second"}
      /\ missed[n] \cup {"second"} \in SUBSET {"first", "second"}
  OBVIOUS
<1>2. missed' \in {missed, [missed EXCEPT ![n] = @ \cup {"first"}],
                   [missed EXCEPT ![n] = @ \cup {"second"}], [missed EXCEPT ![n] = {}]}
  BY Mishap
<1>3. missed' \in [Nodes -> SUBSET {"first", "second"}]
  BY <1>1, <1>2
<1>4. faults' = faults \/ Fault
  BY Mishap
<1>5. faults' \in 0 .. MaxFaults
  BY <1>4, MaxFaultsAssumption DEF Fault
<1> QED
  BY <1>3, <1>5

(* Every step keeps the types. *)
LEMMA TypeStep == TypeOK /\ [Next]_vars => TypeOK'
<1> SUFFICES ASSUME TypeOK, [Next]_vars PROVE TypeOK'
  OBVIOUS
<1> USE Threads4, EmptyType DEF TypeOK, Goes
<1>0. CASE UNCHANGED vars
  BY <1>0 DEF vars, mishaps
<1> SUFFICES ASSUME NEW n \in Nodes, Next,
                    NodeStep(n) \/ Store(n)
             PROVE  TypeOK'
  BY <1>0 DEF Next, NodeStep
<1>1. /\ spoilt' \in BOOLEAN /\ missed' \in [Nodes -> SUBSET {"first", "second"}]
      /\ faults' \in 0 .. MaxFaults
  <2>1. spoilt' \in BOOLEAN
    BY DEF Next
  <2> QED
    BY <2>1, MishapTypes
<1>2. ASSUME NEW a \in Activities, Ends(n, a)
      PROVE  timers' \in [Nodes -> SUBSET SUBSET Activities]
  BY <1>2 DEF Ends
<1>3. ASSUME NEW thread \in Threads, Clear(n, thread)
      PROVE  /\ copy' \in [Nodes \X Threads -> Entries] /\ buffer' \in [Nodes -> Entries]
             /\ pc' \in [Nodes \X Threads -> Places]
  BY <1>3 DEF Clear, Places
<1>4. "worker" \in Activities /\ "flusher" \in Activities
  BY DEF Activities
<1>5. source \in Editions /\ 1 \in Nat /\ MaxEdition \in Nat
  BY MaxEditionAssumption DEF Editions
<1>6. CASE GetChain(n)
  <2>1. chain' \in [Nodes -> Editions]
    BY <1>5, <1>6 DEF GetChain
  <2>2. PICK f \in Facts : task' = [task EXCEPT ![n] = [fact |-> f, edition |-> chain'[n]]]
    BY <1>6 DEF GetChain
  <2>3. task' \in [Nodes -> [fact : Facts, edition : Editions]]
    BY <2>1, <2>2
  <2>4. pc' \in [Nodes \X Threads -> Places]
    BY <1>6 DEF GetChain, Places
  <2> QED
    BY <1>1, <1>6, <2>1, <2>3, <2>4 DEF GetChain
<1>7. CASE Find(n)
  <2>1. pc' \in [Nodes \X Threads -> Places]
    <3>1. Goes(n, "worker", "transform") \/ Goes(n, "worker", "idle")
      BY <1>7 DEF Find
    <3> HIDE <1>7
    <3> QED
      BY <3>1 DEF Places
  <2>2. timers' \in [Nodes -> SUBSET SUBSET Activities]
    BY <1>2, <1>4, <1>7 DEF Find
  <2>3. task' \in [Nodes -> [fact : Facts, edition : Editions]]
    BY <1>7 DEF Find
  <2> QED
    BY <1>1, <1>7, <2>1, <2>2, <2>3 DEF Find
<1>8. CASE Transform(n)
  <2>1. buffer' \in [Nodes -> Entries]
    <3>1. buffer[n] \in Entries /\ task[n].fact \in Facts /\ task[n].edition \in Editions
      OBVIOUS
    <3>2. [buffer[n] EXCEPT ![task[n].fact] = task[n].edition] \in Entries
      BY <3>1 DEF Entries
    <3> QED
      BY <1>8, <3>2 DEF Transform
  <2> QED
    BY <1>1, <1>2, <1>4, <1>8, <2>1 DEF Transform, Places
<1>9. CASE FlushClears(n)
  BY <1>1, <1>3, <1>9 DEF FlushClears, Threads, Activities
<1>10. ASSUME NEW thread \in {"flusher", "bus", "timer"}, Insert(n, thread) PROVE TypeOK'
  <2>1. table' \in Entries
    <3>1. copy[<<n, thread>>] \in Entries
      BY <1>10
    <3> QED
      BY <1>10, <3>1 DEF Insert, Inserted, Entries
  <2> QED
    BY <1>1, <1>2, <1>4, <1>10, <2>1 DEF Insert, Places
<1>11. CASE Compact(n)
  <2>1. table' \in Entries
    BY <1>11, MaxEditionAssumption DEF Compact, Entries, Editions
  <2> QED
    BY <1>1, <1>2, <1>4, <1>11, <2>1 DEF Compact, Places
<1>12. CASE Store(n)
  <2>1. source' \in 1 .. MaxEdition
    BY <1>5, <1>12 DEF Store
  <2>2. signals' \in [Nodes -> Nat] /\ local' \in [Nodes -> Nat]
    BY <1>12 DEF Store
  <2> QED
    BY <1>1, <1>12, <2>1, <2>2 DEF Store
<1>13. CASE StoreNotifies(n)
  <2>1. local' \in [Nodes -> Nat] /\ chain' \in [Nodes -> Editions]
    BY <1>5, <1>13 DEF StoreNotifies, Submitted, NotifyFor, Editions
  <2> QED
    BY <1>1, <1>13, <2>1 DEF StoreNotifies
<1>14. CASE OnSignal(n)
  <2>1. signals' \in [Nodes -> Nat]
    BY <1>14 DEF OnSignal
  <2> QED
    BY <1>1, <1>3, <1>14, <2>1 DEF OnSignal, Threads
<1>15. CASE OnTimer(n)
  <2>1. timers' \in [Nodes -> SUBSET SUBSET Activities]
    BY <1>15 DEF OnTimer
  <2> QED
    BY <1>1, <1>3, <1>15, <2>1 DEF OnTimer, Threads
<1>16. ASSUME NEW thread \in {"bus", "timer"}, Delete(n, thread) \/ DeleteFails(n, thread)
       PROVE  TypeOK'
  BY <1>1, <1>16 DEF Delete, DeleteFails, Places
<1>17. ASSUME NEW thread \in {"bus", "timer"}, Notify(n, thread) PROVE TypeOK'
  <2>1. chain' \in [Nodes -> Editions]
    BY <1>5, <1>17 DEF Notify, NotifyFor, Editions
  <2>2. timers' \in [Nodes -> SUBSET SUBSET Activities]
    <3>1. timers[n] \cup {UnderWay(n)} \in SUBSET SUBSET Activities
      BY DEF UnderWay
    <3>2. timers' = timers \/ timers' = [timers EXCEPT ![n] = timers[n] \cup {UnderWay(n)}]
      BY <1>17 DEF Notify, ScheduleSecond
    <3> QED
      BY <3>1, <3>2
  <2>3. pc' \in [Nodes \X Threads -> Places]
    BY <1>17 DEF Notify, Places
  <2> QED
    BY <1>1, <1>17, <2>1, <2>2, <2>3 DEF Notify
<1>18. CASE LoseSignal(n)
  <2>1. signals' \in [Nodes -> Nat]
    BY <1>18 DEF LoseSignal
  <2> QED
    BY <1>1, <1>18, <2>1 DEF LoseSignal
<1>19. CASE Restart(n)
  <2>1. /\ chain' \in [Nodes -> Editions] /\ buffer' \in [Nodes -> Entries]
        /\ task' \in [Nodes -> [fact : Facts, edition : Editions]]
    <3>1. None \in Editions
      BY <1>5 DEF Editions
    <3>2. /\ chain' = [chain EXCEPT ![n] = None] /\ buffer' = [buffer EXCEPT ![n] = NoEntries]
          /\ task' = [task EXCEPT ![n] = NoTask]
      BY <1>19 DEF Restart
    <3> HIDE <1>19
    <3> QED
      BY <3>1, <3>2
  <2>2. local' \in [Nodes -> Nat] /\ signals' \in [Nodes -> Nat]
    BY <1>19 DEF Restart
  <2>3. timers' \in [Nodes -> SUBSET SUBSET Activities]
    BY <1>19 DEF Restart
  <2>4. pc' \in [Nodes \X Threads -> Places] /\ copy' \in [Nodes \X Threads -> Entries]
    BY <1>19 DEF Restart, Places
  <2> QED
    BY <1>1, <1>19, <2>1, <2>2, <2>3, <2>4 DEF Restart
<1> QED
  BY <1>6, <1>7, <1>8, <1>9, <1>10, <1>11, <1>12, <1>13, <1>14, <1>15, <1>16, <1>17, <1>18, <1>19
     DEF NodeStep, Worker, Flusher, Bus, Timer, Invalidation

-----------------------------------------------------------------------------
(* Other nodes are not touched. *)
LEMMA OthersStay ==
  ASSUME TypeOK, NEW n \in Nodes, NodeStep(n), NEW m \in Nodes, m # n
  PROVE  /\ source' = source /\ missed'[m] = missed[m]
         /\ signals'[m] = signals[m] /\ timers'[m] = timers[m]
         /\ chain'[m] = chain[m] /\ task'[m] = task[m] /\ buffer'[m] = buffer[m]
         /\ \A t \in Threads : pc'[<<m, t>>] = pc[<<m, t>>]
         /\ \A t \in Threads : copy'[<<m, t>>] = copy[<<m, t>>]
<1>1. missed'[m] = missed[m]
  BY Mishap DEF TypeOK
<1> USE DEF NodeStep, Worker, Flusher, Bus, Timer, Invalidation, StoreNotifies, GetChain, Find,
            Transform, FlushClears, Insert, Compact, OnSignal, OnTimer, Delete, DeleteFails, Notify,
            Clear, LoseSignal, Restart
<1>2. UNCHANGED source
  OBVIOUS
<1>3. /\ signals'[m] = signals[m] /\ timers'[m] = timers[m]
      /\ chain'[m] = chain[m] /\ task'[m] = task[m] /\ buffer'[m] = buffer[m]
  BY DEF Ends, NotifyFor, ScheduleSecond, TypeOK
<1>4. \A t \in Threads : pc'[<<m, t>>] = pc[<<m, t>>]
  BY DEF Goes, TypeOK
<1>5. \A t \in Threads : copy'[<<m, t>>] = copy[<<m, t>>]
  BY DEF TypeOK
<1> QED
  BY <1>1, <1>2, <1>3, <1>4, <1>5

(* What the invariant says of node n alone. *)
NodeInv(n) ==
  /\ pc[<<n, "worker">>] = "idle" => task[n].edition = None
  /\ \A thread \in Threads : pc[<<n, thread>>] # "insert" => copy[<<n, thread>>] = NoEntries
  /\ missed[n] # {} => spoilt
  /\ Stale(chain[n]) => FirstAhead(n) \/ "first" \in missed[n]
  /\ Stale(task[n].edition) =>
       FirstAhead(n) \/ missed[n] # {} \/ \E t \in timers[n] : "worker" \in t
  /\ \A f \in Facts :
       Stale(buffer[n][f]) => FirstAhead(n) \/ SecondAhead(n) \/ missed[n] # {}
  /\ ~spoilt => \A f \in Facts :
       Stale(copy[<<n, "flusher">>][f]) => FirstAhead(n) \/ SecondAhead(n)

LEMMA IndInvParts == IndInv <=> TypeOK /\ (\A n \in Nodes : NodeInv(n)) /\ TableInv
BY DEF IndInv, NodeInv, ThreadInv, MissedInv, ChainInv, TaskInv, BufferInv, FlushInv

LEMMA FaultCounts == TypeOK /\ Fault => faults' # faults
BY MaxFaultsAssumption DEF TypeOK, Fault

(* A step of the worker: what it uses or puts is waited for. *)
LEMMA WorkerKeeps ==
  ASSUME TypeOK, NEW n \in Nodes, NodeInv(n), Worker(n), ~spoilt' => ~spoilt
  PROVE  NodeInv(n)'
<1>1. /\ source' = source /\ signals' = signals /\ copy' = copy /\ missed' = missed
      /\ pc'[<<n, "bus">>] = pc[<<n, "bus">>]
  BY Threads4 DEF Worker, GetChain, Find, Transform, Goes, TypeOK, mishaps
<1>2. FirstAhead(n)' <=> FirstAhead(n)
  BY <1>1 DEF FirstAhead
<1>3. \A e : Stale(e)' <=> Stale(e)
  BY <1>1 DEF Fresh, Stale
<1>4. \A t \in Threads : pc'[<<n, t>>] # "insert" => copy'[<<n, t>>] = NoEntries
  <2>1. /\ pc[<<n, "worker">>] # "insert" /\ "worker" \in Threads
        /\ \A t \in Threads \ {"worker"} : pc'[<<n, t>>] = pc[<<n, t>>]
    BY DEF Worker, GetChain, Find, Transform, Goes, TypeOK, Threads, Activities
  <2> QED
    BY <1>1, <2>1 DEF NodeInv
<1>5. CASE GetChain(n)
  <2>1. /\ chain'[n] = IF chain[n] = None THEN source ELSE chain[n]
        /\ task'[n].edition = chain'[n] /\ timers' = timers /\ buffer' = buffer
        /\ pc'[<<n, "worker">>] = "find"
    <3>1. PICK f \in Facts : task' = [task EXCEPT ![n] = [fact |-> f, edition |-> chain'[n]]]
      BY <1>5 DEF GetChain
    <3>2. task'[n] = [fact |-> f, edition |-> chain'[n]]
      BY <3>1 DEF TypeOK
    <3>3. chain'[n] = IF chain[n] = None THEN source ELSE chain[n]
      BY <1>5 DEF GetChain, TypeOK
    <3>4. pc'[<<n, "worker">>] = "find" /\ timers' = timers /\ buffer' = buffer
      BY <1>5, Threads4 DEF GetChain, Goes, TypeOK
    <3> QED
      BY <3>2, <3>3, <3>4
  <2>2. Stale(chain'[n]) => FirstAhead(n) \/ "first" \in missed[n]
    BY <2>1 DEF NodeInv, Fresh, Stale
  <2>3. Stale(task'[n].edition) => FirstAhead(n) \/ missed[n] # {}
    BY <2>1, <2>2
  <2>4. pc'[<<n, "worker">>] = "idle" => task'[n].edition = None
    BY <2>1
  <2> QED
    BY <1>1, <1>2, <1>3, <1>4, <2>1, <2>2, <2>3, <2>4 DEF NodeInv, SecondAhead
<1>6. CASE Find(n) \/ Transform(n)
  <2>1. CASE Find(n) /\ pc'[<<n, "worker">>] # "idle"
    <3>1. UNCHANGED <<chain, timers, buffer, task>>
      BY <2>1, Threads4 DEF Find, Goes, TypeOK
    <3> QED
      BY <1>1, <1>2, <1>3, <1>4, <2>1, <3>1 DEF NodeInv, SecondAhead
  <2>2. CASE Transform(n) \/ (Find(n) /\ pc'[<<n, "worker">>] = "idle")
    <3>1. /\ task'[n].edition = None /\ chain' = chain
          /\ timers'[n] = {t \ {"worker"} : t \in timers[n]}
          /\ \A f \in Facts : buffer'[n][f] \in {buffer[n][f], task[n].edition}
      <4>1. /\ task' = [task EXCEPT ![n] = NoTask] /\ Ends(n, "worker") /\ chain' = chain
            /\ \/ buffer' = buffer
               \/ buffer' = [buffer EXCEPT ![n][task[n].fact] = task[n].edition]
        BY <2>2, Threads4 DEF Find, Transform, Goes, TypeOK
      <4>2. buffer[n] \in [Facts -> Editions]
        BY DEF TypeOK, Entries
      <4> QED
        BY <4>1, <4>2 DEF Ends, NoTask, TypeOK
    <3>2. timers'[n] # {} <=> timers[n] # {}
      BY <3>1
    <3>3. ~Stale(None)
      BY DEF Fresh, Stale
    <3> QED
      BY <1>1, <1>2, <1>3, <1>4, <3>1, <3>2, <3>3 DEF NodeInv, SecondAhead
  <2> QED
    BY <1>6, <2>1, <2>2
<1> QED
  BY <1>5, <1>6 DEF Worker

(* A flush takes over what it finds in the buffer. *)
LEMMA FlusherKeeps ==
  ASSUME TypeOK, NEW n \in Nodes, NodeInv(n), Flusher(n), ~spoilt' => ~spoilt
  PROVE  NodeInv(n)'
<1>1. /\ UNCHANGED <<source, signals, chain, task, missed>>
      /\ \A t \in Threads \ {"flusher"} : /\ pc'[<<n, t>>] = pc[<<n, t>>]
                                          /\ copy'[<<n, t>>] = copy[<<n, t>>]
      /\ timers' = timers \/ timers'[n] = {t \ {"flusher"} : t \in timers[n]}
  BY DEF Flusher, FlushClears, Insert, Compact, Clear, Goes, Ends, TypeOK, Threads, Activities,
         mishaps
<1>2. (FirstAhead(n)' <=> FirstAhead(n)) /\ (SecondAhead(n)' <=> SecondAhead(n))
  BY <1>1 DEF FirstAhead, SecondAhead, Threads
<1>3. /\ \A e : Stale(e)' <=> Stale(e)
      /\ \A f \in Facts : ~Stale(NoEntries[f])
  BY <1>1 DEF Fresh, Stale, NoEntries
<1>4. /\ (\E t \in timers[n] : "worker" \in t) => \E t \in timers'[n] : "worker" \in t
      /\ pc'[<<n, "worker">>] = pc[<<n, "worker">>]
      /\ "flusher" \in Threads
  <2>1. \A t \in timers[n] : "worker" \in t => "worker" \in t \ {"flusher"}
    OBVIOUS
  <2>2. (\E t \in timers[n] : "worker" \in t) => \E t \in timers'[n] : "worker" \in t
    BY <1>1, <2>1
  <2> QED
    BY <1>1, <2>2 DEF Threads, Activities
<1>5. CASE FlushClears(n)
  <2>1. /\ copy'[<<n, "flusher">>] = buffer[n] /\ buffer'[n] = NoEntries
        /\ pc'[<<n, "flusher">>] # "insert" => buffer[n] = NoEntries
    BY <1>5, Threads4 DEF FlushClears, Clear, Goes, TypeOK
  <2> QED
    BY <1>1, <1>2, <1>3, <1>4, <2>1 DEF NodeInv
<1>6. CASE Insert(n, "flusher") \/ Compact(n)
  <2>1. copy'[<<n, "flusher">>] = NoEntries /\ buffer' = buffer
    BY <1>4, <1>6, Threads4 DEF Insert, Compact, TypeOK, NodeInv
  <2> QED
    BY <1>1, <1>2, <1>3, <1>4, <2>1 DEF NodeInv
<1> QED
  BY <1>5, <1>6 DEF Flusher

(* A first invalidation is ahead until it schedules the second one, which  *)
(* waits for whatever is under way at that time.                           *)
LEMMA BusKeeps ==
  ASSUME TypeOK, NEW n \in Nodes, NodeInv(n), Bus(n), ~spoilt' => ~spoilt,
         faults' # faults => spoilt'
  PROVE  NodeInv(n)'
<1>1. /\ UNCHANGED <<source, task>>
      /\ \A t \in Threads \ {"bus"} : /\ pc'[<<n, t>>] = pc[<<n, t>>]
                                      /\ copy'[<<n, t>>] = copy[<<n, t>>]
  BY DEF Bus, OnSignal, Invalidation, Insert, Delete, DeleteFails, Notify, Clear, Goes, TypeOK,
         Threads, Activities
<1>2. {"worker", "flusher", "bus"} \subseteq Threads
  BY DEF Threads, Activities
<1>3. pc'[<<n, "bus">>] # "insert" => copy'[<<n, "bus">>] = NoEntries
  BY <1>2, Threads4 DEF Bus, OnSignal, Invalidation, Insert, Delete, DeleteFails, Notify, Clear,
         Goes, TypeOK, NodeInv
<1>4. CASE OnSignal(n) \/ Insert(n, "bus") \/ Delete(n, "bus")
  <2>1. FirstAhead(n)'
    BY <1>4, Threads4 DEF OnSignal, Insert, Delete, Clear, Goes, TypeOK, FirstAhead
  <2>2. missed' = missed
    BY <1>4 DEF OnSignal, Insert, Delete, mishaps
  <2> QED
    BY <1>1, <1>2, <1>3, <2>1, <2>2 DEF NodeInv
<1>5. CASE DeleteFails(n, "bus")
  <2>1. "first" \in missed'[n] /\ spoilt'
    BY <1>5, FaultCounts DEF DeleteFails, Misses, TypeOK
  <2> QED
    BY <1>1, <1>2, <1>3, <2>1 DEF NodeInv
<1>6. CASE Notify(n, "bus")
  <2>1. /\ chain'[n] = None /\ buffer' = buffer /\ missed'[n] = {}
        /\ UnderWay(n) \in timers'[n]
    <3>1. timers' = [timers EXCEPT ![n] = timers[n] \cup {UnderWay(n)}]
      BY <1>6 DEF Notify, ScheduleSecond
    <3> QED
      BY <1>6, <3>1 DEF Notify, NotifyFor, TypeOK
  <2>2. "worker" \notin UnderWay(n) => task[n].edition = None
    BY DEF UnderWay, NodeInv, Activities
  <2>3. SecondAhead(n)' /\ ~Stale(None)'
    BY <2>1 DEF SecondAhead, Fresh, Stale
  <2> QED
    BY <1>1, <1>2, <1>3, <2>1, <2>2, <2>3 DEF NodeInv
<1> QED
  BY <1>4, <1>5, <1>6 DEF Bus, Invalidation

(* A second invalidation starts when what it waited for has ended, or is   *)
(* missed; if there is no race, no flush is under way then.                *)
LEMMA TimerKeeps ==
  ASSUME TypeOK, NEW n \in Nodes, NodeInv(n), Timer(n),
         ~spoilt' => ~spoilt /\ ~FlushRacesTimer(n)', faults' # faults => spoilt'
  PROVE  NodeInv(n)'
<1>1. /\ UNCHANGED <<source, signals, task>>
      /\ \A t \in Threads \ {"timer"} : /\ pc'[<<n, t>>] = pc[<<n, t>>]
                                        /\ copy'[<<n, t>>] = copy[<<n, t>>]
  BY DEF Timer, OnTimer, Invalidation, Insert, Delete, DeleteFails, Notify, Clear, Goes, TypeOK,
         Threads, Activities
<1>2. {"worker", "flusher", "bus", "timer"} \subseteq Threads
  BY DEF Threads, Activities
<1>3. pc'[<<n, "timer">>] # "insert" => copy'[<<n, "timer">>] = NoEntries
  BY <1>2, Threads4 DEF Timer, OnTimer, Invalidation, Insert, Delete, DeleteFails, Notify, Clear,
         Goes, TypeOK, NodeInv
<1>4. /\ FirstAhead(n)' <=> FirstAhead(n)
      /\ \A e : Stale(e)' <=> Stale(e)
      /\ ~Stale(None) /\ \A f \in Facts : ~Stale(NoEntries[f])
  BY <1>1, <1>2 DEF FirstAhead, Fresh, Stale, NoEntries
<1>5. CASE OnTimer(n)
  <2>1. PICK t \in timers[n] :
          /\ timers' = [timers EXCEPT ![n] = @ \ {t}]
          /\ IF t = {} THEN UNCHANGED mishaps ELSE Misses(n, "second")
    BY <1>5 DEF OnTimer
  <2>2. /\ buffer'[n] = NoEntries /\ chain' = chain /\ timers'[n] = timers[n] \ {t}
        /\ pc'[<<n, "timer">>] \in {"insert", "delete"}
    BY <1>5, <2>1, Threads4 DEF OnTimer, Clear, Goes, TypeOK
  <2>3. ~spoilt' => copy[<<n, "flusher">>] = NoEntries
    BY <1>1, <1>2, <2>2 DEF FlushRacesTimer, NodeInv
  <2>4. CASE t = {}
    <3>1. missed' = missed
      BY <2>1, <2>4 DEF mishaps
    <3> QED
      BY <1>1, <1>2, <1>3, <1>4, <2>2, <2>3, <2>4, <3>1 DEF NodeInv
  <2>5. CASE t # {}
    <3>1. missed'[n] = missed[n] \cup {"second"} /\ spoilt'
      BY <2>1, <2>5, FaultCounts DEF Misses, TypeOK
    <3> QED
      BY <1>1, <1>2, <1>3, <1>4, <2>2, <3>1 DEF NodeInv
  <2> QED
    BY <2>4, <2>5
<1>6. CASE Invalidation(n, "timer")
  <2>1. /\ buffer' = buffer /\ timers' = timers /\ missed' = missed
        /\ chain'[n] \in {None, chain[n]}
    BY <1>6 DEF Invalidation, Insert, Delete, DeleteFails, Notify, NotifyFor, TypeOK, mishaps
  <2>2. SecondAhead(n)' <=> SecondAhead(n)
    BY <2>1 DEF SecondAhead
  <2> QED
    BY <1>1, <1>2, <1>3, <1>4, <2>1, <2>2 DEF NodeInv
<1> QED
  BY <1>5, <1>6 DEF Timer

(* Invalidations only come to nothing before everything is settled.        *)
LEMMA BusFaults ==
  ASSUME TypeOK, NEW n \in Nodes, Bus(n) \/ Timer(n), faults' # faults
  PROVE  ~Settled(n)
BY DEF Bus, Timer, OnSignal, OnTimer, Invalidation, Insert, Delete, DeleteFails, Notify, mishaps,
   Settled

(* A signal that is lost is missed, and a server that starts has nothing.  *)
LEMMA LossKeeps ==
  ASSUME TypeOK, NEW n \in Nodes, NodeInv(n), LoseSignal(n) \/ Restart(n),
         ~spoilt' => ~spoilt, faults' # faults /\ ~Settled(n) => spoilt'
  PROVE  NodeInv(n)'
<1>1. CASE LoseSignal(n)
  <2>1. /\ UNCHANGED <<source, chain, buffer, timers, pc, copy, task>> /\ ~Settled(n)
        /\ missed'[n] = missed[n] \cup {"first"}
    BY <1>1 DEF LoseSignal, Misses, Settled, TypeOK
  <2>2. spoilt'
    BY <1>1, <2>1, FaultCounts DEF LoseSignal, Misses
  <2> QED
    BY <2>1, <2>2 DEF NodeInv
<1>2. CASE Restart(n)
  <2>1. /\ chain'[n] = None /\ task'[n] = NoTask /\ buffer'[n] = NoEntries /\ missed'[n] = {}
        /\ \A t \in Threads : copy'[<<n, t>>] = NoEntries
    BY <1>2 DEF Restart, TypeOK
  <2>2. ~Stale(None)' /\ \A f \in Facts : ~Stale(NoEntries[f])'
    BY DEF Fresh, Stale, NoEntries
  <2>3. task'[n].edition = None /\ "flusher" \in Threads
    BY <2>1 DEF NoTask, Threads, Activities
  <2> QED
    BY <2>1, <2>2, <2>3 DEF NodeInv
<1> QED
  BY <1>1, <1>2

(* A settled node has nothing ahead. *)
LEMMA SettledIsDone ==
  ASSUME NEW n \in Nodes, Settled(n)
  PROVE  ~FirstAhead(n) /\ ~SecondAhead(n) /\ pc[<<n, "timer">>] = "idle"
<1>1. /\ signals[n] = 0 /\ timers[n] = {}
      /\ pc[<<n, "bus">>] = "idle" /\ pc[<<n, "timer">>] = "idle"
  BY DEF Settled
<1>2. ~(signals[n] > 0)
  BY <1>1
<1> QED
  BY <1>1, <1>2 DEF FirstAhead, SecondAhead

(* What is stale in the table after a step was there before, or a flush    *)
(* has brought it; the invalidation ahead of it is still ahead, or at work,*)
(* if it has not come to nothing.                                          *)
LEMMA TableKeeps ==
  ASSUME IndInv, NEW n \in Nodes, NodeStep(n), ~spoilt' => ~spoilt,
         \A m \in Nodes : faults' # faults /\ ~Settled(m) => spoilt'
  PROVE  TableInv'
<1> DEFINE Ahead(m) == \/ FirstAhead(m) \/ SecondAhead(m)
                       \/ pc[<<m, "timer">>] \in {"insert", "delete"}
<1>0. TypeOK /\ NodeInv(n) /\ TableInv
  BY IndInvParts
<1> SUFFICES ASSUME ~spoilt', NEW f \in Facts, Stale(table[f])'
             PROVE  \E m \in Nodes : Ahead(m)'
  BY DEF TableInv
<1>1. source' = source
  BY DEF NodeStep, Worker, Flusher, Bus, Timer, Invalidation, StoreNotifies, GetChain, Find,
         Transform, FlushClears, Insert, Compact, OnSignal, OnTimer, Delete, DeleteFails, Notify,
         LoseSignal, Restart
<1>2. CASE \E thread \in {"bus", "timer"} : Delete(n, thread)
  BY <1>2 DEF Delete, NoEntries, Fresh, Stale
<1>3. CASE Insert(n, "bus") \/ Insert(n, "timer") \/ OnSignal(n) \/ OnTimer(n)
  <2>1. Ahead(n)'
    BY <1>0, <1>3, Threads4 DEF Insert, OnSignal, OnTimer, Clear, Goes, TypeOK, FirstAhead
  <2> QED
    BY <2>1
<1>4. CASE Notify(n, "bus")
  <2>1. timers' = [timers EXCEPT ![n] = timers[n] \cup {UnderWay(n)}]
    BY <1>4 DEF Notify, ScheduleSecond
  <2>2. SecondAhead(n)'
    BY <1>0, <2>1 DEF TypeOK, SecondAhead
  <2> QED
    BY <2>2
<1>5. CASE Worker(n) \/ Flusher(n) \/ StoreNotifies(n) \/ Notify(n, "timer")
  <2>1. /\ signals' = signals
        /\ timers' = timers \/ \E a \in Activities : Ends(n, a)
        /\ \A m \in Nodes : /\ pc'[<<m, "bus">>] = pc[<<m, "bus">>]
                            /\ pc'[<<m, "timer">>] = pc[<<m, "timer">>]
                               \/ pc[<<m, "timer">>] = "notify"
    <3>1. /\ signals' = signals
          /\ timers' = timers \/ \E a \in Activities : Ends(n, a)
      BY <1>5 DEF Worker, Flusher, StoreNotifies, GetChain, Find, Transform, FlushClears,
         Insert, Compact, Notify, Activities
    <3>2. \/ pc' = pc
          \/ \E t \in Activities, place \in Places :
               pc' = [pc EXCEPT ![<<n, t>>] = place]
          \/ /\ pc[<<n, "timer">>] = "notify"
             /\ pc' = [pc EXCEPT ![<<n, "timer">>] = "idle"]
      BY <1>5 DEF Worker, Flusher, StoreNotifies, GetChain, Find, Transform, FlushClears,
         Insert, Compact, Clear, Notify, Goes, Activities, Places
    <3>3. ASSUME NEW m \in Nodes
          PROVE  /\ pc'[<<m, "bus">>] = pc[<<m, "bus">>]
                 /\ \/ pc'[<<m, "timer">>] = pc[<<m, "timer">>]
                    \/ pc[<<m, "timer">>] = "notify"
      <4>0. pc \in [Nodes \X Threads -> Places]
        BY <1>0 DEF TypeOK
      <4>1. CASE \E t \in Activities, place \in Places : pc' = [pc EXCEPT ![<<n, t>>] = place]
        BY <4>0, <4>1, Threads4 DEF Activities
      <4>2. CASE /\ pc[<<n, "timer">>] = "notify"
                 /\ pc' = [pc EXCEPT ![<<n, "timer">>] = "idle"]
        BY <4>0, <4>2, Threads4
      <4> QED
        BY <3>2, <4>1, <4>2
    <3> QED
      BY <3>1, <3>3
  <2>2. \A m \in Nodes : SecondAhead(m)' <=> SecondAhead(m)
    <3>1. ASSUME NEW a \in Activities, Ends(n, a), NEW m \in Nodes
          PROVE  timers'[m] = {} <=> timers[m] = {}
      <4>1. timers'[m] = IF m = n THEN {t \ {a} : t \in timers[n]} ELSE timers[m]
        BY <1>0, <3>1 DEF Ends, TypeOK
      <4>2. {t \ {a} : t \in timers[n]} = {} <=> timers[n] = {}
        OBVIOUS
      <4> QED
        BY <4>1, <4>2
    <3> QED
      BY <2>1, <3>1 DEF SecondAhead
  <2>3. \A m \in Nodes : Ahead(m) => Ahead(m)'
    BY <2>1, <2>2 DEF FirstAhead
  <2>4. \E m \in Nodes : Ahead(m)
    <3>1. CASE Stale(table[f])
      BY <1>0, <3>1 DEF TableInv
    <3>2. CASE ~Stale(table[f])
      <4>1. Stale(copy[<<n, "flusher">>][f])
        <5>1. table'[f] # table[f] /\ table'[f] # None
          BY <1>1, <3>2 DEF Fresh, Stale
        <5>2. Insert(n, "flusher")
          BY <1>0, <1>5, <5>1 DEF Worker, Flusher, StoreNotifies, GetChain, Find,
             Transform, FlushClears, Compact, Notify, TypeOK, Entries
        <5> QED
          BY <1>1, <5>1, <5>2 DEF Insert, Inserted, Fresh, Stale
      <4> QED
        BY <1>0, <4>1 DEF NodeInv
    <3> QED
      BY <3>1, <3>2
  <2> QED
    BY <2>3, <2>4
<1>6. CASE DeleteFails(n, "bus") \/ DeleteFails(n, "timer") \/ LoseSignal(n)
  <2>1. ~Settled(n) /\ faults' # faults
    BY <1>0, <1>6, FaultCounts DEF Settled, DeleteFails, LoseSignal, Misses, TypeOK
  <2> QED
    BY <2>1
<1>7. CASE Restart(n)
  <2>1. \A m \in Nodes : Settled(m)
    BY <1>0, <1>7, FaultCounts DEF Restart
  <2>2. Stale(table[f])
    BY <1>1, <1>7 DEF Restart, Fresh, Stale
  <2>3. \E m \in Nodes : Ahead(m)
    BY <1>0, <2>2 DEF TableInv
  <2> QED
    BY <1>0, <2>1, <2>3, SettledIsDone
<1> QED
  BY <1>2, <1>3, <1>4, <1>5, <1>6, <1>7 DEF NodeStep, Bus, Timer, Invalidation

(* A replacement puts a first invalidation ahead of every node. *)
LEMMA StoreKeeps ==
  ASSUME IndInv, NEW n \in Nodes, Store(n), ~spoilt' => ~spoilt
  PROVE  (\A m \in Nodes : NodeInv(m)') /\ TableInv'
<1>1. /\ TypeOK /\ \A m \in Nodes : NodeInv(m)
      /\ UNCHANGED <<pc, copy, task, missed>>
  BY IndInvParts DEF Store, mishaps
<1>2. \A m \in Nodes : FirstAhead(m)'
  BY <1>1 DEF Store, FirstAhead, TypeOK
<1> QED
  BY <1>1, <1>2 DEF NodeInv, TableInv

(* The initial states satisfy IndInv: there is nothing anywhere. *)
LEMMA InitIndInv == Init => IndInv
<1> SUFFICES ASSUME Init PROVE IndInv
  OBVIOUS
<1>1. TypeOK
  <2>1. source \in 1 .. MaxEdition /\ None \in Editions
    BY MaxEditionAssumption DEF Init, Editions
  <2>2. "idle" \in Places /\ {} \in SUBSET SUBSET Activities
    BY DEF Places
  <2>3. missed \in [Nodes -> SUBSET {"first", "second"}] /\ faults \in 0 .. MaxFaults
    BY MaxFaultsAssumption DEF Init
  <2> QED
    BY <2>1, <2>2, <2>3, EmptyType DEF Init, TypeOK
<1>2. /\ \A n \in Nodes : chain[n] = None /\ task[n].edition = None
      /\ \A n \in Nodes, f \in Facts : buffer[n][f] = None
      /\ \A f \in Facts : table[f] = None
      /\ \A t \in Nodes \X Threads : copy[t] = NoEntries
      /\ \A f \in Facts : NoEntries[f] = None
      /\ \A n \in Nodes : missed[n] = {}
  BY DEF Init, NoEntries, NoTask
<1>3. ~Stale(None)
  BY DEF Fresh, Stale
<1>4. ThreadInv /\ MissedInv /\ ChainInv /\ TaskInv
  BY <1>2, <1>3 DEF ThreadInv, MissedInv, ChainInv, TaskInv
<1>5. BufferInv /\ FlushInv /\ TableInv
  BY <1>2, <1>3, Threads4 DEF BufferInv, FlushInv, TableInv
<1> QED
  BY <1>1, <1>4, <1>5 DEF IndInv

(* IndInv is inductive. *)
LEMMA NextIndInv == IndInv /\ [Next]_vars => IndInv'
<1> SUFFICES ASSUME IndInv, [Next]_vars PROVE IndInv'
  OBVIOUS
<1>1. TypeOK /\ TypeOK' /\ \A m \in Nodes : NodeInv(m)
  BY IndInvParts, TypeStep
<1>2. CASE UNCHANGED vars
  BY <1>2 DEF vars, mishaps, IndInv, TypeOK, ThreadInv, MissedInv, ChainInv, TaskInv,
     BufferInv, FlushInv, TableInv, Fresh, Stale, FirstAhead, SecondAhead
<1>3. CASE Next
  <2>1. PICK n \in Nodes : NodeStep(n) \/ Store(n)
    BY <1>3 DEF Next, NodeStep
  <2>2. /\ ~spoilt' => ~spoilt /\ ~FlushRacesTimer(n)'
        /\ \A m \in Nodes : faults' # faults /\ ~Settled(m) => spoilt'
    BY <1>3 DEF Next
  <2>3. CASE NodeStep(n)
    <3>1. NodeInv(n)'
      <4>1. CASE StoreNotifies(n)
        <5>1. /\ UNCHANGED <<source, buffer, signals, timers, pc, copy, task, missed>>
              /\ chain'[n] = None
          BY <1>1, <4>1 DEF StoreNotifies, NotifyFor, TypeOK, mishaps
        <5> QED
          BY <1>1, <2>2, <5>1 DEF NodeInv, Fresh, Stale, FirstAhead, SecondAhead
      <4> QED
        BY <1>1, <2>2, <2>3, <4>1, WorkerKeeps, FlusherKeeps, BusKeeps, TimerKeeps,
           LossKeeps, BusFaults DEF NodeStep
    <3>2. ASSUME NEW m \in Nodes, m # n PROVE NodeInv(m)'
      <4>1. {"worker", "flusher", "bus"} \subseteq Threads
        BY DEF Threads, Activities
      <4>2. NodeInv(m)
        BY <1>1
      <4>3. /\ source' = source /\ missed'[m] = missed[m]
            /\ signals'[m] = signals[m] /\ timers'[m] = timers[m]
            /\ chain'[m] = chain[m] /\ task'[m] = task[m] /\ buffer'[m] = buffer[m]
            /\ \A t \in Threads : pc'[<<m, t>>] = pc[<<m, t>>]
            /\ \A t \in Threads : copy'[<<m, t>>] = copy[<<m, t>>]
        BY <1>1, <2>3, <3>2, OthersStay
      <4>4. /\ FirstAhead(m)' <=> FirstAhead(m)
            /\ SecondAhead(m)' <=> SecondAhead(m)
            /\ \A e : Stale(e)' <=> Stale(e)
        BY <4>1, <4>3 DEF FirstAhead, SecondAhead, Fresh, Stale
      <4> QED
        BY <2>2, <4>1, <4>2, <4>3, <4>4 DEF NodeInv
    <3>3. TableInv'
      BY <2>2, <2>3, TableKeeps
    <3>4. \A m \in Nodes : NodeInv(m)'
      BY <3>1, <3>2
    <3> QED
      BY <1>1, <3>3, <3>4 DEF IndInv, NodeInv, ThreadInv, MissedInv, ChainInv, TaskInv, BufferInv,
         FlushInv
  <2>4. CASE Store(n)
    BY <1>1, <2>2, <2>4, StoreKeeps
       DEF IndInv, NodeInv, ThreadInv, MissedInv, ChainInv, TaskInv, BufferInv, FlushInv
  <2> QED
    BY <2>1, <2>3, <2>4
<1> QED
  BY <1>2, <1>3

(* The inductive invariant holds in every state of every behaviour. *)
THEOREM Invariance == Spec => []IndInv
BY InitIndInv, NextIndInv, PTL DEF Spec

(* The variables of TransformationCache always have their types. *)
THEOREM TypeCorrect == Spec => []TypeOK
<1>1. IndInv => TypeOK
  BY DEF IndInv
<1> QED
  BY <1>1, Invariance, PTL

(* For any number of servers, facts, replacements and faults: once a server *)
(* has completed its two invalidations, it serves nothing from its memory   *)
(* that an old script made, but for what a lost signal, a failed DELETE or  *)
(* a short delay has left there since; and once all have, there is none in  *)
(* the table, unless an invalidation has come to nothing, a server has been *)
(* restarted before or a flush has raced a second invalidation              *)
(* (PgTransformationStoreChangeListener.on).                                *)
THEOREM NothingStaleIsServed == Spec => []StaleFactsVanish
<1>1. ASSUME IndInv, NEW n \in Nodes, Settled(n) PROVE FreshMemory(n)
  BY <1>1, SettledIsDone DEF IndInv, ChainInv, BufferInv, FreshMemory, Stale
<1>2. ASSUME IndInv, ~spoilt, \A n \in Nodes : Settled(n), NEW f \in Facts PROVE Fresh(table[f])
  BY <1>2, SettledIsDone DEF IndInv, TableInv, Stale
<1>3. IndInv => StaleFactsVanish
  BY <1>1, <1>2 DEF StaleFactsVanish
<1> QED
  BY <1>3, Invariance, PTL

=============================================================================
