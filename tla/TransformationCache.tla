------------------------ MODULE TransformationCache ------------------------
(***************************************************************************)
(* The cache of transformed facts, when the transformation of a type is    *)
(* replaced in the schema registry.                                        *)
(*                                                                         *)
(* All servers share the table transformationcache.  Each has a buffer of  *)
(* transformed facts that wait to be inserted (CacheBuffer) and the chain  *)
(* of scripts it built last (TransformationChains).  The key of a cached   *)
(* fact names the versions of its chain, not the scripts: nothing but      *)
(* invalidation gets rid of what an old script made.  A notification of    *)
(* the database reaches PgTransformationStoreChangeListener, which         *)
(* invalidates at once, and once more after a delay that is meant to be    *)
(* long enough for whatever was under way.                                 *)
(*                                                                         *)
(* The delay may be too short, a DELETE may fail, a notification may be    *)
(* lost with the listener's connection, and a server may restart.          *)
(*                                                                         *)
(* One type of facts is considered; what a fact was transformed with is a  *)
(* number, the edition of the script.  last_access is left out: a row may  *)
(* be compacted at any time.                                               *)
(***************************************************************************)
EXTENDS Naturals, FiniteSets

CONSTANTS Nodes,
          Facts,
          MaxEdition,   \* bound: editions of the script
          MaxFaults     \* bound: failed deletions, short delays, lost signals, restarts

ASSUME MaxEditionAssumption == MaxEdition \in Nat \ {0}
ASSUME MaxFaultsAssumption == MaxFaults \in Nat
ASSUME FactsAssumption == Facts # {}

None == 0   \* no entry, no chain

(* The database. *)
VARIABLES source,     \* transformationstore: the current edition
          table       \* transformationcache

(* Of each node. *)
VARIABLES chain,      \* TransformationChains.cache
          buffer,     \* CacheBuffer.buffer
          local,      \* notifications of store() to the node's own chains
          signals,    \* TransformationStoreChangeSignals in the event bus
          timers      \* second invalidations: the activities under way when scheduled

(* Threads of each node: "worker" transforms facts, "flusher" flushes the  *)
(* buffer by threshold or schedule, "bus" and "timer" invalidate.          *)
VARIABLES pc,         \* where it is
          copy,       \* flush: what it has taken out of the buffer
          task        \* the worker's fact and chain

(* History, for the properties only. *)
VARIABLES missed,     \* the invalidations of a node that have come to nothing since
                      \* the last that went well: the "first", the "second"
          spoilt,     \* what an invalidation should have deleted may be in the table
          faults

mishaps == <<missed, faults>>
vars == <<source, table, chain, buffer, local, signals, timers, pc, copy, task, spoilt, mishaps>>

Editions == 0 .. MaxEdition
Places == {"idle", "find", "transform", "insert", "compact", "delete", "notify"}
Entries == [Facts -> Editions]
Activities == {"worker", "flusher"}
Threads == Activities \cup {"bus", "timer"}
NoEntries == [f \in Facts |-> None]

TypeOK ==
  /\ source \in 1 .. MaxEdition /\ table \in Entries
  /\ chain \in [Nodes -> Editions] /\ buffer \in [Nodes -> Entries]
  /\ local \in [Nodes -> Nat] /\ signals \in [Nodes -> Nat]
  /\ timers \in [Nodes -> SUBSET SUBSET Activities]
  /\ pc \in [Nodes \X Threads -> Places]
  /\ copy \in [Nodes \X Threads -> Entries]
  /\ task \in [Nodes -> [fact : Facts, edition : Editions]]
  /\ spoilt \in BOOLEAN
  /\ missed \in [Nodes -> SUBSET {"first", "second"}] /\ faults \in 0 .. MaxFaults

NoTask == [fact |-> CHOOSE f \in Facts : TRUE, edition |-> None]

Init ==
  /\ source = 1 /\ table = NoEntries
  /\ chain = [n \in Nodes |-> None] /\ buffer = [n \in Nodes |-> NoEntries]
  /\ local = [n \in Nodes |-> 0] /\ signals = [n \in Nodes |-> 0]
  /\ timers = [n \in Nodes |-> {}]
  /\ pc = [t \in Nodes \X Threads |-> "idle"]
  /\ copy = [t \in Nodes \X Threads |-> NoEntries]
  /\ task = [n \in Nodes |-> NoTask]
  /\ spoilt = FALSE /\ missed = [n \in Nodes |-> {}] /\ faults = 0

Goes(n, thread, place) == pc' = [pc EXCEPT ![<<n, thread>>] = place]

(* An activity of node n ends: the second invalidations wait for it no more. *)
Ends(n, activity) == timers' = [timers EXCEPT ![n] = {t \ {activity} : t \in @}]

-----------------------------------------------------------------------------
(* FactTransformerServiceImpl.transform, in a worker. *)

(* TransformationChains.get builds the chain if there is none.  It does so *)
(* under a lock that notifyFor does not take: notifyFor may throw away the *)
(* map into which get is about to put the chain, and then the chain is     *)
(* used once and kept nowhere, as if get had been done just before.        *)
GetChain(n) ==
  /\ pc[<<n, "worker">>] = "idle"
  /\ chain' = [chain EXCEPT ![n] = IF @ = None THEN source ELSE @]
  /\ \E f \in Facts : task' = [task EXCEPT ![n] = [fact |-> f, edition |-> chain'[n]]]
  /\ Goes(n, "worker", "find")
  /\ UNCHANGED <<source, table, buffer, local, signals, timers, copy, mishaps>>

(* find, in the buffer and then in the table.  A hit is the result. *)
Find(n) ==
  /\ pc[<<n, "worker">>] = "find"
  /\ IF buffer[n][task[n].fact] = None /\ table[task[n].fact] = None
     THEN Goes(n, "worker", "transform") /\ UNCHANGED <<task, timers>>
     ELSE /\ Goes(n, "worker", "idle")
          /\ task' = [task EXCEPT ![n] = NoTask]
          /\ Ends(n, "worker")
  /\ UNCHANGED <<source, table, chain, buffer, local, signals, copy, mishaps>>

(* doTransform, and put.  If the script fails, nothing is put. *)
Transform(n) ==
  /\ pc[<<n, "worker">>] = "transform"
  /\ buffer' \in {buffer, [buffer EXCEPT ![n][task[n].fact] = task[n].edition]}
  /\ Goes(n, "worker", "idle")
  /\ task' = [task EXCEPT ![n] = NoTask]
  /\ Ends(n, "worker")
  /\ UNCHANGED <<source, table, chain, local, signals, copy, mishaps>>

-----------------------------------------------------------------------------
(* PgTransformationCache. *)

(* The first step of flush: CacheBuffer.clear.  Nothing is inserted if the *)
(* buffer was empty.                                                       *)
Clear(n, thread) ==
  /\ copy' = [copy EXCEPT ![<<n, thread>>] = buffer[n]]
  /\ buffer' = [buffer EXCEPT ![n] = NoEntries]
  /\ Goes(n, thread, IF buffer[n] # NoEntries THEN "insert"
                     ELSE IF thread = "flusher" THEN "compact" ELSE "delete")

FlushClears(n) ==
  /\ pc[<<n, "flusher">>] = "idle"
  /\ Clear(n, "flusher")
  /\ UNCHANGED <<source, table, chain, local, signals, timers, task, mishaps>>

(* The rows go in, ON CONFLICT DO NOTHING.  If the insert fails, the copy  *)
(* is lost.                                                                *)
Inserted(entries) == [f \in Facts |-> IF table[f] = None THEN entries[f] ELSE table[f]]

Insert(n, thread) ==
  /\ pc[<<n, thread>>] = "insert"
  /\ table' \in {table, Inserted(copy[<<n, thread>>])}
  /\ copy' = [copy EXCEPT ![<<n, thread>>] = NoEntries]
  /\ IF thread = "flusher"
     THEN \/ Goes(n, thread, "idle") /\ Ends(n, "flusher")
          \/ Goes(n, thread, "compact") /\ UNCHANGED timers
     ELSE Goes(n, thread, "delete") /\ UNCHANGED timers
  /\ UNCHANGED <<source, chain, buffer, local, signals, task, mishaps>>

(* After its flush, compact deletes what was not accessed for long. *)
Compact(n) ==
  /\ pc[<<n, "flusher">>] = "compact"
  /\ \E old \in SUBSET Facts :
       table' = [f \in Facts |-> IF f \in old THEN None ELSE table[f]]
  /\ Goes(n, "flusher", "idle")
  /\ Ends(n, "flusher")
  /\ UNCHANGED <<source, chain, buffer, local, signals, copy, task, mishaps>>

-----------------------------------------------------------------------------
(* Replacement of the transformation, and what follows. *)

(* AbstractTransformationStore.store: the commit notifies every node, and  *)
(* a task is submitted that tells the node's own chains.                   *)
Store(n) ==
  /\ source < MaxEdition
  /\ source' = source + 1
  /\ signals' = [m \in Nodes |-> signals[m] + 1]
  /\ local' = [local EXCEPT ![n] = @ + 1]
  /\ UNCHANGED <<table, chain, buffer, timers, pc, copy, task, mishaps>>

(* TransformationChains.notifyFor. *)
NotifyFor(n) == chain' = [chain EXCEPT ![n] = None]

(* A slip: told without a submission. *)
Anytime(n) == TRUE

(* The task that store submitted has not run yet. *)
Submitted(n) == local[n] > 0

StoreNotifies(n) ==
  /\ Submitted(n)
  /\ local' = [local EXCEPT ![n] = @ - 1]
  /\ NotifyFor(n)
  /\ UNCHANGED <<source, table, buffer, signals, timers, pc, copy, task, mishaps>>

(* invalidateCachesFor: flush, DELETE, notifyFor.  The bus does it on a    *)
(* signal, one at a time.                                                  *)
OnSignal(n) ==
  /\ pc[<<n, "bus">>] = "idle" /\ signals[n] > 0
  /\ signals' = [signals EXCEPT ![n] = @ - 1]
  /\ Clear(n, "bus")
  /\ UNCHANGED <<source, table, chain, local, timers, task, mishaps>>

(* One of the invalidations of node n comes to nothing. *)
Fault == faults < MaxFaults /\ faults' = faults + 1
Misses(n, invalidation) ==
  /\ Fault
  /\ missed' = [missed EXCEPT ![n] = @ \cup {invalidation}]

(* The timer does it when the delay is over.  What was under way when it   *)
(* was scheduled has ended, unless the delay was too short.                *)
OnTimer(n) ==
  /\ pc[<<n, "timer">>] = "idle"
  /\ \E t \in timers[n] :
       /\ timers' = [timers EXCEPT ![n] = @ \ {t}]
       /\ IF t = {} THEN UNCHANGED mishaps ELSE Misses(n, "second")
  /\ Clear(n, "timer")
  /\ UNCHANGED <<source, table, chain, local, signals, task>>

Delete(n, thread) ==
  /\ pc[<<n, thread>>] = "delete"
  /\ table' = NoEntries
  /\ Goes(n, thread, "notify")
  /\ UNCHANGED <<source, chain, buffer, local, signals, timers, copy, task, mishaps>>

(* An exception of the DELETE leaves invalidateCachesFor before notifyFor, *)
(* and on(signal) before anything is scheduled.  What the timer was to     *)
(* delete stays in the table.                                              *)
DeleteFails(n, thread) ==
  /\ pc[<<n, thread>>] = "delete"
  /\ Goes(n, thread, "idle")
  /\ IF thread = "bus" THEN Misses(n, "first")
     ELSE Fault /\ UNCHANGED missed
  /\ UNCHANGED <<source, table, chain, buffer, local, signals, timers, copy, task>>

UnderWay(n) == {a \in Activities : pc[<<n, a>>] # "idle"}

(* A slip: one invalidation is thought to be enough. *)
ScheduleNothing(n) == UNCHANGED timers

(* on(signal) schedules the second invalidation after the first. *)
ScheduleSecond(n) == timers' = [timers EXCEPT ![n] = @ \cup {UnderWay(n)}]

Notify(n, thread) ==
  /\ pc[<<n, thread>>] = "notify"
  /\ NotifyFor(n)
  /\ Goes(n, thread, "idle")
  /\ IF thread = "bus"
     THEN ScheduleSecond(n) /\ missed' = [missed EXCEPT ![n] = {}]
     ELSE UNCHANGED <<timers, missed>>
  /\ UNCHANGED <<source, table, buffer, local, signals, copy, task, faults>>

-----------------------------------------------------------------------------
(* Node n has dealt with all replacements. *)
Settled(n) ==
  /\ local[n] = 0 /\ signals[n] = 0 /\ timers[n] = {}
  /\ pc[<<n, "bus">>] = "idle" /\ pc[<<n, "timer">>] = "idle"

(* The connection of the listener breaks: nobody sends the notification    *)
(* again.                                                                  *)
LoseSignal(n) ==
  /\ signals[n] > 0
  /\ signals' = [signals EXCEPT ![n] = @ - 1]
  /\ Misses(n, "first")
  /\ UNCHANGED <<source, table, chain, buffer, local, timers, pc, copy, task>>

(* The server is gone with all that was in its memory, and starts again.   *)
Restart(n) ==
  /\ Fault
  /\ missed' = [missed EXCEPT ![n] = {}]
  /\ chain' = [chain EXCEPT ![n] = None] /\ buffer' = [buffer EXCEPT ![n] = NoEntries]
  /\ local' = [local EXCEPT ![n] = 0] /\ signals' = [signals EXCEPT ![n] = 0]
  /\ timers' = [timers EXCEPT ![n] = {}] /\ task' = [task EXCEPT ![n] = NoTask]
  /\ pc' = [t \in Nodes \X Threads |-> IF t[1] = n THEN "idle" ELSE pc[t]]
  /\ copy' = [t \in Nodes \X Threads |-> IF t[1] = n THEN NoEntries ELSE copy[t]]
  /\ UNCHANGED <<source, table>>

-----------------------------------------------------------------------------
(* Node n is flushing its buffer while its second invalidation, which has  *)
(* emptied the buffer before, is about to delete.                          *)
FlushRacesTimer(n) ==
  pc[<<n, "flusher">>] = "insert" /\ pc[<<n, "timer">>] \in {"insert", "delete"}

Worker(n) == GetChain(n) \/ Find(n) \/ Transform(n)
Flusher(n) == FlushClears(n) \/ Insert(n, "flusher") \/ Compact(n)
Invalidation(n, thread) ==
  Insert(n, thread) \/ Delete(n, thread) \/ DeleteFails(n, thread) \/ Notify(n, thread)
Bus(n) == OnSignal(n) \/ Invalidation(n, "bus")
Timer(n) == OnTimer(n) \/ Invalidation(n, "timer")

Next ==
  /\ \E n \in Nodes : \/ Worker(n) \/ Flusher(n) \/ Store(n) \/ StoreNotifies(n)
                     \/ Bus(n) \/ Timer(n) \/ LoseSignal(n) \/ Restart(n)
  /\ spoilt' = (spoilt \/ \E n \in Nodes : FlushRacesTimer(n)' \/ (faults' # faults /\ ~Settled(n)))

Spec == Init /\ [][Next]_vars

-----------------------------------------------------------------------------
(* It was not made with a script that is no longer the current one. *)
Fresh(edition) == edition \in {None, source}

(* What a node has in its memory when its invalidations are done: a chain  *)
(* is old only if the signal or the deletion that follows it has failed,   *)
(* and what waits to be inserted only then or if the delay was too short.  *)
FreshMemory(n) ==
  /\ "first" \notin missed[n] => Fresh(chain[n])
  /\ missed[n] = {} => \A f \in Facts : Fresh(buffer[n][f])

(* When a node has done its two invalidations, nothing that earlier        *)
(* scripts made is served from its memory, and when all have, nothing from *)
(* the table; and nothing brings it back as long as the transformation     *)
(* stays: neither a chain that a worker held, nor what it put into a       *)
(* buffer, nor a flush under way, of this node or another                  *)
(* (PgTransformationStoreChangeListener.on).  That is so unless an         *)
(* invalidation has come to nothing: a lost signal, a failed DELETE or a   *)
(* short delay, which the next replacement makes up for in the memory, but *)
(* not in the table, which a restart before the invalidations and a flush  *)
(* that overlaps a second invalidation spoil as well.                      *)
StaleFactsVanish ==
  /\ \A n \in Nodes : Settled(n) => FreshMemory(n)
  /\ (~spoilt /\ \A n \in Nodes : Settled(n)) => \A f \in Facts : Fresh(table[f])
=============================================================================
