----------------------------- MODULE FactStream -----------------------------
(***************************************************************************)
(* One subscription on a FactCast server, from subscribe to close.         *)
(*                                                                         *)
(* PgFactStream.connect runs in a pool thread: it catches up with the log  *)
(* in two passes, offers a fast-forward position, signals catchup and      *)
(* then, for a follow subscription, registers a CondensedQueryExecutor on  *)
(* the event bus.  From then on PgListener, a thread with a PostgreSQL     *)
(* connection of its own, turns every NOTIFY of a publishing transaction   *)
(* into an event; bus threads and a timer thread run PgSynchronizedQuery   *)
(* one at a time.  Facts pass filters and a buffer for transformation on   *)
(* their way to the observer.  The client may close the subscription at    *)
(* any moment, from yet another thread.                                    *)
(*                                                                         *)
(* The fact table is the AppendOnlyLog that FactStore implements.          *)
(***************************************************************************)
EXTENDS Naturals, Sequences, FiniteSets

CONSTANTS Types,        \* namespace and type of a fact
          Keys,         \* what FactSpecs, filters and versions tell facts apart by
          TypeOf,       \* TypeOf[key]: a key's type
          Queried,      \* keys that the SQL query selects
          Wanted,       \* of these, the ones that pass blacklist and script
          Outdated,     \* of these, the ones that need a transformation
          Requests,     \* the subscription requests that are considered
          Batches,      \* the lists of keys that are published at once
          ClientCloses, \* bound: the client may close the subscription
          Refreshes,    \* bound: the fast-forward target may be refreshed
          MaxBufferSize,          \* capacity of the transformation buffer
          MaxSer,                 \* bound: largest serial
          MaxGap,                 \* bound: serials lost by a rollback
          MaxListenerFaults,      \* bound: connections and headers that PgListener loses
          MaxQueryFailures,       \* bound: queries that fail
          MaxTransformFailures    \* bound: transformations that fail

Request == [continuous : BOOLEAN, ephemeral : BOOLEAN, delayed : BOOLEAN]

ASSUME KeysAssumption == /\ Queried \subseteq Keys
                         /\ Wanted \subseteq Queried
                         /\ Outdated \subseteq Wanted
                         /\ TypeOf \in [Keys -> Types]
ASSUME RequestsAssumption == Requests \subseteq Request
ASSUME BatchesAssumption == Batches \subseteq Seq(Keys)
ASSUME FlagsAssumption == ClientCloses \in BOOLEAN /\ Refreshes \in BOOLEAN
ASSUME BufferAssumption == MaxBufferSize \in Nat /\ MaxBufferSize > 2
ASSUME BoundsAssumption == /\ MaxSer \in Nat /\ MaxGap \in Nat
                           /\ MaxListenerFaults \in Nat
                           /\ MaxQueryFailures \in Nat
                           /\ MaxTransformFailures \in Nat

(* The database, and what other parts of the server keep of it. *)
VARIABLES log,        \* committed rows of table fact
          target,     \* FastForwardTargetRefresher.target
          listener,   \* PgListener: "down", "listening" or "up"
          notes,      \* notifications that wait in PgListener's connection
          losses      \* faults of PgListener so far

(* The connecting thread. *)
VARIABLES pc,         \* where it is
          phase,      \* pass of the catchup: 1 or 2
          request,    \* the SubscriptionRequest
          from,       \* serial after which this subscription starts
          atConnect,  \* (history) the log when it was read for the first time
          targetId,   \* ffwdTarget.targetId(), as read
          ffwd,       \* position sent with the fast-forward signal, 0 if none
          caughtUp    \* the catchup signal was sent

(* Event bus, executor and query. *)
VARIABLES tasks,      \* events dispatched to the executor, not yet handled
          scheduled,  \* CondensedQueryExecutor.currentlyScheduled
          waiting,    \* threads that are about to enter runTarget
          runner,     \* the thread inside
          qpc,        \* where it is
          latest,     \* the latest serial, read before the query
          todo,       \* rows of the current result set, not yet handled
          serial,     \* PgFactStream.serial
          failures    \* queries and transformations that failed so far

(* Pipeline and observer. *)
VARIABLES buffer,     \* BufferedTransformingServerPipeline.buffer
          mode,       \* its mode, and how far doFlush is
          delivered   \* serials of the facts the observer got

(* Closing. *)
VARIABLES closed,       \* SubscriptionImpl.closed
          closer,       \* how far PgFactStream.close is
          closedBy,     \* the thread that runs it
          disconnected, \* PgFactStream.disconnected
          holder,       \* CurrentStatementHolder: "none", "active", "canceled"
          executor,     \* PgFactStream.condensedExecutor is set
          registered,   \* the executor is registered on the event bus
          cancelled     \* its timer is cancelled

dbVars       == <<log, target>>
listenerVars == <<listener, notes, losses>>
connectVars  == <<pc, phase, request, from, atConnect, targetId, ffwd, caughtUp>>
busVars      == <<tasks, scheduled, waiting>>
queryVars    == <<runner, qpc, latest>>
cursorVars   == <<todo, serial>>
pipeVars     == <<buffer, mode, delivered>>
closeVars    == <<closed, closer, closedBy, disconnected>>
execVars     == <<executor, registered, cancelled>>
vars == <<dbVars, listenerVars, connectVars, busVars, queryVars, cursorVars,
          failures, pipeVars, closeVars, holder, execVars>>

Log == INSTANCE AppendOnlyLog WITH FactIds <- 1..MaxSer

All     == "all"
Events  == Types \cup {All}
Threads == Events \cup {"connect", "timer"}
Nobody  == "nobody"

ASSUME NamesAssumption == Nobody \notin Threads

Init == /\ Log!Init /\ target = 0
        /\ listener = "down" /\ notes = {} /\ losses = 0
        /\ pc = "new" /\ phase = 1 /\ request \in Requests /\ from = 0
        /\ atConnect = {} /\ targetId = 0 /\ ffwd = 0 /\ caughtUp = FALSE
        /\ tasks = {} /\ scheduled = FALSE /\ waiting = {}
        /\ runner = Nobody /\ qpc = "idle" /\ latest = 0
        /\ todo = {} /\ serial = 0 /\ failures = [query |-> 0, transform |-> 0]
        /\ buffer = <<>> /\ mode = "direct" /\ delivered = <<>>
        /\ closed = FALSE /\ closer = "open" /\ closedBy = Nobody
        /\ disconnected = FALSE /\ holder = "none"
        /\ executor = FALSE /\ registered = FALSE /\ cancelled = FALSE

-----------------------------------------------------------------------------
(* The fact table. *)

(* retrieveLatestSer: n is the largest serial, 0 if there are no facts. *)
IsLatestSer(n) == /\ \A r \in log : r.ser <= n
                  /\ n = 0 \/ \E r \in log : r.ser = n

(* Mutant: the row that the serial stands for is selected once more. *)
MatchingFromSerial == {r \in log : r.key \in Queried /\ r.ser >= serial}

(* The result of PgQueryBuilder.createSQL. *)
MatchingAfterSerial == {r \in log : r.key \in Queried /\ r.ser > serial}

(* The commit of a publication: the rows appear, and the deferred trigger
   notifies once per namespace and type. *)
Publish ==
  \E keys \in Batches, gap \in 0..MaxGap, last \in 0..MaxSer :
    /\ IsLatestSer(last) /\ last + gap + Len(keys) <= MaxSer
    /\ Log!Append({[ser |-> last + gap + i, id |-> last + gap + i, key |-> keys[i]] :
                     i \in 1..Len(keys)})
    /\ notes' = IF listener = "down" THEN notes
                ELSE notes \cup {TypeOf[keys[i]] : i \in 1..Len(keys)}
    /\ UNCHANGED <<target, listener, losses, connectVars, busVars, queryVars,
                   cursorVars, failures, pipeVars, closeVars, holder, execVars>>

(* FastForwardTargetRefresher.refresh, every five minutes. *)
RefreshTarget ==
  /\ Refreshes
  /\ \E n \in 1..MaxSer : IsLatestSer(n) /\ n # target /\ target' = n
  /\ UNCHANGED <<log, listenerVars, connectVars, busVars, queryVars, cursorVars,
                 failures, pipeVars, closeVars, holder, execVars>>

-----------------------------------------------------------------------------
(* PgListener and the event bus. *)

(* AsyncEventBus.post looks the subscribers up, a pool thread calls them. *)
Post(event) == tasks' = IF registered THEN tasks \cup {event} ELSE tasks

OnlyListenerAndBus ==
  UNCHANGED <<dbVars, connectVars, scheduled, waiting, queryVars, cursorVars,
              failures, pipeVars, closeVars, holder, execVars>>

(* A new connection, LISTEN on it. *)
SetupPostgresListeners ==
  /\ listener = "down"
  /\ listener' = "listening"
  /\ UNCHANGED <<notes, losses, tasks>>
  /\ OnlyListenerAndBus

InformSubscribersAboutFreshConnection ==
  /\ listener = "listening"
  /\ listener' = "up"
  /\ Post(All)
  /\ UNCHANGED <<notes, losses>>
  /\ OnlyListenerAndBus

ProcessNotification ==
  /\ listener = "up"
  /\ \E type \in notes : notes' = notes \ {type} /\ Post(type)
  /\ UNCHANGED <<listener, losses>>
  /\ OnlyListenerAndBus

(* Headers that cannot be parsed: everybody is informed, once for all that were
   received together. *)
ProcessUnparsableNotification ==
  /\ listener = "up" /\ losses < MaxListenerFaults
  /\ \E bad \in SUBSET notes : bad # {} /\ notes' = notes \ bad
  /\ Post(All)
  /\ losses' = losses + 1
  /\ UNCHANGED listener
  /\ OnlyListenerAndBus

(* The connection dies, or fails the roundtrip check; what it held is lost.
   The loop sleeps and connects again. *)
ListenerLosesConnection ==
  /\ listener # "down" /\ losses < MaxListenerFaults
  /\ listener' = "down"
  /\ notes' = {}
  /\ losses' = losses + 1
  /\ UNCHANGED tasks
  /\ OnlyListenerAndBus

-----------------------------------------------------------------------------
(* The pipeline.  Its filters have no state; its end is SubscriptionImpl. *)

(* notifyElement *)
NotifyElement(r) ==
  delivered' = IF closed THEN delivered ELSE Append(delivered, r.ser)

(* Mutant: the buffer may grow beyond its capacity. *)
BufferOverfull(facts) == Len(facts) > MaxBufferSize

BufferIsFull(facts) == Len(facts) >= MaxBufferSize

(* Mutant: a fact that needs no transformation overtakes the buffered ones. *)
PassByBuffer(r) == r.key \notin Outdated

(* passOrBuffer *)
MayPass(r) == mode = "direct" /\ r.key \notin Outdated

Process(r) ==
  \/ /\ r.key \notin Wanted
     /\ UNCHANGED pipeVars
  \/ /\ r.key \in Wanted /\ MayPass(r)
     /\ NotifyElement(r)
     /\ UNCHANGED <<buffer, mode>>
  \/ /\ r.key \in Wanted /\ ~MayPass(r)
     /\ buffer' = Append(buffer, r)
     /\ mode' = IF BufferIsFull(buffer') THEN "transform" ELSE "buffering"
     /\ UNCHANGED delivered

(* The flush signal: starts doFlush unless the buffer is empty. *)
Flush == /\ mode' = IF mode = "buffering" THEN "transform" ELSE mode
         /\ UNCHANGED <<buffer, delivered>>

(* No thread is inside doFlush. *)
NotFlushing == mode \in {"direct", "buffering"}

(* service.transform answers, for all facts of the buffer. *)
Transform ==
  /\ mode = "transform"
  /\ mode' = "flushing"
  /\ UNCHANGED <<dbVars, listenerVars, connectVars, busVars, queryVars, cursorVars,
                 failures, buffer, delivered, closeVars, holder, execVars>>

(* The buffered signals go to the observer in their order. *)
PassBuffered ==
  /\ mode = "flushing" /\ buffer # <<>>
  /\ NotifyElement(Head(buffer))
  /\ buffer' = Tail(buffer)
  /\ mode' = IF Len(buffer) = 1 THEN "direct" ELSE "flushing"
  /\ UNCHANGED <<dbVars, listenerVars, connectVars, busVars, queryVars, cursorVars,
                 failures, closeVars, holder, execVars>>

-----------------------------------------------------------------------------
(* Closing: SubscriptionImpl.close, then PgFactStream.close step by step. *)

(* The first thread that closes the subscription runs PgFactStream.close. *)
StartClose(thread) ==
  /\ closed' = TRUE
  /\ closer' = IF closed THEN closer ELSE "disconnect"
  /\ closedBy' = IF closed THEN closedBy ELSE thread
  /\ UNCHANGED disconnected

(* thread is not busy closing. *)
Free(thread) == closedBy # thread \/ closer \in {"done", "failed"}

OnlyClose ==
  UNCHANGED <<dbVars, listenerVars, connectVars, tasks, waiting, queryVars, cursorVars,
              failures, pipeVars, closed, closedBy>>

(* The client closes, or its connection is lost. *)
Close ==
  /\ ClientCloses /\ ~closed
  /\ StartClose("client")
  /\ UNCHANGED <<dbVars, listenerVars, connectVars, busVars, queryVars, cursorVars,
                 failures, pipeVars, holder, execVars>>

(* condensedExecutor is a plain field, and close() may miss an executor that is
   only just created: that outcome is the one of close() coming first. *)
Disconnect ==
  /\ closer = "disconnect"
  /\ disconnected' = TRUE
  /\ closer' = IF executor THEN "unregister" ELSE "statement"
  /\ UNCHANGED <<scheduled, holder, execVars>>
  /\ OnlyClose

(* EventBus.unregister throws if the executor is not registered (yet). *)
Unregister ==
  /\ closer = "unregister"
  /\ closer' = IF registered THEN "cancel" ELSE "failed"
  /\ registered' = FALSE
  /\ UNCHANGED <<scheduled, disconnected, holder, executor, cancelled>>
  /\ OnlyClose

(* Mutant: the timer lives on. *)
DropExecutor ==
  /\ closer = "cancel"
  /\ closer' = "statement"
  /\ executor' = FALSE
  /\ UNCHANGED <<scheduled, disconnected, holder, registered, cancelled>>
  /\ OnlyClose

CancelExecutor ==
  /\ closer = "cancel"
  /\ closer' = "statement"
  /\ scheduled' = TRUE
  /\ cancelled' = TRUE
  /\ executor' = FALSE
  /\ UNCHANGED <<disconnected, holder, registered>>
  /\ OnlyClose

(* CurrentStatementHolder.close: without a statement, nothing is remembered. *)
CloseStatement ==
  /\ closer = "statement"
  /\ closer' = "done"
  /\ holder' = IF holder = "none" THEN "none" ELSE "canceled"
  /\ UNCHANGED <<scheduled, disconnected, execVars>>
  /\ OnlyClose

-----------------------------------------------------------------------------
(* The connecting thread. *)

OnlyConnect ==
  UNCHANGED <<dbVars, listenerVars, queryVars, failures, request>>

(* connect: startingAfter is a fact of the log, or none, or unknown. *)
Connect ==
  /\ pc = "new"
  /\ \E n \in {0} \cup {r.ser : r \in log} : from' = n /\ serial' = n
  /\ atConnect' = log
  /\ pc' = IF request.ephemeral THEN "ephemeral" ELSE "catchup"
  /\ UNCHANGED <<phase, targetId, ffwd, caughtUp, busVars, todo, pipeVars,
                 closeVars, holder, execVars>>
  /\ OnlyConnect

(* A serial cannot be read: warnAndNotify. *)
ConnectFails ==
  /\ \/ pc \in {"new", "ephemeral"}
     \/ pc = "fastForward" /\ Free("connect") /\ ~disconnected
  /\ failures.query < MaxQueryFailures
  /\ failures' = [failures EXCEPT !.query = @ + 1]
  /\ StartClose("connect")
  /\ pc' = "done"
  /\ UNCHANGED <<dbVars, listenerVars, queryVars, request, phase, from, atConnect,
                 targetId, ffwd, caughtUp, busVars, cursorVars, pipeVars, holder,
                 execVars>>

(* An ephemeral subscription starts with the next fact, whatever startingAfter
   is: a client that connects again sends one. *)
ForwardToLatest ==
  /\ pc = "ephemeral"
  /\ \E n \in 0..MaxSer : IsLatestSer(n) /\ from' = n /\ serial' = n
  /\ pc' = "fastForward"
  /\ UNCHANGED <<phase, atConnect, targetId, ffwd, caughtUp, busVars, todo,
                 pipeVars, closeVars, holder, execVars>>
  /\ OnlyConnect

(* if (isConnected()) before each part; once false, nothing is left to do. *)
StopIfDisconnected ==
  /\ pc \in {"catchup", "fastForward", "signal", "follow", "trigger"}
  /\ Free("connect") /\ disconnected
  /\ pc' = "done"
  /\ UNCHANGED <<phase, from, atConnect, targetId, ffwd, caughtUp, busVars, cursorVars,
                 pipeVars, closeVars, holder, execVars>>
  /\ OnlyConnect

BeginCatchup ==
  /\ pc = "catchup" /\ Free("connect") /\ ~disconnected
  /\ pc' = "query"
  /\ UNCHANGED <<phase, from, atConnect, targetId, ffwd, caughtUp, busVars, cursorVars,
                 pipeVars, closeVars, holder, execVars>>
  /\ OnlyConnect

(* The statement gets its parameters, then PostgreSQL takes its snapshot. *)
RunCatchup ==
  /\ pc = "query"
  /\ pc' = "rows"
  /\ todo' = MatchingAfterSerial
  /\ holder' = "active"
  /\ UNCHANGED <<phase, from, atConnect, targetId, ffwd, caughtUp, busVars, serial,
                 pipeVars, closeVars, execVars>>
  /\ OnlyConnect

IsOldest(r, rows) == r \in rows /\ \A q \in rows : r.ser <= q.ser

CatchupRow ==
  /\ pc = "rows" /\ NotFlushing /\ Free("connect")
  /\ \E r \in todo :
       /\ IsOldest(r, todo)
       /\ todo' = todo \ {r}
       /\ \/ holder = "canceled" /\ UNCHANGED <<serial, pipeVars>>
          \/ holder # "canceled" /\ serial' = r.ser /\ Process(r)
  /\ UNCHANGED <<pc, phase, from, atConnect, targetId, ffwd, caughtUp, busVars,
                 closeVars, holder, execVars>>
  /\ OnlyConnect

EndCatchupRows ==
  /\ pc = "rows" /\ todo = {} /\ NotFlushing /\ Free("connect")
  /\ Flush
  /\ pc' = "flush"
  /\ UNCHANGED <<phase, from, atConnect, targetId, ffwd, caughtUp, busVars, cursorVars,
                 closeVars, holder, execVars>>
  /\ OnlyConnect

(* statementHolder.clear() *)
EndCatchup ==
  /\ pc = "flush" /\ mode = "direct" /\ Free("connect")
  /\ holder' = "none"
  /\ phase' = 2
  /\ pc' = IF phase = 1 THEN "catchup" ELSE "fastForward"
  /\ UNCHANGED <<from, atConnect, targetId, ffwd, caughtUp, busVars, cursorVars,
                 pipeVars, closeVars, execVars>>
  /\ OnlyConnect

(* The query fails, on its own or because close() canceled it: what is
   buffered is flushed ... *)
CatchupFails ==
  /\ pc \in {"query", "rows"} /\ NotFlushing /\ Free("connect")
  /\ \/ pc = "rows" /\ holder = "canceled" /\ UNCHANGED failures
     \/ /\ failures.query < MaxQueryFailures
        /\ failures' = [failures EXCEPT !.query = @ + 1]
  /\ Flush
  /\ todo' = {}
  /\ pc' = "fail"
  /\ UNCHANGED <<dbVars, listenerVars, queryVars, request, phase, from, atConnect,
                 targetId, ffwd, caughtUp, busVars, serial, closeVars, holder, execVars>>

(* ... and the exception reaches the subscriber (warnAndNotify). *)
CatchupFailed ==
  /\ pc = "fail" /\ mode = "direct" /\ Free("connect")
  /\ holder' = "none"
  /\ StartClose("connect")
  /\ pc' = "done"
  /\ UNCHANGED <<phase, from, atConnect, targetId, ffwd, caughtUp, busVars, cursorVars,
                 pipeVars, execVars>>
  /\ OnlyConnect

ReadTargetId ==
  /\ pc = "fastForward" /\ Free("connect") /\ ~disconnected
  /\ targetId' = target
  /\ pc' = "position"
  /\ UNCHANGED <<phase, from, atConnect, ffwd, caughtUp, busVars, cursorVars,
                 pipeVars, closeVars, holder, execVars>>
  /\ OnlyConnect

(* targetSer is read only now, and may be newer than targetId.  The serial of
   startingAfter, which is compared as well, is never larger than serial. *)
FastForward ==
  /\ pc = "position"
  /\ ffwd' = IF targetId # 0 /\ serial < target /\ ~closed
             THEN targetId ELSE ffwd
  /\ targetId' = 0
  /\ pc' = "signal"
  /\ UNCHANGED <<phase, from, atConnect, caughtUp, busVars, cursorVars,
                 pipeVars, closeVars, holder, execVars>>
  /\ OnlyConnect

(* Mutant: notifyCatchup does not look at closed. *)
SignalEvenIfClosed ==
  /\ pc = "signal" /\ ~disconnected
  /\ caughtUp' = TRUE
  /\ pc' = "follow"
  /\ UNCHANGED <<phase, from, atConnect, targetId, ffwd, busVars, cursorVars,
                 pipeVars, closeVars, holder, execVars>>
  /\ OnlyConnect

SignalCatchup ==
  /\ pc = "signal" /\ ~disconnected
  /\ caughtUp' = ~closed
  /\ pc' = "follow"
  /\ UNCHANGED <<phase, from, atConnect, targetId, ffwd, busVars, cursorVars,
                 pipeVars, closeVars, holder, execVars>>
  /\ OnlyConnect

(* A catchup subscription completes, and closes itself. *)
Complete ==
  /\ pc = "follow" /\ ~disconnected /\ ~request.continuous
  /\ StartClose("connect")
  /\ pc' = "done"
  /\ UNCHANGED <<phase, from, atConnect, targetId, ffwd, caughtUp, busVars, cursorVars,
                 pipeVars, holder, execVars>>
  /\ OnlyConnect

CreateExecutor ==
  /\ pc = "follow" /\ ~disconnected /\ request.continuous
  /\ executor' = TRUE
  /\ pc' = "register"
  /\ UNCHANGED <<phase, from, atConnect, targetId, ffwd, caughtUp, busVars, cursorVars,
                 pipeVars, closeVars, holder, registered, cancelled>>
  /\ OnlyConnect

RegisterExecutor ==
  /\ pc = "register"
  /\ registered' = TRUE
  /\ pc' = "trigger"
  /\ UNCHANGED <<phase, from, atConnect, targetId, ffwd, caughtUp, busVars, cursorVars,
                 pipeVars, closeVars, holder, executor, cancelled>>
  /\ OnlyConnect

(* CondensedQueryExecutor.trigger *)
Trigger(thread) ==
  \/ disconnected /\ UNCHANGED <<scheduled, waiting>>
  \/ /\ ~disconnected /\ ~request.delayed
     /\ waiting' = waiting \cup {thread} /\ UNCHANGED scheduled
  \/ /\ ~disconnected /\ request.delayed
     /\ scheduled' = TRUE /\ UNCHANGED waiting

(* Mutant: registration without a query after it. *)
NoPhase3 ==
  /\ pc = "trigger" /\ ~disconnected
  /\ pc' = "done"
  /\ UNCHANGED <<phase, from, atConnect, targetId, ffwd, caughtUp, busVars, cursorVars,
                 pipeVars, closeVars, holder, execVars>>
  /\ OnlyConnect

(* Phase 3: facts that were published before the registration. *)
CatchupPhase3 ==
  /\ pc = "trigger" /\ ~disconnected
  /\ Trigger("connect")
  /\ pc' = "done"
  /\ UNCHANGED <<phase, from, atConnect, targetId, ffwd, caughtUp, tasks, cursorVars,
                 pipeVars, closeVars, holder, execVars>>
  /\ OnlyConnect

-----------------------------------------------------------------------------
(* CondensedQueryExecutor and PgSynchronizedQuery. *)

OnlyQuery ==
  UNCHANGED <<dbVars, listenerVars, connectVars, execVars>>

(* By namespace and type; the query looks at the rest. *)
MightMatch(event) == event = All \/ \E key \in Queried : event = TypeOf[key]

(* onEvent, in a thread of the event bus. *)
OnEvent(event) ==
  /\ event \in tasks
  /\ tasks' = tasks \ {event}
  /\ \/ MightMatch(event) /\ Trigger(event)
     \/ ~MightMatch(event) /\ UNCHANGED <<scheduled, waiting>>
  /\ UNCHANGED <<queryVars, cursorVars, failures, pipeVars, closeVars, holder>>
  /\ OnlyQuery

(* The timer has one thread.  It clears the flag before it runs the query. *)
TimerFires ==
  /\ scheduled /\ ~cancelled
  /\ "timer" \notin waiting /\ runner # "timer"
  /\ scheduled' = FALSE
  /\ waiting' = waiting \cup {"timer"}
  /\ UNCHANGED <<tasks, queryVars, cursorVars, failures, pipeVars, closeVars, holder>>
  /\ OnlyQuery

(* runTarget and run are synchronized; the latest serial comes first. *)
RunTarget(thread) ==
  /\ thread \in waiting /\ runner = Nobody
  /\ waiting' = waiting \ {thread}
  /\ runner' = thread
  /\ \E n \in 0..MaxSer : IsLatestSer(n) /\ latest' = n
  /\ qpc' = "query"
  /\ UNCHANGED <<tasks, scheduled, cursorVars, failures, pipeVars, closeVars, holder>>
  /\ OnlyQuery

RunQuery ==
  /\ qpc = "query"
  /\ qpc' = "rows"
  /\ todo' = MatchingAfterSerial
  /\ holder' = "active"
  /\ UNCHANGED <<busVars, runner, latest, serial, failures, pipeVars, closeVars>>
  /\ OnlyQuery

(* processRow.  The serial moves here also when the row fills the buffer: it
   is not read before doFlush has ended. *)
QueryRow ==
  /\ qpc = "rows" /\ NotFlushing /\ Free("query")
  /\ \E r \in todo :
       /\ IsOldest(r, todo)
       /\ todo' = todo \ {r}
       /\ \/ disconnected /\ UNCHANGED <<serial, pipeVars>>
          \/ ~disconnected /\ Process(r) /\ serial' = r.ser
  /\ UNCHANGED <<busVars, queryVars, failures, closeVars, holder>>
  /\ OnlyQuery

EndQueryRows ==
  /\ qpc = "rows" /\ todo = {} /\ NotFlushing /\ Free("query")
  /\ Flush
  /\ qpc' = "flush"
  /\ UNCHANGED <<busVars, runner, latest, cursorVars, failures, closeVars, holder>>
  /\ OnlyQuery

Leave == runner' = Nobody /\ qpc' = "idle" /\ latest' = 0

(* Mutant: the latest serial is read after the query. *)
EndQueryAtLatest ==
  /\ qpc = "flush" /\ mode = "direct" /\ Free("query")
  /\ \E n \in 0..MaxSer : IsLatestSer(n) /\ serial' = n
  /\ Leave
  /\ UNCHANGED <<busVars, todo, failures, pipeVars, closeVars, holder>>
  /\ OnlyQuery

(* The serial moves on to the latest one if no row did move it further. *)
EndQuery ==
  /\ qpc = "flush" /\ mode = "direct" /\ Free("query")
  /\ serial' = IF latest > serial THEN latest ELSE serial
  /\ Leave
  /\ UNCHANGED <<busVars, todo, failures, pipeVars, closeVars, holder>>
  /\ OnlyQuery

(* The query fails, on its own or because it was canceled.  runTarget logs
   that, and nobody tries again; the buffer is not flushed. *)
QueryFails ==
  /\ qpc \in {"query", "rows"} /\ NotFlushing /\ Free("query")
  /\ \/ qpc = "rows" /\ holder = "canceled" /\ UNCHANGED failures
     \/ /\ failures.query < MaxQueryFailures
        /\ failures' = [failures EXCEPT !.query = @ + 1]
  /\ todo' = {}
  /\ Leave
  /\ UNCHANGED <<busVars, serial, pipeVars, closeVars, holder>>
  /\ OnlyQuery

-----------------------------------------------------------------------------
(* Transformations that fail.  doFlush clears the buffer in any case. *)

DiscardBuffer ==
  /\ mode = "transform" /\ failures.transform < MaxTransformFailures
  /\ failures' = [failures EXCEPT !.transform = @ + 1]
  /\ mode' = "direct"
  /\ buffer' = <<>>
  /\ UNCHANGED delivered

(* A TransformationException is passed on as an error signal. *)
TransformationFails ==
  /\ DiscardBuffer
  /\ StartClose(IF qpc = "idle" THEN "connect" ELSE "query")
  /\ UNCHANGED <<dbVars, listenerVars, connectVars, busVars, queryVars, cursorVars,
                 holder, execVars>>

(* Any other exception (the cache's table cannot be read, say) leaves doFlush.
   In a catchup it ends connect, and is passed on by warnAndNotify. *)
FlushFailsInCatchup ==
  /\ pc \in {"rows", "flush", "fail"}
  /\ DiscardBuffer
  /\ StartClose("connect")
  /\ todo' = {}
  /\ holder' = IF pc = "rows" THEN "none" ELSE holder
  /\ pc' = "done"
  /\ UNCHANGED <<dbVars, listenerVars, phase, request, from, atConnect, targetId, ffwd,
                 caughtUp, busVars, queryVars, serial, execVars>>

(* In processRow it is passed on by escalateError, which closes the result set. *)
FlushFailsInRow ==
  /\ qpc = "rows"
  /\ DiscardBuffer
  /\ StartClose("query")
  /\ todo' = {}
  /\ Leave
  /\ UNCHANGED <<busVars, serial, holder>>
  /\ OnlyQuery

(* After the last row it is logged by runTarget. *)
FlushFailsAfterRows ==
  /\ qpc = "flush"
  /\ DiscardBuffer
  /\ Leave
  /\ UNCHANGED <<busVars, cursorVars, closeVars, holder>>
  /\ OnlyQuery

-----------------------------------------------------------------------------
ListenerStep == \/ SetupPostgresListeners \/ InformSubscribersAboutFreshConnection
                \/ ProcessNotification

ConnectStep == \/ Connect \/ ForwardToLatest \/ StopIfDisconnected
               \/ BeginCatchup \/ RunCatchup \/ CatchupRow \/ EndCatchupRows
               \/ EndCatchup \/ CatchupFailed \/ ReadTargetId \/ FastForward
               \/ SignalCatchup \/ Complete \/ CreateExecutor \/ RegisterExecutor
               \/ CatchupPhase3

BusStep == (\E event \in Events : OnEvent(event)) \/ TimerFires

QueryStep == \/ \E thread \in Threads : RunTarget(thread)
             \/ RunQuery \/ QueryRow \/ EndQueryRows \/ EndQuery

FlushStep == Transform \/ PassBuffered

CloseStep == Disconnect \/ Unregister \/ CancelExecutor \/ CloseStatement

Fault == \/ ProcessUnparsableNotification \/ ListenerLosesConnection
         \/ ConnectFails \/ CatchupFails \/ QueryFails
         \/ TransformationFails \/ FlushFailsInCatchup \/ FlushFailsInRow
         \/ FlushFailsAfterRows

(* Nothing is under way, and nobody waits for anything but news. *)
Idle == /\ listener = "up" /\ notes = {} /\ tasks = {} /\ waiting = {}
        /\ runner = Nobody /\ (scheduled => cancelled)
        /\ pc = "done" /\ closer \in {"open", "done", "failed"}
        /\ UNCHANGED vars

Next == \/ Publish \/ RefreshTarget \/ Close
        \/ ListenerStep \/ ConnectStep \/ BusStep \/ QueryStep \/ FlushStep
        \/ CloseStep \/ Fault \/ Idle

Spec == Init /\ [][Next]_vars

(* Every thread goes on while it can: PgListener connects again, the pools have
   threads, a monitor and the timer are handed out eventually.  Publications,
   closing by the client and failures need not happen. *)
FairSpec == /\ Spec
            /\ WF_vars(ListenerStep) /\ WF_vars(ConnectStep) /\ WF_vars(BusStep)
            /\ WF_vars(QueryStep) /\ WF_vars(FlushStep) /\ WF_vars(CloseStep)

-----------------------------------------------------------------------------
(* Properties. *)

Sers == 0..MaxSer

(* The state is well-formed: in particular the buffer never exceeds its
   capacity, and never holds anything while the pipeline passes directly. *)
TypeOK ==
  /\ Log!TypeOK /\ target \in Sers
  /\ listener \in {"down", "listening", "up"} /\ notes \subseteq Types
  /\ losses \in 0..MaxListenerFaults
  /\ pc \in {"new", "ephemeral", "catchup", "query", "rows", "flush", "fail",
             "fastForward", "position", "signal", "follow", "register", "trigger",
             "done"}
  /\ phase \in {1, 2} /\ request \in Requests /\ from \in Sers
  /\ atConnect \subseteq log /\ targetId \in Sers /\ ffwd \in Sers
  /\ caughtUp \in BOOLEAN
  /\ tasks \subseteq Events /\ scheduled \in BOOLEAN /\ waiting \subseteq Threads
  /\ runner \in Threads \cup {Nobody} /\ latest \in Sers
  /\ qpc \in {"idle", "query", "rows", "flush"}
  /\ todo \subseteq log /\ serial \in Sers
  /\ failures \in [query : 0..MaxQueryFailures, transform : 0..MaxTransformFailures]
  /\ buffer \in Seq(log) /\ Len(buffer) <= MaxBufferSize
  /\ mode \in {"direct", "buffering", "transform", "flushing"}
  /\ (mode = "direct") <=> (buffer = <<>>)
  /\ delivered \in Seq(Sers)
  /\ closed \in BOOLEAN /\ disconnected \in BOOLEAN
  /\ closer \in {"open", "disconnect", "unregister", "cancel", "statement",
                 "done", "failed"}
  /\ closedBy \in {"client", "connect", "query", Nobody}
  /\ holder \in {"none", "active", "canceled"}
  /\ executor \in BOOLEAN /\ registered \in BOOLEAN /\ cancelled \in BOOLEAN

IsDelivered(n) == \E i \in 1..Len(delivered) : delivered[i] = n

IsBuffered(r) == \E i \in 1..Len(buffer) : buffer[i] = r

(* The facts that the subscription owes to its observer. *)
Owed == {r \in log : r.key \in Wanted /\ r.ser > from}

(* The serial from which the next query continues never passes a fact that is
   owed and was neither delivered nor buffered (PgSynchronizedQuery.run shifts
   it beyond the last row, to a serial that was read before the query), as long
   as no transformation has failed. *)
NothingBehindSerial ==
  ~closed /\ failures.transform = 0 =>
    \A r \in Owed : r.ser <= serial => IsDelivered(r.ser) \/ IsBuffered(r)

(* The subscription delivers exactly the owed facts, each once, in the order of
   the log and without a gap: through both passes of the catchup, the change to
   following, concurrent triggers, reconnects of the listener and queries that
   fail half way (PgFactStream, PgSynchronizedQuery and the buffer implement
   FactFeed).  After a transformation has failed, what it delivers is still in
   the log, wanted, and newer than everything delivered before. *)
Feed == INSTANCE FactFeed WITH broken <- failures.transform > 0

DeliversInOrder == Feed!Spec

(* When the catchup signal is sent, all facts that were in the log when the
   subscription connected have been delivered, whatever failed before
   (PgFactStream.catchupAndFollow, and the exceptions of its two passes). *)
CatchupIsComplete ==
  caughtUp /\ ~request.ephemeral =>
    \A r \in atConnect \cap Owed : IsDelivered(r.ser)

(* What the observer gets is in serial order and has no duplicates, even if
   transformations fail (ServerPipeline: "MUST maintain the order"). *)
DeliveredAscending ==
  \A i, j \in 1..Len(delivered) : i < j => delivered[i] < delivered[j]

(* close() has returned and no thread works for the stream. *)
Stopped == /\ closer \in {"done", "failed"} /\ pc = "done"
           /\ waiting = {} /\ runner = Nobody

(* A closed stream stays stopped: no event that is still under way, no timer
   and no executor that a racing connect has left registered makes it query
   the database again (PgFactStream.close, CondensedQueryExecutor.cancel). *)
StaysStopped == [][Stopped => Stopped']_vars

(* Once connected, every owed fact is delivered in the end unless the
   subscription is closed: no notification is missed for good, neither while
   the executor is being registered nor while PgListener has no connection,
   and no trigger is swallowed by a timer that is already scheduled. *)
EveryFactArrives ==
  \A n \in 1..MaxSer :
    (\E r \in Owed : r.ser = n) /\ pc \notin {"new", "ephemeral"}
      ~> IsDelivered(n) \/ closed

(* No gap: whoever got a fact got all owed facts before it (Follow "gets every
   Fact that matches the specification and has been published after this last
   known Fact"). *)
NoGap ==
  \A r \in Owed, i \in 1..Len(delivered) :
    r.ser < delivered[i] => IsDelivered(r.ser)

=============================================================================
