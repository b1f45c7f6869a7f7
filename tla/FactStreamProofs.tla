-------------------------- MODULE FactStreamProofs --------------------------
(***************************************************************************)
(* Proofs about FactStream, for any log, any batches, requests and faults: *)
(* the types; what the observer gets is in order and without duplicates;   *)
(* the catchup signal comes when the catchup is complete; a closed stream  *)
(* stays stopped; nothing is left out as long as no transformation fails;  *)
(* and the stream implements FactFeed.                                     *)
(***************************************************************************)
EXTENDS FactStream, TLAPS

(* The serials of the log, and the room that is left in the buffer. *)
BoundsInv ==
  /\ Log!Distinct(log) /\ \A r \in log : r.ser \in 1 .. MaxSer
  /\ mode = "buffering" => Len(buffer) < MaxBufferSize

(* Before the executor is registered, the connecting thread is alone. *)
EarlyInv ==
  /\ pc \notin {"trigger", "done"} =>
       /\ tasks = {} /\ ~scheduled /\ waiting = {} /\ runner = Nobody
       /\ ~registered /\ closer # "cancel"
  /\ pc \notin {"trigger", "done", "rows", "flush", "fail"} => mode = "direct"
  /\ pc \notin {"trigger", "done"} /\ ~closed => failures.transform = 0
  /\ pc \in {"new", "ephemeral"} => phase = 1 /\ ~caughtUp /\ delivered = <<>>
  /\ pc = "ephemeral" => request.ephemeral
  /\ runner = Nobody <=> qpc = "idle"
  /\ pc # "rows" /\ qpc # "rows" => todo = {}

(* How far closing is, and what may start a query then. *)
StopInv ==
  /\ closer = "open" <=> ~closed
  /\ closer \in {"open", "disconnect"} <=> ~disconnected
  /\ holder = "canceled" => disconnected
  /\ ~disconnected /\ pc \in {"register", "trigger"} => executor
  /\ ~disconnected /\ (pc = "trigger" \/ tasks # {} \/ scheduled \/ registered) =>
       executor /\ registered
  /\ closer = "unregister" => registered \/ ~scheduled
  /\ closer \in {"statement", "done", "failed"} => (scheduled => cancelled)

(* A serial that is in the log, or 0. *)
IsSerial(n) == n = 0 \/ \E r \in log : r.ser = n

(* Delivered, buffered and selected facts follow each other in the log;    *)
(* the stream's serial stands between the latter two.                      *)
OrderInv ==
  /\ IsSerial(serial) /\ IsSerial(latest) /\ from <= serial
  /\ DeliveredAscending
  /\ \A i \in 1 .. Len(delivered) : from < delivered[i] /\ delivered[i] <= serial
  /\ \A i \in 1 .. Len(buffer) : buffer[i] \in Owed /\ buffer[i].ser <= serial
  /\ \A i, j \in 1 .. Len(buffer) : i < j => buffer[i].ser < buffer[j].ser
  /\ \A i \in 1 .. Len(delivered), j \in 1 .. Len(buffer) : delivered[i] < buffer[j].ser
  /\ \A r \in todo : serial < r.ser

(* Nothing was lost so far. *)
Intact == ~closed /\ failures.transform = 0

(* No owed fact is behind the serial, or missing among the selected ones. *)
CompleteInv ==
  /\ \A q \in Owed : q.ser <= serial => IsDelivered(q.ser) \/ IsBuffered(q)
  /\ \A r \in todo, q \in Owed : serial < q.ser /\ q.ser < r.ser => q \in todo
  /\ qpc \in {"rows", "flush"} =>
       \A q \in Owed : q.ser <= latest => q.ser <= serial \/ q \in todo

(* The facts that a catchup has to get. *)
Due == {q \in atConnect : q.key \in Wanted /\ q.ser > from}

ReachInv ==
  /\ pc = "rows" => \A q \in Due : q.ser <= serial \/ q \in todo
  /\ phase = 2 \/ pc \in {"flush", "fastForward", "position", "signal"} =>
       \A q \in Due : q.ser <= serial

(* The inductive invariant. *)
IndInv == /\ TypeOK /\ BoundsInv /\ EarlyInv /\ StopInv /\ OrderInv /\ CatchupIsComplete
          /\ Intact => CompleteInv
          /\ ~closed /\ ~request.ephemeral => ReachInv

-----------------------------------------------------------------------------
(* Sequences. *)

LEMMA EmptyFacts == ASSUME NEW S, NEW s \in Seq(S) PROVE s = <<>> <=> Len(s) = 0
OBVIOUS

(* The rest of a sequence. *)
LEMMA TailFacts ==
  ASSUME NEW S, NEW s \in Seq(S), s # <<>>
  PROVE  /\ Len(s) \in Nat /\ 1 <= Len(s) /\ 1 \in 1 .. Len(s)
         /\ Head(s) = s[1] /\ Head(s) \in S
         /\ Tail(s) \in Seq(S) /\ Len(Tail(s)) = Len(s) - 1
         /\ Tail(s) = <<>> <=> Len(s) = 1
         /\ \A k \in 1 .. Len(s) - 1 : Tail(s)[k] = s[k + 1] /\ k + 1 \in 1 .. Len(s)
<1>1. /\ Len(s) \in Nat /\ 1 <= Len(s) /\ 1 \in 1 .. Len(s)
      /\ Head(s) = s[1] /\ Head(s) \in S
      /\ Tail(s) \in Seq(S) /\ Len(Tail(s)) = Len(s) - 1
      /\ \A k \in 1 .. Len(s) - 1 : Tail(s)[k] = s[k + 1] /\ k + 1 \in 1 .. Len(s)
  OBVIOUS
<1>2. Tail(s) = <<>> <=> Len(Tail(s)) = 0
  BY <1>1, EmptyFacts
<1>3. Len(s) - 1 = 0 <=> Len(s) = 1
  BY <1>1
<1> QED
  BY <1>1, <1>2, <1>3

(* A sequence with one more element. *)
LEMMA AppendFacts ==
  ASSUME NEW S, NEW s \in Seq(S), NEW e \in S
  PROVE  /\ Len(s) \in Nat
         /\ Append(s, e) \in Seq(S) /\ Len(Append(s, e)) = Len(s) + 1
         /\ Append(s, e)[Len(s) + 1] = e
         /\ \A k \in 1 .. Len(s) : Append(s, e)[k] = s[k]
         /\ \A k \in 1 .. Len(s) + 1 : k \in 1 .. Len(s) \/ k = Len(s) + 1
OBVIOUS

-----------------------------------------------------------------------------
(* Types. *)

USE DEF dbVars, listenerVars, connectVars, busVars, queryVars, cursorVars, pipeVars,
        closeVars, execVars

(* One type per group of variables. *)
DbType == /\ log \subseteq Log!Row /\ Log!Distinct(log) /\ \A r \in log : r.ser \in 1 .. MaxSer
          /\ target \in Sers
ListenerType == /\ listener \in {"down", "listening", "up"} /\ notes \subseteq Types
                /\ losses \in 0 .. MaxListenerFaults
ConnectType ==
  /\ pc \in {"new", "ephemeral", "catchup", "query", "rows", "flush", "fail",
             "fastForward", "position", "signal", "follow", "register", "trigger",
             "done"}
  /\ phase \in {1, 2} /\ request \in Requests /\ from \in Sers
  /\ atConnect \subseteq log /\ targetId \in Sers /\ ffwd \in Sers
  /\ caughtUp \in BOOLEAN
BusType == tasks \subseteq Events /\ scheduled \in BOOLEAN /\ waiting \subseteq Threads
QueryType == /\ runner \in Threads \cup {Nobody} /\ latest \in Sers
             /\ qpc \in {"idle", "query", "rows", "flush"}
CursorType == todo \subseteq log /\ serial \in Sers
FailuresType == failures \in [query : 0..MaxQueryFailures, transform : 0..MaxTransformFailures]
PipeType ==
  /\ buffer \in Seq(log) /\ Len(buffer) <= MaxBufferSize
  /\ mode \in {"direct", "buffering", "transform", "flushing"}
  /\ (mode = "direct") <=> (buffer = <<>>)
  /\ delivered \in Seq(Sers)
  /\ mode = "buffering" => Len(buffer) < MaxBufferSize
CloseType ==
  /\ closed \in BOOLEAN /\ disconnected \in BOOLEAN
  /\ closer \in {"open", "disconnect", "unregister", "cancel", "statement",
                 "done", "failed"}
  /\ closedBy \in {"client", "connect", "query", Nobody}
ExecType == /\ holder \in {"none", "active", "canceled"}
            /\ executor \in BOOLEAN /\ registered \in BOOLEAN /\ cancelled \in BOOLEAN

Typed == /\ DbType /\ ListenerType /\ ConnectType /\ BusType /\ QueryType /\ CursorType
         /\ FailuresType /\ PipeType /\ CloseType /\ ExecType

LEMMA TypedIsTypeOK == Typed <=> TypeOK /\ BoundsInv
BY DEF Typed, DbType, ListenerType, ConnectType, BusType, QueryType, CursorType, FailuresType,
       PipeType, CloseType, ExecType, TypeOK, BoundsInv, Log!TypeOK

(* Whatever a step leaves alone keeps its type. *)
LEMMA TypesAside ==
  ASSUME Typed, UNCHANGED log
  PROVE  /\ UNCHANGED target => DbType'
         /\ UNCHANGED listenerVars => ListenerType'
         /\ UNCHANGED connectVars => ConnectType'
         /\ UNCHANGED busVars => BusType'
         /\ UNCHANGED queryVars => QueryType'
         /\ UNCHANGED cursorVars => CursorType'
         /\ UNCHANGED failures => FailuresType'
         /\ UNCHANGED pipeVars => PipeType'
         /\ UNCHANGED closeVars => CloseType'
         /\ UNCHANGED <<holder, execVars>> => ExecType'
<1>1. UNCHANGED target => DbType'
  BY DEF Typed, DbType
<1>2. UNCHANGED listenerVars => ListenerType'
  BY DEF Typed, ListenerType
<1>3. UNCHANGED connectVars => ConnectType'
  BY DEF Typed, ConnectType
<1>4. UNCHANGED busVars => BusType'
  BY DEF Typed, BusType
<1>5. UNCHANGED queryVars => QueryType'
  BY DEF Typed, QueryType
<1>6. UNCHANGED cursorVars => CursorType'
  BY DEF Typed, CursorType
<1>7. UNCHANGED failures => FailuresType'
  BY DEF Typed, FailuresType
<1>8. UNCHANGED pipeVars => PipeType'
  BY DEF Typed, PipeType
<1>9. UNCHANGED closeVars => CloseType'
  BY DEF Typed, CloseType
<1>10. UNCHANGED <<holder, execVars>> => ExecType'
  BY DEF Typed, ExecType
<1> QED
  BY <1>1, <1>2, <1>3, <1>4, <1>5, <1>6, <1>7, <1>8, <1>9, <1>10

LEMMA ListenerTypes ==
  ASSUME Typed, ListenerStep \/ ProcessUnparsableNotification \/ ListenerLosesConnection
  PROVE  Typed'
<1> USE DEF OnlyListenerAndBus
<1>1. /\ UNCHANGED <<log, target, connectVars, queryVars, cursorVars, failures, pipeVars,
                     closeVars, holder, execVars>>
      /\ UNCHANGED <<scheduled, waiting>>
  BY DEF ListenerStep, SetupPostgresListeners, InformSubscribersAboutFreshConnection,
         ProcessNotification, ProcessUnparsableNotification, ListenerLosesConnection
<1>2. ListenerType'
  BY BoundsAssumption DEF Typed, ListenerType, ListenerStep, SetupPostgresListeners,
         InformSubscribersAboutFreshConnection, ProcessNotification,
         ProcessUnparsableNotification, ListenerLosesConnection
<1>3. tasks' \subseteq Events
  BY DEF Typed, ListenerType, BusType, ListenerStep, SetupPostgresListeners, Post, Events,
         InformSubscribersAboutFreshConnection, ProcessNotification,
         ProcessUnparsableNotification, ListenerLosesConnection
<1>4. BusType'
  BY <1>1, <1>3 DEF Typed, BusType
<1> QED
  BY <1>1, <1>2, <1>4, TypesAside DEF Typed

LEMMA CloseTypes ==
  ASSUME Typed, UNCHANGED log,
         Close \/ Disconnect \/ Unregister \/ CancelExecutor \/ CloseStatement
  PROVE  Typed'
<1> USE DEF OnlyClose
<1>1. /\ UNCHANGED <<log, target, listenerVars, connectVars, tasks, waiting, queryVars,
                     cursorVars, failures, pipeVars>>
      /\ scheduled' \in BOOLEAN
  BY DEF Typed, BusType, Close, Disconnect, Unregister, CancelExecutor, CloseStatement
<1>2. CloseType'
  BY DEF Typed, CloseType, Close, StartClose, Disconnect, Unregister, CancelExecutor, CloseStatement
<1>3. ExecType'
  BY DEF Typed, ExecType, Close, Disconnect, Unregister, CancelExecutor, CloseStatement
<1>4. BusType'
  BY <1>1 DEF Typed, BusType
<1> QED
  BY <1>1, <1>2, <1>3, <1>4, TypesAside DEF Typed

(* Closing by one of the stream's own threads. *)
LEMMA StartCloseType ==
  ASSUME Typed, NEW thread \in {"client", "connect", "query"}, StartClose(thread)
  PROVE  CloseType'
BY DEF Typed, CloseType, StartClose

(* The observer gets another fact. *)
LEMMA NotifyType ==
  ASSUME Typed, NEW r \in log, NotifyElement(r)
  PROVE  delivered' \in Seq(Sers)
<1>1. r.ser \in Sers
  BY BoundsAssumption DEF Typed, DbType, Sers
<1>2. delivered \in Seq(Sers)
  BY DEF Typed, PipeType
<1> QED
  BY <1>1, <1>2 DEF NotifyElement

LEMMA FlushType ==
  ASSUME Typed, UNCHANGED log, Flush
  PROVE  PipeType'
BY DEF Typed, PipeType, Flush

LEMMA DiscardType ==
  ASSUME Typed, UNCHANGED log, DiscardBuffer
  PROVE  PipeType' /\ FailuresType'
<1>1. MaxBufferSize \in Nat /\ MaxTransformFailures \in Nat
  BY BufferAssumption, BoundsAssumption
<1>2. buffer' \in Seq(log') /\ Len(buffer') = 0 /\ mode' = "direct" /\ UNCHANGED delivered
  BY DEF DiscardBuffer
<1>3. FailuresType'
  BY <1>1 DEF Typed, FailuresType, DiscardBuffer
<1> QED
  BY <1>1, <1>2, <1>3 DEF Typed, PipeType, DiscardBuffer

(* A row that is filtered out, delivered or buffered. *)
LEMMA ProcessType ==
  ASSUME Typed, UNCHANGED log, NEW r \in log, NotFlushing, Process(r)
  PROVE  PipeType'
<1>1. CASE UNCHANGED pipeVars
  BY <1>1, TypesAside
<1>2. CASE MayPass(r) /\ NotifyElement(r) /\ UNCHANGED <<buffer, mode>>
  BY <1>2, NotifyType DEF Typed, PipeType
<1>3. CASE /\ ~MayPass(r) /\ buffer' = Append(buffer, r) /\ UNCHANGED delivered
           /\ mode' = IF BufferIsFull(buffer') THEN "transform" ELSE "buffering"
  <2>1. buffer \in Seq(log) /\ Len(buffer) \in Nat /\ delivered \in Seq(Sers)
    BY DEF Typed, PipeType
  <2>2. buffer' \in Seq(log) /\ Len(buffer') = Len(buffer) + 1 /\ buffer' # <<>>
    BY <1>3, <2>1
  <2>3. Len(buffer) < MaxBufferSize
    <3>1. CASE mode = "direct"
      BY <3>1, <2>1, BufferAssumption DEF Typed, PipeType
    <3>2. CASE mode = "buffering"
      BY <3>2 DEF Typed, PipeType
    <3> QED
      BY <3>1, <3>2 DEF NotFlushing
  <2>4. Len(buffer') <= MaxBufferSize /\ (mode' = "buffering" => Len(buffer') < MaxBufferSize)
    BY <1>3, <2>1, <2>2, <2>3, BufferAssumption DEF BufferIsFull
  <2> QED
    BY <1>3, <2>1, <2>2, <2>4 DEF PipeType
<1> QED
  BY <1>1, <1>2, <1>3 DEF Process

LEMMA FlushStepTypes ==
  ASSUME Typed, FlushStep
  PROVE  Typed'
<1>1. UNCHANGED <<log, target, listenerVars, connectVars, busVars, queryVars, cursorVars,
                  failures, closeVars, holder, execVars>>
  BY DEF FlushStep, Transform, PassBuffered
<1>2. PipeType'
  <2>1. CASE Transform
    BY <1>1, <2>1 DEF Typed, PipeType, Transform
  <2>2. CASE PassBuffered
    <3>1. buffer \in Seq(log) /\ buffer # <<>> /\ Len(buffer) <= MaxBufferSize
      BY <2>2 DEF Typed, PipeType, PassBuffered
    <3>2. /\ Head(buffer) \in log /\ Tail(buffer) \in Seq(log) /\ Len(buffer) \in Nat
          /\ Len(Tail(buffer)) = Len(buffer) - 1
          /\ Tail(buffer) = <<>> <=> Len(buffer) = 1
      BY <3>1, TailFacts
    <3>3. delivered' \in Seq(Sers)
      BY <2>2, <3>2, NotifyType DEF PassBuffered
    <3>4. Len(buffer') <= MaxBufferSize
      BY <2>2, <3>1, <3>2, BufferAssumption DEF PassBuffered
    <3> QED
      BY <1>1, <2>2, <3>2, <3>3, <3>4 DEF PipeType, PassBuffered
  <2> QED
    BY <2>1, <2>2 DEF FlushStep
<1> QED
  BY <1>1, <1>2, TypesAside DEF Typed

LEMMA TriggerType ==
  ASSUME Typed, NEW thread \in Threads, Trigger(thread)
  PROVE  scheduled' \in BOOLEAN /\ waiting' \subseteq Threads
BY DEF Typed, BusType, Trigger

LEMMA BusTypes ==
  ASSUME Typed, BusStep
  PROVE  Typed'
<1> USE DEF OnlyQuery
<1>1. UNCHANGED <<log, target, listenerVars, connectVars, queryVars, cursorVars, failures,
                  pipeVars, closeVars, holder, execVars>>
  BY DEF BusStep, OnEvent, TimerFires
<1>2. BusType'
  <2>1. ASSUME NEW event \in Events, OnEvent(event) PROVE BusType'
    <3>1. event \in Threads /\ tasks' \subseteq Events
      BY <2>1 DEF Typed, BusType, Threads, OnEvent
    <3>2. scheduled' \in BOOLEAN /\ waiting' \subseteq Threads
      BY <2>1, <3>1, TriggerType DEF Typed, BusType, OnEvent
    <3> QED
      BY <3>1, <3>2 DEF BusType
  <2>2. CASE TimerFires
    BY <2>2 DEF Typed, BusType, TimerFires, Threads
  <2> QED
    BY <2>1, <2>2 DEF BusStep
<1> QED
  BY <1>1, <1>2, TypesAside DEF Typed

(* Selected rows are rows of the log. *)
LEMMA RowTypes ==
  ASSUME Typed, NEW r \in todo
  PROVE  r \in log /\ r.ser \in Sers /\ r.ser \in Nat
BY BoundsAssumption DEF Typed, CursorType, DbType, Sers

LEMMA QueryTypes ==
  ASSUME Typed, QueryStep
  PROVE  Typed'
<1> USE DEF OnlyQuery
<1>1. UNCHANGED <<log, target, listenerVars, connectVars, tasks, scheduled, failures,
                  closeVars, execVars>>
  BY DEF QueryStep, RunTarget, RunQuery, QueryRow, EndQueryRows, EndQuery
<1>2. BusType'
  BY <1>1 DEF Typed, BusType, QueryStep, RunTarget, RunQuery, QueryRow, EndQueryRows, EndQuery
<1>3. ExecType'
  BY <1>1 DEF Typed, ExecType, QueryStep, RunTarget, RunQuery, QueryRow, EndQueryRows, EndQuery
<1>4. QueryType'
  <2>1. 0 \in Sers
    BY BoundsAssumption DEF Sers
  <2> QED
    BY <2>1 DEF Typed, QueryType, QueryStep, RunTarget, RunQuery, QueryRow, EndQueryRows, EndQuery,
                Leave, Sers
<1>5. CursorType'
  <2>1. ASSUME NEW r \in todo, todo' = todo \ {r}, serial' \in {serial, r.ser}
        PROVE  CursorType'
    BY <1>1, <2>1, RowTypes DEF Typed, CursorType
  <2>2. CASE \E thread \in Threads : RunTarget(thread)
    BY <1>1, <2>2, TypesAside DEF RunTarget
  <2>3. CASE RunQuery
    BY <1>1, <2>3 DEF Typed, CursorType, RunQuery, MatchingAfterSerial
  <2>4. CASE QueryRow
    BY <2>1, <2>4 DEF QueryRow
  <2>5. CASE EndQueryRows
    BY <1>1, <2>5, TypesAside DEF EndQueryRows
  <2>6. CASE EndQuery
    BY <1>1, <2>6 DEF Typed, CursorType, QueryType, EndQuery
  <2> QED
    BY <2>2, <2>3, <2>4, <2>5, <2>6 DEF QueryStep
<1>6. PipeType'
  <2>1. CASE UNCHANGED pipeVars
    BY <1>1, <2>1, TypesAside
  <2>2. CASE QueryRow
    <3>1. PICK r \in todo : UNCHANGED pipeVars \/ Process(r)
      BY <2>2 DEF QueryRow
    <3> QED
      BY <1>1, <2>1, <2>2, <3>1, RowTypes, ProcessType DEF QueryRow
  <2>3. CASE EndQueryRows
    BY <1>1, <2>3, FlushType DEF EndQueryRows
  <2> QED
    BY <2>1, <2>2, <2>3 DEF QueryStep, RunTarget, RunQuery, EndQuery
<1> QED
  BY <1>1, <1>2, <1>3, <1>4, <1>5, <1>6, TypesAside DEF Typed

LEMMA ConnectTypes ==
  ASSUME Typed, ConnectStep
  PROVE  Typed'
<1> USE DEF OnlyConnect
<1>1. UNCHANGED <<log, target, listenerVars, tasks, queryVars, failures, cancelled, request>>
  BY DEF ConnectStep, Connect, ForwardToLatest, StopIfDisconnected, BeginCatchup, RunCatchup,
         CatchupRow, EndCatchupRows, EndCatchup, CatchupFailed, ReadTargetId, FastForward,
         SignalCatchup, Complete, CreateExecutor, RegisterExecutor, CatchupPhase3
<1>2. BusType'
  <2>1. CASE UNCHANGED busVars
    BY <1>1, <2>1, TypesAside
  <2>2. CASE CatchupPhase3
    BY <1>1, <2>2, TriggerType DEF BusType, Typed, CatchupPhase3, Threads
  <2> QED
    BY <2>1, <2>2
       DEF ConnectStep, Connect, ForwardToLatest, StopIfDisconnected, BeginCatchup, RunCatchup,
         CatchupRow, EndCatchupRows, EndCatchup, CatchupFailed, ReadTargetId, FastForward,
         SignalCatchup, Complete, CreateExecutor, RegisterExecutor
<1>3. ExecType'
  BY <1>1 DEF Typed, ExecType, ConnectStep, Connect, ForwardToLatest, StopIfDisconnected,
         BeginCatchup, RunCatchup, CatchupRow, EndCatchupRows, EndCatchup, CatchupFailed,
         ReadTargetId, FastForward, SignalCatchup, Complete, CreateExecutor, RegisterExecutor,
         CatchupPhase3
<1>4. CloseType'
  <2>1. CASE UNCHANGED closeVars
    BY <1>1, <2>1, TypesAside
  <2>2. CASE StartClose("connect")
    BY <2>2, StartCloseType
  <2> QED
    BY <2>1, <2>2
       DEF ConnectStep, Connect, ForwardToLatest, StopIfDisconnected, BeginCatchup, RunCatchup,
         CatchupRow, EndCatchupRows, EndCatchup, CatchupFailed, ReadTargetId, FastForward,
         SignalCatchup, Complete, CreateExecutor, RegisterExecutor, CatchupPhase3
<1>5. CursorType'
  <2>1. ASSUME NEW r \in todo, todo' = todo \ {r}, serial' \in {serial, r.ser}
        PROVE  CursorType'
    BY <1>1, <2>1, RowTypes DEF Typed, CursorType
  <2>2. CASE UNCHANGED cursorVars
    BY <1>1, <2>2, TypesAside
  <2>3. CASE Connect
    <3>1. todo' = todo /\ serial' \in {0} \cup {r.ser : r \in log}
      BY <2>3 DEF Connect
    <3>2. serial' \in Sers
      BY <3>1, BoundsAssumption DEF Typed, DbType, Sers
    <3> QED
      BY <1>1, <3>1, <3>2 DEF Typed, CursorType
  <2>4. CASE ForwardToLatest
    BY <1>1, <2>4 DEF Typed, CursorType, ForwardToLatest, Sers
  <2>5. CASE RunCatchup
    BY <1>1, <2>5 DEF Typed, CursorType, RunCatchup, MatchingAfterSerial
  <2>6. CASE CatchupRow
    BY <2>1, <2>6 DEF CatchupRow
  <2> QED
    BY <2>2, <2>3, <2>4, <2>5, <2>6
       DEF ConnectStep, StopIfDisconnected, BeginCatchup, EndCatchupRows, EndCatchup,
         CatchupFailed, ReadTargetId, FastForward, SignalCatchup, Complete, CreateExecutor,
         RegisterExecutor, CatchupPhase3
<1>6. PipeType'
  <2>1. CASE UNCHANGED pipeVars
    BY <1>1, <2>1, TypesAside
  <2>2. CASE CatchupRow
    <3>1. PICK r \in todo : UNCHANGED pipeVars \/ Process(r)
      BY <2>2 DEF CatchupRow
    <3> QED
      BY <1>1, <2>1, <2>2, <3>1, RowTypes, ProcessType DEF CatchupRow
  <2>3. CASE EndCatchupRows
    BY <1>1, <2>3, FlushType DEF EndCatchupRows
  <2> QED
    BY <2>1, <2>2, <2>3
       DEF ConnectStep, Connect, ForwardToLatest, StopIfDisconnected, BeginCatchup, RunCatchup,
         EndCatchup, CatchupFailed, ReadTargetId, FastForward, SignalCatchup, Complete,
         CreateExecutor, RegisterExecutor, CatchupPhase3
<1>7. ConnectType'
  <2>1. CASE Connect
    <3>1. from' \in Sers
      BY <2>1, BoundsAssumption DEF Typed, DbType, Sers, Connect
    <3> QED
      BY <1>1, <2>1, <3>1 DEF Typed, ConnectType, Connect
  <2>2. CASE ForwardToLatest
    BY <1>1, <2>2 DEF Typed, ConnectType, ForwardToLatest, Sers
  <2>3. CASE ReadTargetId \/ FastForward
    <3>1. 0 \in Sers
      BY BoundsAssumption DEF Sers
    <3> QED
      BY <1>1, <2>3, <3>1 DEF Typed, ConnectType, DbType, ReadTargetId, FastForward
  <2>4. CASE SignalCatchup
    BY <1>1, <2>4 DEF Typed, ConnectType, CloseType, SignalCatchup
  <2>5. CASE ~(Connect \/ ForwardToLatest \/ ReadTargetId \/ FastForward \/ SignalCatchup)
    BY <1>1, <2>5
       DEF Typed, ConnectType, ConnectStep, StopIfDisconnected, BeginCatchup, RunCatchup,
         CatchupRow, EndCatchupRows, EndCatchup, CatchupFailed, Complete, CreateExecutor,
         RegisterExecutor, CatchupPhase3
  <2> QED
    BY <2>1, <2>2, <2>3, <2>4, <2>5
<1> QED
  BY <1>1, <1>2, <1>3, <1>4, <1>5, <1>6, <1>7, TypesAside DEF Typed

LEMMA FaultTypes ==
  ASSUME Typed, Fault
  PROVE  Typed'
<1> USE DEF OnlyConnect, OnlyQuery
<1>1. CASE ProcessUnparsableNotification \/ ListenerLosesConnection
  BY <1>1, ListenerTypes
<1>2. CASE ~(ProcessUnparsableNotification \/ ListenerLosesConnection)
  <2> DEFINE step == \/ ConnectFails \/ CatchupFails \/ QueryFails \/ TransformationFails
                     \/ FlushFailsInCatchup \/ FlushFailsInRow \/ FlushFailsAfterRows
  <2>1. step
    BY <1>2 DEF Fault
  <2> USE DEF ConnectFails, CatchupFails, QueryFails, TransformationFails, FlushFailsInCatchup,
              FlushFailsInRow, FlushFailsAfterRows
  <2>2. UNCHANGED <<log, target, listenerVars, busVars, serial, execVars>>
    BY <2>1
  <2>3. ExecType'
    BY <2>1, <2>2 DEF Typed, ExecType
  <2>4. CursorType'
    BY <2>1, <2>2 DEF Typed, CursorType
  <2>5. QueryType'
    <3>1. 0 \in Sers
      BY BoundsAssumption DEF Sers
    <3> QED
      BY <2>1, <2>2, <3>1 DEF Typed, QueryType, Leave
  <2>6. ConnectType'
    BY <2>1, <2>2 DEF Typed, ConnectType
  <2>7. CloseType'
    <3>1. CASE UNCHANGED closeVars
      BY <2>2, <3>1, TypesAside
    <3>2. CASE \E thread \in {"connect", "query"} : StartClose(thread)
      BY <3>2, StartCloseType
    <3> QED
      BY <2>1, <3>1, <3>2
  <2>8. PipeType'
    <3>1. CASE UNCHANGED pipeVars
      BY <2>2, <3>1, TypesAside
    <3>2. CASE Flush
      BY <2>2, <3>2, FlushType
    <3>3. CASE DiscardBuffer
      BY <2>2, <3>3, DiscardType
    <3> QED
      BY <2>1, <3>1, <3>2, <3>3
  <2>9. FailuresType'
    <3>1. CASE UNCHANGED failures
      BY <2>2, <3>1, TypesAside
    <3>2. CASE DiscardBuffer
      BY <2>2, <3>2, DiscardType
    <3>3. CASE /\ failures.query < MaxQueryFailures
               /\ failures' = [failures EXCEPT !.query = @ + 1]
      BY <3>3, BoundsAssumption DEF Typed, FailuresType
    <3> QED
      BY <2>1, <3>1, <3>2, <3>3
  <2> HIDE DEF ConnectFails, CatchupFails, QueryFails, TransformationFails, FlushFailsInCatchup,
               FlushFailsInRow, FlushFailsAfterRows
  <2> QED
    BY <2>2, <2>3, <2>4, <2>5, <2>6, <2>7, <2>8, <2>9, TypesAside DEF Typed
<1> QED
  BY <1>1, <1>2

(* What a publication adds to the log is newer than what was there. *)
LEMMA PublishFacts ==
  ASSUME Typed, Publish
  PROVE  /\ log \subseteq log' /\ log' \subseteq Log!Row /\ Log!Distinct(log')
         /\ \A r \in log' : r.ser \in 1 .. MaxSer
         /\ \A r \in log' \ log, q \in log : q.ser < r.ser
         /\ Log!Next
<1>1. PICK keys \in Batches, gap \in 0..MaxGap, last \in 0..MaxSer :
        /\ last + gap + Len(keys) <= MaxSer
        /\ Log!Append({[ser |-> last + gap + i, id |-> last + gap + i, key |-> keys[i]] :
                         i \in 1..Len(keys)})
  BY DEF Publish
<1> DEFINE rows == {[ser |-> last + gap + i, id |-> last + gap + i, key |-> keys[i]] :
                      i \in 1..Len(keys)}
<1>2. keys \in Seq(Keys) /\ Len(keys) \in Nat
  BY BatchesAssumption
<1>3. \A r \in rows : r.ser \in 1 .. MaxSer
  BY <1>1, <1>2, BoundsAssumption
<1> HIDE DEF rows
<1>4. /\ rows \subseteq Log!Row /\ log' = log \cup rows
      /\ \A r \in rows, q \in log : q.ser < r.ser
      /\ Log!Distinct(log \cup rows)
  BY <1>1 DEF rows, Log!Append, Log!Newer
<1>5. log' \ log \subseteq rows /\ log \cup (log' \ log) = log'
  BY <1>4
<1>6. Log!Next
  BY <1>4, <1>5 DEF Log!Next, Log!Append, Log!Newer
<1> QED
  BY <1>3, <1>4, <1>5, <1>6 DEF Typed, DbType

LEMMA PublishTypes ==
  ASSUME Typed, Publish
  PROVE  Typed'
<1>1. UNCHANGED <<target, listener, losses, connectVars, busVars, queryVars,
                  cursorVars, failures, pipeVars, closeVars, holder, execVars>>
  BY DEF Publish
<1>2. log \subseteq log' /\ log' \subseteq Log!Row /\ Log!Distinct(log') /\ \A r \in log' : r.ser \in 1 .. MaxSer
  BY PublishFacts
<1>3. DbType'
  BY <1>1, <1>2 DEF Typed, DbType
<1>4. ListenerType'
  <2>1. PICK keys \in Batches :
          notes' \subseteq notes \cup {TypeOf[keys[i]] : i \in 1..Len(keys)}
    BY DEF Publish
  <2>2. \A i \in 1 .. Len(keys) : TypeOf[keys[i]] \in Types
    BY BatchesAssumption, KeysAssumption
  <2> QED
    BY <1>1, <2>1, <2>2 DEF Typed, ListenerType
<1>5. ConnectType'
  BY <1>1, <1>2 DEF Typed, ConnectType
<1>6. BusType' /\ QueryType' /\ FailuresType'
  BY <1>1 DEF Typed, BusType, QueryType, FailuresType
<1>7. CursorType'
  BY <1>1, <1>2 DEF Typed, CursorType
<1>8. PipeType'
  BY <1>1, <1>2 DEF Typed, PipeType
<1>9. CloseType' /\ ExecType'
  BY <1>1 DEF Typed, CloseType, ExecType
<1> QED
  BY <1>3, <1>4, <1>5, <1>6, <1>7, <1>8, <1>9 DEF Typed

LEMMA TypesStep ==
  ASSUME Typed, [Next]_vars
  PROVE  Typed'
<1>1. CASE UNCHANGED vars
  BY <1>1, TypesAside DEF vars, Typed
<1>2. CASE RefreshTarget
  <2>1. UNCHANGED <<log, listenerVars, connectVars, busVars, queryVars, cursorVars,
                    failures, pipeVars, closeVars, holder, execVars>>
    BY <1>2 DEF RefreshTarget
  <2>2. target' \in Sers
    BY <1>2, BoundsAssumption DEF RefreshTarget, Sers
  <2>3. DbType'
    BY <2>1, <2>2 DEF Typed, DbType
  <2> QED
    BY <2>1, <2>3, TypesAside DEF Typed
<1>3. CASE Close \/ CloseStep
  BY <1>3, CloseTypes
     DEF Close, CloseStep, Disconnect, Unregister, CancelExecutor, CloseStatement, OnlyClose
<1> QED
  BY <1>1, <1>2, <1>3, PublishTypes, ListenerTypes, ConnectTypes, BusTypes, QueryTypes,
     FlushStepTypes, FaultTypes DEF Next, Idle

LEMMA TypesInitially == Init => Typed
<1> SUFFICES ASSUME Init PROVE Typed
  OBVIOUS
<1>1. 0 \in Sers /\ MaxBufferSize \in Nat
  BY BoundsAssumption, BufferAssumption DEF Sers
<1>2. DbType
  BY <1>1 DEF Init, Log!Init, Log!Distinct, DbType
<1>3. ListenerType /\ ConnectType
  <2>1. ListenerType
    BY BoundsAssumption DEF Init, ListenerType
  <2>2. atConnect \subseteq log /\ request \in Requests
    BY DEF Init, Log!Init
  <2> QED
    BY <1>1, <2>1, <2>2 DEF Init, ConnectType
<1>4. BusType /\ QueryType /\ CursorType
  BY <1>1 DEF Init, BusType, QueryType, CursorType
<1>5. FailuresType
  BY BoundsAssumption DEF Init, FailuresType
<1>6. PipeType
  BY <1>1 DEF Init, PipeType
<1>7. CloseType /\ ExecType
  BY DEF Init, CloseType, ExecType
<1> QED
  BY <1>2, <1>3, <1>4, <1>5, <1>6, <1>7 DEF Typed

-----------------------------------------------------------------------------
(* The threads and closing. *)

Control == EarlyInv /\ StopInv

LEMMA ControlInitially == Init => Control
<1> SUFFICES ASSUME Init PROVE Control
  OBVIOUS
<1>1. EarlyInv
  BY DEF Init, EarlyInv
<1>2. StopInv
  BY DEF Init, StopInv
<1> QED
  BY <1>1, <1>2 DEF Control

(* A step that leaves all threads and closing alone. *)
LEMMA ControlAside ==
  ASSUME Control, UNCHANGED <<connectVars, busVars, queryVars, todo, failures, mode, delivered,
                              closeVars, holder, execVars>>
  PROVE  Control'
<1>1. EarlyInv'
  BY DEF Control, EarlyInv
<1>2. StopInv'
  BY DEF Control, StopInv
<1> QED
  BY <1>1, <1>2 DEF Control

LEMMA ControlOfListener ==
  ASSUME Typed, Control, ListenerStep \/ ProcessUnparsableNotification \/ ListenerLosesConnection
  PROVE  Control'
<1>1. /\ UNCHANGED <<connectVars, scheduled, waiting, queryVars, todo, failures, mode, delivered,
                     closeVars, holder, execVars>>
      /\ tasks' = tasks \/ registered
  BY DEF ListenerStep, SetupPostgresListeners, InformSubscribersAboutFreshConnection,
         ProcessNotification, ProcessUnparsableNotification, ListenerLosesConnection,
         OnlyListenerAndBus, Post
<1>2. EarlyInv'
  BY <1>1 DEF Control, EarlyInv
<1>3. StopInv'
  BY <1>1 DEF Control, StopInv
<1> QED
  BY <1>2, <1>3 DEF Control

LEMMA ControlOfClose ==
  ASSUME Typed, Control, Close \/ CloseStep
  PROVE  Control'
<1> USE DEF OnlyClose
<1> USE DEF Close, CloseStep, Disconnect, Unregister, CancelExecutor, CloseStatement, StartClose
<1>1. UNCHANGED <<connectVars, tasks, waiting, queryVars, todo, failures, mode, delivered>>
  OBVIOUS
<1>2. EarlyInv'
  BY <1>1 DEF Control, EarlyInv, StopInv
<1>3. StopInv'
  BY <1>1 DEF Control, StopInv, Typed, CloseType
<1> QED
  BY <1>2, <1>3 DEF Control

LEMMA ControlOfBus ==
  ASSUME Typed, Control, BusStep
  PROVE  Control'
<1> USE DEF OnlyQuery
<1>1. UNCHANGED <<connectVars, queryVars, todo, failures, mode, delivered, closeVars, holder,
                  execVars>>
  BY DEF BusStep, OnEvent, TimerFires
<1>2. tasks' \subseteq tasks /\ (tasks # {} \/ scheduled)
  BY DEF BusStep, OnEvent, TimerFires
<1>3. scheduled' => scheduled \/ (~disconnected /\ tasks # {})
  BY DEF BusStep, OnEvent, TimerFires, Trigger
<1>4. EarlyInv'
  BY <1>1, <1>2 DEF Control, EarlyInv
<1>5. StopInv'
  BY <1>1, <1>2, <1>3 DEF Control, StopInv
<1> QED
  BY <1>4, <1>5 DEF Control

LEMMA ControlOfQuery ==
  ASSUME Typed, Control, QueryStep
  PROVE  Control'
<1> USE DEF OnlyQuery
<1>1. UNCHANGED <<connectVars, tasks, scheduled, failures, closeVars, execVars>>
  BY DEF QueryStep, RunTarget, RunQuery, QueryRow, EndQueryRows, EndQuery
<1>2. waiting' \subseteq waiting /\ (waiting # {} \/ qpc # "idle")
  BY DEF QueryStep, RunTarget, RunQuery, QueryRow, EndQueryRows, EndQuery
<1>3. runner' = Nobody <=> qpc' = "idle"
  BY NamesAssumption DEF Control, EarlyInv, QueryStep, RunTarget, RunQuery, QueryRow, EndQueryRows,
     EndQuery, Leave
<1>4. pc \in {"trigger", "done"}
  BY <1>2 DEF Control, EarlyInv
<1>5. pc' # "rows" /\ qpc' # "rows" => todo' = {}
  BY <1>1, <1>4 DEF Control, EarlyInv, QueryStep, RunTarget, RunQuery, QueryRow, EndQueryRows,
     EndQuery, Leave
<1>6. EarlyInv'
  BY <1>1, <1>3, <1>4, <1>5 DEF EarlyInv
<1>7. holder' = "canceled" => holder = "canceled"
  BY DEF QueryStep, RunTarget, RunQuery, QueryRow, EndQueryRows, EndQuery
<1>8. StopInv'
  BY <1>1, <1>7 DEF Control, StopInv
<1> QED
  BY <1>6, <1>8 DEF Control

LEMMA ControlOfFlush ==
  ASSUME Typed, Control, FlushStep
  PROVE  Control'
<1>1. UNCHANGED <<connectVars, busVars, queryVars, todo, failures, closeVars, holder, execVars>>
  BY DEF FlushStep, Transform, PassBuffered
<1>2. mode # "direct"
  BY DEF FlushStep, Transform, PassBuffered
<1>3. EarlyInv'
  BY <1>1, <1>2 DEF Control, EarlyInv
<1>4. StopInv'
  BY <1>1 DEF Control, StopInv
<1> QED
  BY <1>3, <1>4 DEF Control

LEMMA ControlOfConnect ==
  ASSUME Typed, Control, ConnectStep
  PROVE  Control'
<1> USE DEF OnlyConnect
<1> USE DEF ConnectStep, Connect, ForwardToLatest, StopIfDisconnected, BeginCatchup, RunCatchup,
         CatchupRow, EndCatchupRows, EndCatchup, CatchupFailed, ReadTargetId, FastForward,
         SignalCatchup, Complete, CreateExecutor, RegisterExecutor, CatchupPhase3, StartClose
<1>1. UNCHANGED <<tasks, queryVars, failures, cancelled, request>>
  OBVIOUS
<1>2. CASE pc' = pc
  <2>1. pc = "rows" /\ UNCHANGED <<connectVars, busVars, closeVars, holder, execVars>>
    BY <1>2
  <2>2. EarlyInv'
    BY <1>1, <2>1 DEF Control, EarlyInv
  <2>3. StopInv'
    BY <1>1, <2>1 DEF Control, StopInv
  <2> QED
    BY <2>2, <2>3 DEF Control
<1>3. CASE pc' # pc
  <2>1. EarlyInv'
    BY <1>1, <1>3, SMTT(60) DEF Control, EarlyInv, StopInv
  <2>2. StopInv'
    BY <1>1, <1>3, SMTT(60) DEF Control, EarlyInv, StopInv, Trigger
  <2> QED
    BY <2>1, <2>2 DEF Control
<1> QED
  BY <1>2, <1>3

LEMMA ControlOfFaults ==
  ASSUME Typed, Control, Fault
  PROVE  Control'
<1> USE DEF OnlyConnect, OnlyQuery
<1>1. CASE ProcessUnparsableNotification \/ ListenerLosesConnection
  BY <1>1, ControlOfListener
<1>2. CASE ~(ProcessUnparsableNotification \/ ListenerLosesConnection)
  <2> DEFINE step == \/ ConnectFails \/ CatchupFails \/ QueryFails \/ TransformationFails
                     \/ FlushFailsInCatchup \/ FlushFailsInRow \/ FlushFailsAfterRows
  <2>1. step
    BY <1>2 DEF Fault
  <2> USE DEF ConnectFails, CatchupFails, QueryFails, TransformationFails, FlushFailsInCatchup,
              FlushFailsInRow, FlushFailsAfterRows, StartClose
  <2>2. UNCHANGED <<phase, request, caughtUp, busVars, disconnected, delivered, execVars>>
    BY <2>1 DEF DiscardBuffer, Flush
  <2>3. /\ failures' = [failures EXCEPT !.query = @ + 1] \/ UNCHANGED failures
           => failures'.transform = failures.transform
    BY DEF Typed, FailuresType
  <2>4. \/ failures'.transform = failures.transform
        \/ closed' \/ pc \in {"trigger", "done"}
    BY <2>1, <2>3 DEF Control, EarlyInv, Typed, CloseType
  <2>5. EarlyInv'
    <3>1. /\ pc' \notin {"trigger", "done"} =>
               /\ tasks' = {} /\ ~scheduled' /\ waiting' = {} /\ runner' = Nobody
               /\ ~registered' /\ closer' # "cancel"
          /\ runner' = Nobody <=> qpc' = "idle"
          /\ pc' # "rows" /\ qpc' # "rows" => todo' = {}
      BY <2>1, <2>2 DEF Control, EarlyInv, StopInv, Leave, DiscardBuffer
    <3>2. pc' \notin {"trigger", "done", "rows", "flush", "fail"} => mode' = "direct"
      BY <2>1, <2>2 DEF Control, EarlyInv, DiscardBuffer, Flush
    <3>3. pc' \notin {"trigger", "done"} /\ ~closed' => failures'.transform = 0
      BY <2>1, <2>2, <2>4 DEF Control, EarlyInv, Typed, CloseType
    <3>4. /\ pc' \in {"new", "ephemeral"} => phase' = 1 /\ ~caughtUp' /\ delivered' = <<>>
          /\ pc' = "ephemeral" => request'.ephemeral
      BY <2>1, <2>2 DEF Control, EarlyInv
    <3> QED
      BY <3>1, <3>2, <3>3, <3>4 DEF EarlyInv
  <2>6. StopInv'
    BY <2>1, <2>2, SMTT(60) DEF Control, EarlyInv, StopInv
  <2> QED
    BY <2>5, <2>6 DEF Control
<1> QED
  BY <1>1, <1>2

LEMMA ControlStep ==
  ASSUME Typed, Control, [Next]_vars
  PROVE  Control'
<1>1. CASE UNCHANGED vars \/ Idle
  BY <1>1, ControlAside DEF vars, Idle
<1>2. CASE RefreshTarget
  BY <1>2, ControlAside DEF RefreshTarget
<1>3. CASE Publish
  BY <1>3, ControlAside DEF Publish
<1> QED
  BY <1>1, <1>2, <1>3, ControlOfListener, ControlOfClose, ControlOfBus, ControlOfQuery,
     ControlOfFlush, ControlOfConnect, ControlOfFaults DEF Next

-----------------------------------------------------------------------------
(* The order of the facts. *)

(* Serials are numbers, and rows can be told apart by them. *)
LEMMA DataFacts ==
  ASSUME Typed
  PROVE  /\ serial \in Nat /\ from \in Nat /\ latest \in Nat /\ MaxSer \in Nat
         /\ delivered \in Seq(Nat) /\ Len(delivered) \in Nat
         /\ \A i \in 1 .. Len(delivered) : delivered[i] \in Nat
         /\ buffer \in Seq(log) /\ Len(buffer) \in Nat
         /\ \A i \in 1 .. Len(buffer) : buffer[i] \in log /\ buffer[i].ser \in Nat
         /\ \A r \in log : r.ser \in Nat /\ 0 < r.ser /\ r.ser <= MaxSer
         /\ \A r, q \in log : r.ser = q.ser => r = q
         /\ todo \subseteq log /\ atConnect \subseteq log
<1>1. MaxSer \in Nat /\ Sers \subseteq Nat
  BY BoundsAssumption DEF Sers
<1>2. delivered \in Seq(Nat) /\ Len(delivered) \in Nat
  <2>1. delivered \in Seq(Sers)
    BY DEF Typed, PipeType
  <2>2. Len(delivered) \in Nat /\ \A i \in 1 .. Len(delivered) : delivered[i] \in Nat
    <3>1. Len(delivered) \in Nat /\ \A i \in 1 .. Len(delivered) : delivered[i] \in Sers
      BY <2>1
    <3> QED
      BY <1>1, <3>1
  <2>3. delivered = [i \in 1 .. Len(delivered) |-> delivered[i]]
    BY <2>1
  <2> QED
    BY <2>2, <2>3
<1>3. \A i \in 1 .. Len(delivered) : delivered[i] \in Nat
  BY <1>2
<1>4. buffer \in Seq(log) /\ Len(buffer) \in Nat
  BY DEF Typed, PipeType
<1>5. \A i \in 1 .. Len(buffer) : buffer[i] \in log
  BY <1>4
<1>6. \A r \in log : r.ser \in Nat /\ 0 < r.ser /\ r.ser <= MaxSer
  BY <1>1 DEF Typed, DbType
<1>7. \A r, q \in log : r.ser = q.ser => r = q
  BY DEF Typed, DbType, Log!Distinct
<1> QED
  BY <1>1, <1>2, <1>3, <1>4, <1>5, <1>6, <1>7 DEF Typed, ConnectType, QueryType, CursorType

LEMMA OrderInitially == Init => OrderInv
<1> SUFFICES ASSUME Init PROVE OrderInv
  OBVIOUS
<1>1. /\ serial = 0 /\ latest = 0 /\ from = 0 /\ todo = {}
      /\ delivered = <<>> /\ buffer = <<>> /\ Len(delivered) = 0 /\ Len(buffer) = 0
  BY DEF Init
<1>2. \A i \in 1 .. 0 : FALSE
  OBVIOUS
<1> QED
  BY <1>1, <1>2 DEF OrderInv, IsSerial, DeliveredAscending

(* Rows beyond the serial are selected, others are dropped. *)
LEMMA OrderAside ==
  ASSUME OrderInv, UNCHANGED <<log, from, serial, buffer, delivered>>, IsSerial(latest)',
         \A r \in todo' : serial < r.ser
  PROVE  OrderInv'
BY DEF OrderInv, IsSerial, DeliveredAscending, Owed

(* The latest serial does not move, or is forgotten. *)
LEMMA LatestAside ==
  ASSUME OrderInv, UNCHANGED log, latest' = latest \/ latest' = 0
  PROVE  IsSerial(latest)'
BY DEF OrderInv, IsSerial

(* The buffer is cleared. *)
LEMMA OrderOfDiscard ==
  ASSUME OrderInv, UNCHANGED <<log, from, serial, delivered>>, buffer' = <<>>,
         latest' = latest \/ latest' = 0, todo' \subseteq todo
  PROVE  OrderInv'
<1>1. \A i \in 1 .. Len(buffer') : FALSE
  <2>1. Len(buffer') = 0 /\ \A i \in 1 .. 0 : FALSE
    OBVIOUS
  <2> QED
    BY <2>1
<1>2. IsSerial(latest)'
  BY LatestAside
<1> QED
  BY <1>1, <1>2 DEF OrderInv, IsSerial, DeliveredAscending

(* The serial moves on, while nothing is selected. *)
LEMMA OrderOfShift ==
  ASSUME Typed, Typed', OrderInv, UNCHANGED <<log, from, buffer, delivered>>, todo' = {},
         serial' \in {serial, latest}, serial <= serial', latest' = latest \/ latest' = 0
  PROVE  OrderInv'
<1>1. serial \in Nat /\ serial' \in Nat /\ from \in Nat
  BY DataFacts DEF Typed, CursorType, Sers
<1>2. IsSerial(latest)' /\ IsSerial(serial)' /\ from' <= serial'
  BY <1>1, LatestAside DEF OrderInv, IsSerial
<1>3. \A i \in 1 .. Len(delivered) : delivered[i] <= serial'
  BY <1>1, DataFacts DEF OrderInv
<1>4. \A i \in 1 .. Len(buffer) : buffer[i].ser <= serial'
  BY <1>1, DataFacts DEF OrderInv
<1> QED
  BY <1>2, <1>3, <1>4 DEF OrderInv, DeliveredAscending, Owed

(* The stream starts anew, before anything is selected. *)
LEMMA OrderOfStart ==
  ASSUME Typed', delivered' = <<>>, buffer' = <<>>, todo' = {}, IsSerial(latest)',
         IsSerial(serial)', from' = serial'
  PROVE  OrderInv'
<1>1. (\A i \in 1 .. Len(buffer') : FALSE) /\ (\A i \in 1 .. Len(delivered') : FALSE)
  <2>1. Len(buffer') = 0 /\ Len(delivered') = 0 /\ \A i \in 1 .. 0 : FALSE
    OBVIOUS
  <2> QED
    BY <2>1
<1>2. from' <= serial'
  BY BoundsAssumption DEF Typed, CursorType, Sers
<1> QED
  BY <1>1, <1>2 DEF OrderInv, DeliveredAscending

(* The log grows. *)
LEMMA OrderOfPublish ==
  ASSUME Typed, OrderInv, Publish
  PROVE  OrderInv'
<1>1. log \subseteq log' /\ UNCHANGED <<from, serial, latest, todo, buffer, delivered>>
  BY PublishFacts DEF Publish
<1>2. Owed \subseteq Owed'
  BY <1>1 DEF Owed
<1>3. IsSerial(serial)' /\ IsSerial(latest)'
  BY <1>1 DEF OrderInv, IsSerial
<1> QED
  BY <1>1, <1>2, <1>3 DEF OrderInv, DeliveredAscending

(* A fact goes to the observer unless the subscription is closed: it comes *)
(* after everything that was delivered.                                    *)
LEMMA OrderOfNotify ==
  ASSUME Typed, OrderInv, NEW r \in log, NotifyElement(r),
         \A i \in 1 .. Len(delivered) : delivered[i] < r.ser
  PROVE  /\ \A i, j \in 1 .. Len(delivered') : i < j => delivered'[i] < delivered'[j]
         /\ \A i \in 1 .. Len(delivered') :
              delivered'[i] = r.ser \/ \E k \in 1 .. Len(delivered) : delivered'[i] = delivered[k]
<1>1. CASE closed
  BY <1>1 DEF NotifyElement, OrderInv, DeliveredAscending
<1>2. CASE ~closed
  <2>1. delivered' = Append(delivered, r.ser) /\ delivered \in Seq(Nat) /\ r.ser \in Nat
    BY <1>2, DataFacts DEF NotifyElement
  <2>2. /\ Len(delivered) \in Nat /\ Len(delivered') = Len(delivered) + 1
        /\ delivered'[Len(delivered) + 1] = r.ser
        /\ \A k \in 1 .. Len(delivered) : delivered'[k] = delivered[k]
        /\ \A k \in 1 .. Len(delivered) + 1 : k \in 1 .. Len(delivered) \/ k = Len(delivered) + 1
    BY <2>1, AppendFacts
  <2>3. ASSUME NEW i \in 1 .. Len(delivered'), NEW j \in 1 .. Len(delivered'), i < j
        PROVE  delivered'[i] < delivered'[j]
    <3>1. i \in 1 .. Len(delivered)
      BY <2>2, <2>3
    <3>2. CASE j \in 1 .. Len(delivered)
      BY <2>2, <2>3, <3>1, <3>2 DEF OrderInv, DeliveredAscending
    <3>3. CASE j = Len(delivered) + 1
      BY <2>2, <3>1, <3>3
    <3> QED
      BY <2>2, <3>2, <3>3
  <2> QED
    BY <2>2, <2>3
<1> QED
  BY <1>1, <1>2

(* The oldest buffered fact is passed on. *)
LEMMA OrderOfPass ==
  ASSUME Typed, OrderInv, PassBuffered
  PROVE  OrderInv'
<1>1. /\ buffer # <<>> /\ NotifyElement(Head(buffer)) /\ buffer' = Tail(buffer)
      /\ UNCHANGED <<log, from, serial, latest, todo>>
  BY DEF PassBuffered
<1>2. /\ buffer \in Seq(log) /\ Len(buffer) \in Nat /\ 1 \in 1 .. Len(buffer)
      /\ Head(buffer) = buffer[1] /\ buffer[1] \in log
      /\ Len(buffer') = Len(buffer) - 1
      /\ \A k \in 1 .. Len(buffer) - 1 : buffer'[k] = buffer[k + 1] /\ k + 1 \in 1 .. Len(buffer)
  BY <1>1, DataFacts, TailFacts
<1> DEFINE r == buffer[1]
<1>3. \A i \in 1 .. Len(delivered) : delivered[i] < r.ser
  BY <1>2 DEF OrderInv
<1>4. /\ \A i, j \in 1 .. Len(delivered') : i < j => delivered'[i] < delivered'[j]
      /\ \A i \in 1 .. Len(delivered') :
           delivered'[i] = r.ser \/ \E k \in 1 .. Len(delivered) : delivered'[i] = delivered[k]
  BY <1>1, <1>2, <1>3, OrderOfNotify
<1>5. r \in Owed /\ r.ser <= serial /\ from < r.ser
  BY <1>2 DEF OrderInv, Owed
<1>6. \A i \in 1 .. Len(delivered') : from < delivered'[i] /\ delivered'[i] <= serial
  BY <1>4, <1>5 DEF OrderInv
<1>7. \A i \in 1 .. Len(buffer') : buffer'[i] \in Owed' /\ buffer'[i].ser <= serial
  BY <1>1, <1>2 DEF OrderInv, Owed
<1>8. \A i, j \in 1 .. Len(buffer') : i < j => buffer'[i].ser < buffer'[j].ser
  <2> TAKE i, j \in 1 .. Len(buffer')
  <2>1. i < j => i + 1 < j + 1 /\ i + 1 \in 1 .. Len(buffer) /\ j + 1 \in 1 .. Len(buffer)
    BY <1>2
  <2> QED
    BY <1>2, <2>1 DEF OrderInv
<1>9. ASSUME NEW i \in 1 .. Len(delivered'), NEW j \in 1 .. Len(buffer')
      PROVE  delivered'[i] < buffer'[j].ser
  <2>1. buffer'[j] = buffer[j + 1] /\ j + 1 \in 1 .. Len(buffer) /\ 1 < j + 1
    BY <1>2
  <2>2. r.ser < buffer[j + 1].ser
    BY <1>2, <2>1 DEF OrderInv
  <2>3. \A k \in 1 .. Len(delivered) : delivered[k] < buffer[j + 1].ser
    BY <2>1 DEF OrderInv
  <2> QED
    BY <1>4, <2>1, <2>2, <2>3
<1> QED
  BY <1>1, <1>4, <1>6, <1>7, <1>8, <1>9 DEF OrderInv, IsSerial, DeliveredAscending

(* The oldest of the selected rows is filtered out, delivered or buffered. *)
LEMMA OrderOfRow ==
  ASSUME Typed, OrderInv, NEW r \in todo, IsOldest(r, todo), todo' = todo \ {r},
         serial' = r.ser, Process(r), r.ser > from, UNCHANGED <<log, from, latest>>
  PROVE  OrderInv'
<1>1. r \in log /\ r.ser \in Nat /\ serial < r.ser /\ serial \in Nat
  BY DataFacts DEF OrderInv
<1>2. \A q \in todo' : serial' < q.ser
  BY <1>1, DataFacts DEF IsOldest
<1>3. IsSerial(serial)' /\ IsSerial(latest)' /\ from' <= serial'
  BY <1>1, DataFacts DEF OrderInv, IsSerial
<1>4. /\ \A i \in 1 .. Len(delivered) :
            delivered[i] < r.ser /\ delivered[i] <= r.ser /\ from < delivered[i]
      /\ \A i \in 1 .. Len(buffer) : buffer[i].ser < r.ser /\ buffer[i].ser <= r.ser
  <2>1. ASSUME NEW i \in 1 .. Len(delivered)
        PROVE  delivered[i] < r.ser /\ delivered[i] <= r.ser /\ from < delivered[i]
    <3>1. delivered[i] \in Nat
      BY DataFacts
    <3>2. from < delivered[i] /\ delivered[i] <= serial
      BY DEF OrderInv
    <3> QED
      BY <1>1, <3>1, <3>2
  <2>2. ASSUME NEW i \in 1 .. Len(buffer)
        PROVE  buffer[i].ser < r.ser /\ buffer[i].ser <= r.ser
    <3>1. buffer[i].ser \in Nat
      BY DataFacts
    <3>2. buffer[i].ser <= serial
      BY DEF OrderInv
    <3> QED
      BY <1>1, <3>1, <3>2
  <2> QED
    BY <2>1, <2>2
<1>5. CASE UNCHANGED pipeVars
  BY <1>2, <1>3, <1>4, <1>5 DEF OrderInv, DeliveredAscending, Owed
<1>6. CASE MayPass(r) /\ NotifyElement(r) /\ UNCHANGED <<buffer, mode>>
  <2>1. /\ \A i, j \in 1 .. Len(delivered') : i < j => delivered'[i] < delivered'[j]
        /\ \A i \in 1 .. Len(delivered') :
             delivered'[i] = r.ser \/ \E k \in 1 .. Len(delivered) : delivered'[i] = delivered[k]
    BY <1>1, <1>4, <1>6, OrderOfNotify
  <2>2. \A i \in 1 .. Len(delivered') : from' < delivered'[i] /\ delivered'[i] <= serial'
    <3>1. r.ser <= r.ser
      BY <1>1
    <3> QED
      BY <1>4, <2>1, <3>1
  <2>3. \A i \in 1 .. Len(buffer') : FALSE
    <3>1. buffer' = <<>> /\ Len(buffer') = 0 /\ \A i \in 1 .. 0 : FALSE
      BY <1>6 DEF MayPass, Typed, PipeType
    <3> QED
      BY <3>1
  <2> QED
    BY <1>2, <1>3, <2>1, <2>2, <2>3 DEF OrderInv, DeliveredAscending
<1>7. CASE r.key \in Wanted /\ buffer' = Append(buffer, r) /\ UNCHANGED delivered
  <2>1. /\ Len(buffer) \in Nat /\ Len(buffer') = Len(buffer) + 1
        /\ buffer'[Len(buffer) + 1] = r
        /\ \A k \in 1 .. Len(buffer) : buffer'[k] = buffer[k]
        /\ \A k \in 1 .. Len(buffer) + 1 : k \in 1 .. Len(buffer) \/ k = Len(buffer) + 1
    BY <1>1, <1>7, DataFacts, AppendFacts
  <2>2. r \in Owed'
    BY <1>1, <1>7 DEF Owed
  <2>3. \A k \in 1 .. Len(buffer) : buffer[k] \in Owed'
    BY DEF OrderInv, Owed
  <2>4. \A i \in 1 .. Len(buffer') : buffer'[i] \in Owed' /\ buffer'[i].ser <= r.ser
    <3>1. r.ser <= r.ser
      BY <1>1
    <3> QED
      BY <1>4, <2>1, <2>2, <2>3, <3>1
  <2>5. ASSUME NEW i \in 1 .. Len(buffer'), NEW j \in 1 .. Len(buffer'), i < j
        PROVE  buffer'[i].ser < buffer'[j].ser
    <3>1. i \in 1 .. Len(buffer)
      BY <2>1, <2>5
    <3>2. CASE j \in 1 .. Len(buffer)
      BY <2>1, <2>5, <3>1, <3>2 DEF OrderInv
    <3>3. CASE j = Len(buffer) + 1
      BY <1>4, <2>1, <3>1, <3>3
    <3> QED
      BY <2>1, <3>2, <3>3
  <2>6. ASSUME NEW i \in 1 .. Len(delivered'), NEW j \in 1 .. Len(buffer')
        PROVE  delivered'[i] < buffer'[j].ser
    <3>1. CASE j \in 1 .. Len(buffer)
      BY <1>7, <2>1, <3>1 DEF OrderInv
    <3>2. CASE j = Len(buffer) + 1
      BY <1>4, <1>7, <2>1, <3>2
    <3> QED
      BY <2>1, <3>1, <3>2
  <2>7. \A i \in 1 .. Len(delivered') : from' < delivered'[i] /\ delivered'[i] <= serial'
    BY <1>4, <1>7
  <2>8. DeliveredAscending'
    BY <1>7 DEF OrderInv, DeliveredAscending
  <2> QED
    BY <1>2, <1>3, <2>4, <2>5, <2>6, <2>7, <2>8 DEF OrderInv
<1> QED
  BY <1>5, <1>6, <1>7 DEF Process

(* A row that a thread takes from what it has selected. *)
LEMMA OrderOfRows ==
  ASSUME Typed, OrderInv, CatchupRow \/ QueryRow
  PROVE  OrderInv'
<1>1. PICK r \in todo :
        /\ IsOldest(r, todo) /\ todo' = todo \ {r}
        /\ UNCHANGED <<serial, pipeVars>> \/ (serial' = r.ser /\ Process(r))
  BY DEF CatchupRow, QueryRow
<1>2. UNCHANGED <<log, from, latest>>
  BY DEF CatchupRow, QueryRow, OnlyConnect, OnlyQuery
<1>3. CASE UNCHANGED <<serial, pipeVars>>
  <2>1. IsSerial(latest)'
    BY <1>2, LatestAside
  <2>2. \A q \in todo' : serial < q.ser
    BY <1>1 DEF OrderInv
  <2> QED
    BY <1>2, <1>3, <2>1, <2>2, OrderAside
<1>4. CASE serial' = r.ser /\ Process(r)
  <2>1. r.ser > from
    BY DataFacts DEF OrderInv
  <2> QED
    BY <1>1, <1>2, <1>4, <2>1, OrderOfRow
<1> QED
  BY <1>1, <1>3, <1>4

LEMMA OrderStep ==
  ASSUME Typed, Typed', Control, OrderInv, [Next]_vars
  PROVE  OrderInv'
<1> USE DEF OnlyConnect, OnlyQuery, OnlyClose, OnlyListenerAndBus
<1>1. ASSUME UNCHANGED <<log, from, serial, buffer, delivered>>,
             latest' = latest \/ latest' = 0, todo' \subseteq todo
      PROVE  OrderInv'
  <2>1. IsSerial(latest)' /\ \A r \in todo' : serial < r.ser
    BY <1>1, LatestAside DEF OrderInv
  <2> QED
    BY <1>1, <2>1, OrderAside
<1>2. CASE UNCHANGED vars \/ Idle \/ RefreshTarget \/ Close \/ CloseStep \/ ListenerStep
  BY <1>1, <1>2
     DEF vars, Idle, RefreshTarget, Close, CloseStep, Disconnect, Unregister, CancelExecutor,
         CloseStatement, ListenerStep, SetupPostgresListeners,
         InformSubscribersAboutFreshConnection, ProcessNotification
<1>3. CASE Publish
  BY <1>3, OrderOfPublish
<1>4. CASE BusStep
  BY <1>1, <1>4 DEF BusStep, OnEvent, TimerFires
<1>5. CASE FlushStep
  BY <1>1, <1>5, OrderOfPass DEF FlushStep, Transform
<1>6. CASE ConnectStep
  <2>1. CASE Connect \/ ForwardToLatest
    <3>1. pc \in {"new", "ephemeral"}
      BY <2>1 DEF Connect, ForwardToLatest
    <3>2. /\ UNCHANGED <<log, todo, latest, buffer, delivered>> /\ from' = serial'
          /\ \/ serial' \in {0} \cup {r.ser : r \in log}
             \/ IsLatestSer(serial')
      BY <2>1 DEF Connect, ForwardToLatest
    <3>3. delivered' = <<>> /\ buffer' = <<>> /\ todo' = {}
      <4>1. delivered = <<>> /\ mode = "direct" /\ todo = {}
        BY <3>1 DEF Control, EarlyInv
      <4> QED
        BY <3>2, <4>1 DEF Typed, PipeType
    <3>4. IsSerial(latest)' /\ IsSerial(serial)'
      BY <3>2 DEF OrderInv, IsSerial, IsLatestSer
    <3> QED
      BY <3>2, <3>3, <3>4, OrderOfStart
  <2>2. CASE RunCatchup
    <3>1. IsSerial(latest)'
      BY <2>2, LatestAside DEF RunCatchup
    <3>2. \A r \in todo' : serial < r.ser
      BY <2>2, DataFacts DEF RunCatchup, MatchingAfterSerial
    <3> QED
      BY <2>2, <3>1, <3>2, OrderAside DEF RunCatchup
  <2>3. CASE CatchupRow
    BY <2>3, OrderOfRows
  <2>4. CASE ~(Connect \/ ForwardToLatest \/ RunCatchup \/ CatchupRow)
    BY <1>1, <1>6, <2>4
       DEF ConnectStep, StopIfDisconnected, BeginCatchup, EndCatchupRows, EndCatchup,
         CatchupFailed, ReadTargetId, FastForward, SignalCatchup, Complete, CreateExecutor,
         RegisterExecutor, CatchupPhase3, Flush
  <2> QED
    BY <2>1, <2>2, <2>3, <2>4
<1>7. CASE QueryStep
  <2>1. CASE \E thread \in Threads : RunTarget(thread)
    <3>1. UNCHANGED <<log, from, serial, todo, buffer, delivered>> /\ IsLatestSer(latest')
      BY <2>1 DEF RunTarget
    <3>2. IsSerial(latest)' /\ \A r \in todo' : serial < r.ser
      BY <3>1 DEF IsSerial, IsLatestSer, OrderInv
    <3> QED
      BY <3>1, <3>2, OrderAside
  <2>2. CASE RunQuery
    <3>1. IsSerial(latest)'
      BY <2>2, LatestAside DEF RunQuery
    <3>2. \A r \in todo' : serial < r.ser
      BY <2>2, DataFacts DEF RunQuery, MatchingAfterSerial
    <3> QED
      BY <2>2, <3>1, <3>2, OrderAside DEF RunQuery
  <2>3. CASE QueryRow
    BY <2>3, OrderOfRows
  <2>4. CASE EndQueryRows
    BY <1>1, <2>4 DEF EndQueryRows, Flush
  <2>5. CASE EndQuery
    <3>1. qpc = "flush" /\ runner # Nobody
      BY <2>5 DEF EndQuery, Control, EarlyInv
    <3>2. todo = {}
      BY <3>1 DEF Control, EarlyInv
    <3>3. serial' \in {serial, latest} /\ serial <= serial'
      BY <2>5, DataFacts DEF EndQuery
    <3> QED
      BY <2>5, <3>2, <3>3, OrderOfShift DEF EndQuery, Leave
  <2> QED
    BY <1>7, <2>1, <2>2, <2>3, <2>4, <2>5 DEF QueryStep
<1>8. CASE Fault
  <2>1. CASE UNCHANGED buffer
    BY <1>1, <1>8, <2>1
       DEF Fault, ProcessUnparsableNotification, ListenerLosesConnection, ConnectFails,
           CatchupFails, QueryFails, TransformationFails, FlushFailsInCatchup, FlushFailsInRow,
           FlushFailsAfterRows, DiscardBuffer, Flush, Leave
  <2>2. CASE ~UNCHANGED buffer
    BY <1>8, <2>2, OrderOfDiscard
       DEF Fault, ProcessUnparsableNotification, ListenerLosesConnection, ConnectFails,
           CatchupFails, QueryFails, TransformationFails, FlushFailsInCatchup, FlushFailsInRow,
           FlushFailsAfterRows, DiscardBuffer, Flush, Leave
  <2> QED
    BY <2>1, <2>2
<1> QED
  BY <1>2, <1>3, <1>4, <1>5, <1>6, <1>7, <1>8 DEF Next

-----------------------------------------------------------------------------
(* A stopped stream. *)

(* No event finds the stream connected, and no timer is left that fires. *)
LEMMA StoppedStep ==
  ASSUME Typed, Control, [Next]_vars, Stopped
  PROVE  Stopped'
<1> USE DEF OnlyConnect, OnlyQuery, OnlyClose, OnlyListenerAndBus
<1>1. /\ closer \in {"done", "failed"} /\ pc = "done" /\ waiting = {} /\ runner = Nobody
      /\ closed /\ disconnected /\ (scheduled => cancelled) /\ qpc = "idle"
  BY DEF Stopped, Control, EarlyInv, StopInv, Typed, CloseType
<1>2. CASE UNCHANGED vars \/ Idle \/ Publish \/ RefreshTarget \/ ListenerStep \/ FlushStep
  BY <1>1, <1>2
     DEF Stopped, vars, Idle, Publish, RefreshTarget, ListenerStep, SetupPostgresListeners,
         InformSubscribersAboutFreshConnection, ProcessNotification, FlushStep, Transform,
         PassBuffered
<1>3. ~Close /\ ~CloseStep
  BY <1>1 DEF Close, CloseStep, Disconnect, Unregister, CancelExecutor, CloseStatement
<1>4. ~ConnectStep
  BY <1>1 DEF ConnectStep, Connect, ForwardToLatest, StopIfDisconnected, BeginCatchup, RunCatchup,
         CatchupRow, EndCatchupRows, EndCatchup, CatchupFailed, ReadTargetId, FastForward,
         SignalCatchup, Complete, CreateExecutor, RegisterExecutor, CatchupPhase3
<1>5. CASE BusStep
  BY <1>1, <1>5 DEF Stopped, BusStep, OnEvent, TimerFires, Trigger
<1>6. ~QueryStep
  BY <1>1 DEF QueryStep, RunTarget, RunQuery, QueryRow, EndQueryRows, EndQuery
<1>7. CASE Fault
  BY <1>1, <1>7
     DEF Stopped, Fault, ProcessUnparsableNotification, ListenerLosesConnection, ConnectFails,
         CatchupFails, QueryFails, TransformationFails, FlushFailsInCatchup, FlushFailsInRow,
         FlushFailsAfterRows, DiscardBuffer, StartClose
<1> QED
  BY <1>2, <1>3, <1>4, <1>5, <1>6, <1>7 DEF Next

-----------------------------------------------------------------------------
(* Nothing is left out. *)

(* Delivered facts stay delivered. *)
LEMMA DeliveredStays ==
  ASSUME Typed, NEW r \in log, NotifyElement(r)
  PROVE  /\ \A n : IsDelivered(n) => IsDelivered(n)'
         /\ ~closed => IsDelivered(r.ser)'
<1>1. CASE closed
  BY <1>1 DEF NotifyElement, IsDelivered
<1>2. CASE ~closed
  <2>1. delivered' = Append(delivered, r.ser) /\ delivered \in Seq(Nat) /\ r.ser \in Nat
    BY <1>2, DataFacts DEF NotifyElement
  <2>2. /\ Len(delivered) \in Nat /\ Len(delivered') = Len(delivered) + 1
        /\ delivered'[Len(delivered) + 1] = r.ser
        /\ \A k \in 1 .. Len(delivered) : delivered'[k] = delivered[k]
    BY <2>1, AppendFacts
  <2>3. Len(delivered) + 1 \in 1 .. Len(delivered')
        /\ \A k \in 1 .. Len(delivered) : k \in 1 .. Len(delivered')
    BY <2>2
  <2> QED
    BY <2>2, <2>3 DEF IsDelivered
<1> QED
  BY <1>1, <1>2

(* What is buffered or delivered stays so while a row is processed, and    *)
(* the row is delivered or buffered, if it is wanted.                      *)
LEMMA ProcessKeeps ==
  ASSUME Typed, NEW r \in log, Process(r)
  PROVE  /\ \A n : IsDelivered(n) => IsDelivered(n)'
         /\ \A q \in log : IsBuffered(q) => IsBuffered(q)'
         /\ r.key \in Wanted /\ ~closed => IsDelivered(r.ser)' \/ IsBuffered(r)'
<1>1. CASE r.key \notin Wanted /\ UNCHANGED pipeVars
  BY <1>1 DEF IsDelivered, IsBuffered
<1>2. CASE NotifyElement(r) /\ UNCHANGED <<buffer, mode>>
  BY <1>2, DeliveredStays DEF IsBuffered
<1>3. CASE buffer' = Append(buffer, r) /\ UNCHANGED delivered
  <2>1. /\ Len(buffer) \in Nat /\ Len(buffer') = Len(buffer) + 1
        /\ buffer'[Len(buffer) + 1] = r
        /\ \A k \in 1 .. Len(buffer) : buffer'[k] = buffer[k]
    BY <1>3, DataFacts, AppendFacts
  <2>2. Len(buffer) + 1 \in 1 .. Len(buffer') /\ \A k \in 1 .. Len(buffer) : k \in 1 .. Len(buffer')
    BY <2>1
  <2> QED
    BY <1>3, <2>1, <2>2 DEF IsDelivered, IsBuffered
<1> QED
  BY <1>1, <1>2, <1>3 DEF Process

(* What is passed on from the buffer is delivered. *)
LEMMA PassKeeps ==
  ASSUME Typed, PassBuffered, ~closed
  PROVE  /\ \A n : IsDelivered(n) => IsDelivered(n)'
         /\ \A q \in log : IsBuffered(q) => IsBuffered(q)' \/ IsDelivered(q.ser)'
<1>1. /\ buffer # <<>> /\ NotifyElement(Head(buffer)) /\ buffer' = Tail(buffer)
  BY DEF PassBuffered
<1>2. /\ buffer \in Seq(log) /\ Len(buffer) \in Nat /\ 1 \in 1 .. Len(buffer)
      /\ Head(buffer) = buffer[1] /\ buffer[1] \in log
      /\ Len(buffer') = Len(buffer) - 1
      /\ \A k \in 1 .. Len(buffer) - 1 : buffer'[k] = buffer[k + 1]
  BY <1>1, DataFacts, TailFacts
<1>3. PICK r \in log : r = buffer[1]
  BY <1>2
<1>4. (\A n : IsDelivered(n) => IsDelivered(n)') /\ IsDelivered(r.ser)'
  BY <1>1, <1>2, <1>3, DeliveredStays
<1>5. ASSUME NEW i \in 1 .. Len(buffer)
      PROVE  buffer[i] = r \/ \E k \in 1 .. Len(buffer') : buffer'[k] = buffer[i]
  <2>1. CASE i # 1
    <3>1. i - 1 \in 1 .. Len(buffer) - 1 /\ (i - 1) + 1 = i
      BY <1>2, <2>1
    <3> QED
      BY <1>2, <3>1
  <2> QED
    BY <1>3, <2>1
<1>6. \A q \in log : IsBuffered(q) => q = r \/ IsBuffered(q)'
  BY <1>5 DEF IsBuffered
<1> QED
  BY <1>4, <1>6

(* Whoever has lost nothing after a step had lost nothing before. *)
LEMMA IntactBefore ==
  ASSUME Typed, [Next]_vars
  PROVE  /\ ~closed' => ~closed
         /\ Intact' => Intact
<1> USE DEF OnlyConnect, OnlyQuery, OnlyClose, OnlyListenerAndBus
<1>1. \/ UNCHANGED closed
      \/ \E thread \in {"client", "connect", "query"} : StartClose(thread)
  BY DEF Next, vars, Publish, RefreshTarget, Close, Idle, ListenerStep, SetupPostgresListeners,
         InformSubscribersAboutFreshConnection, ProcessNotification, ConnectStep, Connect,
         ForwardToLatest, StopIfDisconnected, BeginCatchup, RunCatchup, CatchupRow,
         EndCatchupRows, EndCatchup, CatchupFailed, ReadTargetId, FastForward, SignalCatchup,
         Complete, CreateExecutor, RegisterExecutor, CatchupPhase3, BusStep, OnEvent, TimerFires,
         QueryStep, RunTarget, RunQuery, QueryRow, EndQueryRows, EndQuery, FlushStep, Transform,
         PassBuffered, CloseStep, Disconnect, Unregister, CancelExecutor, CloseStatement, Fault,
         ProcessUnparsableNotification, ListenerLosesConnection, ConnectFails, CatchupFails,
         QueryFails, TransformationFails, FlushFailsInCatchup, FlushFailsInRow,
         FlushFailsAfterRows
<1>2. ~closed' => ~closed
  BY <1>1 DEF StartClose
<1>3. \/ failures'.transform = failures.transform
      \/ failures'.transform = failures.transform + 1
  <2>1. CASE UNCHANGED failures
    BY <2>1
  <2>2. CASE failures' = [failures EXCEPT !.query = @ + 1]
    BY <2>2 DEF Typed, FailuresType
  <2>3. CASE failures' = [failures EXCEPT !.transform = @ + 1]
    BY <2>3 DEF Typed, FailuresType
  <2>4. CASE Fault
    BY <2>1, <2>2, <2>3, <2>4
       DEF Fault, ProcessUnparsableNotification, ListenerLosesConnection, ConnectFails,
           CatchupFails, QueryFails, TransformationFails, FlushFailsInCatchup, FlushFailsInRow,
           FlushFailsAfterRows, DiscardBuffer
  <2>5. CASE ~Fault
    <3>1. UNCHANGED failures
      BY <2>5
         DEF Next, vars, Publish, RefreshTarget, Close, Idle, ListenerStep,
         SetupPostgresListeners, InformSubscribersAboutFreshConnection, ProcessNotification,
         ConnectStep, Connect, ForwardToLatest, StopIfDisconnected, BeginCatchup, RunCatchup,
         CatchupRow, EndCatchupRows, EndCatchup, CatchupFailed, ReadTargetId, FastForward,
         SignalCatchup, Complete, CreateExecutor, RegisterExecutor, CatchupPhase3, BusStep,
         OnEvent, TimerFires, QueryStep, RunTarget, RunQuery, QueryRow, EndQueryRows, EndQuery,
         FlushStep, Transform, PassBuffered, CloseStep, Disconnect, Unregister, CancelExecutor,
         CloseStatement
    <3> QED
      BY <2>1, <3>1
  <2> QED
    BY <2>4, <2>5
<1>4. failures.transform \in Nat
  BY BoundsAssumption DEF Typed, FailuresType
<1>5. failures'.transform = 0 => failures.transform = 0
  BY <1>3, <1>4
<1> QED
  BY <1>2, <1>5 DEF Intact

(* What is delivered stays so, and what is buffered is not dropped. *)
Keeps == /\ \A n : IsDelivered(n) => IsDelivered(n)'
         /\ \A q \in log : IsBuffered(q) => IsBuffered(q)' \/ IsDelivered(q.ser)'

LEMMA CompleteInitially == Init => CompleteInv /\ ReachInv /\ CatchupIsComplete
<1> SUFFICES ASSUME Init PROVE CompleteInv /\ ReachInv /\ CatchupIsComplete
  OBVIOUS
<1>1. /\ log = {} /\ todo = {} /\ atConnect = {} /\ qpc = "idle" /\ phase = 1 /\ pc = "new"
      /\ ~caughtUp
  BY DEF Init, Log!Init
<1>2. Owed = {}
  BY <1>1 DEF Owed
<1> QED
  BY <1>1, <1>2 DEF CompleteInv, ReachInv, CatchupIsComplete

(* A step that moves neither log nor serial, nor selects anything. *)
LEMMA CompleteAside ==
  ASSUME CompleteInv, UNCHANGED <<log, from, serial, todo>>, Keeps,
         qpc' \in {"rows", "flush"} => qpc \in {"rows", "flush"} /\ latest' = latest
  PROVE  CompleteInv'
<1>1. Owed' = Owed
  BY DEF Owed
<1>2. \A q \in Owed : q \in log
  BY DEF Owed
<1>3. \A q \in Owed : q.ser <= serial => IsDelivered(q.ser)' \/ IsBuffered(q)'
  BY <1>2 DEF CompleteInv, Keeps
<1> QED
  BY <1>1, <1>3 DEF CompleteInv

(* What was selected is dropped, and the query is over. *)
LEMMA CompleteWithout ==
  ASSUME CompleteInv, UNCHANGED <<log, from, serial>>, Keeps, todo' = {},
         qpc' \notin {"rows", "flush"}
  PROVE  CompleteInv'
<1>1. Owed' = Owed
  BY DEF Owed
<1>2. \A q \in Owed : q \in log
  BY DEF Owed
<1>3. \A q \in Owed : q.ser <= serial => IsDelivered(q.ser)' \/ IsBuffered(q)'
  BY <1>2 DEF CompleteInv, Keeps
<1> QED
  BY <1>1, <1>3 DEF CompleteInv

(* A snapshot has everything that is owed from the serial on. *)
LEMMA CompleteSelect ==
  ASSUME Typed, CompleteInv, UNCHANGED <<log, from, serial, pipeVars>>,
         todo' = MatchingAfterSerial
  PROVE  CompleteInv'
<1>1. Owed' = Owed
  BY DEF Owed
<1>2. \A q \in Owed : q.ser \in Nat /\ (q.ser <= serial \/ serial < q.ser)
  BY DataFacts DEF Owed
<1>3. \A q \in Owed : serial < q.ser => q \in todo'
  BY <1>2, KeysAssumption, DataFacts DEF Owed, MatchingAfterSerial
<1>4. \A q \in Owed : q.ser <= serial => IsDelivered(q.ser)' \/ IsBuffered(q)'
  BY DEF CompleteInv, IsDelivered, IsBuffered
<1> QED
  BY <1>1, <1>2, <1>3, <1>4 DEF CompleteInv

(* New facts are beyond the serial, and beyond everything selected. *)
LEMMA CompletePublish ==
  ASSUME Typed, OrderInv, CompleteInv, Publish
  PROVE  CompleteInv'
<1>1. UNCHANGED <<from, serial, todo, latest, qpc, buffer, delivered>>
  BY DEF Publish
<1>2. ASSUME NEW q \in Owed', q \notin Owed
      PROVE  ~(q.ser <= serial) /\ ~(q.ser <= latest) /\ \A r \in todo : ~(q.ser < r.ser)
  <2>1. q \in log' \ log /\ q.ser \in Nat /\ 0 < q.ser
    BY <1>1, <1>2, PublishFacts, BoundsAssumption DEF Owed
  <2>2. \A r \in log : r.ser < q.ser /\ r.ser \in Nat
    BY <2>1, PublishFacts, DataFacts
  <2>3. serial < q.ser /\ latest < q.ser
    BY <2>1, <2>2 DEF OrderInv, IsSerial
  <2> QED
    BY <2>1, <2>2, <2>3, DataFacts
<1>3. \A q \in Owed : q.ser <= serial => IsDelivered(q.ser)' \/ IsBuffered(q)'
  BY <1>1 DEF CompleteInv, IsDelivered, IsBuffered
<1> QED
  BY <1>1, <1>2, <1>3 DEF CompleteInv

(* The serial moves on to the latest one, past nothing that is owed. *)
LEMMA CompleteShift ==
  ASSUME Typed, CompleteInv, UNCHANGED <<log, from, pipeVars>>, qpc \in {"rows", "flush"},
         todo = {}, todo' = {}, qpc' = "idle", serial' \in {serial, latest}
  PROVE  CompleteInv'
<1>1. Owed' = Owed
  BY DEF Owed
<1>2. \A q \in Owed : q.ser <= serial' => q.ser <= serial
  BY DEF CompleteInv
<1>3. \A q \in Owed : q.ser <= serial' => IsDelivered(q.ser)' \/ IsBuffered(q)'
  BY <1>2 DEF CompleteInv, IsDelivered, IsBuffered
<1> QED
  BY <1>1, <1>3 DEF CompleteInv

(* The oldest of the selected rows is taken: whatever is owed up to it was *)
(* handled before.                                                         *)
LEMMA CompleteRow ==
  ASSUME Typed, OrderInv, CompleteInv, ~closed, NEW r \in todo, IsOldest(r, todo),
         todo' = todo \ {r}, serial' = r.ser, Process(r), UNCHANGED <<log, from, latest, qpc>>
  PROVE  CompleteInv'
<1>1. Owed' = Owed /\ \A q \in Owed : q \in log /\ q.ser \in Nat /\ q.key \in Wanted
  BY DataFacts DEF Owed
<1>2. r \in log /\ r.ser \in Nat /\ serial < r.ser /\ serial \in Nat
  BY DataFacts DEF OrderInv
<1>3. /\ \A n : IsDelivered(n) => IsDelivered(n)'
      /\ \A q \in log : IsBuffered(q) => IsBuffered(q)'
      /\ r.key \in Wanted => IsDelivered(r.ser)' \/ IsBuffered(r)'
  BY <1>2, ProcessKeeps
<1>4. ASSUME NEW q \in Owed, q.ser <= r.ser PROVE q.ser <= serial \/ q = r
  <2>1. CASE q.ser = r.ser
    BY <1>1, <1>2, <2>1, DataFacts
  <2>2. CASE q.ser < r.ser /\ serial < q.ser
    <3>1. q \in todo
      BY <2>2 DEF CompleteInv
    <3>2. r.ser <= q.ser
      BY <3>1 DEF IsOldest
    <3> QED
      BY <1>1, <1>2, <2>2, <3>2
  <2> QED
    BY <1>1, <1>2, <1>4, <2>1, <2>2
<1>5. \A q \in Owed : q.ser <= r.ser => IsDelivered(q.ser)' \/ IsBuffered(q)'
  BY <1>1, <1>3, <1>4 DEF CompleteInv
<1>6. ASSUME NEW p \in todo', NEW q \in Owed, r.ser < q.ser, q.ser < p.ser
      PROVE  q \in todo'
  <2>1. serial < q.ser /\ q # r
    BY <1>1, <1>2, <1>6
  <2> QED
    BY <1>6, <2>1 DEF CompleteInv
<1>7. qpc \in {"rows", "flush"} => \A q \in Owed : q.ser <= latest => q.ser <= r.ser \/ q \in todo'
  <2> SUFFICES ASSUME qpc \in {"rows", "flush"}, NEW q \in Owed, q.ser <= latest
               PROVE  q.ser <= r.ser \/ q \in todo'
    OBVIOUS
  <2>1. CASE q.ser <= serial
    BY <1>1, <1>2, <2>1
  <2>2. CASE q \in todo
    BY <1>1, <1>2, <2>2
  <2> QED
    BY <2>1, <2>2 DEF CompleteInv
<1> QED
  BY <1>1, <1>5, <1>6, <1>7 DEF CompleteInv

LEMMA KeepsAside == UNCHANGED <<buffer, delivered>> => Keeps
BY DEF Keeps, IsDelivered, IsBuffered

(* Whoever discards the buffer has lost something. *)
LEMMA DiscardLoses ==
  ASSUME Typed, Intact', DiscardBuffer
  PROVE  FALSE
BY BoundsAssumption DEF Typed, FailuresType, DiscardBuffer, Intact

LEMMA CompleteOfRows ==
  ASSUME Typed, Control, OrderInv, CompleteInv, ~closed, CatchupRow \/ QueryRow
  PROVE  CompleteInv'
<1>1. PICK r \in todo :
        /\ IsOldest(r, todo) /\ todo' = todo \ {r}
        /\ holder = "canceled" \/ disconnected \/ (serial' = r.ser /\ Process(r))
  BY DEF CatchupRow, QueryRow
<1>2. ~disconnected /\ holder # "canceled"
  BY DEF Control, StopInv
<1>3. UNCHANGED <<log, from, latest, qpc>>
  BY DEF CatchupRow, QueryRow, OnlyConnect, OnlyQuery
<1> QED
  BY <1>1, <1>2, <1>3, CompleteRow

LEMMA CompleteStep ==
  ASSUME Typed, Control, OrderInv, CompleteInv, Intact, Intact', [Next]_vars
  PROVE  CompleteInv'
<1> USE DEF OnlyConnect, OnlyQuery, OnlyClose, OnlyListenerAndBus
<1>1. ASSUME UNCHANGED <<log, from, serial, todo, buffer, delivered>>,
             qpc' \in {"rows", "flush"} => qpc \in {"rows", "flush"} /\ latest' = latest
      PROVE  CompleteInv'
  BY <1>1, KeepsAside, CompleteAside
<1>2. ASSUME UNCHANGED <<log, from, serial, buffer, delivered>>, todo' = {},
             qpc' \notin {"rows", "flush"}
      PROVE  CompleteInv'
  BY <1>2, KeepsAside, CompleteWithout
<1>3. ~closed
  BY DEF Intact
<1>4. CASE UNCHANGED vars \/ Idle \/ RefreshTarget \/ Close \/ CloseStep \/ ListenerStep
  BY <1>1, <1>4
     DEF vars, Idle, RefreshTarget, Close, CloseStep, Disconnect, Unregister, CancelExecutor,
         CloseStatement, ListenerStep, SetupPostgresListeners,
         InformSubscribersAboutFreshConnection, ProcessNotification
<1>5. CASE Publish
  BY <1>5, CompletePublish
<1>6. CASE BusStep
  BY <1>1, <1>6 DEF BusStep, OnEvent, TimerFires
<1>7. CASE FlushStep
  <2>1. CASE Transform
    BY <1>1, <2>1 DEF Transform
  <2>2. CASE PassBuffered
    <3>1. Keeps
      BY <1>3, <2>2, PassKeeps DEF Keeps
    <3> QED
      BY <2>2, <3>1, CompleteAside DEF PassBuffered
  <2> QED
    BY <1>7, <2>1, <2>2 DEF FlushStep
<1>8. CASE ConnectStep
  <2>1. CASE Connect \/ ForwardToLatest
    <3>1. UNCHANGED <<log, todo, qpc>> /\ from' = serial' /\ pc \in {"new", "ephemeral"}
      BY <2>1 DEF Connect, ForwardToLatest
    <3>2. todo' = {} /\ qpc' = "idle"
      BY <3>1 DEF Control, EarlyInv
    <3>3. \A q \in Owed' : ~(q.ser <= serial')
      <4>1. serial' \in Nat
        BY <2>1, DataFacts DEF Connect, ForwardToLatest
      <4> QED
        BY <3>1, <4>1, DataFacts DEF Owed
    <3> QED
      BY <3>2, <3>3 DEF CompleteInv
  <2>2. CASE RunCatchup
    BY <2>2, CompleteSelect DEF RunCatchup
  <2>3. CASE CatchupRow
    BY <1>3, <2>3, CompleteOfRows
  <2>4. CASE ~(Connect \/ ForwardToLatest \/ RunCatchup \/ CatchupRow)
    BY <1>1, <1>8, <2>4
       DEF ConnectStep, StopIfDisconnected, BeginCatchup, EndCatchupRows, EndCatchup,
         CatchupFailed, ReadTargetId, FastForward, SignalCatchup, Complete, CreateExecutor,
         RegisterExecutor, CatchupPhase3, Flush
  <2> QED
    BY <2>1, <2>2, <2>3, <2>4
<1>9. CASE QueryStep
  <2>1. CASE \E thread \in Threads : RunTarget(thread)
    BY <1>1, <2>1 DEF RunTarget
  <2>2. CASE RunQuery
    BY <2>2, CompleteSelect DEF RunQuery
  <2>3. CASE QueryRow
    BY <1>3, <2>3, CompleteOfRows
  <2>4. CASE EndQueryRows
    BY <1>1, <2>4 DEF EndQueryRows, Flush
  <2>5. CASE EndQuery
    <3>1. qpc = "flush" /\ runner # Nobody
      BY <2>5 DEF EndQuery, Control, EarlyInv
    <3>2. todo = {}
      BY <3>1 DEF Control, EarlyInv
    <3> QED
      BY <2>5, <3>1, <3>2, CompleteShift DEF EndQuery, Leave
  <2> QED
    BY <1>9, <2>1, <2>2, <2>3, <2>4, <2>5 DEF QueryStep
<1>10. CASE Fault
  <2>1. ~DiscardBuffer
    BY DiscardLoses
  <2>2. CASE ProcessUnparsableNotification \/ ListenerLosesConnection \/ ConnectFails
    BY <1>1, <2>2 DEF ProcessUnparsableNotification, ListenerLosesConnection, ConnectFails
  <2>3. CASE CatchupFails
    <3>1. qpc \notin {"rows", "flush"}
      BY <2>3 DEF CatchupFails, Control, EarlyInv
    <3> QED
      BY <1>2, <2>3, <3>1 DEF CatchupFails, Flush
  <2>4. CASE QueryFails
    BY <1>2, <2>4 DEF QueryFails, Leave
  <2> QED
    BY <1>10, <2>1, <2>2, <2>3, <2>4
       DEF Fault, TransformationFails, FlushFailsInCatchup, FlushFailsInRow, FlushFailsAfterRows
<1> QED
  BY <1>4, <1>5, <1>6, <1>7, <1>8, <1>9, <1>10 DEF Next

-----------------------------------------------------------------------------
(* The catchup. *)

(* What a catchup has reached does not change while it is about something  *)
(* else.                                                                   *)
LEMMA ReachAside ==
  ASSUME ReachInv, UNCHANGED <<atConnect, from, serial, todo, pc, phase>>
  PROVE  ReachInv'
BY DEF ReachInv, Due

(* The serial never moves back. *)
LEMMA ReachMoves ==
  ASSUME Typed, ReachInv, UNCHANGED <<atConnect, from>>, pc' # "rows",
         serial' \in Nat, serial <= serial',
         \/ phase = 2
         \/ pc \in {"flush", "fastForward", "position", "signal"}
         \/ phase' # 2 /\ pc' \notin {"flush", "fastForward", "position", "signal"}
  PROVE  ReachInv'
<1>1. Due' = Due
  BY DEF Due
<1>2. ASSUME NEW q \in Due, q.ser <= serial PROVE q.ser <= serial'
  <2>1. q.ser \in Nat /\ serial \in Nat
    BY DataFacts DEF Due
  <2> QED
    BY <1>2, <2>1
<1> QED
  BY <1>1, <1>2 DEF ReachInv

(* The oldest of the selected rows is taken. *)
LEMMA ReachRow ==
  ASSUME Typed, OrderInv, ReachInv, NEW r \in todo, todo' = todo \ {r}, serial' = r.ser,
         UNCHANGED <<atConnect, from, pc, phase>>
  PROVE  ReachInv'
<1>1. Due' = Due
  BY DEF Due
<1>2. r.ser \in Nat /\ serial < r.ser /\ serial \in Nat
  BY DataFacts DEF OrderInv
<1>3. ASSUME NEW q \in Due, q.ser <= serial PROVE q.ser <= r.ser
  <2>1. q.ser \in Nat
    BY DataFacts DEF Due
  <2> QED
    BY <1>2, <1>3, <2>1
<1>4. ASSUME NEW q \in Due, q \in todo PROVE q.ser <= r.ser \/ q \in todo'
  BY <1>2, <1>4
<1> QED
  BY <1>1, <1>3, <1>4 DEF ReachInv

(* A snapshot has everything that the serial has not passed. *)
LEMMA ReachSelect ==
  ASSUME Typed, ReachInv, RunCatchup
  PROVE  ReachInv'
<1>1. /\ pc = "query" /\ pc' = "rows" /\ todo' = MatchingAfterSerial
      /\ UNCHANGED <<atConnect, from, serial, phase>>
  BY DEF RunCatchup
<1>2. ASSUME NEW q \in Due PROVE q.ser <= serial \/ q \in todo'
  <2>1. q \in log /\ q.key \in Queried /\ q.ser \in Nat /\ serial \in Nat
    BY KeysAssumption, DataFacts DEF Due
  <2> QED
    BY <1>1, <2>1 DEF MatchingAfterSerial
<1> QED
  BY <1>1, <1>2 DEF ReachInv, Due

LEMMA ReachStep ==
  ASSUME Typed, Typed', Control, OrderInv, ReachInv, ~closed', ~request.ephemeral, [Next]_vars
  PROVE  ReachInv'
<1> USE DEF OnlyConnect, OnlyQuery, OnlyClose, OnlyListenerAndBus
<1>0. ~closed /\ ~disconnected /\ holder # "canceled"
  BY IntactBefore DEF Control, StopInv
<1>1. serial \in Nat /\ serial' \in Nat /\ latest \in Nat
  BY DataFacts, BoundsAssumption DEF Typed, CursorType, Sers
<1>2. CASE \/ UNCHANGED vars \/ Idle \/ Publish \/ RefreshTarget \/ Close \/ CloseStep
           \/ ListenerStep \/ BusStep \/ FlushStep
  BY <1>2, ReachAside
     DEF vars, Idle, Publish, RefreshTarget, Close, CloseStep, Disconnect, Unregister,
         CancelExecutor, CloseStatement, ListenerStep, SetupPostgresListeners,
         InformSubscribersAboutFreshConnection, ProcessNotification, BusStep, OnEvent,
         TimerFires, FlushStep, Transform, PassBuffered
<1>3. CASE ConnectStep
  <2>1. CASE Connect
    BY <2>1 DEF Connect, ReachInv, Control, EarlyInv
  <2>2. ~ForwardToLatest
    BY DEF ForwardToLatest, Control, EarlyInv
  <2>3. CASE RunCatchup
    BY <2>3, ReachSelect
  <2>4. CASE CatchupRow
    <3>1. PICK r \in todo : todo' = todo \ {r} /\ serial' = r.ser
      BY <1>0, <2>4 DEF CatchupRow
    <3> QED
      BY <2>4, <3>1, ReachRow DEF CatchupRow
  <2>5. CASE EndCatchupRows
    BY <2>5 DEF EndCatchupRows, ReachInv, Due
  <2>6. CASE ~(Connect \/ ForwardToLatest \/ RunCatchup \/ CatchupRow \/ EndCatchupRows)
    <3>1. /\ UNCHANGED <<atConnect, from, serial>> /\ pc' # "rows"
          /\ \/ phase = 2
             \/ pc \in {"flush", "fastForward", "position", "signal"}
             \/ phase' # 2 /\ pc' \notin {"flush", "fastForward", "position", "signal"}
      BY <1>3, <2>6
         DEF ConnectStep, StopIfDisconnected, BeginCatchup, EndCatchup, CatchupFailed,
             ReadTargetId, FastForward, SignalCatchup, Complete, CreateExecutor,
             RegisterExecutor, CatchupPhase3, Typed, ConnectType
    <3> QED
      BY <1>1, <3>1, ReachMoves
  <2> QED
    BY <2>1, <2>2, <2>3, <2>4, <2>5, <2>6
<1>4. CASE QueryStep
  <2>1. pc \in {"trigger", "done"} /\ UNCHANGED <<atConnect, from, pc, phase>>
    <3>1. waiting # {} \/ runner # Nobody
      BY <1>4 DEF QueryStep, RunTarget, RunQuery, QueryRow, EndQueryRows, EndQuery, Control,
                  EarlyInv
    <3> QED
      BY <1>4, <3>1
         DEF Control, EarlyInv, QueryStep, RunTarget, RunQuery, QueryRow, EndQueryRows, EndQuery
  <2>2. serial <= serial'
    <3>1. CASE QueryRow
      <4>1. PICK r \in todo : serial' = serial \/ serial' = r.ser
        BY <3>1 DEF QueryRow
      <4>2. r.ser \in Nat /\ serial < r.ser
        BY DataFacts DEF OrderInv
      <4> QED
        BY <1>1, <4>1, <4>2
    <3>2. CASE EndQuery
      BY <1>1, <3>2 DEF EndQuery
    <3>3. CASE UNCHANGED serial
      BY <1>1, <3>3
    <3> QED
      BY <1>4, <3>1, <3>2, <3>3 DEF QueryStep, RunTarget, RunQuery, EndQueryRows
  <2> QED
    BY <1>1, <2>1, <2>2, ReachMoves
<1>5. CASE Fault
  <2>1. CASE \/ ProcessUnparsableNotification \/ ListenerLosesConnection \/ FlushFailsAfterRows
    BY <2>1, ReachAside
       DEF ProcessUnparsableNotification, ListenerLosesConnection, FlushFailsAfterRows
  <2>2. ~(ConnectFails \/ TransformationFails \/ FlushFailsInCatchup \/ FlushFailsInRow)
    BY <1>0 DEF ConnectFails, TransformationFails, FlushFailsInCatchup, FlushFailsInRow, StartClose
  <2>3. CASE CatchupFails
    BY <1>1, <2>3, ReachMoves DEF CatchupFails, Typed, ConnectType
  <2>4. CASE QueryFails
    <3>1. pc # "rows"
      BY <2>4 DEF QueryFails, Control, EarlyInv
    <3> QED
      BY <1>1, <2>4, <3>1, ReachMoves DEF QueryFails, Typed, ConnectType
  <2> QED
    BY <1>5, <2>1, <2>2, <2>3, <2>4 DEF Fault
<1> QED
  BY <1>2, <1>3, <1>4, <1>5 DEF Next

(* Only publications change the log, and only rows and the buffer get to   *)
(* the observer.                                                           *)
LEMMA FeedAside ==
  ASSUME [Next]_vars
  PROVE  /\ Publish \/ UNCHANGED log
         /\ PassBuffered \/ CatchupRow \/ QueryRow \/ UNCHANGED delivered
<1> USE DEF OnlyConnect, OnlyQuery, OnlyClose, OnlyListenerAndBus
<1>1. Publish \/ UNCHANGED log
  BY DEF Next, vars, Publish, RefreshTarget, Close, Idle, ListenerStep,
         SetupPostgresListeners, InformSubscribersAboutFreshConnection, ProcessNotification,
         ConnectStep, Connect, ForwardToLatest, StopIfDisconnected, BeginCatchup, RunCatchup,
         CatchupRow, EndCatchupRows, EndCatchup, CatchupFailed, ReadTargetId, FastForward,
         SignalCatchup, Complete, CreateExecutor, RegisterExecutor, CatchupPhase3, BusStep,
         OnEvent, TimerFires, QueryStep, RunTarget, RunQuery, QueryRow, EndQueryRows, EndQuery,
         FlushStep, Transform, PassBuffered, CloseStep, Disconnect, Unregister, CancelExecutor,
         CloseStatement, Fault, ProcessUnparsableNotification, ListenerLosesConnection,
         ConnectFails, CatchupFails, QueryFails, TransformationFails, FlushFailsInCatchup,
         FlushFailsInRow, FlushFailsAfterRows
<1>2. PassBuffered \/ CatchupRow \/ QueryRow \/ UNCHANGED delivered
  BY DEF Next, vars, Publish, RefreshTarget, Close, Idle, ListenerStep,
         SetupPostgresListeners, InformSubscribersAboutFreshConnection, ProcessNotification,
         ConnectStep, Connect, ForwardToLatest, StopIfDisconnected, BeginCatchup, RunCatchup,
         CatchupRow, EndCatchupRows, EndCatchup, CatchupFailed, ReadTargetId, FastForward,
         SignalCatchup, Complete, CreateExecutor, RegisterExecutor, CatchupPhase3, BusStep,
         OnEvent, TimerFires, QueryStep, RunTarget, RunQuery, QueryRow, EndQueryRows, EndQuery,
         FlushStep, Transform, PassBuffered, CloseStep, Disconnect, Unregister, CancelExecutor,
         CloseStatement, Fault, ProcessUnparsableNotification, ListenerLosesConnection,
         ConnectFails, CatchupFails, QueryFails, TransformationFails, FlushFailsInCatchup,
         FlushFailsInRow, FlushFailsAfterRows, DiscardBuffer, Flush
<1> QED
  BY <1>1, <1>2

(* Nothing that was delivered is taken back. *)
LEMMA DeliveredForGood ==
  ASSUME Typed, [Next]_vars
  PROVE  \A n : IsDelivered(n) => IsDelivered(n)'
<1>1. CASE UNCHANGED delivered
  BY <1>1 DEF IsDelivered
<1>2. CASE PassBuffered
  <2>1. PICK r \in log : NotifyElement(r)
    <3>1. Head(buffer) \in log /\ NotifyElement(Head(buffer))
      BY <1>2, DataFacts, TailFacts DEF PassBuffered
    <3> QED
      BY <3>1
  <2> QED
    BY <2>1, DeliveredStays
<1>3. CASE CatchupRow \/ QueryRow
  <2>1. PICK r \in log : UNCHANGED pipeVars \/ Process(r)
    BY <1>3, DataFacts DEF CatchupRow, QueryRow
  <2> QED
    BY <1>1, <2>1, ProcessKeeps
<1>4. CASE ~(PassBuffered \/ CatchupRow \/ QueryRow)
  <2>1. UNCHANGED delivered
    BY <1>4, FeedAside
  <2> QED
    BY <1>1, <2>1
<1> QED
  BY <1>2, <1>3, <1>4

(* The request is fixed; the starting point is, once the thread connected; *)
(* and the catchup is signalled once.                                      *)
LEMMA ConnectAside ==
  ASSUME [Next]_vars
  PROVE  /\ UNCHANGED request
         /\ Connect \/ ForwardToLatest \/ UNCHANGED <<from, atConnect>>
         /\ SignalCatchup \/ UNCHANGED caughtUp
<1> USE DEF OnlyConnect, OnlyQuery, OnlyClose, OnlyListenerAndBus
<1> QED
  BY DEF Next, vars, Publish, RefreshTarget, Close, Idle, ListenerStep, SetupPostgresListeners,
         InformSubscribersAboutFreshConnection, ProcessNotification, ConnectStep, Connect,
         ForwardToLatest, StopIfDisconnected, BeginCatchup, RunCatchup, CatchupRow,
         EndCatchupRows, EndCatchup, CatchupFailed, ReadTargetId, FastForward, SignalCatchup,
         Complete, CreateExecutor, RegisterExecutor, CatchupPhase3, BusStep, OnEvent, TimerFires,
         QueryStep, RunTarget, RunQuery, QueryRow, EndQueryRows, EndQuery, FlushStep, Transform,
         PassBuffered, CloseStep, Disconnect, Unregister, CancelExecutor, CloseStatement, Fault,
         ProcessUnparsableNotification, ListenerLosesConnection, ConnectFails, CatchupFails,
         QueryFails, TransformationFails, FlushFailsInCatchup, FlushFailsInRow,
         FlushFailsAfterRows

(* When the catchup is signalled, the serial is behind all that is due and *)
(* the buffer is empty.                                                    *)
LEMMA SignalIsTrue ==
  ASSUME IndInv, Typed, SignalCatchup, caughtUp', ~request.ephemeral
  PROVE  \A q \in Due : IsDelivered(q.ser)
<1>1. ~closed /\ pc = "signal"
  BY DEF SignalCatchup
<1>2. Intact /\ mode = "direct"
  BY <1>1 DEF IndInv, EarlyInv, Intact
<1>3. \A r \in log : ~IsBuffered(r)
  <2>1. Len(buffer) = 0 /\ \A i \in 1 .. 0 : FALSE
    BY <1>2 DEF Typed, PipeType
  <2> QED
    BY <2>1 DEF IsBuffered
<1>4. \A q \in Due : q \in Owed /\ q \in log /\ q.ser <= serial
  BY <1>1, DataFacts DEF IndInv, ReachInv, Due, Owed
<1> QED
  BY <1>2, <1>3, <1>4 DEF IndInv, CompleteInv

LEMMA CatchupStep ==
  ASSUME IndInv, Typed, [Next]_vars
  PROVE  CatchupIsComplete'
<1> SUFFICES ASSUME caughtUp', ~request'.ephemeral
             PROVE  \A r \in (atConnect \cap Owed)' : IsDelivered(r.ser)'
  BY DEF CatchupIsComplete
<1>1. ~request.ephemeral
  BY ConnectAside
<1>2. CASE Connect \/ ForwardToLatest
  BY <1>2 DEF Connect, ForwardToLatest, IndInv, EarlyInv
<1>3. CASE UNCHANGED <<from, atConnect>>
  <2>1. \A q \in Due : IsDelivered(q.ser)
    <3>1. CASE SignalCatchup
      BY <1>1, <3>1, SignalIsTrue
    <3>2. CASE UNCHANGED caughtUp
      BY <1>1, <3>2, DataFacts DEF IndInv, CatchupIsComplete, Due, Owed
    <3> QED
      BY <3>1, <3>2, ConnectAside
  <2>2. (atConnect \cap Owed)' \subseteq Due
    BY <1>3 DEF Owed, Due
  <2> QED
    BY <2>1, <2>2, DeliveredForGood
<1> QED
  BY <1>2, <1>3, ConnectAside

-----------------------------------------------------------------------------
(* The inductive invariant. *)

LEMMA Initially == Init => IndInv
BY TypesInitially, TypedIsTypeOK, ControlInitially, OrderInitially, CompleteInitially
   DEF IndInv, Control

LEMMA EveryStep ==
  ASSUME IndInv, [Next]_vars
  PROVE  IndInv'
<1>1. Typed /\ Control /\ OrderInv
  BY TypedIsTypeOK DEF IndInv, Control
<1>2. Typed' /\ Control'
  BY <1>1, TypesStep, ControlStep
<1>3. TypeOK' /\ BoundsInv' /\ EarlyInv' /\ StopInv'
  <2>1. (Typed <=> TypeOK /\ BoundsInv)'
    BY TypedIsTypeOK, PTL
  <2> QED
    BY <1>2, <2>1 DEF Control
<1>4. OrderInv'
  BY <1>1, <1>2, OrderStep
<1>5. CatchupIsComplete'
  BY <1>1, CatchupStep
<1>6. ASSUME Intact' PROVE CompleteInv'
  BY <1>1, <1>6, IntactBefore, CompleteStep DEF IndInv
<1>7. ASSUME ~closed', ~request'.ephemeral PROVE ReachInv'
  <2>1. ~closed /\ ~request.ephemeral
    BY <1>1, <1>7, IntactBefore, ConnectAside
  <2> QED
    BY <1>1, <1>2, <1>7, <2>1, ReachStep DEF IndInv
<1> QED
  BY <1>3, <1>4, <1>5, <1>6, <1>7 DEF IndInv

(* The inductive invariant holds in every reachable state. *)
THEOREM Invariance == Spec => []IndInv
<1>1. Init => IndInv
  BY Initially
<1>2. IndInv /\ [Next]_vars => IndInv'
  BY EveryStep
<1> QED
  BY <1>1, <1>2, PTL DEF Spec

(* The state of a subscription is well-formed: the buffer never exceeds its *)
(* capacity, it is empty while facts pass directly, and what the threads    *)
(* still have to handle are rows of the log (BufferedTransformingServer-    *)
(* Pipeline, PgSynchronizedQuery).                                          *)
THEOREM TypeCorrect == Spec => []TypeOK
<1>1. IndInv => TypeOK
  BY DEF IndInv
<1> QED
  BY <1>1, Invariance, PTL

(* What the observer gets is in serial order and has no duplicates, even if *)
(* transformations fail, and however catchup and queries alternate.         *)
THEOREM InOrder == Spec => []DeliveredAscending
<1>1. IndInv => DeliveredAscending
  BY DEF IndInv, OrderInv
<1> QED
  BY <1>1, Invariance, PTL

(* When PgFactStream sends the catchup signal, every fact that was in the   *)
(* log when the subscription connected was delivered.                       *)
THEOREM CatchupCompletes == Spec => []CatchupIsComplete
<1>1. IndInv => CatchupIsComplete
  BY DEF IndInv
<1> QED
  BY <1>1, Invariance, PTL

(* Once close() has returned and all threads have left, nothing makes the   *)
(* stream work again: neither late events nor the timer nor an executor     *)
(* that stayed registered.                                                  *)
THEOREM StoppedForGood == Spec => StaysStopped
<1>1. IndInv /\ [Next]_vars => [Stopped => Stopped']_vars
  BY TypedIsTypeOK, StoppedStep DEF IndInv, Control
<1> QED
  BY <1>1, Invariance, PTL DEF Spec, StaysStopped

-----------------------------------------------------------------------------
(* As long as no transformation fails, nothing is left out. *)

(* The serial from which the next query continues never passes a fact that *)
(* is owed and was neither delivered nor buffered.                         *)
THEOREM NothingIsSkipped == Spec => []NothingBehindSerial
<1>1. IndInv => NothingBehindSerial
  BY DEF IndInv, Intact, CompleteInv, NothingBehindSerial
<1> QED
  BY <1>1, Invariance, PTL

(* Whoever is beyond all delivered facts is beyond the position. *)
LEMMA PositionFacts ==
  ASSUME Typed, OrderInv
  PROVE  /\ Feed!Position \in Nat /\ from <= Feed!Position
         /\ \A i \in 1 .. Len(delivered) : delivered[i] <= Feed!Position
         /\ \/ Feed!Position = from
            \/ \E i \in 1 .. Len(delivered) : Feed!Position = delivered[i]
<1>1. CASE delivered = <<>>
  <2>1. Len(delivered) = 0 /\ \A i \in 1 .. 0 : FALSE
    BY <1>1
  <2> QED
    BY <1>1, <2>1, DataFacts DEF Feed!Position
<1>2. CASE delivered # <<>>
  <2>1. Feed!Position = delivered[Len(delivered)]
    BY <1>2 DEF Feed!Position
  <2>2. Len(delivered) \in 1 .. Len(delivered)
    BY <1>2, DataFacts, EmptyFacts
  <2>3. ASSUME NEW i \in 1 .. Len(delivered)
        PROVE  delivered[i] <= delivered[Len(delivered)]
    <3>1. i < Len(delivered) \/ i = Len(delivered)
      BY DataFacts
    <3>2. delivered[i] \in Nat /\ delivered[Len(delivered)] \in Nat
      BY <2>2, DataFacts
    <3>3. i < Len(delivered) => delivered[i] < delivered[Len(delivered)]
      BY <2>2 DEF OrderInv, DeliveredAscending
    <3> QED
      BY <3>1, <3>2, <3>3
  <2>4. delivered[Len(delivered)] \in Nat /\ from < delivered[Len(delivered)]
    BY <2>2, DataFacts DEF OrderInv
  <2> QED
    BY <2>1, <2>2, <2>3, <2>4, DataFacts
<1> QED
  BY <1>1, <1>2

(* The next owed fact goes to the observer. *)
LEMMA DeliverNext ==
  ASSUME Typed, OrderInv, ~closed, UNCHANGED <<log, from, failures>>, NEW r \in Owed,
         NotifyElement(r),
         \A i \in 1 .. Len(delivered) : delivered[i] < r.ser,
         failures.transform > 0 \/ \A q \in Owed : q.ser < r.ser => IsDelivered(q.ser)
  PROVE  Feed!Deliver
<1>1. r \in log /\ r.key \in Wanted /\ from < r.ser /\ r.ser \in Nat
  BY DataFacts DEF Owed
<1>2. Feed!IsDue(r)
  BY <1>1, PositionFacts DEF Feed!IsDue
<1>3. ASSUME ~(failures.transform > 0), NEW q \in log, Feed!IsDue(q) PROVE r.ser <= q.ser
  <2>1. q.ser \in Nat /\ Feed!Position < q.ser /\ q.key \in Wanted
    BY <1>3, DataFacts, PositionFacts DEF Feed!IsDue
  <2>2. q \in Owed
    BY <2>1, DataFacts, PositionFacts DEF Owed
  <2>3. ~IsDelivered(q.ser)
    <3>1. \A i \in 1 .. Len(delivered) : delivered[i] \in Nat /\ delivered[i] <= Feed!Position
      BY DataFacts, PositionFacts
    <3>2. Feed!Position \in Nat
      BY PositionFacts
    <3> QED
      BY <2>1, <3>1, <3>2 DEF IsDelivered
  <2> QED
    BY <1>1, <1>3, <2>1, <2>2, <2>3
<1>4. delivered' = Append(delivered, r.ser)
  BY DEF NotifyElement
<1> QED
  BY <1>1, <1>2, <1>3, <1>4 DEF Feed!Deliver

(* A row that passes directly: whatever is owed before it was selected     *)
(* with it or is behind the serial.                                        *)
LEMMA DeliverRow ==
  ASSUME IndInv, Typed, [Next]_vars, CatchupRow \/ QueryRow
  PROVE  Feed!Deliver \/ UNCHANGED delivered
<1> SUFFICES ASSUME delivered' # delivered PROVE Feed!Deliver
  OBVIOUS
<1>1. PICK r \in todo : IsOldest(r, todo) /\ Process(r)
  BY DEF CatchupRow, QueryRow
<1>2. ~closed /\ NotifyElement(r) /\ r.key \in Wanted /\ mode = "direct"
  BY <1>1 DEF Process, NotifyElement, MayPass
<1>3. UNCHANGED <<log, from, failures>>
  BY DEF CatchupRow, QueryRow, OnlyConnect, OnlyQuery
<1>4. OrderInv /\ (failures.transform = 0 => CompleteInv)
  BY <1>2 DEF IndInv, Intact
<1>5. /\ r \in log /\ r.ser \in Nat /\ serial < r.ser /\ serial \in Nat /\ from <= serial
      /\ from \in Nat
  BY <1>4, DataFacts DEF OrderInv
<1>6. r \in Owed
  BY <1>2, <1>5 DEF Owed
<1>7. \A i \in 1 .. Len(delivered) : delivered[i] < r.ser
  BY <1>4, <1>5, DataFacts DEF OrderInv
<1>8. ASSUME failures.transform = 0, NEW q \in Owed, q.ser < r.ser PROVE IsDelivered(q.ser)
  <2>1. ~IsBuffered(q)
    <3>1. Len(buffer) = 0 /\ \A i \in 1 .. 0 : FALSE
      BY <1>2 DEF Typed, PipeType
    <3> QED
      BY <3>1 DEF IsBuffered
  <2>2. q \in log /\ q.ser \in Nat
    BY DataFacts DEF Owed
  <2>3. ~(serial < q.ser)
    <3>1. SUFFICES ASSUME serial < q.ser PROVE FALSE
      OBVIOUS
    <3>2. q \in todo
      BY <1>4, <1>8, <3>1 DEF CompleteInv
    <3> QED
      BY <1>1, <1>5, <1>8, <2>2, <3>2 DEF IsOldest
  <2> QED
    BY <1>4, <1>5, <1>8, <2>1, <2>2, <2>3 DEF CompleteInv
<1>9. failures.transform = 0 \/ failures.transform > 0
  BY BoundsAssumption DEF Typed, FailuresType
<1> QED
  BY <1>2, <1>3, <1>4, <1>6, <1>7, <1>8, <1>9, DeliverNext

(* The first fact of the buffer: whatever is owed before it was delivered. *)
LEMMA DeliverBuffered ==
  ASSUME IndInv, Typed, PassBuffered
  PROVE  Feed!Deliver \/ UNCHANGED delivered
<1> SUFFICES ASSUME delivered' # delivered PROVE Feed!Deliver
  OBVIOUS
<1>1. /\ buffer # <<>> /\ NotifyElement(Head(buffer)) /\ UNCHANGED <<log, from, failures>>
  BY DEF PassBuffered
<1>2. 1 \in 1 .. Len(buffer) /\ Head(buffer) = buffer[1]
  BY <1>1, DataFacts, TailFacts
<1>3. PICK r \in log : r = buffer[1]
  BY <1>2, DataFacts
<1>4. ~closed /\ NotifyElement(r)
  BY <1>1, <1>2, <1>3 DEF NotifyElement
<1>5. OrderInv /\ (failures.transform = 0 => CompleteInv)
  BY <1>4 DEF IndInv, Intact
<1>6. /\ r \in Owed /\ r.ser <= serial /\ r.ser \in Nat /\ serial \in Nat
      /\ \A i \in 1 .. Len(delivered) : delivered[i] < r.ser
  BY <1>2, <1>3, <1>5, DataFacts DEF OrderInv
<1>7. ASSUME failures.transform = 0, NEW q \in Owed, q.ser < r.ser PROVE IsDelivered(q.ser)
  <2>1. q \in log /\ q.ser \in Nat
    BY DataFacts DEF Owed
  <2>2. ~IsBuffered(q)
    <3>1. SUFFICES ASSUME NEW j \in 1 .. Len(buffer), buffer[j] = q PROVE FALSE
      BY DEF IsBuffered
    <3>2. j = 1 \/ 1 < j
      BY DataFacts
    <3>3. 1 < j => buffer[1].ser < buffer[j].ser
      BY <1>2, <1>5 DEF OrderInv
    <3> QED
      BY <1>3, <1>6, <1>7, <2>1, <3>1, <3>2, <3>3
  <2> QED
    BY <1>5, <1>6, <1>7, <2>1, <2>2 DEF CompleteInv
<1>8. failures.transform = 0 \/ failures.transform > 0
  BY BoundsAssumption DEF Typed, FailuresType
<1> QED
  BY <1>1, <1>4, <1>5, <1>6, <1>7, <1>8, DeliverNext

(* The steps that break the feed. *)
LEMMA BreakAside ==
  ASSUME Typed, [Next]_vars
  PROVE  \/ failures'.transform = failures.transform
         \/ DiscardBuffer /\ UNCHANGED <<log, from>>
<1> USE DEF OnlyConnect, OnlyQuery, OnlyClose, OnlyListenerAndBus
<1> DEFINE Breaks == \/ TransformationFails \/ FlushFailsInCatchup \/ FlushFailsInRow
                     \/ FlushFailsAfterRows
<1>1. CASE Breaks
  BY <1>1 DEF TransformationFails, FlushFailsInCatchup, FlushFailsInRow, FlushFailsAfterRows
<1>2. CASE failures' = [failures EXCEPT !.query = @ + 1]
  BY <1>2 DEF Typed, FailuresType
<1>3. CASE ConnectFails \/ CatchupFails \/ QueryFails
  <2>1. UNCHANGED failures \/ failures' = [failures EXCEPT !.query = @ + 1]
    BY <1>3 DEF ConnectFails, CatchupFails, QueryFails
  <2> QED
    BY <1>2, <2>1
<1>4. CASE ~Breaks /\ ~(ConnectFails \/ CatchupFails \/ QueryFails)
  <2>1. UNCHANGED failures
    BY <1>4 DEF Next, vars, Publish, RefreshTarget, Close, Idle, ListenerStep,
           SetupPostgresListeners, InformSubscribersAboutFreshConnection, ProcessNotification,
           ConnectStep, Connect, ForwardToLatest, StopIfDisconnected, BeginCatchup, RunCatchup,
           CatchupRow, EndCatchupRows, EndCatchup, CatchupFailed, ReadTargetId, FastForward,
           SignalCatchup, Complete, CreateExecutor, RegisterExecutor, CatchupPhase3, BusStep,
           OnEvent, TimerFires, QueryStep, RunTarget, RunQuery, QueryRow, EndQueryRows, EndQuery,
           FlushStep, Transform, PassBuffered, CloseStep, Disconnect, Unregister, CancelExecutor,
           CloseStatement, Fault, ProcessUnparsableNotification, ListenerLosesConnection
  <2> QED
    BY <2>1
<1> QED
  BY <1>1, <1>3, <1>4

(* Every step of the stream is a step of the feed, or none. *)
LEMMA FeedStep ==
  ASSUME IndInv, [Next]_vars
  PROVE  [Feed!Next]_(Feed!vars)
<1>1. Typed /\ Typed'
  BY TypedIsTypeOK, TypesStep DEF IndInv
<1>2. CASE Publish
  <2>1. UNCHANGED <<from, delivered, failures>>
    BY <1>2 DEF Publish
  <2> QED
    BY <1>1, <1>2, <2>1, PublishFacts DEF Feed!Next, Feed!Publish
<1>3. CASE Connect \/ ForwardToLatest
  <2>1. delivered = <<>> /\ UNCHANGED <<log, delivered, failures>>
    BY <1>3 DEF IndInv, EarlyInv, Connect, ForwardToLatest, OnlyConnect
  <2>2. from' \in Nat
    BY <1>1, BoundsAssumption DEF Typed, ConnectType, Sers
  <2> QED
    BY <2>1, <2>2 DEF Feed!Next, Feed!Start
<1>4. CASE DiscardBuffer /\ UNCHANGED <<log, from>>
  <2>1. UNCHANGED delivered /\ failures'.transform > 0
    BY <1>1, <1>4, BoundsAssumption DEF DiscardBuffer, Typed, FailuresType
  <2> QED
    BY <1>4, <2>1 DEF Feed!Next, Feed!Break
<1>5. CASE UNCHANGED <<log, from>> /\ failures'.transform = failures.transform
  <2>1. Feed!Deliver \/ UNCHANGED delivered
    BY <1>1, DeliverRow, DeliverBuffered, FeedAside
  <2> QED
    BY <1>5, <2>1 DEF Feed!Next, Feed!vars
<1> QED
  BY <1>1, <1>2, <1>3, <1>4, <1>5, FeedAside, ConnectAside, BreakAside

(* A subscription implements FactFeed: it delivers exactly the owed facts,  *)
(* each once, in the order of the log and without a gap, and after a failed *)
(* transformation at least owed facts in their order (PgFactStream,         *)
(* PgSynchronizedQuery and the buffer).                                     *)
THEOREM ImplementsFeed == Spec => DeliversInOrder
<1>1. Init => Feed!Init
  BY DEF Init, Log!Init, Feed!Init
<1>2. IndInv /\ [Next]_vars => [Feed!Next]_(Feed!vars)
  BY FeedStep
<1> QED
  BY <1>1, <1>2, Invariance, PTL DEF Spec, DeliversInOrder, Feed!Spec

=============================================================================
