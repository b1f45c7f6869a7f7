----------------------- MODULE ClientSubscriptionProofs -----------------------
(***************************************************************************)
(* Proofs about ClientSubscription, for any number of facts, attempts and  *)
(* failures: the types, exactly-once delivery, the limit on the attempts   *)
(* to reconnect, and what the return of a waiting thread means.            *)
(*                                                                         *)
(* The argument: connections form a chain, and only the thread at its head *)
(* delivers or reconnects, whatever the timers, the user and the threads   *)
(* of older connections do meanwhile.                                      *)
(***************************************************************************)
EXTENDS ClientSubscription, FiniteSetTheorems, TLAPS

(* The thread that may deliver or get the next connection: the user's     *)
(* until there is a connection, then the gRPC thread of the latest one.    *)
ChainHead == IF used = 0 THEN User ELSE Grpc(used)

(* t is on its way to a new connection. *)
Reconnecting(t) ==
  pc[t] \in {"reconnect", "subscribe"} \/ (pc[t] = "detach" /\ retryable[t])

(* Nobody else delivers or reconnects. *)
ChainInv ==
  /\ \A t \in Threads : Reconnecting(t) => t = ChainHead
  /\ \A c \in Connections : pc[Grpc(c)] \in {"idle", "onNext", "position"} => c = used

(* Every connection but the first is owed to a failure of the one before. *)
FailureInv ==
  /\ used <= failures + 1
  /\ \A t \in Threads : Reconnecting(t) => used <= failures

(* The cursor, the position and what was delivered keep in step. *)
PositionInv ==
  /\ \A c \in Connections :
       /\ pc[Grpc(c)] = "onNext" => cursor[c] = Len(delivered) + 1
       /\ pc[Grpc(c)] = "position" => cursor[c] = Len(delivered)
       /\ pc[Grpc(c)] = "idle" /\ ~isClosed => /\ cursor[c] = Len(delivered)
                                               /\ lastPosition = Len(delivered)
  /\ \A t \in Threads :
       /\ Reconnecting(t) /\ ~isClosed => lastPosition = Len(delivered)
       /\ pc[t] = "subscribe" => from[t] = lastPosition

(* Whoever is about to reconnect has found an attempt left, and nobody    *)
(* else can take it.                                                       *)
AttemptInv == \A t \in Threads : pc[t] = "reconnect" => attempts < Attempts

(* A catchup or completion is signalled after the facts it is about. *)
DoneInv ==
  /\ \A c \in Connections : future[c] = "done" /\ ~isClosed => Len(delivered) >= Stored
  /\ waiter = "on" => waitsOn # 0

MonitorInv == monitor = {} \/ \E t \in Threads : monitor = {t}

(* The inductive invariant. *)
IndInv == /\ TypeOK /\ MonitorInv /\ ChainInv /\ FailureInv /\ PositionInv
          /\ AttemptInv /\ DoneInv
          /\ ExactlyOnce /\ AttemptsWithinLimit /\ ReturnMeansDelivered

-----------------------------------------------------------------------------
(* Threads differ from one another. *)
LEMMA ThreadFacts ==
  /\ User \in Threads
  /\ \A c \in Connections : /\ Grpc(c) \in Threads /\ Timer(c) \in Threads
                            /\ Grpc(c) # User /\ Timer(c) # User
  /\ \A c, d \in Connections : Grpc(c) # Timer(d)
  /\ \A c, d \in Connections : Grpc(c) = Grpc(d) => c = d
  /\ \A c, d \in Connections : Timer(c) = Timer(d) => c = d
BY DEF Threads, User, Grpc, Timer

(* The numbers of the connections. *)
LEMMA ConnectionFacts == /\ MaxFailures \in Nat
                         /\ \A c : c \in Connections <=> c \in Nat /\ 1 <= c /\ c <= MaxFailures + 1
BY BoundsAssumption DEF Connections

(* A bound that grows. *)
LEMMA GrowingBound == \A a, b, c \in Nat : a <= b + 1 /\ c >= b => a <= c + 1
OBVIOUS

(* At most one thread is in the monitor. *)
LEMMA OneInMonitor ==
  ASSUME NEW m, m = {} \/ \E t \in Threads : m = {t}
  PROVE  m \subseteq Threads /\ Cardinality(m) <= 1
<1>1. CASE m = {}
  BY <1>1, FS_EmptySet
<1>2. ASSUME NEW t \in Threads, m = {t}
      PROVE  m \subseteq Threads /\ Cardinality(m) <= 1
  <2>1. Cardinality(m) = 1
    BY <1>2, FS_Singleton
  <2> QED
    BY <1>2, <2>1
<1> QED
  BY <1>1, <1>2

(* The initial states. *)
LEMMA InitIndInv == Init => IndInv
<1> SUFFICES ASSUME Init PROVE IndInv
  OBVIOUS
<1>1. MonitorInv
  BY DEF Init, MonitorInv
<1>2. TypeOK
  <2>1. monitor \subseteq Threads /\ Cardinality(monitor) <= 1
    BY <1>1, OneInMonitor DEF MonitorInv
  <2>2. delivered \in Seq(1 .. Facts)
    BY DEF Init
  <2>3. /\ follow \in BOOLEAN /\ isClosed \in BOOLEAN /\ initialized \in BOOLEAN
        /\ current \in 0 .. used /\ used \in 0 .. MaxFailures + 1
        /\ lastPosition \in 0 .. Facts /\ attempts \in Nat
        /\ told \in BOOLEAN /\ waiter = "none" /\ waitsOn \in 0 .. used
        /\ failures \in 0 .. MaxFailures /\ handshakeFailures \in 0 .. MaxHandshakeFailures
    <3>1. /\ follow \in BOOLEAN /\ isClosed = FALSE /\ initialized \in BOOLEAN
          /\ current = 0 /\ used = 0 /\ lastPosition = 0 /\ attempts = 0 /\ told = FALSE
          /\ waiter = "none" /\ waitsOn = 0 /\ failures = 0 /\ handshakeFailures = 0
      BY DEF Init
    <3>2. Facts \in Nat /\ MaxFailures \in Nat /\ MaxHandshakeFailures \in Nat
      BY StreamAssumption, BoundsAssumption
    <3>3. \A k \in Nat : 0 \in 0 .. k
      OBVIOUS
    <3>4. 0 \in 0 .. MaxFailures + 1 /\ 0 \in 0 .. 0
      BY <3>2
    <3> QED
      BY <3>1, <3>2, <3>3, <3>4, Zenon
  <2>4. /\ cursor \in [Connections -> 0 .. Facts] /\ from \in [Threads -> 0 .. Facts]
        /\ subClosed \in [Connections -> BOOLEAN] /\ retryable \in [Threads -> BOOLEAN]
    BY StreamAssumption DEF Init
  <2>5. future \in [Connections -> FutureStates] /\ pc \in [Threads -> Places]
    BY DEF Init, FutureStates, Places
  <2> QED
    BY <2>1, <2>2, <2>3, <2>4, <2>5 DEF TypeOK
<1>3. ChainInv /\ FailureInv /\ PositionInv /\ AttemptInv
  BY ThreadFacts, AttemptsAssumption
     DEF Init, ChainInv, FailureInv, PositionInv, AttemptInv, Reconnecting, ChainHead
<1>4. DoneInv /\ ExactlyOnce /\ AttemptsWithinLimit /\ ReturnMeansDelivered
  BY AttemptsAssumption DEF Init, DoneInv, ExactlyOnce, AttemptsWithinLimit, ReturnMeansDelivered
<1> QED
  BY <1>1, <1>2, <1>3, <1>4 DEF IndInv

(* A step after which the threads it moves neither deliver nor reconnect. *)
Retreat ==
  /\ UNCHANGED <<used, cursor, lastPosition, delivered>>
  /\ isClosed => isClosed'
  /\ failures' >= failures /\ attempts' <= attempts
  /\ \A s \in Threads :
       \/ pc'[s] = pc[s] /\ retryable'[s] = retryable[s] /\ from'[s] = from[s]
       \/ /\ ~Reconnecting(s)'
          /\ \A c \in Connections : s = Grpc(c) => pc'[s] \notin {"idle", "onNext", "position"}

(* It leaves the chain as it is. *)
LEMMA RetreatKeepsChain ==
  ASSUME IndInv, TypeOK', Retreat
  PROVE  ChainInv' /\ FailureInv' /\ PositionInv' /\ AttemptInv' /\ ExactlyOnce'
<1>1. \A s \in Threads : Reconnecting(s)' =>
        pc'[s] = pc[s] /\ from'[s] = from[s] /\ Reconnecting(s)
  BY DEF Retreat, Reconnecting
<1>2. \A c \in Connections : pc'[Grpc(c)] \in {"idle", "onNext", "position"} =>
        pc'[Grpc(c)] = pc[Grpc(c)]
  BY ThreadFacts DEF Retreat
<1>3. /\ used' = used /\ cursor' = cursor /\ lastPosition' = lastPosition
      /\ delivered' = delivered /\ (isClosed => isClosed')
      /\ failures' >= failures /\ attempts' <= attempts
  BY DEF Retreat
<1>4. ChainInv'
  BY <1>1, <1>2, <1>3 DEF IndInv, ChainInv, ChainHead
<1>5. FailureInv'
  <2>1. failures \in Nat /\ failures' \in Nat /\ used \in Nat
    BY ConnectionFacts DEF IndInv, TypeOK
  <2>2. \A k \in Nat : k <= failures => k <= failures'
    BY <2>1, <1>3
  <2>3. used' <= failures' + 1
    <3>1. used <= failures + 1 /\ used' = used /\ failures' >= failures
      BY <1>3 DEF IndInv, FailureInv
    <3> QED
      BY <2>1, <3>1, GrowingBound
  <2> QED
    BY <1>1, <1>3, <2>1, <2>2, <2>3 DEF IndInv, FailureInv
<1>6. PositionInv'
  <2>1. \A c \in Connections :
       /\ pc'[Grpc(c)] = "onNext" => cursor'[c] = Len(delivered') + 1
       /\ pc'[Grpc(c)] = "position" => cursor'[c] = Len(delivered')
       /\ pc'[Grpc(c)] = "idle" /\ ~isClosed' => /\ cursor'[c] = Len(delivered')
                                                 /\ lastPosition' = Len(delivered')
    BY <1>2, <1>3 DEF IndInv, PositionInv
  <2>2. \A t \in Threads :
       /\ Reconnecting(t)' /\ ~isClosed' => lastPosition' = Len(delivered')
       /\ pc'[t] = "subscribe" => from'[t] = lastPosition'
    <3>1. \A t \in Threads : pc'[t] = "subscribe" => Reconnecting(t)'
      BY DEF Reconnecting
    <3> QED
      BY <1>1, <1>3, <3>1 DEF IndInv, PositionInv
  <2> QED
    BY <2>1, <2>2 DEF PositionInv
<1>7. AttemptInv'
  <2>1. \A t \in Threads : pc'[t] = "reconnect" => pc[t] = "reconnect"
    BY <1>1 DEF Reconnecting
  <2> QED
    BY <2>1, <1>3, AttemptsAssumption DEF IndInv, AttemptInv, TypeOK
<1>8. ExactlyOnce'
  BY <1>3 DEF IndInv, ExactlyOnce
<1> QED
  BY <1>4, <1>5, <1>6, <1>7, <1>8
(* A thread that goes somewhere, and subscriptions that are closed. *)
LEMMA GoesType ==
  ASSUME TypeOK, NEW t \in Threads, NEW place \in Places, Goes(t, place)
  PROVE  /\ pc' \in [Threads -> Places]
         /\ pc'[t] = place /\ \A s \in Threads : s # t => pc'[s] = pc[s]
BY DEF Goes, TypeOK

LEMMA CloseType ==
  ASSUME TypeOK, NEW S, Close(S)
  PROVE  /\ subClosed' \in [Connections -> BOOLEAN]
         /\ future' \in [Connections -> FutureStates]
         /\ \A c \in Connections : future'[c] = "done" => future[c] = "done"
BY DEF Close, TypeOK, FutureStates

LEMMA NotifyErrorType ==
  ASSUME TypeOK, NEW c \in Connections, NEW t \in {Grpc(c), Timer(c)},
         NEW retry \in BOOLEAN, NotifyError(c, t, retry)
  PROVE  /\ future' \in [Connections -> FutureStates]
         /\ \A d \in Connections : future'[d] = "done" => future[d] = "done"
         /\ retryable' \in [Threads -> BOOLEAN]
         /\ pc' \in [Threads -> Places]
         /\ pc'[t] = "detach" /\ retryable'[t] = retry
         /\ \A s \in Threads : s # t => retryable'[s] = retryable[s]
         /\ \A s \in Threads \ {t, Timer(c)} : pc'[s] = pc[s]
         /\ t # Timer(c) => pc'[Timer(c)] \in {pc[Timer(c)], "ended"}
<1>0. t \in Threads /\ Timer(c) \in Threads
  BY ThreadFacts
<1>1. FutureOnError(c, retry) \in FutureStates
      /\ (FutureOnError(c, retry) = "done" => future[c] = "done")
  BY DEF FutureOnError, TypeOK, FutureStates
<1>2. /\ future' \in [Connections -> FutureStates]
      /\ \A d \in Connections : future'[d] = "done" => future[d] = "done"
  BY <1>1 DEF NotifyError, TypeOK
<1>3. /\ retryable' \in [Threads -> BOOLEAN] /\ retryable'[t] = retry
      /\ \A s \in Threads : s # t => retryable'[s] = retryable[s]
  BY <1>0 DEF NotifyError, TypeOK
<1>4. /\ pc' \in [Threads -> Places] /\ pc'[t] = "detach"
      /\ \A s \in Threads \ {t, Timer(c)} : pc'[s] = pc[s]
      /\ t # Timer(c) => pc'[Timer(c)] \in {pc[Timer(c)], "ended"}
  BY <1>0 DEF NotifyError, TypeOK, Places
<1> QED
  BY <1>2, <1>3, <1>4
(* A step that signals nothing, delivers nothing and lets nobody return. *)
Calm ==
  /\ UNCHANGED delivered
  /\ isClosed => isClosed'
  /\ attempts' <= attempts
  /\ \A c \in Connections : future'[c] = "done" => future[c] = "done"
  /\ waiter' = "on" => waitsOn' # 0
  /\ waiter' = "returned" => waiter = "returned"

LEMMA CalmKeepsPromises ==
  ASSUME IndInv, TypeOK', Calm
  PROVE  DoneInv' /\ AttemptsWithinLimit' /\ ReturnMeansDelivered'
<1>1. DoneInv' /\ ReturnMeansDelivered'
  BY DEF IndInv, Calm, DoneInv, ReturnMeansDelivered
<1>2. attempts \in Nat /\ attempts' \in Nat /\ attempts' <= attempts /\ attempts <= Attempts
  BY DEF IndInv, TypeOK, Calm, AttemptsWithinLimit
<1>3. Attempts \in Nat
  BY AttemptsAssumption
<1>4. \A a, b, k \in Nat : a <= b /\ b <= k => a <= k
  OBVIOUS
<1>5. attempts' <= Attempts
  BY <1>2, <1>3, <1>4
<1> QED
  BY <1>1, <1>5 DEF AttemptsWithinLimit

LEMMA CalmRetreat ==
  ASSUME IndInv, TypeOK', MonitorInv', Retreat, Calm
  PROVE  IndInv'
BY RetreatKeepsChain, CalmKeepsPromises DEF IndInv

-----------------------------------------------------------------------------
(* The gRPC thread of a connection delivers. *)

LEMMA ReceiveKeeps ==
  ASSUME IndInv, NEW c \in Connections, Receive(c)
  PROVE  IndInv'
<1>1. /\ pc[Grpc(c)] = "idle" /\ cursor[c] < Facts /\ cursor' = [cursor EXCEPT ![c] = @ + 1]
      /\ UNCHANGED <<session, used, subClosed, future, retryable, from, waiting, world>>
      /\ IF isClosed THEN UNCHANGED pc ELSE Goes(Grpc(c), "onNext")
  BY DEF Receive, Open
<1>2. TypeOK /\ Grpc(c) \in Threads /\ Facts \in Nat
  BY ThreadFacts, StreamAssumption DEF IndInv
<1>3. /\ cursor' \in [Connections -> 0 .. Facts]
      /\ cursor'[c] = cursor[c] + 1
      /\ \A d \in Connections : d # c => cursor'[d] = cursor[d]
  BY <1>1, <1>2 DEF TypeOK
<1>4. /\ pc' \in [Threads -> Places]
      /\ \A s \in Threads : s # Grpc(c) => pc'[s] = pc[s]
      /\ isClosed => pc' = pc
      /\ ~isClosed => pc'[Grpc(c)] = "onNext"
  <2>1. CASE isClosed
    BY <1>1, <1>2, <2>1 DEF TypeOK
  <2>2. CASE ~isClosed
    BY <1>1, <1>2, <2>2, GoesType DEF Places
  <2> QED
    BY <2>1, <2>2
<1>5. TypeOK'
  BY <1>1, <1>2, <1>3, <1>4 DEF TypeOK, session, waiting, world
<1>6. MonitorInv'
  BY <1>1 DEF IndInv, MonitorInv, session
<1>7. \A s \in Threads : Reconnecting(s)' <=> Reconnecting(s)
  BY <1>1, <1>2, <1>4 DEF Reconnecting
<1>8. ChainInv'
  <2>1. \A d \in Connections : d # c => pc'[Grpc(d)] = pc[Grpc(d)]
    BY <1>4, ThreadFacts
  <2>2. c = used
    BY <1>1 DEF IndInv, ChainInv
  <2> QED
    BY <1>1, <1>7, <2>1, <2>2 DEF IndInv, ChainInv, ChainHead
<1>9. FailureInv'
  BY <1>1, <1>7 DEF IndInv, FailureInv, world
<1>10. PositionInv'
  <2>1. ASSUME NEW d \in Connections
        PROVE  /\ pc'[Grpc(d)] = "onNext" => cursor'[d] = Len(delivered) + 1
               /\ pc'[Grpc(d)] = "position" => cursor'[d] = Len(delivered)
               /\ pc'[Grpc(d)] = "idle" /\ ~isClosed => /\ cursor'[d] = Len(delivered)
                                                        /\ lastPosition = Len(delivered)
    <3>1. CASE d # c
      BY <1>3, <1>4, <3>1, ThreadFacts DEF IndInv, PositionInv
    <3>2. CASE d = c /\ isClosed
      BY <1>1, <1>4, <3>2
    <3>3. CASE d = c /\ ~isClosed
      <4>1. cursor[c] = Len(delivered)
        BY <1>1, <3>3 DEF IndInv, PositionInv
      <4>2. pc'[Grpc(c)] = "onNext"
        BY <1>4, <3>3
      <4> QED
        BY <1>3, <3>3, <4>1, <4>2
    <3> QED
      BY <3>1, <3>2, <3>3
  <2>2. \A t \in Threads :
       /\ Reconnecting(t)' /\ ~isClosed => lastPosition = Len(delivered)
       /\ pc'[t] = "subscribe" => from[t] = lastPosition
    BY <1>4, <1>7, <1>1 DEF IndInv, PositionInv
  <2> QED
    BY <1>1, <2>1, <2>2 DEF PositionInv, session, world
<1>11. AttemptInv'
  BY <1>1, <1>4 DEF IndInv, AttemptInv, session
<1>12. Calm
  BY <1>1, <1>2 DEF Calm, session, world, waiting, IndInv, DoneInv, TypeOK
<1> QED
  BY <1>1, <1>5, <1>6, <1>8, <1>9, <1>10, <1>11, <1>12, CalmKeepsPromises
     DEF IndInv, ExactlyOnce, world
LEMMA OnNextKeeps ==
  ASSUME IndInv, NEW c \in Connections, OnNext(c)
  PROVE  IndInv'
<1>1. /\ pc[Grpc(c)] = "onNext" /\ delivered' = Append(delivered, cursor[c])
      /\ Goes(Grpc(c), "position")
      /\ UNCHANGED <<session, plain, retryable, from, waiting, told, failures,
                     handshakeFailures>>
  BY DEF OnNext
<1>2. TypeOK /\ Grpc(c) \in Threads /\ Facts \in Nat
  BY ThreadFacts, StreamAssumption DEF IndInv
<1>3. cursor[c] = Len(delivered) + 1
  BY <1>1 DEF IndInv, PositionInv
<1>4. cursor[c] \in 1 .. Facts /\ delivered \in Seq(1 .. Facts) /\ Len(delivered) \in Nat
  <2>1. cursor[c] \in 0 .. Facts /\ delivered \in Seq(1 .. Facts)
    BY <1>2 DEF TypeOK
  <2>2. Len(delivered) \in Nat
    BY <2>1
  <2> QED
    BY <1>2, <1>3, <2>1, <2>2
<1>5. /\ delivered' \in Seq(1 .. Facts)
      /\ Len(delivered') = Len(delivered) + 1
      /\ delivered'[Len(delivered) + 1] = cursor[c]
      /\ \A i \in 1 .. Len(delivered) : delivered'[i] = delivered[i]
  BY <1>1, <1>4
<1>6. /\ pc' \in [Threads -> Places] /\ pc'[Grpc(c)] = "position"
      /\ \A s \in Threads : s # Grpc(c) => pc'[s] = pc[s]
  BY <1>1, <1>2, GoesType DEF Places
<1>7. TypeOK'
  BY <1>1, <1>2, <1>5, <1>6 DEF TypeOK, session, plain, waiting
<1>8. MonitorInv'
  BY <1>1 DEF IndInv, MonitorInv, session
<1>9. \A s \in Threads : Reconnecting(s)' <=> Reconnecting(s)
  BY <1>1, <1>2, <1>6 DEF Reconnecting
<1>10. c = used
  BY <1>1 DEF IndInv, ChainInv
<1>11. used # 0 /\ ChainHead = Grpc(c)
  BY <1>10, ConnectionFacts DEF ChainHead
<1>12. \A d \in Connections : d # c => /\ pc'[Grpc(d)] = pc[Grpc(d)]
                                       /\ pc[Grpc(d)] \notin {"idle", "onNext", "position"}
  <2>1. \A d \in Connections : pc[Grpc(d)] \in {"idle", "onNext", "position"} => d = used
    BY DEF IndInv, ChainInv
  <2> QED
    BY <1>6, <1>10, <2>1, ThreadFacts
<1>13. \A s \in Threads : ~Reconnecting(s)
  <2>1. \A s \in Threads : Reconnecting(s) => s = Grpc(c)
    BY <1>11 DEF IndInv, ChainInv
  <2>2. ~Reconnecting(Grpc(c))
    BY <1>1 DEF Reconnecting
  <2> QED
    BY <2>1, <2>2
<1>14. ChainInv' /\ FailureInv'
  <2>1. used' = used /\ failures' = failures
    BY <1>1 DEF plain
  <2> QED
    BY <1>9, <1>10, <1>12, <1>13, <2>1 DEF IndInv, ChainInv, FailureInv, ChainHead
<1>15. PositionInv'
  <2>1. cursor' = cursor
    BY <1>1 DEF plain
  <2>2. \A d \in Connections :
       /\ pc'[Grpc(d)] = "onNext" => cursor'[d] = Len(delivered') + 1
       /\ pc'[Grpc(d)] = "position" => cursor'[d] = Len(delivered')
       /\ pc'[Grpc(d)] = "idle" /\ ~isClosed' => /\ cursor'[d] = Len(delivered')
                                                 /\ lastPosition' = Len(delivered')
    BY <1>3, <1>5, <1>6, <1>12, <2>1
  <2>3. \A t \in Threads : ~Reconnecting(t)' /\ pc'[t] # "subscribe"
    BY <1>9, <1>13 DEF Reconnecting
  <2> QED
    BY <2>2, <2>3 DEF PositionInv
<1>16. AttemptInv'
  BY <1>1, <1>6 DEF IndInv, AttemptInv, session
<1>17. ExactlyOnce'
  <2>1. \A i \in 1 .. Len(delivered) : delivered[i] = i
    BY DEF IndInv, ExactlyOnce
  <2>2. \A i \in 1 .. Len(delivered') : delivered'[i] = i
    BY <1>3, <1>4, <1>5, <2>1
  <2>3. delivered' = [i \in 1 .. Len(delivered') |-> delivered'[i]]
    BY <1>5
  <2> QED
    BY <2>2, <2>3 DEF ExactlyOnce
<1>18. DoneInv' /\ ReturnMeansDelivered'
  <2>1. /\ isClosed' = isClosed /\ future' = future /\ waiter' = waiter /\ waitsOn' = waitsOn
    BY <1>1 DEF session, plain, waiting
  <2>2. Stored \in Nat
    BY StreamAssumption
  <2>3. Len(delivered) >= Stored => Len(delivered') >= Stored
    BY <1>4, <1>5, <2>2
  <2> QED
    BY <2>1, <2>3 DEF IndInv, DoneInv, ReturnMeansDelivered
<1>19. AttemptsWithinLimit'
  BY <1>1 DEF IndInv, AttemptsWithinLimit, session
<1> QED
  BY <1>7, <1>8, <1>14, <1>15, <1>16, <1>17, <1>18, <1>19 DEF IndInv

LEMMA SetPositionKeeps ==
  ASSUME IndInv, NEW c \in Connections, SetPosition(c)
  PROVE  IndInv'
<1>1. /\ pc[Grpc(c)] = "position" /\ lastPosition' = cursor[c]
      /\ Goes(Grpc(c), "idle")
      /\ UNCHANGED <<follow, isClosed, current, attempts, initialized, monitor, plain,
                     retryable, from, waiting, world>>
  BY DEF SetPosition
<1>2. TypeOK /\ Grpc(c) \in Threads
  BY ThreadFacts DEF IndInv
<1>3. /\ pc' \in [Threads -> Places] /\ pc'[Grpc(c)] = "idle"
      /\ \A s \in Threads : s # Grpc(c) => pc'[s] = pc[s]
  BY <1>1, <1>2, GoesType DEF Places
<1>4. TypeOK'
  BY <1>1, <1>2, <1>3 DEF TypeOK, plain, waiting, world
<1>5. MonitorInv'
  BY <1>1 DEF IndInv, MonitorInv
<1>6. \A s \in Threads : Reconnecting(s)' <=> Reconnecting(s)
  BY <1>1, <1>2, <1>3 DEF Reconnecting
<1>7. c = used /\ cursor[c] = Len(delivered)
  BY <1>1 DEF IndInv, ChainInv, PositionInv
<1>8. used # 0 /\ ChainHead = Grpc(c)
  BY <1>7, ConnectionFacts DEF ChainHead
<1>9. \A d \in Connections : d # c => /\ pc'[Grpc(d)] = pc[Grpc(d)]
                                      /\ pc[Grpc(d)] \notin {"idle", "onNext", "position"}
  <2>1. \A d \in Connections : pc[Grpc(d)] \in {"idle", "onNext", "position"} => d = used
    BY DEF IndInv, ChainInv
  <2> QED
    BY <1>3, <1>7, <2>1, ThreadFacts
<1>10. \A s \in Threads : ~Reconnecting(s)
  <2>1. \A s \in Threads : Reconnecting(s) => s = Grpc(c)
    BY <1>8 DEF IndInv, ChainInv
  <2>2. ~Reconnecting(Grpc(c))
    BY <1>1 DEF Reconnecting
  <2> QED
    BY <2>1, <2>2
<1>11. ChainInv' /\ FailureInv'
  <2>1. used' = used /\ failures' = failures
    BY <1>1 DEF plain, world
  <2> QED
    BY <1>6, <1>7, <1>9, <1>10, <2>1 DEF IndInv, ChainInv, FailureInv, ChainHead
<1>12. PositionInv'
  <2>1. cursor' = cursor /\ delivered' = delivered
    BY <1>1 DEF plain, world
  <2>2. \A d \in Connections :
       /\ pc'[Grpc(d)] = "onNext" => cursor'[d] = Len(delivered') + 1
       /\ pc'[Grpc(d)] = "position" => cursor'[d] = Len(delivered')
       /\ pc'[Grpc(d)] = "idle" /\ ~isClosed' => /\ cursor'[d] = Len(delivered')
                                                 /\ lastPosition' = Len(delivered')
    BY <1>1, <1>3, <1>7, <1>9, <2>1
  <2>3. \A t \in Threads : ~Reconnecting(t)' /\ pc'[t] # "subscribe"
    BY <1>6, <1>10 DEF Reconnecting
  <2> QED
    BY <2>2, <2>3 DEF PositionInv
<1>13. AttemptInv'
  BY <1>1, <1>3 DEF IndInv, AttemptInv
<1>14. Calm
  BY <1>1, <1>2 DEF Calm, plain, world, waiting, IndInv, DoneInv, TypeOK
<1> QED
  BY <1>1, <1>4, <1>5, <1>11, <1>12, <1>13, <1>14, CalmKeepsPromises
     DEF IndInv, ExactlyOnce, world

LEMMA SignalKeeps ==
  ASSUME IndInv, NEW c \in Connections, Signal(c)
  PROVE  IndInv'
<1>1. /\ pc[Grpc(c)] = "idle" /\ cursor[c] >= Stored
      /\ future' = [future EXCEPT ![c] = "done"]
      /\ IF follow THEN UNCHANGED <<subClosed, pc>>
                   ELSE /\ subClosed' = [subClosed EXCEPT ![c] = TRUE]
                        /\ Goes(Grpc(c), "ended")
      /\ UNCHANGED <<session, used, cursor, retryable, from, waiting, world>>
  BY DEF Signal, Open
<1>2. TypeOK /\ Grpc(c) \in Threads
  BY ThreadFacts DEF IndInv
<1>3. /\ pc' \in [Threads -> Places] /\ subClosed' \in [Connections -> BOOLEAN]
      /\ pc'[Grpc(c)] \in {pc[Grpc(c)], "ended"}
      /\ \A s \in Threads : s # Grpc(c) => pc'[s] = pc[s]
  <2>1. CASE follow
    BY <1>1, <1>2, <2>1 DEF TypeOK
  <2>2. CASE ~follow
    <3>1. Goes(Grpc(c), "ended") /\ subClosed' = [subClosed EXCEPT ![c] = TRUE]
      BY <1>1, <2>2
    <3> QED
      BY <1>2, <3>1, GoesType DEF Places, TypeOK
  <2> QED
    BY <2>1, <2>2
<1>4. future' \in [Connections -> FutureStates]
  BY <1>1, <1>2 DEF TypeOK, FutureStates
<1>5. TypeOK'
  BY <1>1, <1>2, <1>3, <1>4 DEF TypeOK, session, waiting, world
<1>6. MonitorInv'
  BY <1>1 DEF IndInv, MonitorInv, session
<1>7. Retreat
  <2>1. ASSUME NEW s \in Threads
        PROVE  \/ pc'[s] = pc[s] /\ retryable'[s] = retryable[s] /\ from'[s] = from[s]
               \/ /\ ~Reconnecting(s)'
                  /\ \A d \in Connections : s = Grpc(d) =>
                       pc'[s] \notin {"idle", "onNext", "position"}
    BY <1>1, <1>3 DEF Reconnecting
  <2>2. /\ failures' >= failures /\ attempts' <= attempts
    BY <1>1, <1>2, BoundsAssumption DEF TypeOK, session, world
  <2> QED
    BY <1>1, <2>1, <2>2 DEF Retreat, session, world
<1>8. DoneInv' /\ ReturnMeansDelivered' /\ AttemptsWithinLimit'
  <2>1. /\ isClosed' = isClosed /\ waiter' = waiter /\ waitsOn' = waitsOn
        /\ delivered' = delivered /\ attempts' = attempts
    BY <1>1 DEF session, world, waiting
  <2>2. ~isClosed => Len(delivered) >= Stored
    BY <1>1 DEF IndInv, PositionInv
  <2>3. \A d \in Connections : d # c => future'[d] = future[d]
    BY <1>1, <1>2 DEF TypeOK
  <2> QED
    BY <2>1, <2>2, <2>3 DEF IndInv, DoneInv, ReturnMeansDelivered, AttemptsWithinLimit
<1> QED
  BY <1>5, <1>6, <1>7, <1>8, RetreatKeepsChain DEF IndInv
(* While the thread of connection c waits for facts or delivers one, it is *)
(* the head of the chain and nobody reconnects.                            *)
LEMMA HeadDelivers ==
  ASSUME IndInv, NEW c \in Connections, pc[Grpc(c)] \in {"idle", "onNext", "position"}
  PROVE  /\ c = used /\ ChainHead = Grpc(c)
         /\ \A s \in Threads : ~Reconnecting(s)
         /\ \A d \in Connections : d # c => pc[Grpc(d)] \notin {"idle", "onNext", "position"}
<1>1. \A d \in Connections : pc[Grpc(d)] \in {"idle", "onNext", "position"} => d = used
  BY DEF IndInv, ChainInv
<1>2. c = used /\ c # 0
  BY <1>1, ConnectionFacts
<1>3. ChainHead = Grpc(c)
  BY <1>2 DEF ChainHead
<1>4. \A s \in Threads : Reconnecting(s) => s = Grpc(c)
  BY <1>3 DEF IndInv, ChainInv
<1>5. ~Reconnecting(Grpc(c))
  BY DEF Reconnecting
<1> QED
  BY <1>1, <1>2, <1>3, <1>4, <1>5

(* The gRPC thread of connection c reports an error. *)
LEMMA BreakOffKeeps ==
  ASSUME IndInv, NEW c \in Connections, BreakOff(c)
  PROVE  IndInv'
<1>1. PICK retry \in BOOLEAN :
        /\ pc[Grpc(c)] = "idle" \/ (pc[Grpc(c)] = "position" /\ ~retry)
        /\ NotifyError(c, Grpc(c), retry)
  BY DEF BreakOff
<1>2. failures < MaxFailures /\ failures' = failures + 1
  BY DEF BreakOff
<1>3. /\ UNCHANGED <<session, used, cursor, subClosed, from, waiting, delivered, told,
                     handshakeFailures>>
      /\ TypeOK /\ Grpc(c) \in Threads
  BY <1>1, ThreadFacts DEF NotifyError, IndInv
<1>4. /\ future' \in [Connections -> FutureStates]
      /\ \A d \in Connections : future'[d] = "done" => future[d] = "done"
      /\ retryable' \in [Threads -> BOOLEAN] /\ pc' \in [Threads -> Places]
      /\ pc'[Grpc(c)] = "detach" /\ retryable'[Grpc(c)] = retry
      /\ \A s \in Threads : s # Grpc(c) =>
           /\ retryable'[s] = retryable[s] /\ pc'[s] \in {pc[s], "ended"}
  <2>1. /\ future' \in [Connections -> FutureStates]
        /\ \A d \in Connections : future'[d] = "done" => future[d] = "done"
        /\ retryable' \in [Threads -> BOOLEAN]
        /\ pc' \in [Threads -> Places]
        /\ pc'[Grpc(c)] = "detach" /\ retryable'[Grpc(c)] = retry
        /\ \A s \in Threads : s # Grpc(c) => retryable'[s] = retryable[s]
        /\ \A s \in Threads \ {Grpc(c), Timer(c)} : pc'[s] = pc[s]
        /\ Grpc(c) # Timer(c) => pc'[Timer(c)] \in {pc[Timer(c)], "ended"}
    BY <1>1, <1>3, NotifyErrorType
  <2> QED
    BY <2>1, ThreadFacts
<1>5. failures \in Nat /\ failures' \in 0 .. MaxFailures
  BY <1>2, <1>3, BoundsAssumption DEF TypeOK
<1>6. TypeOK'
  BY <1>3, <1>4, <1>5 DEF TypeOK, session, waiting
<1>7. MonitorInv'
  BY <1>3 DEF IndInv, MonitorInv, session
<1>8. /\ c = used /\ ChainHead = Grpc(c)
      /\ \A s \in Threads : ~Reconnecting(s)
      /\ \A d \in Connections : d # c => pc[Grpc(d)] \notin {"idle", "onNext", "position"}
  BY <1>1, HeadDelivers
<1>9. \A d \in Connections : pc'[Grpc(d)] \notin {"idle", "onNext", "position"}
  <2>1. \A d \in Connections : d # c =>
          Grpc(d) \in Threads /\ Grpc(d) # Grpc(c) /\ pc'[Grpc(d)] \in {pc[Grpc(d)], "ended"}
    BY <1>4, ThreadFacts
  <2> QED
    BY <1>4, <1>8, <2>1
<1>10. \A s \in Threads : /\ Reconnecting(s)' => s = Grpc(c) /\ retry
                          /\ pc'[s] \notin {"reconnect", "subscribe"}
  BY <1>4, <1>8 DEF Reconnecting
<1>11. ChainInv' /\ AttemptInv'
  <2>1. used' = used
    BY <1>3
  <2> QED
    BY <1>8, <1>9, <1>10, <2>1 DEF ChainInv, AttemptInv, ChainHead
<1>12. FailureInv'
  <2>1. used <= failures + 1 /\ used' = used /\ used \in Nat
    BY <1>3, ConnectionFacts DEF IndInv, FailureInv, TypeOK
  <2>2. \A a, b \in Nat : a <= b + 1 => a <= (b + 1) + 1
    OBVIOUS
  <2>3. used' <= failures' /\ used' <= failures' + 1
    BY <1>2, <1>5, <2>1, <2>2
  <2> QED
    BY <2>3 DEF FailureInv
<1>13. PositionInv'
  <2>1. ASSUME NEW s \in Threads, Reconnecting(s)', ~isClosed'
        PROVE  lastPosition' = Len(delivered')
    <3>1. retry /\ pc[Grpc(c)] = "idle" /\ ~isClosed
      BY <1>1, <1>3, <1>10, <2>1 DEF session
    <3>2. lastPosition = Len(delivered)
      BY <3>1 DEF IndInv, PositionInv
    <3> QED
      BY <1>3, <3>2 DEF session
  <2> QED
    BY <1>9, <1>10, <2>1 DEF PositionInv
<1>14. Calm
  BY <1>3, <1>4 DEF Calm, session, waiting, IndInv, DoneInv, TypeOK
<1> QED
  BY <1>3, <1>6, <1>7, <1>11, <1>12, <1>13, <1>14, CalmKeepsPromises
     DEF IndInv, ExactlyOnce

(* The timer of connection c reports it as stale. *)
LEMMA StaleDetectedKeeps ==
  ASSUME IndInv, NEW c \in Connections, StaleDetected(c)
  PROVE  IndInv'
<1>1. /\ failures < MaxFailures /\ failures' = failures + 1
      /\ NotifyError(c, Timer(c), FALSE)
  BY DEF StaleDetected, StaleIsRetryable
<1>2. /\ UNCHANGED <<session, used, cursor, subClosed, from, waiting, delivered, told,
                     handshakeFailures>>
      /\ TypeOK /\ Timer(c) \in Threads
  BY <1>1, ThreadFacts DEF NotifyError, IndInv
<1>3. /\ future' \in [Connections -> FutureStates]
      /\ \A d \in Connections : future'[d] = "done" => future[d] = "done"
      /\ retryable' \in [Threads -> BOOLEAN] /\ pc' \in [Threads -> Places]
      /\ pc'[Timer(c)] = "detach" /\ retryable'[Timer(c)] = FALSE
      /\ \A s \in Threads : s # Timer(c) => retryable'[s] = retryable[s] /\ pc'[s] = pc[s]
  BY <1>1, <1>2, NotifyErrorType
<1>4. failures \in Nat /\ failures' \in 0 .. MaxFailures
  BY <1>1, <1>2, BoundsAssumption DEF TypeOK
<1>5. TypeOK'
  BY <1>2, <1>3, <1>4 DEF TypeOK, session, waiting
<1>6. MonitorInv'
  BY <1>2 DEF IndInv, MonitorInv, session
<1>7. Retreat
  <2>1. ~Reconnecting(Timer(c))'
    BY <1>3 DEF Reconnecting
  <2>2. failures' >= failures /\ attempts' <= attempts
    BY <1>1, <1>2, <1>4 DEF TypeOK, session
  <2> QED
    BY <1>2, <1>3, <2>1, <2>2, ThreadFacts DEF Retreat, session
<1>8. Calm
  BY <1>2, <1>3 DEF Calm, session, waiting, IndInv, DoneInv, TypeOK
<1> QED
  BY <1>5, <1>6, <1>7, <1>8, CalmRetreat
-----------------------------------------------------------------------------
(* The steps of a thread that reports an error or gets a connection.       *)

(* A thread goes where it neither delivers nor reconnects. *)
LEMMA GoingIsRetreat ==
  ASSUME IndInv, NEW t \in Threads, NEW place \in Places, Goes(t, place),
         \/ place \in {"set", "ended", "fail", "failDetach", "tell", "closing"}
         \/ t = User /\ place = "idle",
         UNCHANGED <<used, cursor, lastPosition, delivered>>,
         isClosed => isClosed', failures' >= failures, attempts' <= attempts,
         \A s \in Threads : s # t => retryable'[s] = retryable[s] /\ from'[s] = from[s]
  PROVE  Retreat
<1>1. /\ pc'[t] = place /\ \A s \in Threads : s # t => pc'[s] = pc[s]
  BY GoesType DEF IndInv
<1>2. ~Reconnecting(t)'
  BY <1>1 DEF Reconnecting
<1>3. \A c \in Connections : t = Grpc(c) => pc'[t] \notin {"idle", "onNext", "position"}
  BY <1>1, ThreadFacts
<1> QED
  BY <1>1, <1>2, <1>3 DEF Retreat

LEMMA DetachKeeps ==
  ASSUME IndInv, NEW t \in Threads, Detach(t)
  PROVE  IndInv'
<1>1. /\ pc[t] = "detach" /\ Close({current}) /\ current' = 0 /\ initialized' = FALSE
      /\ Goes(t, IF retryable[t] /\ AttemptsLeft THEN "reconnect" ELSE "fail")
      /\ retryable' = [retryable EXCEPT ![t] = FALSE]
      /\ UNCHANGED <<follow, isClosed, lastPosition, attempts, monitor, used, cursor,
                     from, waiting, world>>
  BY DEF Detach
<1>2. TypeOK
  BY DEF IndInv
<1>3. /\ subClosed' \in [Connections -> BOOLEAN]
      /\ future' \in [Connections -> FutureStates]
      /\ \A c \in Connections : future'[c] = "done" => future[c] = "done"
  BY <1>1, <1>2, CloseType
<1>4. /\ retryable' \in [Threads -> BOOLEAN]
      /\ \A s \in Threads : s # t => retryable'[s] = retryable[s]
  BY <1>1, <1>2 DEF TypeOK
<1>5. pc' \in [Threads -> Places]
  BY <1>1, <1>2, GoesType DEF Places
<1>6. current' \in 0 .. used'
  BY <1>1, <1>2, ConnectionFacts DEF TypeOK
<1>7. TypeOK'
  BY <1>1, <1>2, <1>3, <1>4, <1>5, <1>6 DEF TypeOK, waiting, world
<1>8. MonitorInv'
  BY <1>1 DEF IndInv, MonitorInv
<1>9. Calm
  BY <1>1, <1>2, <1>3 DEF Calm, waiting, world, IndInv, DoneInv, TypeOK
<1>10. CASE retryable[t] /\ AttemptsLeft
  <2>1. /\ pc'[t] = "reconnect" /\ \A s \in Threads : s # t => pc'[s] = pc[s]
    BY <1>1, <1>2, <1>10, GoesType DEF Places
  <2>2. Reconnecting(t)
    BY <1>1, <1>10 DEF Reconnecting
  <2>3. \A s \in Threads : Reconnecting(s)' <=> Reconnecting(s)
    BY <1>4, <2>1, <2>2 DEF Reconnecting
  <2>4. \A c \in Connections : pc'[Grpc(c)] = pc[Grpc(c)]
                               \/ pc'[Grpc(c)] \notin {"idle", "onNext", "position"}
    BY <2>1, ThreadFacts
  <2>5. /\ used' = used /\ failures' = failures /\ cursor' = cursor /\ delivered' = delivered
        /\ lastPosition' = lastPosition /\ isClosed' = isClosed /\ from' = from
        /\ attempts' = attempts
    BY <1>1 DEF world
  <2>6. ChainInv' /\ FailureInv'
    BY <2>3, <2>4, <2>5 DEF IndInv, ChainInv, FailureInv, ChainHead
  <2>7. PositionInv'
    <3>1. \A s \in Threads : pc'[s] = "subscribe" => pc[s] = "subscribe"
      BY <2>1
    <3> QED
      BY <2>3, <2>4, <2>5, <3>1 DEF IndInv, PositionInv
  <2>8. AttemptInv'
    BY <1>10, <2>1, <2>5 DEF IndInv, AttemptInv, AttemptsLeft
  <2> QED
    BY <1>7, <1>8, <1>9, <2>5, <2>6, <2>7, <2>8, CalmKeepsPromises DEF IndInv, ExactlyOnce
<1>11. CASE ~(retryable[t] /\ AttemptsLeft)
  <2>1. Goes(t, "fail") /\ "fail" \in Places
    BY <1>1, <1>11 DEF Places
  <2>2. failures' >= failures /\ attempts' <= attempts
    BY <1>1, <1>2, BoundsAssumption DEF TypeOK, world
  <2>3. Retreat
    BY <1>1, <1>4, <2>1, <2>2, GoingIsRetreat DEF world
  <2> QED
    BY <1>7, <1>8, <1>9, <2>3, CalmRetreat
<1> QED
  BY <1>10, <1>11

LEMMA EnterConnectKeeps ==
  ASSUME IndInv, NEW t \in Threads, EnterConnect(t)
  PROVE  IndInv'
<1>1. /\ pc[t] = "reconnect" /\ monitor = {} /\ monitor' = monitor \cup {t}
      /\ initialized' = TRUE /\ attempts' = attempts + 1
      /\ from' = [from EXCEPT ![t] = lastPosition]
      /\ Goes(t, "subscribe")
      /\ UNCHANGED <<follow, isClosed, current, lastPosition, plain, retryable, waiting, world>>
  BY DEF EnterConnect, MonitorIsFree, StartAfter
<1>2. TypeOK
  BY DEF IndInv
<1>3. MonitorInv' /\ monitor' = {t}
  BY <1>1 DEF MonitorInv
<1>4. monitor' \subseteq Threads /\ Cardinality(monitor') <= 1
  BY <1>3, OneInMonitor
<1>5. /\ pc' \in [Threads -> Places] /\ pc'[t] = "subscribe"
      /\ \A s \in Threads : s # t => pc'[s] = pc[s]
  BY <1>1, <1>2, GoesType DEF Places
<1>6. attempts \in Nat /\ attempts' \in Nat /\ attempts < Attempts /\ Attempts \in Nat
  BY <1>1, <1>2, AttemptsAssumption DEF TypeOK, IndInv, AttemptInv
<1>7. /\ from' \in [Threads -> 0 .. Facts] /\ from'[t] = lastPosition
      /\ \A s \in Threads : s # t => from'[s] = from[s]
  BY <1>1, <1>2 DEF TypeOK
<1>8. TypeOK'
  BY <1>1, <1>2, <1>4, <1>5, <1>6, <1>7 DEF TypeOK, plain, waiting, world
<1>9. \A s \in Threads : Reconnecting(s)' <=> Reconnecting(s)
  BY <1>1, <1>5 DEF Reconnecting
<1>10. \A c \in Connections : \/ pc'[Grpc(c)] = pc[Grpc(c)]
                              \/ pc'[Grpc(c)] \notin {"idle", "onNext", "position"}
  BY <1>5, ThreadFacts
<1>11. /\ used' = used /\ failures' = failures /\ cursor' = cursor /\ delivered' = delivered
       /\ lastPosition' = lastPosition /\ isClosed' = isClosed /\ future' = future
       /\ waiter' = waiter /\ waitsOn' = waitsOn
  BY <1>1 DEF plain, waiting, world
<1>12. ChainInv' /\ FailureInv'
  BY <1>9, <1>10, <1>11 DEF IndInv, ChainInv, FailureInv, ChainHead
<1>13. PositionInv'
  BY <1>5, <1>7, <1>9, <1>10, <1>11 DEF IndInv, PositionInv
<1>14. AttemptInv'
  <2>1. \A s \in Threads : Reconnecting(s) => s = t
    <3>1. Reconnecting(t)
      BY <1>1 DEF Reconnecting
    <3> QED
      BY <3>1 DEF IndInv, ChainInv
  <2>2. \A s \in Threads : pc'[s] # "reconnect"
    BY <1>5, <2>1 DEF Reconnecting
  <2> QED
    BY <2>2 DEF AttemptInv
<1>15. AttemptsWithinLimit'
  <2>1. \A a, b \in Nat : a < b => a + 1 <= b
    OBVIOUS
  <2> QED
    BY <1>1, <1>6, <2>1 DEF AttemptsWithinLimit
<1>16. DoneInv' /\ ReturnMeansDelivered' /\ ExactlyOnce'
  BY <1>11 DEF IndInv, DoneInv, ReturnMeansDelivered, ExactlyOnce
<1> QED
  BY <1>3, <1>8, <1>12, <1>13, <1>14, <1>15, <1>16 DEF IndInv

LEMMA SubscribeKeeps ==
  ASSUME IndInv, NEW t \in Threads, Subscribe(t)
  PROVE  IndInv'
<1>1. /\ pc[t] = "subscribe" /\ used' = used + 1
      /\ cursor' = [cursor EXCEPT ![used'] = from[t]]
      /\ pc' = [pc EXCEPT ![t] = "set", ![Grpc(used')] = "idle", ![Timer(used')] = "idle"]
      /\ UNCHANGED <<session, subClosed, future, retryable, from, waiting, world>>
  BY DEF Subscribe
<1>2. TypeOK /\ Reconnecting(t)
  BY <1>1 DEF IndInv, Reconnecting
<1>3. used <= failures /\ t = ChainHead
  BY <1>2 DEF IndInv, FailureInv, ChainInv
<1>4. /\ used \in Nat /\ failures \in 0 .. MaxFailures /\ MaxFailures \in Nat
      /\ used' \in Nat /\ used' # used /\ used' # 0
  BY <1>1, <1>2, ConnectionFacts DEF TypeOK
<1>5. used' \in Connections /\ used' <= failures + 1
  <2>1. \A a, b, m \in Nat : a <= b /\ b <= m => a + 1 <= b + 1 /\ a + 1 <= m + 1 /\ 1 <= a + 1
    OBVIOUS
  <2>2. failures \in Nat /\ failures <= MaxFailures
    BY <1>4
  <2> QED
    BY <1>1, <1>3, <1>4, <2>1, <2>2, ConnectionFacts
<1>6. t # Grpc(used') /\ t # Timer(used')
  <2>1. CASE used = 0
    BY <1>3, <1>5, <2>1, ThreadFacts DEF ChainHead
  <2>2. CASE used # 0
    <3>1. used \in Connections
      <4>1. used \in 0 .. MaxFailures + 1
        BY <1>2 DEF TypeOK
      <4>2. \A m \in Nat : \A k \in 0 .. m + 1 : k # 0 => k \in 1 .. m + 1
        OBVIOUS
      <4> QED
        BY <1>4, <2>2, <4>1, <4>2 DEF Connections
    <3> QED
      BY <1>3, <1>4, <1>5, <2>2, <3>1, ThreadFacts DEF ChainHead
  <2> QED
    BY <2>1, <2>2
<1>7. /\ Grpc(used') \in Threads /\ Timer(used') \in Threads /\ Grpc(used') # Timer(used')
  BY <1>5, ThreadFacts
<1>8. /\ pc' \in [Threads -> Places]
      /\ pc'[t] = "set" /\ pc'[Grpc(used')] = "idle" /\ pc'[Timer(used')] = "idle"
      /\ \A s \in Threads \ {t, Grpc(used'), Timer(used')} : pc'[s] = pc[s]
  BY <1>1, <1>2, <1>6, <1>7 DEF TypeOK, Places
<1>9. /\ cursor' \in [Connections -> 0 .. Facts] /\ cursor'[used'] = lastPosition
  BY <1>1, <1>2, <1>5 DEF TypeOK, IndInv, PositionInv
<1>10. TypeOK'
  <2>1. used' \in 0 .. MaxFailures + 1
    BY <1>4, <1>5, ConnectionFacts
  <2>2. current' \in 0 .. used' /\ waitsOn' \in 0 .. used'
    <3>1. current' = current /\ waitsOn' = waitsOn
      BY <1>1 DEF session, waiting
    <3>2. current \in 0 .. used /\ waitsOn \in 0 .. used
      BY <1>2 DEF TypeOK
    <3>3. \A k \in Nat : \A i \in 0 .. k : i \in 0 .. k + 1
      OBVIOUS
    <3> QED
      BY <1>1, <1>4, <3>1, <3>2, <3>3
  <2> QED
    BY <1>1, <1>2, <1>8, <1>9, <2>1, <2>2 DEF TypeOK, session, waiting, world
<1>11. MonitorInv'
  BY <1>1 DEF IndInv, MonitorInv, session
<1>12. \A s \in Threads : ~Reconnecting(s)' /\ pc'[s] \notin {"reconnect", "subscribe"}
  <2>1. \A s \in Threads : s # t => ~Reconnecting(s)
    BY <1>3 DEF IndInv, ChainInv
  <2> QED
    BY <1>1, <1>8, <2>1 DEF Reconnecting
<1>13. \A c \in Connections : c # used' => pc'[Grpc(c)] \notin {"idle", "onNext", "position"}
  <2>1. \A c \in Connections : c # used' => Grpc(c) # Grpc(used') /\ Grpc(c) # Timer(used')
                                            /\ Grpc(c) \in Threads
    BY <1>5, ThreadFacts
  <2>2. ASSUME NEW c \in Connections, pc[Grpc(c)] \in {"idle", "onNext", "position"}
        PROVE  FALSE
    BY <1>2, <2>2, HeadDelivers
  <2> QED
    BY <1>8, <2>1, <2>2
<1>14. /\ failures' = failures /\ delivered' = delivered /\ lastPosition' = lastPosition
       /\ isClosed' = isClosed /\ future' = future /\ attempts' = attempts
       /\ waiter' = waiter /\ waitsOn' = waitsOn
  BY <1>1 DEF session, waiting, world
<1>15. ChainInv' /\ FailureInv' /\ AttemptInv'
  BY <1>5, <1>12, <1>13, <1>14 DEF ChainInv, FailureInv, AttemptInv
<1>16. PositionInv'
  <2>1. ~isClosed => lastPosition = Len(delivered)
    BY <1>2 DEF IndInv, PositionInv
  <2> QED
    BY <1>8, <1>9, <1>12, <1>13, <1>14, <2>1 DEF PositionInv
<1>17. DoneInv' /\ ReturnMeansDelivered' /\ ExactlyOnce' /\ AttemptsWithinLimit'
  BY <1>14 DEF IndInv, DoneInv, ReturnMeansDelivered, ExactlyOnce, AttemptsWithinLimit
<1> QED
  BY <1>10, <1>11, <1>15, <1>16, <1>17 DEF IndInv
(* Every other step of a thread or of the user ends its part in the chain. *)
LEMMA SubscribeFailsKeeps ==
  ASSUME IndInv, NEW t \in Threads, HandshakeFails(t) \/ SubscribeFails(t)
  PROVE  IndInv'
<1>1. TypeOK /\ "ended" \in Places /\ "fail" \in Places
  BY DEF IndInv, Places
<1>2. CASE HandshakeFails(t)
  <2>1. /\ Goes(t, "ended") /\ told' = (told \/ t = User)
        /\ handshakeFailures < MaxHandshakeFailures
        /\ handshakeFailures' = handshakeFailures + 1
        /\ UNCHANGED <<session, plain, retryable, from, waiting, delivered, failures>>
    BY <1>2 DEF HandshakeFails
  <2>2. pc' \in [Threads -> Places]
    BY <1>1, <2>1, GoesType
  <2>3. handshakeFailures' \in 0 .. MaxHandshakeFailures /\ told' \in BOOLEAN
    BY <1>1, <2>1, BoundsAssumption DEF TypeOK
  <2>4. TypeOK'
    BY <1>1, <2>1, <2>2, <2>3 DEF TypeOK, session, plain, waiting
  <2>5. MonitorInv'
    BY <2>1 DEF IndInv, MonitorInv, session
  <2>6. failures' >= failures /\ attempts' <= attempts
    BY <1>1, <2>1, BoundsAssumption DEF TypeOK, session
  <2>7. Retreat
    BY <1>1, <2>1, <2>6, GoingIsRetreat DEF session, plain
  <2>8. Calm
    BY <1>1, <2>1, <2>6 DEF Calm, session, plain, waiting, IndInv, DoneInv
  <2> QED
    BY <2>4, <2>5, <2>7, <2>8, CalmRetreat
<1>3. CASE SubscribeFails(t)
  <2>1. /\ Goes(t, "fail") /\ from' = [from EXCEPT ![t] = 0]
        /\ failures < MaxFailures /\ failures' = failures + 1
        /\ UNCHANGED <<session, plain, retryable, waiting, delivered, told, handshakeFailures>>
    BY <1>3 DEF SubscribeFails
  <2>2. pc' \in [Threads -> Places]
    BY <1>1, <2>1, GoesType
  <2>3. failures' \in 0 .. MaxFailures /\ failures' >= failures
    BY <1>1, <2>1, BoundsAssumption DEF TypeOK
  <2>4. /\ from' \in [Threads -> 0 .. Facts]
        /\ \A s \in Threads : s # t => from'[s] = from[s]
    BY <1>1, <2>1, StreamAssumption DEF TypeOK
  <2>5. TypeOK'
    BY <1>1, <2>1, <2>2, <2>3, <2>4 DEF TypeOK, session, plain, waiting
  <2>6. MonitorInv'
    BY <2>1 DEF IndInv, MonitorInv, session
  <2>7. attempts' <= attempts
    BY <1>1, <2>1 DEF TypeOK, session
  <2>8. Retreat
    BY <1>1, <2>1, <2>3, <2>4, <2>7, GoingIsRetreat DEF session, plain
  <2>9. Calm
    BY <1>1, <2>1, <2>7 DEF Calm, session, plain, waiting, IndInv, DoneInv
  <2> QED
    BY <2>5, <2>6, <2>8, <2>9, CalmRetreat
<1> QED
  BY <1>2, <1>3

(* Leaving the monitor, with or without a new current subscription. *)
LEMMA LeaveConnectKeeps ==
  ASSUME IndInv, NEW t \in Threads, AlreadyConnected(t) \/ SetCurrent(t)
  PROVE  IndInv'
<1>1. TypeOK
  BY DEF IndInv
<1>2. /\ monitor' = monitor \ {t} /\ Goes(t, IF t = User THEN "idle" ELSE "ended")
      /\ Close({t[2]}) /\ from' = [from EXCEPT ![t] = 0]
      /\ UNCHANGED <<follow, isClosed, lastPosition, attempts, initialized, used,
                     cursor, retryable, waitsOn, world>>
      /\ current' \in {current, used}
      /\ waiter' \in {waiter, Awakened}
  BY DEF AlreadyConnected, SetCurrent, LeaveConnect, waiting
<1>3. PICK place \in Places : /\ Goes(t, place)
                              /\ place = "ended" \/ (t = User /\ place = "idle")
  BY <1>2 DEF Places
<1>4. pc' \in [Threads -> Places]
  BY <1>1, <1>3, GoesType
<1>5. /\ subClosed' \in [Connections -> BOOLEAN]
      /\ future' \in [Connections -> FutureStates]
      /\ \A c \in Connections : future'[c] = "done" => future[c] = "done"
  BY <1>1, <1>2, CloseType
<1>6. /\ from' \in [Threads -> 0 .. Facts]
      /\ \A s \in Threads : s # t => from'[s] = from[s]
  BY <1>1, <1>2, StreamAssumption DEF TypeOK
<1>7. MonitorInv'
  BY <1>2 DEF IndInv, MonitorInv
<1>8. monitor' \subseteq Threads /\ Cardinality(monitor') <= 1
  BY <1>7, OneInMonitor DEF MonitorInv
<1>9. current' \in 0 .. used' /\ used \in Nat
  BY <1>1, <1>2, ConnectionFacts DEF TypeOK
<1>10. /\ waiter' \in {"none", "start", "waiting", "woken", "on", "returned", "thrown"}
       /\ waiter' = "on" => waiter = "on"
       /\ waiter' = "returned" => waiter = "returned"
  BY <1>1, <1>2 DEF TypeOK, Awakened
<1>11. TypeOK'
  BY <1>1, <1>2, <1>4, <1>5, <1>6, <1>8, <1>9, <1>10 DEF TypeOK, world
<1>12. failures' >= failures /\ attempts' <= attempts
  BY <1>1, <1>2, BoundsAssumption DEF TypeOK, world
<1>13. Retreat
  BY <1>1, <1>2, <1>3, <1>6, <1>12, GoingIsRetreat DEF world
<1>14. Calm
  BY <1>1, <1>2, <1>5, <1>10, <1>12 DEF Calm, world, IndInv, DoneInv
<1> QED
  BY <1>7, <1>11, <1>13, <1>14, CalmRetreat

LEMMA FailKeeps ==
  ASSUME IndInv, NEW t \in Threads, FailClose(t) \/ FailDetach(t) \/ Tell(t)
  PROVE  IndInv'
<1>1. TypeOK /\ {"failDetach", "tell", "ended"} \subseteq Places
  BY DEF IndInv, Places
<1>2. /\ UNCHANGED <<follow, lastPosition, attempts, initialized, used, cursor, retryable,
                     from, waitsOn, delivered, failures, handshakeFailures>>
      /\ isClosed' \in BOOLEAN /\ (isClosed => isClosed') /\ told' \in BOOLEAN
  BY <1>1 DEF FailClose, FailDetach, Tell, plain, waiting, world, TypeOK
<1>3. PICK place \in {"failDetach", "tell", "ended"} : Goes(t, place)
  BY DEF FailClose, FailDetach, Tell
<1>4. pc' \in [Threads -> Places]
  BY <1>1, <1>3, GoesType
<1>5. /\ subClosed' \in [Connections -> BOOLEAN]
      /\ future' \in [Connections -> FutureStates]
      /\ \A c \in Connections : future'[c] = "done" => future[c] = "done"
  <2>1. CASE FailDetach(t)
    BY <1>1, <2>1, CloseType DEF FailDetach
  <2>2. CASE FailClose(t) \/ Tell(t)
    BY <1>1, <2>2 DEF FailClose, Tell, plain, TypeOK
  <2> QED
    BY <2>1, <2>2
<1>6. monitor' \in {monitor, monitor \ {t}} /\ current' \in {current, 0}
  BY DEF FailClose, FailDetach, Tell
<1>7. MonitorInv'
  BY <1>6 DEF IndInv, MonitorInv
<1>8. monitor' \subseteq Threads /\ Cardinality(monitor') <= 1
  BY <1>7, OneInMonitor DEF MonitorInv
<1>9. current' \in 0 .. used'
  BY <1>1, <1>2, <1>6, ConnectionFacts DEF TypeOK
<1>10. /\ waiter' \in {"none", "start", "waiting", "woken", "on", "returned", "thrown"}
       /\ waiter' = "on" => waiter = "on"
       /\ waiter' = "returned" => waiter = "returned"
  BY <1>1 DEF TypeOK, Awakened, FailClose, FailDetach, Tell, Unblock, waiting
<1>11. TypeOK'
  BY <1>1, <1>2, <1>4, <1>5, <1>8, <1>9, <1>10 DEF TypeOK
<1>12. failures' >= failures /\ attempts' <= attempts
  BY <1>1, <1>2, BoundsAssumption DEF TypeOK
<1>13. Retreat
  BY <1>1, <1>2, <1>3, <1>12, GoingIsRetreat
<1>14. Calm
  BY <1>1, <1>2, <1>5, <1>10, <1>12 DEF Calm, IndInv, DoneInv
<1> QED
  BY <1>7, <1>11, <1>13, <1>14, CalmRetreat

LEMMA UserKeeps ==
  ASSUME IndInv, UserCloses \/ UserDetaches
  PROVE  IndInv'
<1>1. TypeOK /\ {"closing", "ended"} \subseteq Places /\ User \in Threads
  BY ThreadFacts DEF IndInv, Places
<1>2. /\ UNCHANGED <<follow, lastPosition, attempts, initialized, monitor, used, cursor,
                     retryable, from, waiting, world>>
      /\ isClosed' \in BOOLEAN /\ (isClosed => isClosed') /\ current' \in {current, 0}
  BY <1>1 DEF UserCloses, UserDetaches, plain, TypeOK
<1>3. PICK place \in {"closing", "ended"} : Goes(User, place)
  BY DEF UserCloses, UserDetaches
<1>4. pc' \in [Threads -> Places]
  BY <1>1, <1>3, GoesType
<1>5. /\ subClosed' \in [Connections -> BOOLEAN]
      /\ future' \in [Connections -> FutureStates]
      /\ \A c \in Connections : future'[c] = "done" => future[c] = "done"
  <2>1. CASE UserDetaches
    BY <1>1, <2>1, CloseType DEF UserDetaches
  <2>2. CASE UserCloses
    BY <1>1, <2>2 DEF UserCloses, plain, TypeOK
  <2> QED
    BY <2>1, <2>2
<1>6. current' \in 0 .. used'
  BY <1>1, <1>2, ConnectionFacts DEF TypeOK
<1>7. TypeOK'
  BY <1>1, <1>2, <1>4, <1>5, <1>6 DEF TypeOK, waiting, world
<1>8. MonitorInv'
  BY <1>2 DEF IndInv, MonitorInv
<1>9. failures' >= failures /\ attempts' <= attempts
  BY <1>1, <1>2, BoundsAssumption DEF TypeOK, world
<1>10. Retreat
  BY <1>1, <1>2, <1>3, <1>9, GoingIsRetreat DEF world
<1>11. Calm
  BY <1>1, <1>2, <1>5, <1>9 DEF Calm, waiting, world, IndInv, DoneInv
<1> QED
  BY <1>7, <1>8, <1>10, <1>11, CalmRetreat

-----------------------------------------------------------------------------
(* The window passes, and the waiting thread.                              *)

LEMMA WindowKeeps ==
  ASSUME IndInv, WindowPasses
  PROVE  IndInv'
<1>1. /\ attempts > 0 /\ attempts' = 0
      /\ UNCHANGED <<follow, isClosed, current, lastPosition, initialized, monitor, plain,
                     threads, waiting, world>>
  BY DEF WindowPasses
<1>2. TypeOK
  BY DEF IndInv
<1>3. TypeOK'
  BY <1>1, <1>2 DEF TypeOK, plain, threads, waiting, world
<1>4. MonitorInv'
  BY <1>1 DEF IndInv, MonitorInv
<1>5. failures' >= failures /\ attempts' <= attempts
  BY <1>1, <1>2, BoundsAssumption DEF TypeOK, world
<1>6. Retreat
  BY <1>1, <1>5 DEF Retreat, plain, threads, world
<1>7. Calm
  BY <1>1, <1>5 DEF Calm, plain, waiting, world, IndInv, DoneInv
<1> QED
  BY <1>3, <1>4, <1>6, <1>7, CalmRetreat

LEMMA WaiterKeeps ==
  ASSUME IndInv, Await \/ GetAndBlock \/ FutureEnds
  PROVE  IndInv'
<1>1. UNCHANGED <<session, plain, threads, world>>
  BY DEF Await, GetAndBlock, FutureEnds, threads
<1>2. TypeOK
  BY DEF IndInv
<1>3. /\ waiter' \in {"none", "start", "waiting", "woken", "on", "returned", "thrown"}
      /\ waitsOn' \in {waitsOn, current, 0}
      /\ waiter' = "on" => waitsOn' # 0
      /\ waiter' = "returned" => FutureEnds /\ future[waitsOn] = "done"
  BY <1>2 DEF Await, GetAndBlock, FutureEnds
<1>4. waitsOn' \in 0 .. used'
  BY <1>1, <1>2, <1>3, ConnectionFacts DEF TypeOK, plain
<1>5. TypeOK'
  BY <1>1, <1>2, <1>3, <1>4 DEF TypeOK, session, plain, threads, world
<1>6. MonitorInv'
  BY <1>1 DEF IndInv, MonitorInv, session
<1>7. failures' >= failures /\ attempts' <= attempts
  BY <1>1, <1>2, BoundsAssumption DEF TypeOK, session, world
<1>8. Retreat
  BY <1>1, <1>7 DEF Retreat, session, plain, threads, world
<1>9. ReturnMeansDelivered'
  <2>1. SUFFICES ASSUME waiter' = "returned", ~isClosed' PROVE Len(delivered') >= Stored
    BY DEF ReturnMeansDelivered
  <2>2. /\ waiter = "on" /\ future[waitsOn] = "done" /\ ~isClosed
    BY <1>1, <1>3, <2>1 DEF FutureEnds, session
  <2>3. waitsOn \in Connections
    <3>1. waitsOn \in 0 .. used /\ used \in 0 .. MaxFailures + 1 /\ waitsOn # 0
      BY <1>2, <2>2 DEF TypeOK, IndInv, DoneInv
    <3>2. \A m \in Nat : \A k \in 0 .. m + 1 : \A i \in 0 .. k : i # 0 => i \in 1 .. m + 1
      OBVIOUS
    <3> QED
      BY <3>1, <3>2, BoundsAssumption DEF Connections
  <2>4. Len(delivered) >= Stored
    BY <2>2, <2>3 DEF IndInv, DoneInv
  <2> QED
    BY <1>1, <2>4 DEF world
<1>10. DoneInv' /\ AttemptsWithinLimit'
  BY <1>1, <1>3 DEF IndInv, DoneInv, AttemptsWithinLimit, session, plain, world
<1> QED
  BY <1>5, <1>6, <1>8, <1>9, <1>10, RetreatKeepsChain DEF IndInv

-----------------------------------------------------------------------------
(* Every step preserves the invariant. *)
LEMMA NextIndInv == IndInv /\ [Next]_vars => IndInv'
<1>1. ASSUME IndInv, NEW c \in Connections,
             GrpcStep(c) \/ Signal(c) \/ BreakOff(c) \/ StaleDetected(c)
      PROVE  IndInv'
  BY <1>1, ReceiveKeeps, OnNextKeeps, SetPositionKeeps, SignalKeeps, BreakOffKeeps,
     StaleDetectedKeeps DEF GrpcStep
<1>2. ASSUME IndInv, NEW t \in Threads,
             Detach(t) \/ ConnectStep(t) \/ SubscribeStep(t) \/ FailStep(t)
      PROVE  IndInv'
  BY <1>2, DetachKeeps, EnterConnectKeeps, SubscribeKeeps, SubscribeFailsKeeps,
     LeaveConnectKeeps, FailKeeps DEF ConnectStep, SubscribeStep, FailStep
<1>3. ASSUME IndInv, WindowPasses \/ UserCloses \/ UserDetaches \/ Await \/ WaiterStep
      PROVE  IndInv'
  BY <1>3, WindowKeeps, UserKeeps, WaiterKeeps DEF WaiterStep
<1>4. ASSUME IndInv, UNCHANGED vars PROVE IndInv'
  <2>1. UNCHANGED <<session, plain, threads, waiting, world>>
    BY <1>4 DEF vars
  <2>2. /\ TypeOK' /\ MonitorInv'
    BY <1>4, <2>1 DEF IndInv, TypeOK, MonitorInv, session, plain, threads, waiting, world
  <2>3. failures' >= failures /\ attempts' <= attempts
    BY <1>4, <2>1, BoundsAssumption DEF IndInv, TypeOK, session, world
  <2>4. Retreat
    BY <2>1, <2>3 DEF Retreat, session, plain, threads, world
  <2>5. Calm
    BY <1>4, <2>1, <2>3 DEF Calm, IndInv, DoneInv, session, plain, waiting, world
  <2> QED
    BY <1>4, <2>2, <2>4, <2>5, CalmRetreat
<1> QED
  BY <1>1, <1>2, <1>3, <1>4 DEF Next

(* The inductive invariant holds in every state of every behaviour. *)
THEOREM Invariance == Spec => []IndInv
BY InitIndInv, NextIndInv, PTL DEF Spec

(* The variables of ClientSubscription always have their types. *)
THEOREM TypeCorrect == Spec => []TypeOK
<1>1. IndInv => TypeOK
  BY DEF IndInv
<1> QED
  BY <1>1, Invariance, PTL

(* For any number of facts, failures and attempts: the application's       *)
(* observer gets every fact exactly once and in order                      *)
(* (ResilientGrpcSubscription.onNext and doConnect).                       *)
THEOREM DeliveredExactlyOnce == Spec => []ExactlyOnce
<1>1. IndInv => ExactlyOnce
  BY DEF IndInv
<1> QED
  BY <1>1, Invariance, PTL

(* Resilience never registers more attempts in a window than configured,   *)
(* though it counts and registers them in separate critical sections.      *)
THEOREM AttemptsAreLimited == Spec => []AttemptsWithinLimit
<1>1. IndInv => AttemptsWithinLimit
  BY DEF IndInv
<1> QED
  BY <1>1, Invariance, PTL

(* awaitCatchup and awaitComplete return normally only when the observer   *)
(* has got all that was stored, or the subscription was closed.            *)
THEOREM ReturnsAfterDelivery == Spec => []ReturnMeansDelivered
<1>1. IndInv => ReturnMeansDelivered
  BY DEF IndInv
<1> QED
  BY <1>1, Invariance, PTL

-----------------------------------------------------------------------------
(* ClientSubscription keeps SubscriptionContract.                          *)

(* t deals with an error, or replaces a connection that has failed. *)
Mending(t) ==
  \/ pc[t] \in {"detach", "fail", "failDetach", "tell"}
  \/ t # User /\ pc[t] \in {"reconnect", "subscribe", "set"}

(* A future that ends other than by the signal of the server. *)
Spoilt == {"retryable", "fatal", "closed"}

(* Whatever looks like an error has a reason: a failure, or a close. *)
ReasonInv ==
  /\ \A c \in Connections : future[c] \in Spoilt => isClosed \/ failures > 0
  /\ \A t \in Threads : Mending(t) => failures > 0
  /\ pc[User] = "closing" => isClosed

(* A step that invents no error. *)
Reasoned ==
  /\ failures' >= failures
  /\ isClosed => isClosed'
  /\ \A c \in Connections : future'[c] \in Spoilt =>
       future[c] \in Spoilt \/ isClosed' \/ failures' > 0
  /\ \A t \in Threads : Mending(t)' => Mending(t) \/ failures' > 0
  /\ pc'[User] = "closing" => pc[User] = "closing" \/ isClosed'

LEMMA ReasonedKeeps ==
  ASSUME IndInv, IndInv', ReasonInv, Reasoned
  PROVE  ReasonInv'
<1>1. failures \in Nat /\ failures' \in Nat /\ failures' >= failures
  BY BoundsAssumption DEF IndInv, TypeOK, Reasoned
<1>2. failures > 0 => failures' > 0
  BY <1>1
<1> QED
  BY <1>2 DEF ReasonInv, Reasoned

(* The threads that do not go anywhere are not in question. *)
LEMMA GoingIsReasoned ==
  ASSUME IndInv, IndInv', ReasonInv,
         NEW t \in Threads, NEW place \in Places, Goes(t, place),
         Mending(t)' => Mending(t) \/ failures' > 0,
         place = "closing" => isClosed',
         failures' >= failures, isClosed => isClosed',
         \A c \in Connections : future'[c] \in Spoilt =>
           future[c] \in Spoilt \/ isClosed' \/ failures' > 0
  PROVE  ReasonInv'
<1>1. /\ pc'[t] = place /\ \A s \in Threads : s # t => pc'[s] = pc[s]
  BY GoesType DEF IndInv
<1>2. \A s \in Threads : Mending(s)' => Mending(s) \/ failures' > 0
  BY <1>1 DEF Mending
<1>3. pc'[User] = "closing" => pc[User] = "closing" \/ isClosed'
  BY <1>1, ThreadFacts
<1> QED
  BY <1>2, <1>3, ReasonedKeeps DEF Reasoned

LEMMA InitReasonInv == Init => ReasonInv
<1> SUFFICES ASSUME Init PROVE ReasonInv
  OBVIOUS
<1>1. /\ \A c \in Connections : future[c] = "open"
      /\ pc[User] = "reconnect" /\ \A t \in Threads \ {User} : pc[t] = "none"
  BY ThreadFacts DEF Init
<1> QED
  BY <1>1 DEF ReasonInv, Mending, Spoilt

(* The threads of a connection, as long as all is well. *)
LEMMA GrpcReason ==
  ASSUME IndInv, IndInv', ReasonInv, NEW c \in Connections, GrpcStep(c) \/ Signal(c)
  PROVE  ReasonInv'
<1>1. /\ isClosed' = isClosed /\ failures' = failures
      /\ \A d \in Connections : future'[d] \in Spoilt => future[d] \in Spoilt
  BY DEF GrpcStep, Receive, OnNext, SetPosition, Signal, session, plain, world, IndInv, TypeOK,
         Spoilt
<1>2. failures' >= failures
  BY <1>1, BoundsAssumption DEF IndInv, TypeOK
<1>3. Grpc(c) \in Threads /\ Grpc(c) # User
  BY ThreadFacts
<1>4. pc' = pc \/ \E place \in {"onNext", "position", "idle", "ended"} : Goes(Grpc(c), place)
  BY DEF GrpcStep, Receive, OnNext, SetPosition, Signal
<1>5. CASE pc' = pc
  BY <1>1, <1>2, <1>5, ReasonedKeeps DEF Reasoned, Mending
<1>6. ASSUME NEW place \in {"onNext", "position", "idle", "ended"}, Goes(Grpc(c), place)
      PROVE  ReasonInv'
  <2>1. place \in Places
    BY DEF Places
  <2>2. ~Mending(Grpc(c))'
    BY <1>3, <1>6, <2>1, GoesType DEF Mending, IndInv
  <2> QED
    BY <1>1, <1>2, <1>3, <1>6, <2>1, <2>2, GoingIsReasoned
<1> QED
  BY <1>4, <1>5, <1>6

(* A connection that fails, or falls silent. *)
LEMMA FailureReason ==
  ASSUME IndInv, IndInv', ReasonInv, NEW c \in Connections, BreakOff(c) \/ StaleDetected(c)
  PROVE  ReasonInv'
<1>1. PICK t \in {Grpc(c), Timer(c)} : \E retry \in BOOLEAN : NotifyError(c, t, retry)
  BY DEF BreakOff, StaleDetected, StaleIsRetryable
<1>2. failures' = failures + 1
  BY DEF BreakOff, StaleDetected
<1>3. failures' > 0 /\ failures' >= failures
  BY <1>2, BoundsAssumption DEF IndInv, TypeOK
<1>4. isClosed' = isClosed
  BY <1>1 DEF NotifyError, session
<1>5. pc'[User] = pc[User]
  <2>1. User \in Threads \ {t, Timer(c)}
    BY ThreadFacts
  <2> QED
    BY <1>1, <2>1, NotifyErrorType DEF IndInv
<1> QED
  BY <1>3, <1>4, <1>5, ReasonedKeeps DEF Reasoned

(* Closing subscriptions spoils futures, for a reason. *)
LEMMA CloseReason ==
  ASSUME TypeOK, NEW S, Close(S)
  PROVE  \A c \in Connections : future'[c] \in Spoilt => future[c] \in Spoilt \/ c \in S
BY DEF Close, TypeOK, Spoilt

(* An error is dealt with, up to the message to the observer. *)
LEMMA MendingReason ==
  ASSUME IndInv, IndInv', ReasonInv, NEW t \in Threads, Detach(t) \/ FailStep(t)
  PROVE  ReasonInv'
<1>1. Mending(t)
  BY DEF Detach, FailStep, FailClose, FailDetach, Tell, Mending
<1>2. failures > 0 /\ failures' = failures
  BY <1>1 DEF ReasonInv, Detach, FailStep, FailClose, FailDetach, Tell, world
<1>3. failures' > 0 /\ failures' >= failures
  BY <1>2, BoundsAssumption DEF IndInv, TypeOK
<1>4. isClosed => isClosed'
  BY DEF Detach, FailStep, FailClose, FailDetach, Tell
<1>5. PICK place \in {"reconnect", "fail", "tell", "failDetach", "ended"} : Goes(t, place)
  BY DEF Detach, FailStep, FailClose, FailDetach, Tell
<1>6. place \in Places
  BY DEF Places
<1> QED
  BY <1>3, <1>4, <1>5, <1>6, GoingIsReasoned

(* A thread gets a connection, or fails to. *)
LEMMA ConnectReason ==
  ASSUME IndInv, IndInv', ReasonInv, NEW t \in Threads, ConnectStep(t) \/ SubscribeStep(t)
  PROVE  ReasonInv'
<1>1. isClosed' = isClosed /\ failures' >= failures
  <2>1. isClosed' = isClosed
    BY DEF ConnectStep, SubscribeStep, EnterConnect, HandshakeFails, AlreadyConnected,
       Subscribe, SubscribeFails, SetCurrent, session
  <2>2. failures' = failures \/ failures' = failures + 1
    BY DEF ConnectStep, SubscribeStep, EnterConnect, HandshakeFails, AlreadyConnected,
       Subscribe, SubscribeFails, SetCurrent, world
  <2>3. failures \in Nat
    BY BoundsAssumption DEF IndInv, TypeOK
  <2> QED
    BY <2>1, <2>2, <2>3
<1>2. pc[t] \in {"reconnect", "subscribe", "set"}
  BY DEF ConnectStep, SubscribeStep, EnterConnect, HandshakeFails, AlreadyConnected, Subscribe,
     SubscribeFails, SetCurrent
<1>3. t # User => Mending(t)
  BY <1>2 DEF Mending
<1>4. CASE EnterConnect(t) \/ HandshakeFails(t)
  <2>1. PICK place \in {"subscribe", "ended"} : Goes(t, place)
    BY <1>4 DEF EnterConnect, HandshakeFails
  <2>2. place \in Places
    BY DEF Places
  <2>3. future' = future
    BY <1>4 DEF EnterConnect, HandshakeFails, plain
  <2>4. Mending(t)' => Mending(t)
    BY <1>3, <2>1, <2>2, GoesType DEF Mending, IndInv
  <2> QED
    BY <1>1, <2>1, <2>2, <2>3, <2>4, GoingIsReasoned
<1>5. CASE LeaveConnect(t)
  <2>1. PICK place \in {"idle", "ended"} : Goes(t, place)
    BY <1>5 DEF LeaveConnect
  <2>2. place \in Places
    BY DEF Places
  <2>3. ~Mending(t)'
    BY <2>1, <2>2, GoesType DEF Mending, IndInv
  <2>4. CASE t = User
    <3>0. t[2] = 0
      BY <2>4 DEF User
    <3>1. \A c \in Connections : c \notin {t[2]}
      BY <3>0, ConnectionFacts
    <3>2. \A c \in Connections : future'[c] \in Spoilt => future[c] \in Spoilt
      BY <1>5, <3>1, CloseReason DEF LeaveConnect, IndInv
    <3> QED
      BY <1>1, <2>1, <2>2, <2>3, <3>2, GoingIsReasoned
  <2>5. CASE t # User
    <3>1. failures > 0 /\ failures' >= failures
      BY <1>1, <1>3, <2>5 DEF ReasonInv
    <3>2. failures' > 0
      BY <3>1, BoundsAssumption DEF IndInv, TypeOK
    <3> QED
      BY <1>1, <2>1, <2>2, <2>3, <3>2, GoingIsReasoned
  <2> QED
    BY <2>4, <2>5
<1>6. CASE Subscribe(t)
  <2>1. /\ used' = used + 1 /\ future' = future
        /\ pc' = [pc EXCEPT ![t] = "set", ![Grpc(used')] = "idle", ![Timer(used')] = "idle"]
    BY <1>6 DEF Subscribe
  <2>2. used' \in Connections
    <3>1. used \in 0 .. MaxFailures + 1 /\ used' \in 0 .. MaxFailures + 1
      BY DEF IndInv, TypeOK
    <3> QED
      BY <2>1, <3>1, ConnectionFacts
  <2>3. Grpc(used') \in Threads /\ Timer(used') \in Threads /\ User \in Threads
        /\ Grpc(used') # User /\ Timer(used') # User
    BY <2>2, ThreadFacts
  <2>4. \A s \in Threads : pc'[s] = pc[s] \/ pc'[s] = "idle" \/ (s = t /\ pc'[s] = "set")
    BY <2>1, <2>3 DEF IndInv, TypeOK
  <2>5. \A s \in Threads : Mending(s)' => Mending(s)
    BY <1>3, <2>4 DEF Mending
  <2>6. pc'[User] = "closing" => pc[User] = "closing"
    BY <2>3, <2>4
  <2> QED
    BY <1>1, <2>1, <2>5, <2>6, ReasonedKeeps DEF Reasoned
<1>7. CASE SubscribeFails(t)
  <2>1. Goes(t, "fail") /\ "fail" \in Places /\ failures' = failures + 1 /\ future' = future
    BY <1>7 DEF SubscribeFails, Places, plain
  <2>2. failures' > 0
    BY <2>1, BoundsAssumption DEF IndInv, TypeOK
  <2> QED
    BY <1>1, <2>1, <2>2, GoingIsReasoned
<1> QED
  BY <1>4, <1>5, <1>6, <1>7 DEF ConnectStep, SubscribeStep, AlreadyConnected, SetCurrent

(* The user closes, others wait, time passes. *)
LEMMA UserReason ==
  ASSUME IndInv, IndInv', ReasonInv,
         WindowPasses \/ UserCloses \/ UserDetaches \/ Await \/ WaiterStep \/ UNCHANGED vars
  PROVE  ReasonInv'
<1>1. failures' = failures /\ (isClosed => isClosed')
  BY DEF WindowPasses, UserCloses, UserDetaches, Await, WaiterStep, GetAndBlock, FutureEnds,
         session, world, vars
<1>2. failures' >= failures
  BY <1>1, BoundsAssumption DEF IndInv, TypeOK
<1>3. CASE WindowPasses \/ Await \/ WaiterStep \/ UNCHANGED vars
  <2>1. pc' = pc /\ future' = future
    BY <1>3 DEF WindowPasses, Await, WaiterStep, GetAndBlock, FutureEnds, threads, plain, vars
  <2> QED
    BY <1>1, <1>2, <2>1, ReasonedKeeps DEF Reasoned, Mending
<1>4. ASSUME UserCloses \/ UserDetaches PROVE ReasonInv'
  <2>1. isClosed'
    BY <1>4 DEF UserCloses, UserDetaches, ReasonInv
  <2>2. PICK place \in {"closing", "ended"} : Goes(User, place)
    BY <1>4 DEF UserCloses, UserDetaches
  <2>3. place \in Places /\ User \in Threads
    BY ThreadFacts DEF Places
  <2>4. ~Mending(User)'
    BY <2>2, <2>3, GoesType DEF Mending, IndInv
  <2> QED
    BY <1>1, <1>2, <2>1, <2>2, <2>3, <2>4, GoingIsReasoned
<1> QED
  BY <1>3, <1>4

LEMMA NextReasonInv == IndInv /\ IndInv' /\ ReasonInv /\ [Next]_vars => ReasonInv'
BY GrpcReason, FailureReason, MendingReason, ConnectReason, UserReason DEF Next

-----------------------------------------------------------------------------
(* Every step is a step of SubscriptionContract, or none. *)

(* What the contract sees of the thread that waits. *)
Caller == IF waiter \in {"start", "waiting", "woken", "on"} THEN "waiting" ELSE waiter

(* A step of a thread that does not wait itself may wake the one that does. *)
LEMMA WakingIsUnseen == waiter' \in {waiter, Awakened} => Caller' = Caller
BY DEF Awakened, Caller

(* The contract's own variables. *)
LEMMA UnseenStep ==
  ASSUME UNCHANGED <<delivered, told, failures, handshakeFailures, isClosed>>, Caller' = Caller
  PROVE  UNCHANGED Contract!vars
BY DEF Contract!vars, Caller

(* An error, known to the observer or not. *)
LEMMA FailStepOfContract ==
  ASSUME failures' + handshakeFailures' > 0, told' \in {told, TRUE},
         UNCHANGED <<delivered, isClosed>>, Caller' = Caller
  PROVE  Contract!Next
BY DEF Contract!Next, Contract!Fail, Caller

(* A close. *)
LEMMA CloseStepOfContract ==
  ASSUME isClosed', UNCHANGED <<delivered, told, failures, handshakeFailures>>, TypeOK',
         Caller' = Caller
  PROVE  Contract!Next
BY DEF Contract!Next, Contract!Close, Caller, TypeOK

(* The next fact. *)
LEMMA DeliverStepOfContract ==
  ASSUME IndInv, IndInv', NEW c \in Connections, OnNext(c)
  PROVE  Contract!Next
<1>1. /\ delivered' = Append(delivered, cursor[c]) /\ pc[Grpc(c)] = "onNext"
      /\ UNCHANGED <<told, failures, handshakeFailures, isClosed, waiter>>
  BY DEF OnNext, session, waiting
<1>2. cursor[c] = Len(delivered) + 1 /\ cursor[c] \in 0 .. Facts
  BY <1>1 DEF IndInv, PositionInv, TypeOK
<1>3. Len(delivered) \in Nat
  <2>1. delivered \in Seq(1 .. Facts)
    BY DEF IndInv, TypeOK
  <2> QED
    BY <2>1
<1>4. Len(delivered) < Facts
  BY <1>2, <1>3, StreamAssumption
<1> QED
  BY <1>1, <1>2, <1>4 DEF Contract!Next, Contract!Deliver

(* The threads of a connection. *)
LEMMA GrpcContract ==
  ASSUME IndInv, IndInv', NEW c \in Connections,
         GrpcStep(c) \/ Signal(c) \/ BreakOff(c) \/ StaleDetected(c)
  PROVE  [Contract!Next]_Contract!vars
<1>1. CASE OnNext(c)
  BY <1>1, DeliverStepOfContract
<1>2. CASE Receive(c) \/ SetPosition(c) \/ Signal(c)
  <2>1. UNCHANGED <<delivered, told, failures, handshakeFailures, isClosed, waiter>>
    BY <1>2 DEF Receive, SetPosition, Signal, session, waiting, world
  <2> QED
    BY <2>1, UnseenStep DEF Caller
<1>3. CASE BreakOff(c) \/ StaleDetected(c)
  <2>1. /\ UNCHANGED <<delivered, told, handshakeFailures, isClosed, waiter>>
        /\ failures' = failures + 1
    BY <1>3 DEF BreakOff, StaleDetected, NotifyError, session, waiting
  <2>2. failures' + handshakeFailures' > 0
    BY <2>1, BoundsAssumption DEF IndInv, TypeOK
  <2> QED
    BY <2>1, <2>2, FailStepOfContract DEF Caller
<1> QED
  BY <1>1, <1>2, <1>3 DEF GrpcStep

(* The threads that report errors and reconnect. *)
LEMMA ThreadContract ==
  ASSUME IndInv, IndInv', ReasonInv, NEW t \in Threads,
         Detach(t) \/ ConnectStep(t) \/ SubscribeStep(t) \/ FailStep(t)
  PROVE  [Contract!Next]_Contract!vars
<1>1. CASE Detach(t) \/ EnterConnect(t) \/ AlreadyConnected(t) \/ Subscribe(t) \/ SetCurrent(t)
           \/ FailDetach(t)
  <2>1. /\ UNCHANGED <<delivered, told, failures, handshakeFailures, isClosed>>
        /\ waiter' \in {waiter, Awakened}
    BY <1>1 DEF Detach, EnterConnect, AlreadyConnected, Subscribe, SetCurrent, FailDetach,
                session, waiting, world
  <2> QED
    BY <2>1, UnseenStep, WakingIsUnseen
<1>2. CASE HandshakeFails(t) \/ SubscribeFails(t)
  <2>1. /\ UNCHANGED <<delivered, isClosed, waiter>>
        /\ \/ handshakeFailures' = handshakeFailures + 1 /\ failures' = failures
           \/ failures' = failures + 1 /\ handshakeFailures' = handshakeFailures
    BY <1>2 DEF HandshakeFails, SubscribeFails, session, waiting
  <2>2. told' \in {told, TRUE}
    <3>1. told \in BOOLEAN
      BY DEF IndInv, TypeOK
    <3>2. told' = told \/ told' = (told \/ t = User)
      BY <1>2 DEF HandshakeFails, SubscribeFails
    <3>3. CASE t = User
      <4>1. (told \/ t = User) = TRUE
        BY <3>3
      <4> QED
        BY <3>2, <4>1
    <3>4. CASE t # User
      <4>1. (told \/ t = User) = told
        BY <3>1, <3>4
      <4> QED
        BY <3>2, <4>1
    <3> QED
      BY <3>3, <3>4
  <2>3. failures' + handshakeFailures' > 0
    <3>1. failures \in Nat /\ handshakeFailures \in Nat
      BY BoundsAssumption DEF IndInv, TypeOK
    <3> QED
      BY <2>1, <3>1
  <2> QED
    BY <2>1, <2>2, <2>3, FailStepOfContract DEF Caller
<1>3. CASE FailClose(t)
  <2>1. /\ UNCHANGED <<delivered, told, failures, handshakeFailures, waiter>> /\ isClosed'
    BY <1>3 DEF FailClose, waiting, world
  <2> QED
    BY <2>1, CloseStepOfContract DEF Caller, IndInv
<1>4. CASE Tell(t)
  <2>1. /\ UNCHANGED <<delivered, failures, handshakeFailures, isClosed>> /\ told' = TRUE
        /\ waiter' = Awakened /\ pc[t] = "tell"
    BY <1>4 DEF Tell, Unblock
  <2>2. failures' + handshakeFailures' > 0
    <3>1. failures > 0
      BY <2>1 DEF ReasonInv, Mending
    <3> QED
      BY <2>1, <3>1, BoundsAssumption DEF IndInv, TypeOK
  <2> QED
    BY <2>1, <2>2, FailStepOfContract, WakingIsUnseen
<1> QED
  BY <1>1, <1>2, <1>3, <1>4 DEF ConnectStep, SubscribeStep, FailStep

(* The thread that waits. *)
LEMMA WaiterContract ==
  ASSUME IndInv, IndInv', ReasonInv, Await \/ WaiterStep
  PROVE  [Contract!Next]_Contract!vars
<1>1. UNCHANGED <<delivered, told, failures, handshakeFailures, isClosed>>
  BY DEF Await, WaiterStep, GetAndBlock, FutureEnds, session, world
<1>2. CASE Await
  BY <1>1, <1>2 DEF Await, Contract!Next, Contract!Await
<1>3. CASE waiter' \in {"start", "waiting", "on"} /\ WaiterStep
  BY <1>1, <1>3, UnseenStep DEF WaiterStep, GetAndBlock, FutureEnds, Caller
<1>4. CASE waiter' = "thrown" /\ GetAndBlock
  BY <1>1, <1>4 DEF GetAndBlock, Contract!Next, Contract!Throw
<1>5. CASE waiter' = "thrown" /\ FutureEnds
  <2>1. waiter = "on" /\ future[waitsOn] \notin {"open", "done"}
    BY <1>5 DEF FutureEnds
  <2>2. waitsOn \in Connections
    <3>1. waitsOn \in 0 .. used /\ used \in 0 .. MaxFailures + 1 /\ waitsOn # 0
      BY <2>1 DEF IndInv, TypeOK, DoneInv
    <3>2. \A m \in Nat : \A k \in 0 .. m + 1 : \A i \in 0 .. k : i # 0 => i \in 1 .. m + 1
      OBVIOUS
    <3> QED
      BY <3>1, <3>2, BoundsAssumption DEF Connections
  <2>3. future[waitsOn] \in Spoilt
    BY <2>1, <2>2 DEF IndInv, TypeOK, FutureStates, Spoilt
  <2>4. isClosed \/ failures > 0
    BY <2>2, <2>3 DEF ReasonInv
  <2>5. isClosed \/ failures + handshakeFailures > 0
    BY <2>4, BoundsAssumption DEF IndInv, TypeOK
  <2> QED
    BY <1>1, <1>5, <2>1, <2>5 DEF Contract!Next, Contract!Throw
<1>6. CASE waiter' = "returned" /\ FutureEnds
  <2>1. isClosed \/ Len(delivered) >= Stored
    BY <1>1, <1>6 DEF IndInv, ReturnMeansDelivered
  <2> QED
    BY <1>1, <1>6, <2>1 DEF FutureEnds, Contract!Next, Contract!Return
<1> QED
  BY <1>2, <1>3, <1>4, <1>5, <1>6 DEF WaiterStep, GetAndBlock, FutureEnds

(* Every step is one of the contract, or stutters. *)
LEMMA ContractStep ==
  ASSUME IndInv, IndInv', ReasonInv, [Next]_vars
  PROVE  [Contract!Next]_Contract!vars
<1>1. CASE WindowPasses \/ UserDetaches \/ UNCHANGED vars
  <2>1. UNCHANGED <<delivered, told, failures, handshakeFailures, isClosed, waiter>>
    BY <1>1 DEF WindowPasses, UserDetaches, vars, session, waiting, world
  <2> QED
    BY <2>1, UnseenStep DEF Caller
<1>2. CASE UserCloses
  <2>1. /\ UNCHANGED <<delivered, told, failures, handshakeFailures, waiter>> /\ isClosed'
    BY <1>2 DEF UserCloses, waiting, world
  <2> QED
    BY <2>1, CloseStepOfContract DEF Caller, IndInv
<1> QED
  BY <1>1, <1>2, GrpcContract, ThreadContract, WaiterContract DEF Next

(* ResilientGrpcSubscription keeps the promises of SubscriptionContract,   *)
(* however often connections break: to the application its subscription    *)
(* is one that delivers the facts in order, reports errors and ends waits  *)
(* only for a reason.                                                      *)
THEOREM ImplementsContract == Spec => KeepsContract
<1>1. Init => Contract!Init
  <2>1. SUFFICES ASSUME Init PROVE Contract!Init
    OBVIOUS
  <2>2. ~(failures + handshakeFailures > 0)
    BY <2>1 DEF Init
  <2> QED
    BY <2>1, <2>2 DEF Init, Contract!Init
<1>2. Spec => []ReasonInv
  BY InitReasonInv, NextReasonInv, Invariance, PTL DEF Spec
<1> QED
  BY <1>1, <1>2, ContractStep, Invariance, PTL DEF Spec, KeepsContract, Contract!Spec

=============================================================================
