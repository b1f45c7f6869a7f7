------------------------- MODULE ClientSubscription -------------------------
(***************************************************************************)
(* A subscription as a client holds it: ResilientGrpcSubscription keeps    *)
(* one plain subscription (SubscriptionImpl fed by a ClientStreamObserver) *)
(* current and replaces it when its connection breaks.                     *)
(*                                                                         *)
(* Many threads meet here.  The user's thread connects and later closes.   *)
(* Every connection has a gRPC thread, which delivers facts one at a time  *)
(* and, from within its onError callback, reconnects; and a keepalive      *)
(* timer, which may report the same subscription as stale meanwhile.       *)
(* Another thread waits in awaitCatchup or awaitComplete.                  *)
(*                                                                         *)
(* The server is external: on every connection it sends the facts after    *)
(* the requested position in order, and signals once that it has sent all  *)
(* that were stored.                                                       *)
(***************************************************************************)
EXTENDS Naturals, Sequences, FiniteSets

CONSTANTS Facts,                \* the facts of the stream are 1 .. Facts
          Stored,               \* how many of them exist at the start
          Attempts,             \* ResilienceConfiguration.attempts
          MaxFailures,          \* bound: connections that break or fall silent
          MaxHandshakeFailures  \* bound: handshakes that time out

ASSUME StreamAssumption == Facts \in Nat /\ Stored \in 0 .. Facts
ASSUME AttemptsAssumption == Attempts \in Nat \ {0}
ASSUME BoundsAssumption == MaxFailures \in Nat /\ MaxHandshakeFailures \in Nat

Connections == 1 .. MaxFailures + 1

Grpc(c) == <<"grpc", c>>
Timer(c) == <<"timer", c>>
User == <<"user", 0>>
Threads == {User} \cup {Grpc(c) : c \in Connections} \cup {Timer(c) : c \in Connections}

(* ResilientGrpcSubscription, its Resilience and the store it reconnects with. *)
VARIABLES follow,       \* the request: follow, or catch up and complete
          isClosed,
          current,      \* currentSubscription: a connection, or 0 for null
          lastPosition, \* the last fact, or 0 for null
          attempts,     \* timestampsOfReconnectionAttempts in the window
          initialized,  \* GrpcFactStore.initialized
          monitor       \* who is in the synchronized connect or reConnect

(* The plain subscriptions. *)
VARIABLES used,         \* connections made so far
          cursor,       \* the last fact that arrived
          subClosed,    \* SubscriptionImpl.closed
          future        \* the future awaited: catchup if follow, else complete

(* The threads. *)
VARIABLES pc,           \* where each one is
          retryable,    \* the exception that it handles
          from,         \* doConnect's copy of lastPosition
          waiter,       \* where the waiting thread is
          waitsOn       \* the connection whose future it awaits

(* The application's observer, and the faults of the environment. *)
VARIABLES delivered, told, failures, handshakeFailures

session == <<follow, isClosed, current, lastPosition, attempts, initialized, monitor>>
plain == <<used, cursor, subClosed, future>>
threads == <<pc, retryable, from>>
waiting == <<waiter, waitsOn>>
world == <<delivered, told, failures, handshakeFailures>>
vars == <<session, plain, threads, waiting, world>>

FutureStates == {"open", "done", "retryable", "fatal", "closed"}
Places == {"none", "idle", "onNext", "position", "detach", "reconnect", "subscribe",
           "set", "fail", "failDetach", "tell", "closing", "ended"}

TypeOK ==
  /\ follow \in BOOLEAN /\ isClosed \in BOOLEAN /\ initialized \in BOOLEAN
  /\ current \in 0 .. used /\ used \in 0 .. MaxFailures + 1
  /\ lastPosition \in 0 .. Facts /\ attempts \in Nat
  /\ monitor \subseteq Threads /\ Cardinality(monitor) <= 1
  /\ cursor \in [Connections -> 0 .. Facts]
  /\ subClosed \in [Connections -> BOOLEAN]
  /\ future \in [Connections -> FutureStates]
  /\ pc \in [Threads -> Places]
  /\ retryable \in [Threads -> BOOLEAN] /\ from \in [Threads -> 0 .. Facts]
  /\ waiter \in {"none", "start", "waiting", "woken", "on", "returned", "thrown"}
  /\ waitsOn \in 0 .. used
  /\ delivered \in Seq(1 .. Facts) /\ told \in BOOLEAN
  /\ failures \in 0 .. MaxFailures /\ handshakeFailures \in 0 .. MaxHandshakeFailures

Init ==
  /\ follow \in BOOLEAN /\ initialized \in BOOLEAN
  /\ isClosed = FALSE /\ current = 0 /\ lastPosition = 0 /\ attempts = 0 /\ monitor = {}
  /\ used = 0
  /\ cursor = [c \in Connections |-> 0]
  /\ subClosed = [c \in Connections |-> FALSE]
  /\ future = [c \in Connections |-> "open"]
  /\ pc = [t \in Threads |-> IF t = User THEN "reconnect" ELSE "none"]
  /\ retryable = [t \in Threads |-> FALSE] /\ from = [t \in Threads |-> 0]
  /\ waiter = "none" /\ waitsOn = 0
  /\ delivered = <<>> /\ told = FALSE /\ failures = 0 /\ handshakeFailures = 0

Goes(t, place) == pc' = [pc EXCEPT ![t] = place]

(* Resilience.shouldRetry, of a retryable exception. *)
AttemptsLeft == attempts < Attempts

-----------------------------------------------------------------------------
(* SubscriptionImpl. *)

(* close of the subscriptions in S that are not closed yet. *)
Close(S) ==
  /\ subClosed' = [c \in Connections |-> subClosed[c] \/ c \in S]
  /\ future' = [c \in Connections |-> IF c \in S /\ ~subClosed[c] /\ future[c] = "open"
                                      THEN "closed" ELSE future[c]]

(* A slip: the waiting thread is released as if all were well. *)
FutureHidesError(c, retry) == IF future[c] # "open" THEN future[c] ELSE "done"

(* The future of a subscription that reports an error. *)
FutureOnError(c, retry) ==
  IF future[c] # "open" THEN future[c] ELSE IF retry THEN "retryable" ELSE "fatal"

(* notifyError up to observer.onError, in thread t.  The gRPC thread      *)
(* cancels the timer first; a timer cancels itself.                       *)
NotifyError(c, t, retry) ==
  /\ future' = [future EXCEPT ![c] = FutureOnError(c, retry)]
  /\ retryable' = [retryable EXCEPT ![t] = retry]
  /\ pc' = [pc EXCEPT ![t] = "detach",
                      ![Timer(c)] = IF t = Timer(c) THEN "detach"
                                    ELSE IF @ = "idle" THEN "ended" ELSE @]
  /\ UNCHANGED <<session, used, cursor, subClosed, from, waiting, delivered, told,
                 handshakeFailures>>

(* A slip: reconnect when the server has been silent for too long. *)
StaleIsRetried == TRUE

(* Is StaleSubscriptionDetectedException retryable?  It is a plain        *)
(* RuntimeException.                                                      *)
StaleIsRetryable == FALSE

-----------------------------------------------------------------------------
(* What the gRPC thread of a connection does with what the server sends. *)

Open(c) == pc[Grpc(c)] = "idle" /\ ~subClosed[c]

(* notifyElement and the check of DelegatingFactObserver.onNext. *)
Receive(c) ==
  /\ Open(c) /\ cursor[c] < Facts
  /\ follow \/ cursor[c] < Stored
  /\ cursor' = [cursor EXCEPT ![c] = @ + 1]
  /\ IF isClosed THEN UNCHANGED pc ELSE Goes(Grpc(c), "onNext")
  /\ UNCHANGED <<session, used, subClosed, future, retryable, from, waiting, world>>

OnNext(c) ==
  /\ pc[Grpc(c)] = "onNext"
  /\ delivered' = Append(delivered, cursor[c])
  /\ Goes(Grpc(c), "position")
  /\ UNCHANGED <<session, plain, retryable, from, waiting, told, failures, handshakeFailures>>

SetPosition(c) ==
  /\ pc[Grpc(c)] = "position"
  /\ lastPosition' = cursor[c]
  /\ Goes(Grpc(c), "idle")
  /\ UNCHANGED <<follow, isClosed, current, attempts, initialized, monitor, plain,
                 retryable, from, waiting, world>>

(* notifyCatchup, or notifyComplete, which closes the subscription. *)
Signal(c) ==
  /\ Open(c) /\ future[c] = "open" /\ cursor[c] >= Stored
  /\ future' = [future EXCEPT ![c] = "done"]
  /\ IF follow THEN UNCHANGED <<subClosed, pc>>
               ELSE /\ subClosed' = [subClosed EXCEPT ![c] = TRUE]
                    /\ Goes(Grpc(c), "ended")
  /\ UNCHANGED <<session, used, cursor, retryable, from, waiting, world>>

(* The call ends with an error.  An exception of the observer ends it as   *)
(* well; it leaves the position behind and is never retryable.             *)
BreakOff(c) ==
  /\ ~subClosed[c] /\ failures < MaxFailures
  /\ \E retry \in BOOLEAN :
       /\ pc[Grpc(c)] = "idle" \/ (pc[Grpc(c)] = "position" /\ ~retry)
       /\ NotifyError(c, Grpc(c), retry)
  /\ failures' = failures + 1

(* The timer has seen no notification during the grace period, perhaps     *)
(* because the observer is slow.                                           *)
StaleDetected(c) ==
  /\ pc[Timer(c)] = "idle" /\ ~subClosed[c]
  /\ failures < MaxFailures /\ failures' = failures + 1
  /\ NotifyError(c, Timer(c), StaleIsRetryable)

-----------------------------------------------------------------------------
(* DelegatingFactObserver.onError, in the thread that reports the error.   *)

(* closeAndDetachSubscription closes whatever is current, and the store    *)
(* forgets its handshake.                                                  *)
Detach(t) ==
  /\ pc[t] = "detach"
  /\ Close({current})
  /\ current' = 0 /\ initialized' = FALSE
  /\ Goes(t, IF retryable[t] /\ AttemptsLeft THEN "reconnect" ELSE "fail")
  /\ retryable' = [retryable EXCEPT ![t] = FALSE]
  /\ UNCHANGED <<follow, isClosed, lastPosition, attempts, monitor, used, cursor,
                 from, waiting, world>>

(* A slip: every connection starts where the first one did. *)
StartAnew == 0

(* Where a new connection starts. *)
StartAfter == lastPosition

(* A slip: the methods are not synchronized. *)
MayAlwaysEnter == TRUE

(* The monitor of the synchronized methods connect and reConnect. *)
MonitorIsFree == monitor = {}

(* connect and reConnect with a store that is, or gets, initialized, up to *)
(* the copy of lastPosition.                                               *)
EnterConnect(t) ==
  /\ pc[t] = "reconnect" /\ MonitorIsFree
  /\ monitor' = monitor \cup {t}
  /\ initialized' = TRUE
  /\ attempts' = attempts + 1
  /\ from' = [from EXCEPT ![t] = StartAfter]
  /\ Goes(t, "subscribe")
  /\ UNCHANGED <<follow, isClosed, current, lastPosition, plain, retryable, waiting, world>>

(* initializeIfNecessary throws, and the exception leaves onError: only    *)
(* the constructor's caller gets to see it.                                *)
HandshakeFails(t) ==
  /\ pc[t] = "reconnect" /\ MonitorIsFree /\ ~initialized
  /\ handshakeFailures < MaxHandshakeFailures
  /\ handshakeFailures' = handshakeFailures + 1
  /\ Goes(t, "ended")
  /\ told' = (told \/ t = User)
  /\ UNCHANGED <<session, plain, retryable, from, waiting, delivered, failures>>

(* A gRPC thread or a timer ends by closing the subscription it reported,  *)
(* the constructor by returning.                                           *)
LeaveConnect(t) ==
  /\ monitor' = monitor \ {t}
  /\ Goes(t, IF t = User THEN "idle" ELSE "ended")
  /\ Close({t[2]})
  /\ from' = [from EXCEPT ![t] = 0]

(* Another thread has connected: nothing to do. *)
AlreadyConnected(t) ==
  /\ pc[t] = "subscribe" /\ current # 0
  /\ LeaveConnect(t)
  /\ UNCHANGED <<follow, isClosed, current, lastPosition, attempts, initialized, used,
                 cursor, retryable, waiting, world>>

(* internalSubscribe starts the call, and its threads run from here on. *)
Subscribe(t) ==
  /\ pc[t] = "subscribe" /\ current = 0
  /\ used' = used + 1
  /\ cursor' = [cursor EXCEPT ![used'] = from[t]]
  /\ pc' = [pc EXCEPT ![t] = "set", ![Grpc(used')] = "idle", ![Timer(used')] = "idle"]
  /\ UNCHANGED <<session, subClosed, future, retryable, from, waiting, world>>

SubscribeFails(t) ==
  /\ pc[t] = "subscribe" /\ current = 0
  /\ failures < MaxFailures /\ failures' = failures + 1
  /\ Goes(t, "fail")
  /\ from' = [from EXCEPT ![t] = 0]
  /\ UNCHANGED <<session, plain, retryable, waiting, delivered, told, handshakeFailures>>

Awakened == IF waiter = "waiting" THEN "woken" ELSE waiter

(* currentSubscription.set(..) notifies the threads in getAndBlock. *)
SetCurrent(t) ==
  /\ pc[t] = "set"
  /\ current' = used
  /\ waiter' = Awakened
  /\ LeaveConnect(t)
  /\ UNCHANGED <<follow, isClosed, lastPosition, attempts, initialized, used, cursor,
                 retryable, waitsOn, world>>

(* numberOfAttemptsInWindow forgets old attempts. *)
WindowPasses ==
  /\ attempts > 0 /\ attempts' = 0
  /\ UNCHANGED <<follow, isClosed, current, lastPosition, initialized, monitor, plain,
                 threads, waiting, world>>

-----------------------------------------------------------------------------
(* fail: close, unblock, escalate to the application's observer. *)

FailClose(t) ==
  /\ pc[t] = "fail"
  /\ isClosed' = TRUE
  /\ Goes(t, IF isClosed THEN "tell" ELSE "failDetach")
  /\ UNCHANGED <<follow, current, lastPosition, attempts, initialized, monitor, plain,
                 retryable, from, waiting, world>>

FailDetach(t) ==
  /\ pc[t] = "failDetach"
  /\ Close({current}) /\ current' = 0
  /\ Goes(t, "tell")
  /\ UNCHANGED <<follow, isClosed, lastPosition, attempts, initialized, monitor, used,
                 cursor, retryable, from, waiting, world>>

(* A slip: the waiting threads are not notified. *)
NoUnblock == waiter' = waiter

Unblock == waiter' = Awakened

Tell(t) ==
  /\ pc[t] = "tell"
  /\ Unblock
  /\ told' = TRUE
  /\ monitor' = monitor \ {t}
  /\ Goes(t, "ended")
  /\ UNCHANGED <<follow, isClosed, current, lastPosition, attempts, initialized, plain,
                 retryable, from, waitsOn, delivered, failures, handshakeFailures>>

(* close, called by the user: it notifies nobody. *)
UserCloses ==
  /\ pc[User] = "idle" /\ ~isClosed
  /\ isClosed' = TRUE
  /\ Goes(User, "closing")
  /\ UNCHANGED <<follow, current, lastPosition, attempts, initialized, monitor, plain,
                 retryable, from, waiting, world>>

UserDetaches ==
  /\ pc[User] = "closing"
  /\ Close({current}) /\ current' = 0
  /\ Goes(User, "ended")
  /\ UNCHANGED <<follow, isClosed, lastPosition, attempts, initialized, monitor, used,
                 cursor, retryable, from, waiting, world>>

-----------------------------------------------------------------------------
(* delegate and getAndBlock, in the thread that awaits catchup or          *)
(* completion without a time limit.                                        *)

Await ==
  /\ waiter = "none" /\ pc[User] = "idle"
  /\ waiter' = "start"
  /\ UNCHANGED <<session, plain, threads, waitsOn, world>>

(* getAndBlock looks at isClosed before it waits, not after. *)
GetAndBlock ==
  /\ waiter \in {"start", "woken"}
  /\ waiter' = IF waiter = "start" /\ isClosed THEN "thrown"
               ELSE IF current # 0 THEN "on"
               ELSE IF isClosed THEN "thrown" ELSE "waiting"
  /\ waitsOn' = current
  /\ UNCHANGED <<session, plain, threads, world>>

(* The future is done; a failure is retried in the hope of a reconnect. *)
FutureEnds ==
  /\ waiter = "on" /\ future[waitsOn] # "open"
  /\ waiter' = IF future[waitsOn] = "done" THEN "returned"
               ELSE IF future[waitsOn] = "retryable" /\ AttemptsLeft THEN "start"
               ELSE "thrown"
  /\ waitsOn' = 0
  /\ UNCHANGED <<session, plain, threads, world>>

-----------------------------------------------------------------------------
ConnectStep(t) == EnterConnect(t) \/ HandshakeFails(t)
SubscribeStep(t) == AlreadyConnected(t) \/ Subscribe(t) \/ SubscribeFails(t) \/ SetCurrent(t)
FailStep(t) == FailClose(t) \/ FailDetach(t) \/ Tell(t)
GrpcStep(c) == Receive(c) \/ OnNext(c) \/ SetPosition(c)
WaiterStep == GetAndBlock \/ FutureEnds

Next ==
  \/ \E c \in Connections : GrpcStep(c) \/ Signal(c) \/ BreakOff(c) \/ StaleDetected(c)
  \/ \E t \in Threads : Detach(t) \/ ConnectStep(t) \/ SubscribeStep(t) \/ FailStep(t)
  \/ WindowPasses \/ UserCloses \/ UserDetaches \/ Await \/ WaiterStep

Spec == Init /\ [][Next]_vars

(* Threads run, and a server that is connected goes on sending. *)
Fairness ==
  /\ \A c \in Connections : WF_vars(GrpcStep(c)) /\ WF_vars(Signal(c))
  /\ \A t \in Threads : /\ WF_vars(Detach(t)) /\ WF_vars(ConnectStep(t))
                        /\ WF_vars(SubscribeStep(t)) /\ WF_vars(FailStep(t))
  /\ WF_vars(UserDetaches) /\ WF_vars(WaiterStep)

FairSpec == Spec /\ Fairness

-----------------------------------------------------------------------------
(* The application's observer gets every fact of the stream exactly once   *)
(* and in order, however often the connection breaks, whichever thread     *)
(* reports it: ResilientGrpcSubscription moves lastPosition after onNext,  *)
(* in a thread other than the one that copies it in doConnect.             *)
ExactlyOnce == delivered = [i \in 1 .. Len(delivered) |-> i]

(* Never are more attempts registered in a window than configured, though  *)
(* shouldRetry counts them long before doConnect, after a sleep and in     *)
(* another critical section, registers the next.                           *)
AttemptsWithinLimit == attempts <= Attempts

(* awaitCatchup and awaitComplete return normally only when the observer   *)
(* has got all that was stored, over however many connections, unless the  *)
(* subscription was closed meanwhile.                                      *)
ReturnMeansDelivered == waiter = "returned" /\ ~isClosed => Len(delivered) >= Stored

(* To the application the subscription is one that never breaks: it gets   *)
(* the next fact or nothing, learns of an error only if there was one, and *)
(* a call of awaitCatchup or awaitComplete returns when everything has     *)
(* come, and throws only if something has gone wrong or it was closed      *)
(* (delegate, SubscriptionHolder.getAndBlock, DelegatingFactObserver).     *)
Contract == INSTANCE SubscriptionContract WITH
  disturbed <- failures + handshakeFailures > 0,
  closed <- isClosed,
  caller <- IF waiter \in {"start", "waiting", "woken", "on"} THEN "waiting" ELSE waiter

KeepsContract == Contract!Spec

(* A thread that awaits a subscription which is closed, by its user or     *)
(* after too many failures, gets out of getAndBlock and of the future      *)
(* sooner or later, provided no handshake times out.                       *)
ClosedReleasesWaiter ==
  [](handshakeFailures = 0) =>
    ((isClosed /\ waiter # "none") ~> (waiter \in {"returned", "thrown"}))

(* A subscription that is neither closed nor completed has a connection    *)
(* that is open, or a thread at work to get one, or the application has    *)
(* been told: networking errors are transparent or escalated.              *)
NeverAbandoned ==
  \/ isClosed \/ told
  \/ \E c \in Connections : ~follow /\ future[c] = "done"
  \/ current # 0 /\ ~subClosed[current]
  \/ \E t \in Threads : pc[t] \notin {"none", "idle", "ended"}
=============================================================================
