-------------------------- MODULE ObserverAdapter --------------------------
(***************************************************************************)
(* The server's end of a subscription's gRPC stream.                       *)
(*                                                                         *)
(* The thread that runs the pipeline of a subscription (FactStream) calls  *)
(* SubscriptionImpl.notify..., which calls GrpcObserverAdapter.  The       *)
(* adapter stages facts until a message is full, and sends messages by     *)
(* BlockingStreamObserver, which waits for a client that is too slow to    *)
(* take them, but only for so long.  A timer sends keepalives the same     *)
(* way.  A lock makes sure that one of the two sends at a time; whoever    *)
(* waits has released it.  The client may cancel at any moment.            *)
(*                                                                         *)
(* A fact is a number, and what counts of it is its size.  Keepalives and  *)
(* the info at the start are sent, but not recorded.                       *)
(***************************************************************************)
EXTENDS Integers, Sequences, FiniteSets, SequencesExt

CONSTANTS Sizes,         \* sizes of facts: byteSizeOf
          MaxInbound,    \* the client's clientMaxInboundMessageSize
          RetryCount,    \* RETRY_COUNT
          MaxFacts       \* bound: facts that the pipeline hands over

ASSUME SizesAssumption == Sizes \subseteq Nat \ {0}
ASSUME LimitsAssumption == MaxInbound \in Nat /\ RetryCount \in Nat \ {0}
ASSUME BoundAssumption == MaxFacts \in Nat

(* The pipeline's thread. *)
VARIABLES phase,      \* what the pipeline does
          handed,     \* sizes of the facts handed over so far
          steps,      \* what the adapter's current handler still has to do
          staged,     \* StagedFacts.staged
          bytes       \* StagedFacts.currentBytes

(* BlockingStreamObserver, for each of the two threads that send. *)
VARIABLES pc,         \* "idle", "send" or "wait"
          message,    \* what it sends
          tries       \* polls left in waitForDelegate

(* The keepalive timer, the subscription and the call. *)
VARIABLES timer,      \* of the keepalives; "stopping": cancelled while its task runs
          closed,     \* SubscriptionImpl.closed
          ready,      \* delegate.isReady(), as long as the call is open
          cancelled,  \* delegate.isCancelled()
          ended,      \* "open", "completed" or "error"
          wire        \* messages that the call took

(* History, for the properties only. *)
VARIABLE gaveUp       \* a flush whose failure nobody reports ran out of polls

pipeVars == <<phase, handed>>
sendVars == <<pc, message, tries>>
callVars == <<ready, cancelled, ended, wire>>
vars == <<pipeVars, steps, staged, bytes, sendVars, timer, closed, callVars, gaveUp>>

Ids == 1 .. MaxFacts
Threads == {"pipeline", "timer"}
Marks == {"ffwd", "catchup", "complete"}
Nothing == [kind |-> "other", facts |-> <<>>, upto |-> 0]
Batch(ids) == [kind |-> "facts", facts |-> ids, upto |-> 0]
Mark(kind) == [kind |-> kind, facts |-> <<>>, upto |-> Len(handed)]

(* StagedFacts uses 90 % of what the client takes. *)
MaxBytes == MaxInbound - (MaxInbound \div 10)

Phases == {"start", "catchup", "flushed", "forwarded", "caughtUp", "follow", "flush",
           "completing", "failing", "over"}
Messages == [kind : Marks \cup {"facts", "other"}, facts : Seq(Ids), upto : Nat]

TypeOK ==
  /\ phase \in Phases
  /\ handed \in Seq(Sizes) /\ Len(handed) <= MaxFacts
  /\ steps \in Seq(Marks \cup {"info", "flush", "add", "completed", "error"})
  /\ staged \in Seq(Ids) /\ bytes \in Nat
  /\ pc \in [Threads -> {"idle", "send", "wait"}]
  /\ message \in [Threads -> Messages]
  /\ tries \in [Threads -> 0 .. RetryCount]
  /\ timer \in {"scheduled", "running", "stopping", "off"}
  /\ timer \in {"running", "stopping"} <=> pc["timer"] # "idle"
  /\ {closed, ready, cancelled, gaveUp} \subseteq BOOLEAN
  /\ ended \in {"open", "completed", "error"}
  /\ wire \in Seq(Messages)

Init ==
  /\ phase = "start" /\ handed = <<>>
  /\ steps = <<>> /\ staged = <<>> /\ bytes = 0
  /\ pc = [t \in Threads |-> "idle"] /\ message = [t \in Threads |-> Nothing]
  /\ tries = [t \in Threads |-> 0]
  /\ timer = "scheduled" /\ closed = FALSE
  /\ ready = TRUE /\ cancelled = FALSE /\ ended = "open" /\ wire = <<>>
  /\ gaveUp = FALSE

-----------------------------------------------------------------------------
(* GrpcObserverAdapter: handlers, called by the pipeline.  SubscriptionImpl *)
(* does not call them when it is closed.                                   *)

Returned == steps = <<>> /\ pc["pipeline"] = "idle"

(* StagedFacts.add accepts the fact. *)
Fits(size) == bytes + size < MaxBytes

Add(id, size) == IF Fits(size)
                 THEN staged' = Append(staged, id) /\ bytes' = bytes + size
                 ELSE UNCHANGED <<staged, bytes>>

(* A slip: the fact that did not fit is forgotten. *)
FlushOnly == <<"flush">>

(* onNext, when the fact does not fit: flush, and add it to the next batch. *)
FlushAndAdd == <<"flush", "add">>

OnNext(size) ==
  /\ phase \in {"catchup", "follow"} /\ Returned /\ ~closed
  /\ Len(handed) < MaxFacts
  /\ handed' = Append(handed, size)
  /\ Add(Len(handed'), size)
  /\ steps' = IF Fits(size) THEN <<>> ELSE FlushAndAdd
  /\ UNCHANGED <<phase, sendVars, timer, closed, callVars, gaveUp>>

(* A slip: the timer goes on. *)
LeaveTimer == UNCHANGED timer

(* A slip: a task that runs is taken to be over. *)
CancelOutright == timer' = "off"

(* ServerKeepalive.shutdown. *)
DisableKeepalive == timer' = IF timer = "scheduled" THEN "off"
                             ELSE IF timer = "running" THEN "stopping" ELSE timer

(* What the handlers of the other signals have to do. *)
Call(from, to, todo) ==
  /\ phase = from /\ Returned /\ ~closed
  /\ phase' = to
  /\ steps' = todo
  /\ UNCHANGED <<handed, staged, bytes, sendVars, closed, callVars, gaveUp>>

OnFactStreamInfo == /\ \E todo \in {<<>>, <<"info">>} : Call("start", "catchup", todo)
                    /\ UNCHANGED timer

(* A slip: the catchup ends without a flush. *)
NoFlush == <<>>

(* PgFetchingCatchup.run flushes at its end, PgSynchronizedQuery.run too. *)
FlushSignal == <<"flush">>

FlushCatchup == Call("catchup", "flushed", FlushSignal) /\ UNCHANGED timer
OnFastForward == /\ \E todo \in {<<>>, <<"ffwd">>} : Call("flushed", "forwarded", todo)
                 /\ UNCHANGED timer
OnCatchup == Call("forwarded", "caughtUp", <<"flush", "catchup">>) /\ UNCHANGED timer
(* A request that is continuous follows, any other completes. *)
Follow == Call("caughtUp", "follow", <<>>) /\ UNCHANGED timer
FlushQuery == staged # <<>> /\ Call("follow", "flush", FlushSignal) /\ UNCHANGED timer
QueryEnds == Call("flush", "follow", <<>>) /\ UNCHANGED timer
OnComplete == /\ Call("caughtUp", "completing", <<"flush", "complete", "completed">>)
              /\ DisableKeepalive

(* Something else went wrong, and is told to the client; the catchup has   *)
(* flushed before.  A follow query that fails is not told; what it has     *)
(* staged waits for the next flush.                                        *)
PipelineFails ==
  /\ phase \in {"catchup", "flushed", "forwarded", "caughtUp", "follow"}
  /\ Returned /\ ~closed
  /\ phase' = "failing"
  /\ steps' = IF phase = "catchup" THEN FlushSignal ELSE <<>>
  /\ UNCHANGED <<handed, staged, bytes, sendVars, timer, closed, callVars, gaveUp>>

OnError ==
  /\ Call("failing", "over", <<"flush", "error">>)
  /\ DisableKeepalive

-----------------------------------------------------------------------------
(* The steps of a handler. *)

NextStep(step) ==
  /\ pc["pipeline"] = "idle" /\ steps # <<>> /\ Head(steps) = step
  /\ steps' = Tail(steps)
  /\ UNCHANGED <<pipeVars, timer, gaveUp, tries>>

Sends(thread, m) == /\ message' = [message EXCEPT ![thread] = m]
                    /\ pc' = [pc EXCEPT ![thread] = "send"]

(* A slip: the bytes of the facts that are gone still count. *)
PopFacts == staged' = <<>> /\ UNCHANGED bytes

PopAll == staged' = <<>> /\ bytes' = 0

Flush ==
  /\ NextStep("flush")
  /\ IF staged = <<>> THEN UNCHANGED <<staged, bytes, pc, message>>
     ELSE Sends("pipeline", Batch(staged)) /\ PopAll
  /\ UNCHANGED <<closed, callVars>>

(* The second add.  Its result is ignored. *)
AddToNextBatch ==
  /\ NextStep("add")
  /\ Add(Len(handed), Last(handed))
  /\ UNCHANGED <<pc, message, closed, callVars>>

SendInfo ==
  /\ NextStep("info")
  /\ Sends("pipeline", Nothing)
  /\ UNCHANGED <<staged, bytes, closed, callVars>>

SendMark(kind) ==
  /\ NextStep(kind)
  /\ Sends("pipeline", Mark(kind))
  /\ UNCHANGED <<staged, bytes, closed, callVars>>

(* onCompleted or onError of the call; SubscriptionImpl closes itself. *)
End(how) ==
  /\ NextStep(how)
  /\ ended' = IF ended = "open" THEN how ELSE ended
  /\ closed' = TRUE
  /\ UNCHANGED <<staged, bytes, pc, message, ready, cancelled, wire>>

-----------------------------------------------------------------------------
(* BlockingStreamObserver.onNext. *)

IsReady == ready /\ ended = "open"

(* The thread's onNext returns, and the timer's task schedules the next    *)
(* one: that throws if the timer was cancelled.                            *)
Done(thread) ==
  /\ pc' = [pc EXCEPT ![thread] = "idle"]
  /\ message' = [message EXCEPT ![thread] = Nothing]
  /\ tries' = [tries EXCEPT ![thread] = 0]
  /\ timer' = IF thread = "pipeline" THEN timer
              ELSE IF timer = "running" THEN "scheduled" ELSE "off"

(* The call takes the message.  The client may be too slow for the next.   *)
Pass(thread) ==
  /\ wire' = IF message[thread] = Nothing THEN wire ELSE Append(wire, message[thread])
  /\ ready' \in BOOLEAN
  /\ Done(thread)
  /\ UNCHANGED <<pipeVars, steps, gaveUp>>

(* The channel was cancelled: the message is dropped without an error. *)
Drop(thread) == Done(thread) /\ UNCHANGED <<pipeVars, steps, gaveUp, wire, ready>>

(* The flush of onError, and the one at the end of a follow query, fail    *)
(* without anybody being told: runTarget logs.                             *)
Unreported == phase \in {"flush", "over"}

(* TransportLayerException.  It kills the timer's thread.  In the          *)
(* pipeline's it ends the handler; the catchup's caller and processRow     *)
(* report it by notifyError.                                               *)
Throw(thread) ==
  /\ pc' = [pc EXCEPT ![thread] = "idle"]
  /\ message' = [message EXCEPT ![thread] = Nothing]
  /\ tries' = [tries EXCEPT ![thread] = 0]
  /\ IF thread = "timer"
     THEN timer' = "off" /\ UNCHANGED <<steps, phase, gaveUp>>
     ELSE /\ steps' = <<>>
          /\ phase' = IF Unreported THEN phase ELSE "failing"
          /\ gaveUp' = (gaveUp \/ Unreported)
          /\ UNCHANGED timer
  /\ UNCHANGED <<handed, wire, ready>>

Send(thread) ==
  /\ pc[thread] = "send"
  /\ \/ cancelled /\ Drop(thread)
     \/ ~cancelled /\ IsReady /\ Pass(thread)
     \/ /\ ~cancelled /\ ~IsReady
        /\ pc' = [pc EXCEPT ![thread] = "wait"]
        /\ tries' = [tries EXCEPT ![thread] = RetryCount]
        /\ UNCHANGED <<pipeVars, steps, gaveUp, message, timer, wire, ready>>
  /\ UNCHANGED <<staged, bytes, closed, cancelled, ended>>

(* A slip: the polls are not counted. *)
KeepPolling(thread) == RetryCount

PollsLeft(thread) == tries[thread] - 1

(* waitForDelegate: one wait ends, by its timeout or by wakeup. *)
Wake(thread) ==
  /\ pc[thread] = "wait"
  /\ \/ cancelled /\ Drop(thread)
     \/ ~cancelled /\ IsReady /\ Pass(thread)
     \/ ~cancelled /\ ~IsReady /\ PollsLeft(thread) = 0 /\ Throw(thread)
     \/ /\ ~cancelled /\ ~IsReady /\ PollsLeft(thread) # 0
        /\ tries' = [tries EXCEPT ![thread] = PollsLeft(thread)]
        /\ UNCHANGED <<pipeVars, steps, gaveUp, pc, message, timer, wire, ready>>
  /\ UNCHANGED <<staged, bytes, closed, cancelled, ended>>

(* The timer's task. *)
KeepaliveDue ==
  /\ timer = "scheduled"
  /\ timer' = "running"
  /\ Sends("timer", Nothing)
  /\ UNCHANGED <<pipeVars, steps, staged, bytes, tries, closed, callVars, gaveUp>>

-----------------------------------------------------------------------------
(* The client and the network. *)

BecomesReady ==
  /\ ~ready /\ ready' = TRUE
  /\ UNCHANGED <<pipeVars, steps, staged, bytes, sendVars, timer, closed, cancelled, ended, wire, gaveUp>>

Cancel ==
  /\ ~cancelled /\ ended = "open" /\ cancelled' = TRUE
  /\ UNCHANGED <<pipeVars, steps, staged, bytes, sendVars, timer, closed, ready, ended, wire, gaveUp>>

(* OnCancelHandler.run.  It has replaced the handler that wakes waiters up. *)
OnCancel ==
  /\ cancelled /\ ~closed
  /\ closed' = TRUE
  /\ DisableKeepalive
  /\ UNCHANGED <<pipeVars, steps, staged, bytes, sendVars, callVars, gaveUp>>

-----------------------------------------------------------------------------
Handler == \/ \E size \in Sizes : OnNext(size)
           \/ OnFactStreamInfo \/ FlushCatchup \/ OnFastForward \/ OnCatchup
           \/ Follow \/ FlushQuery \/ QueryEnds \/ OnComplete \/ PipelineFails
Step == \/ Flush \/ AddToNextBatch \/ SendInfo \/ \E kind \in Marks : SendMark(kind)
        \/ \E how \in {"completed", "error"} : End(how)
Sending(thread) == Send(thread) \/ Wake(thread)

Next == \/ Handler \/ OnError \/ Step \/ \E t \in Threads : Sending(t)
        \/ KeepaliveDue \/ BecomesReady \/ Cancel \/ OnCancel

Spec == Init /\ [][Next]_vars

(* Threads run, waits time out and callbacks are delivered.  The client    *)
(* need not get ready again.                                               *)
FairSpec == /\ Spec
            /\ WF_vars(Step) /\ WF_vars(OnError) /\ WF_vars(OnCancel)
            /\ \A t \in Threads : WF_vars(Sending(t))

-----------------------------------------------------------------------------
(* Of the first n facts those that can be sent at all: a larger one is     *)
(* dropped without an error.                                               *)
Fitting(n) == {id \in 1 .. n : handed[id] < MaxBytes}

(* The facts in the first n messages. *)
SentBy(n) == {id \in Ids : \E i \in 1 .. n : id \in ToSet(wire[i].facts)}

(* The client gets the facts in the order in which the pipeline has handed *)
(* them over, none of them twice and none left out, whatever is flushed    *)
(* when, and whoever else sends (GrpcObserverAdapter.onNext, flush).       *)
SentInOrder ==
  ~gaveUp =>
    /\ \A i \in DOMAIN wire : \A a, b \in DOMAIN wire[i].facts :
         a < b => wire[i].facts[a] < wire[i].facts[b]
    /\ \A i, j \in DOMAIN wire : i < j =>
         \A f \in ToSet(wire[i].facts), g \in ToSet(wire[j].facts) : f < g
    /\ \A f \in SentBy(Len(wire)) :
         f \in Fitting(Len(handed)) /\ Fitting(f) \subseteq SentBy(Len(wire))

(* A mark never overtakes a fact: when the client sees a fast-forward      *)
(* position, the end of the catchup or the completion, it has got          *)
(* everything that was handed over before (onCatchup, onComplete and       *)
(* onFastForward, which does not flush).                                   *)
MarksFollowFacts ==
  \A i \in DOMAIN wire :
    wire[i].kind \in Marks /\ ~gaveUp => Fitting(wire[i].upto) \subseteq SentBy(i)

(* The bytes of the facts ids, each with the place of its fact. *)
Bytes(ids) == UNION {{i} \X (1 .. handed[ids[i]]) : i \in DOMAIN ids}

BytesOf(ids) == Cardinality(Bytes(ids))

(* The adapter never forms a batch that is too large for the client, and   *)
(* its count of bytes is always that of the facts it has staged            *)
(* (StagedFacts.add, popAll).                                              *)
MessagesFit ==
  /\ bytes = BytesOf(staged)
  /\ \A i \in DOMAIN wire : wire[i].kind = "facts" => BytesOf(wire[i].facts) < MaxBytes

(* An error of the pipeline ends the call for the client, however slow it  *)
(* is: the server does not wait for good (waitForDelegate).                *)
FailureIsTold ==
  phase = "failing" ~> (ended = "error" \/ cancelled \/ gaveUp)

(* When a subscription is closed, by its end or by the client, the adapter *)
(* comes to rest: no thread goes on waiting and no keepalive is due        *)
(* (disableKeepalive, OnCancelHandler.run).                                *)
ClosedComesToRest ==
  closed ~> [](timer = "off" /\ \A t \in Threads : pc[t] = "idle")
=============================================================================
