------------------------- MODULE ObserverAdapterProofs -------------------------
(***************************************************************************)
(* Proofs about ObserverAdapter, for any sizes of facts, any limit of the  *)
(* client and any number of facts and polls: the types, and that the       *)
(* client gets the facts in order and before the marks that follow them.   *)
(***************************************************************************)
EXTENDS ObserverAdapter, FiniteSetTheorems, TLAPS

(* What a handler may have left to do in each phase. *)
StepsInv ==
  /\ phase = "start" => steps = <<>>
  /\ phase = "catchup" => steps \in {<<>>, <<"info">>, <<"flush", "add">>, <<"add">>}
  /\ phase = "flushed" => steps \in {<<>>, <<"flush">>}
  /\ phase = "forwarded" => steps \in {<<>>, <<"ffwd">>}
  /\ phase = "caughtUp" => steps \in {<<>>, <<"flush", "catchup">>, <<"catchup">>}
  /\ phase = "follow" => steps \in {<<>>, <<"flush", "add">>, <<"add">>}
  /\ phase = "flush" => steps \in {<<>>, <<"flush">>}
  /\ phase = "completing" =>
       steps \in {<<>>, <<"completed">>, <<"complete", "completed">>,
                  <<"flush", "complete", "completed">>}
  /\ phase = "failing" => steps \in {<<>>, <<"flush">>}
  /\ phase = "over" => steps \in {<<>>, <<"error">>, <<"flush", "error">>}

(* When nothing is staged. *)
StagedInv ==
  /\ staged = <<>> => bytes = 0
  /\ pc["pipeline"] # "idle" => staged = <<>>
  /\ steps # <<>> /\ Head(steps) # "flush" => staged = <<>>
  /\ phase \in {"start", "flushed", "forwarded", "caughtUp", "completing"} /\ staged # <<>>
       => phase = "flushed" /\ steps = <<"flush">>

(* What the threads send. *)
MessageInv ==
  /\ message["timer"] = Nothing
  /\ \A t \in Threads : pc[t] = "wait" => tries[t] > 0
  /\ pc["pipeline"] = "idle" => message["pipeline"] = Nothing
  /\ message["pipeline"].kind \in Marks =>
       phase \in {"forwarded", "caughtUp", "completing"} /\ message["pipeline"].upto = Len(handed)

Rising(s) == \A a, b \in DOMAIN s : a < b => s[a] < s[b]

Sent == SentBy(Len(wire))
InFlight == ToSet(message["pipeline"].facts)
Staged == ToSet(staged)
(* The fact that waits for the next batch. *)
Pending == IF steps \in {<<"flush", "add">>, <<"add">>} THEN {Len(handed)} ELSE {}

Below(A, B) == \A f \in A, g \in B : f < g

(* On their way from the pipeline to the wire the facts stay in order. *)
OrderInv ==
  /\ \A i \in DOMAIN wire : Rising(wire[i].facts)
  /\ Rising(message["pipeline"].facts) /\ Rising(staged)
  /\ \A i, j \in DOMAIN wire : i < j => Below(ToSet(wire[i].facts), ToSet(wire[j].facts))
  /\ Below(Sent, InFlight) /\ Below(Sent, Staged) /\ Below(Sent, Pending)
  /\ Below(InFlight, Staged) /\ Below(InFlight, Pending) /\ Below(Staged, Pending)
  /\ Sent \cup InFlight \cup Staged \subseteq Fitting(Len(handed))
  /\ Pending \subseteq 1 .. Len(handed)

(* The pipeline has failed and sends no more facts. *)
Ending == phase \in {"failing", "over"} /\ staged = <<>> /\ message["pipeline"] = Nothing

(* Nothing is left out: it is on its way, unless facts were lost and no more will be sent. *)
CompleteInv ==
  cancelled \/ gaveUp \/ Ending \/ Fitting(Len(handed)) \subseteq Sent \cup InFlight \cup Staged \cup Pending

GaplessInv == \A f \in Sent : ~gaveUp => Fitting(f) \subseteq Sent

(* The inductive invariant. *)
IndInv == /\ TypeOK /\ StepsInv /\ StagedInv /\ MessageInv /\ OrderInv
          /\ CompleteInv /\ GaplessInv
          /\ MarksFollowFacts
          /\ \A i \in DOMAIN wire : wire[i].kind \in Marks => wire[i].upto <= Len(handed)

-----------------------------------------------------------------------------
LEMMA StepSequences ==
  /\ <<"info">> # <<>> /\ Head(<<"info">>) = "info" /\ Tail(<<"info">>) = <<>>
  /\ <<"add">> # <<>> /\ Head(<<"add">>) = "add" /\ Tail(<<"add">>) = <<>>
  /\ <<"flush">> # <<>> /\ Head(<<"flush">>) = "flush" /\ Tail(<<"flush">>) = <<>>
  /\ <<"ffwd">> # <<>> /\ Head(<<"ffwd">>) = "ffwd" /\ Tail(<<"ffwd">>) = <<>>
  /\ <<"catchup">> # <<>> /\ Head(<<"catchup">>) = "catchup" /\ Tail(<<"catchup">>) = <<>>
  /\ <<"completed">> # <<>> /\ Head(<<"completed">>) = "completed" /\ Tail(<<"completed">>) = <<>>
  /\ <<"error">> # <<>> /\ Head(<<"error">>) = "error" /\ Tail(<<"error">>) = <<>>
  /\ <<"flush", "add">> # <<>> /\ Head(<<"flush", "add">>) = "flush" /\ Tail(<<"flush", "add">>) = <<"add">>
  /\ <<"flush", "error">> # <<>> /\ Head(<<"flush", "error">>) = "flush" /\ Tail(<<"flush", "error">>) = <<"error">>
  /\ <<"flush", "catchup">> # <<>> /\ Head(<<"flush", "catchup">>) = "flush"
  /\ Tail(<<"flush", "catchup">>) = <<"catchup">>
  /\ <<"complete", "completed">> # <<>> /\ Head(<<"complete", "completed">>) = "complete"
  /\ Tail(<<"complete", "completed">>) = <<"completed">>
  /\ <<"flush", "complete", "completed">> # <<>> /\ Head(<<"flush", "complete", "completed">>) = "flush"
  /\ Tail(<<"flush", "complete", "completed">>) = <<"complete", "completed">>
OBVIOUS

LEMMA Distinct ==
  /\ <<"info">> # <<"add">> /\ <<"info">> # <<"flush", "add">>
  /\ <<"flush">> # <<"flush", "add">> /\ <<"flush", "error">> # <<"flush", "add">>
  /\ <<"flush", "catchup">> # <<"flush", "add">> /\ <<"complete", "completed">> # <<"flush", "add">>
  /\ <<"flush", "complete", "completed">> # <<"flush", "add">> /\ <<"error">> # <<"add">>
OBVIOUS

LEMMA Limits == MaxBytes \in Int /\ RetryCount \in Nat /\ RetryCount > 0 /\ MaxFacts \in Nat
<1>1. MaxInbound \in Nat
  BY LimitsAssumption
<1>2. MaxInbound \div 10 \in Int
  BY <1>1
<1> QED
  BY <1>1, <1>2, LimitsAssumption, BoundAssumption DEF MaxBytes

LEMMA SetsOfIds ==
  /\ \A s \in Seq(Ids) : \A f : f \in ToSet(s) <=> \E a \in 1 .. Len(s) : f = s[a]
  /\ \A s \in Seq(Ids) : ToSet(s) \subseteq Ids
  /\ ToSet(<<>>) = {} /\ <<>> \in Seq(Ids) /\ Rising(<<>>)
<1>1. \A s \in Seq(Ids) : \A f : f \in ToSet(s) <=> \E a \in 1 .. Len(s) : f = s[a]
  BY DEF ToSet
<1>2. \A s \in Seq(Ids) : ToSet(s) \subseteq Ids
  <2> SUFFICES ASSUME NEW s \in Seq(Ids), NEW f \in ToSet(s) PROVE f \in Ids
    OBVIOUS
  <2>1. PICK a \in 1 .. Len(s) : f = s[a]
    BY <1>1
  <2> QED
    BY <2>1
<1>3. <<>> \in Seq(Ids) /\ \A a \in 1 .. Len(<<>>) : FALSE
  <2>1. \A a \in 1 .. 0 : FALSE
    OBVIOUS
  <2> QED
    BY <2>1
<1>4. \A f : f \notin ToSet(<<>>)
  BY <1>1, <1>3
<1>5. ToSet(<<>>) = {}
  BY <1>4
<1> QED
  BY <1>1, <1>2, <1>3, <1>5 DEF Rising

LEMMA NothingHasNoFacts ==
  /\ Nothing \in Messages /\ Nothing.facts = <<>> /\ Nothing.kind \notin Marks
  /\ Nothing.kind = "other"
BY SetsOfIds DEF Nothing, Messages, Marks

(* A step that brings nothing onto the wire and hands no fact over. *)
LEMMA NothingArrives ==
  ASSUME IndInv, TypeOK', StepsInv', StagedInv', MessageInv',
         UNCHANGED <<handed, staged, wire>>, gaveUp => gaveUp',
         message'["pipeline"].facts \in {message["pipeline"].facts, <<>>},
         Pending' \subseteq Pending,
         \/ cancelled' \/ gaveUp' \/ Ending'
         \/ /\ InFlight' = InFlight /\ Pending' = Pending
            /\ ~cancelled /\ ~gaveUp /\ ~Ending
  PROVE  IndInv'
<1>1. /\ Sent' = Sent /\ Staged' = Staged /\ \A n : Fitting(n)' = Fitting(n) /\ SentBy(n)' = SentBy(n)
  BY DEF Sent, Staged, Fitting, SentBy
<1>2. InFlight' \subseteq InFlight /\ Rising(message'["pipeline"].facts)
  BY SetsOfIds DEF InFlight, IndInv, OrderInv
<1>3. OrderInv'
  <2>1. /\ \A i \in DOMAIN wire : Rising(wire[i].facts)
        /\ Rising(staged)
        /\ \A i, j \in DOMAIN wire : i < j => Below(ToSet(wire[i].facts), ToSet(wire[j].facts))
        /\ Below(Sent, InFlight) /\ Below(Sent, Staged) /\ Below(Sent, Pending)
        /\ Below(InFlight, Staged) /\ Below(InFlight, Pending) /\ Below(Staged, Pending)
        /\ Sent \cup InFlight \cup Staged \subseteq Fitting(Len(handed))
        /\ Pending \subseteq 1 .. Len(handed)
    BY DEF IndInv, OrderInv
  <2>2. /\ Below(Sent, InFlight') /\ Below(Sent, Staged) /\ Below(Sent, Pending')
        /\ Below(InFlight', Staged) /\ Below(InFlight', Pending') /\ Below(Staged, Pending')
        /\ Sent \cup InFlight' \cup Staged \subseteq Fitting(Len(handed))
        /\ Pending' \subseteq 1 .. Len(handed)
    BY <1>2, <2>1 DEF Below
  <2>3. handed' = handed /\ staged' = staged /\ wire' = wire /\ \A A, B : Below(A, B)' <=> Below(A, B)
    OBVIOUS
  <2> QED
    BY <1>1, <1>2, <2>1, <2>2, <2>3 DEF OrderInv, Rising, Below
<1>4. CompleteInv'
  <2>1. CASE cancelled' \/ gaveUp' \/ Ending'
    BY <2>1 DEF CompleteInv
  <2>2. CASE InFlight' = InFlight /\ Pending' = Pending /\ ~cancelled /\ ~gaveUp /\ ~Ending
    BY <1>1, <2>2 DEF IndInv, CompleteInv
  <2> QED
    BY <2>1, <2>2
<1>5. GaplessInv'
  BY <1>1 DEF IndInv, GaplessInv
<1>6. MarksFollowFacts' /\ \A i \in DOMAIN wire' : wire'[i].kind \in Marks => wire'[i].upto <= Len(handed')
  BY <1>1 DEF IndInv, MarksFollowFacts
<1> QED
  BY <1>3, <1>4, <1>5, <1>6 DEF IndInv

(* A step that has nothing to do with the pipeline's thread. *)
LEMMA AsideKeeps ==
  ASSUME IndInv, TypeOK', UNCHANGED <<phase, handed, steps, staged, bytes, wire, gaveUp>>,
         message' \in [Threads -> Messages], message'["pipeline"] = message["pipeline"],
         message'["timer"] = Nothing, pc'["pipeline"] = pc["pipeline"],
         tries'["pipeline"] = tries["pipeline"], pc'["timer"] = "wait" => tries'["timer"] > 0,
         cancelled => cancelled'
  PROVE  IndInv'
<1>1. StepsInv' /\ StagedInv'
  BY DEF IndInv, StepsInv, StagedInv
<1>2. MessageInv'
  BY DEF IndInv, MessageInv, Threads
<1>3. Pending' = Pending /\ InFlight' = InFlight /\ (Ending <=> Ending')
  BY DEF Pending, InFlight, Ending
<1> QED
  BY <1>1, <1>2, <1>3, NothingArrives

-----------------------------------------------------------------------------
(* The handlers. *)

LEMMA TimerTypes ==
  ASSUME TypeOK, pc' = pc, UNCHANGED timer \/ DisableKeepalive
  PROVE  /\ timer' \in {"scheduled", "running", "stopping", "off"}
         /\ timer' \in {"running", "stopping"} <=> pc'["timer"] # "idle"
BY DEF TypeOK, DisableKeepalive

StepLists == {<<>>, <<"info">>, <<"flush">>, <<"ffwd">>, <<"flush", "catchup">>,
              <<"flush", "complete", "completed">>, <<"flush", "error">>}

LEMMA StepListTypes ==
  \A todo \in StepLists :
    todo \in Seq(Marks \cup {"info", "flush", "add", "completed", "error"})
<1> DEFINE Names == Marks \cup {"info", "flush", "add", "completed", "error"}
<1>1. /\ "info" \in Names /\ "flush" \in Names /\ "ffwd" \in Names /\ "catchup" \in Names
      /\ "complete" \in Names /\ "completed" \in Names /\ "error" \in Names
  BY DEF Marks
<1> HIDE DEF Names
<1>2. /\ <<>> \in Seq(Names) /\ <<"info">> \in Seq(Names) /\ <<"flush">> \in Seq(Names)
      /\ <<"ffwd">> \in Seq(Names) /\ <<"flush", "catchup">> \in Seq(Names)
      /\ <<"flush", "complete", "completed">> \in Seq(Names) /\ <<"flush", "error">> \in Seq(Names)
  BY <1>1
<1>3. \A todo \in StepLists : todo \in Seq(Names)
  BY <1>2 DEF StepLists
<1> QED
  BY <1>3 DEF Names

(* A handler that hands no fact over. *)
LEMMA HandlerKeeps ==
  ASSUME IndInv, Returned, phase' \in Phases, steps' \in StepLists,
         UNCHANGED timer \/ DisableKeepalive,
         UNCHANGED <<handed, staged, bytes, sendVars, closed, callVars, gaveUp>>,
         StepsInv', StagedInv', phase = "failing" => phase' = "over", phase # "over"
  PROVE  IndInv'
<1>1. TypeOK /\ steps = <<>> /\ pc["pipeline"] = "idle" /\ message["pipeline"] = Nothing
  BY DEF IndInv, MessageInv, Returned
<1>2. TypeOK'
  <2>1. /\ timer' \in {"scheduled", "running", "stopping", "off"}
        /\ timer' \in {"running", "stopping"} <=> pc'["timer"] # "idle"
    BY <1>1, TimerTypes DEF sendVars
  <2>2. steps' \in Seq(Marks \cup {"info", "flush", "add", "completed", "error"})
    BY StepListTypes
  <2> QED
    BY <1>1, <2>1, <2>2 DEF TypeOK, sendVars, callVars
<1>3. MessageInv'
  BY <1>1, NothingHasNoFacts DEF IndInv, MessageInv, sendVars
<1>4. Pending = {} /\ Pending' = {}
  <2>1. <<>> # <<"add">> /\ <<>> # <<"flush", "add">>
    OBVIOUS
  <2>2. <<"ffwd">> # <<"add">> /\ <<"info">> # <<"add">> /\ <<"flush">> # <<"add">>
    OBVIOUS
  <2>3. /\ <<"ffwd">> # <<"flush", "add">> /\ <<"flush", "catchup">> # <<"add">>
        /\ <<"flush", "complete", "completed">> # <<"add">> /\ <<"flush", "error">> # <<"add">>
    OBVIOUS
  <2>4. \A todo \in StepLists : todo # <<"add">> /\ todo # <<"flush", "add">>
    BY <2>1, <2>2, <2>3, Distinct DEF StepLists
  <2> QED
    BY <1>1, <2>1, <2>4 DEF Pending
<1>5. InFlight' = InFlight /\ message' = message /\ cancelled' = cancelled /\ gaveUp' = gaveUp /\ wire' = wire
  BY DEF InFlight, sendVars, callVars
<1>6. Ending => Ending'
  BY <1>5 DEF Ending
<1> QED
  BY <1>2, <1>3, <1>4, <1>5, <1>6, NothingArrives

LEMMA CallKeeps ==
  ASSUME IndInv, NEW from, NEW to, NEW todo, Call(from, to, todo),
         UNCHANGED timer \/ DisableKeepalive,
         \/ from = "start" /\ to = "catchup" /\ todo \in {<<>>, <<"info">>}
         \/ from = "catchup" /\ to = "flushed" /\ todo = <<"flush">>
         \/ from = "flushed" /\ to = "forwarded" /\ todo \in {<<>>, <<"ffwd">>}
         \/ from = "forwarded" /\ to = "caughtUp" /\ todo = <<"flush", "catchup">>
         \/ from = "caughtUp" /\ to = "follow" /\ todo = <<>>
         \/ from = "follow" /\ to = "flush" /\ todo = <<"flush">>
         \/ from = "flush" /\ to = "follow" /\ todo = <<>>
         \/ from = "caughtUp" /\ to = "completing" /\ todo = <<"flush", "complete", "completed">>
         \/ from = "failing" /\ to = "over" /\ todo = <<"flush", "error">>
  PROVE  IndInv'
<1>1. /\ phase = from /\ Returned /\ phase' = to /\ steps' = todo
      /\ UNCHANGED <<handed, staged, bytes, sendVars, closed, callVars, gaveUp>>
  BY DEF Call
<1>2. steps = <<>> /\ pc["pipeline"] = "idle" /\ StagedInv
  BY <1>1 DEF Returned, IndInv
<1>3. todo \in StepLists /\ to \in Phases /\ from # "over"
  BY DEF StepLists, Phases
<1>4. <<>> # <<"flush">>
  OBVIOUS
<1>5. StagedInv'
  <2>1. staged' = staged /\ bytes' = bytes /\ pc' = pc
    BY <1>1 DEF sendVars
  <2>2. from \in {"start", "flushed", "forwarded", "caughtUp"} => staged = <<>>
    BY <1>1, <1>2, <1>4 DEF StagedInv
  <2>3. todo # <<>> /\ Head(todo) # "flush" => todo \in {<<"info">>, <<"ffwd">>}
    BY StepSequences
  <2>4. todo \in {<<"info">>, <<"ffwd">>} => from \in {"start", "flushed"}
    BY StepSequences
  <2>5. \/ to = "flushed" /\ todo = <<"flush">>
        \/ from \in {"start", "flushed", "forwarded", "caughtUp"}
        \/ to \in {"flush", "follow", "over"}
    <3>1. \/ to = "flushed" /\ todo = <<"flush">>
          \/ from = "start" \/ from = "flushed" \/ from = "forwarded" \/ from = "caughtUp"
          \/ to = "flush" \/ to = "follow" \/ to = "over"
      OBVIOUS
    <3> QED
      BY <3>1, Zenon
  <2>6. CASE from \in {"start", "flushed", "forwarded", "caughtUp"}
    BY <1>1, <1>2, <2>1, <2>2, <2>6 DEF StagedInv
  <2>7. CASE to \in {"flush", "follow", "over"}
    BY <1>1, <1>2, <2>1, <2>2, <2>3, <2>4, <2>7 DEF StagedInv
  <2>8. CASE to = "flushed" /\ todo = <<"flush">>
    BY <1>1, <1>2, <2>1, <2>3, <2>4, <2>8 DEF StagedInv
  <2> QED
    BY <2>5, <2>6, <2>7, <2>8
<1>6. StepsInv'
  BY <1>1 DEF StepsInv
<1> QED
  BY <1>1, <1>3, <1>5, <1>6, HandlerKeeps

LEMMA PipelineFailsKeeps == IndInv /\ PipelineFails => IndInv'
<1> SUFFICES ASSUME IndInv, PipelineFails PROVE IndInv'
  OBVIOUS
<1>1. /\ phase \in {"catchup", "flushed", "forwarded", "caughtUp", "follow"}
      /\ Returned /\ phase' = "failing" /\ steps' \in {<<>>, <<"flush">>}
      /\ UNCHANGED <<handed, staged, bytes, sendVars, timer, closed, callVars, gaveUp>>
  BY DEF PipelineFails, FlushSignal
<1>2. steps' \in StepLists /\ phase' \in Phases
  BY <1>1 DEF StepLists, Phases
<1>3. StepsInv'
  BY <1>1 DEF StepsInv
<1>4. StagedInv'
  <2>1. staged' = staged /\ bytes' = bytes /\ pc' = pc
    BY <1>1 DEF sendVars
  <2>2. steps' # <<>> => Head(steps') = "flush"
    BY <1>1, StepSequences
  <2> QED
    BY <1>1, <2>1, <2>2 DEF IndInv, StagedInv
<1> QED
  BY <1>1, <1>2, <1>3, <1>4, HandlerKeeps

LEMMA OtherHandlersKeep ==
  ASSUME IndInv, OnFactStreamInfo \/ FlushCatchup \/ OnFastForward \/ OnCatchup \/ Follow
                 \/ FlushQuery \/ QueryEnds \/ OnComplete \/ OnError
  PROVE  IndInv'
<1>1. CASE OnFactStreamInfo
  BY <1>1, CallKeeps DEF OnFactStreamInfo
<1>2. CASE FlushCatchup
  BY <1>2, CallKeeps DEF FlushCatchup, FlushSignal
<1>3. CASE OnFastForward
  BY <1>3, CallKeeps DEF OnFastForward
<1>4. CASE OnCatchup
  BY <1>4, CallKeeps DEF OnCatchup
<1>5. CASE Follow
  BY <1>5, CallKeeps DEF Follow
<1>6. CASE FlushQuery
  BY <1>6, CallKeeps DEF FlushQuery, FlushSignal
<1>7. CASE QueryEnds
  BY <1>7, CallKeeps DEF QueryEnds
<1>8. CASE OnComplete
  BY <1>8, CallKeeps DEF OnComplete
<1>9. CASE OnError
  BY <1>9, CallKeeps DEF OnError
<1> QED
  BY <1>1, <1>2, <1>3, <1>4, <1>5, <1>6, <1>7, <1>8, <1>9

(* A fact that is appended to sequence s. *)
LEMMA Appended ==
  ASSUME NEW s \in Seq(Ids), NEW id \in Ids, Rising(s), \A f \in ToSet(s) : f < id
  PROVE  /\ Append(s, id) \in Seq(Ids) /\ Rising(Append(s, id)) /\ Append(s, id) # <<>>
         /\ \A f : f \in ToSet(Append(s, id)) <=> f \in ToSet(s) \/ f = id
<1> DEFINE n == Len(s)
           t == Append(s, id)
<1>1. /\ t \in Seq(Ids) /\ Len(t) = n + 1 /\ t[n + 1] = id /\ n \in Nat
      /\ \A a \in 1 .. n : t[a] = s[a]
  OBVIOUS
<1>2. DOMAIN t = 1 .. n + 1 /\ DOMAIN s = 1 .. n
  BY <1>1
<1> HIDE DEF n, t
<1>3. \A a \in 1 .. n + 1 : a \in 1 .. n \/ a = n + 1
  BY <1>1
<1>4. n + 1 \in 1 .. n + 1 /\ \A a \in 1 .. n : a \in 1 .. n + 1
  BY <1>1
<1>5. \A f : f \in ToSet(s) <=> \E a \in 1 .. n : f = s[a]
  BY SetsOfIds DEF n
<1>6. \A f : f \in ToSet(t) <=> \E a \in 1 .. n + 1 : f = t[a]
  BY <1>1, SetsOfIds
<1>7. \A f : f \in ToSet(t) <=> f \in ToSet(s) \/ f = id
  BY <1>1, <1>3, <1>4, <1>5, <1>6
<1>8. Rising(t)
  <2> SUFFICES ASSUME NEW a \in 1 .. n + 1, NEW b \in 1 .. n + 1, a < b PROVE t[a] < t[b]
    BY <1>2 DEF Rising
  <2>1. a \in 1 .. n
    BY <1>1
  <2>2. CASE b \in 1 .. n
    BY <1>1, <1>2, <2>1, <2>2 DEF Rising
  <2>3. CASE b = n + 1
    BY <1>1, <1>5, <2>1, <2>3
  <2> QED
    BY <1>3, <2>2, <2>3
<1>9. t # <<>>
  BY <1>1
<1> QED
  BY <1>1, <1>7, <1>8, <1>9 DEF t

LEMMA OnNextKeeps ==
  ASSUME IndInv, NEW size \in Sizes, OnNext(size)
  PROVE  IndInv'
<1>0. PICK n \in Nat : n = Len(handed)
  BY DEF IndInv, TypeOK
<1>1. /\ phase \in {"catchup", "follow"} /\ steps = <<>> /\ pc["pipeline"] = "idle"
      /\ n < MaxFacts /\ handed' = Append(handed, size)
      /\ steps' = IF Fits(size) THEN <<>> ELSE <<"flush", "add">>
      /\ UNCHANGED <<phase, sendVars, timer, closed, callVars, gaveUp>>
  BY <1>0 DEF OnNext, Returned, FlushAndAdd
<1>2. TypeOK /\ message["pipeline"] = Nothing
  BY <1>1 DEF IndInv, MessageInv
<1>3. n \in Nat /\ size \in Sizes /\ size \in Nat /\ MaxFacts \in Nat /\ MaxBytes \in Int /\ bytes \in Nat
  BY <1>0, <1>2, SizesAssumption, Limits DEF TypeOK
<1>4. /\ handed' \in Seq(Sizes) /\ Len(handed') = n + 1 /\ handed'[n + 1] = size
      /\ \A a \in 1 .. n : handed'[a] = handed[a]
      /\ n + 1 \in Ids /\ n + 1 <= MaxFacts
  <2>1. handed \in Seq(Sizes)
    BY <1>2 DEF TypeOK
  <2> QED
    BY <1>0, <1>1, <1>3, <2>1 DEF Ids
<1>5. /\ \A m \in Nat : m <= n => Fitting(m)' = Fitting(m)
      /\ \A f : f \in Fitting(n + 1)' <=> f \in Fitting(n) \/ (f = n + 1 /\ size < MaxBytes)
      /\ Fitting(n) \subseteq 1 .. n
  <2>1. ASSUME NEW m \in Nat, m <= n PROVE Fitting(m)' = Fitting(m)
    <3>1. \A a \in 1 .. m : a \in 1 .. n
      BY <1>3, <2>1
    <3> QED
      BY <1>4, <3>1 DEF Fitting
  <2>2. \A a : a \in 1 .. n + 1 <=> a \in 1 .. n \/ a = n + 1
    BY <1>3
  <2>3. \A f : f \in Fitting(n + 1)' <=> f \in Fitting(n) \/ (f = n + 1 /\ size < MaxBytes)
    <3>1. ~(n + 1 \in 1 .. n)
      BY <1>3
    <3> QED
      BY <1>4, <2>2, <3>1 DEF Fitting
  <2> QED
    BY <2>1, <2>3 DEF Fitting
<1>6. Sent' = Sent /\ InFlight' = {} /\ InFlight = {} /\ \A k : SentBy(k)' = SentBy(k)
  <2>1. wire' = wire /\ message' = message
    BY <1>1 DEF callVars, sendVars
  <2> QED
    BY <1>2, <2>1, NothingHasNoFacts, SetsOfIds DEF Sent, SentBy, InFlight
<1>7. Pending = {}
  <2>1. <<>> # <<"add">> /\ <<>> # <<"flush", "add">>
    OBVIOUS
  <2> QED
    BY <1>1, <2>1 DEF Pending
<1>8. /\ staged \in Seq(Ids) /\ Rising(staged) /\ Staged \subseteq Fitting(n) /\ Sent \subseteq Fitting(n)
      /\ \A f \in Staged \cup Sent : f \in Nat /\ f < n + 1 /\ f <= n
  <2>1. staged \in Seq(Ids) /\ Rising(staged) /\ Staged \subseteq Fitting(n) /\ Sent \subseteq Fitting(n)
    BY <1>0, <1>2 DEF IndInv, OrderInv, TypeOK
  <2>2. \A f \in 1 .. n : f \in Nat /\ f < n + 1 /\ f <= n
    BY <1>3
  <2> QED
    BY <1>5, <2>1, <2>2
<1>9. /\ staged' \in Seq(Ids) /\ Rising(staged') /\ bytes' \in Nat
      /\ IF Fits(size) THEN staged' # <<>> /\ size < MaxBytes /\ \A f : f \in Staged' <=> f \in Staged \/ f = n + 1
                       ELSE staged' = staged /\ bytes' = bytes
  <2>1. CASE Fits(size)
    <3>1. staged' = Append(staged, n + 1) /\ bytes' = bytes + size
      BY <1>0, <1>4, <2>1 DEF OnNext, Add
    <3>2. size < MaxBytes
      BY <1>3, <2>1 DEF Fits
    <3>3. bytes' \in Nat
      BY <1>3, <3>1
    <3> QED
      BY <1>4, <1>8, <2>1, <3>1, <3>2, <3>3, Appended DEF Staged
  <2>2. CASE ~Fits(size)
    BY <1>3, <1>8, <2>2 DEF OnNext, Add
  <2> QED
    BY <2>1, <2>2
<1>10. Pending' = IF Fits(size) THEN {} ELSE {n + 1}
  <2>1. <<>> # <<"add">> /\ <<>> # <<"flush", "add">>
    OBVIOUS
  <2> QED
    BY <1>1, <1>4, <2>1 DEF Pending
<1>11. TypeOK'
  <2>1. steps' \in Seq(Marks \cup {"info", "flush", "add", "completed", "error"})
    <3>1. \A S : <<>> \in Seq(S) /\ ("flush" \in S /\ "add" \in S => <<"flush", "add">> \in Seq(S))
      OBVIOUS
    <3> QED
      BY <1>1, <3>1
  <2>2. Len(handed') <= MaxFacts
    BY <1>4
  <2> QED
    BY <1>1, <1>2, <1>4, <1>9, <2>1, <2>2 DEF TypeOK, sendVars, callVars
<1>12. StepsInv'
  BY <1>1 DEF StepsInv
<1>13. StagedInv'
  <2>1. steps' # <<>> => Head(steps') = "flush"
    BY <1>1, StepSequences
  <2>2. staged' = <<>> => bytes' = 0
    BY <1>9 DEF IndInv, StagedInv
  <2> QED
    BY <1>1, <2>1, <2>2 DEF StagedInv, sendVars
<1>14. MessageInv'
  BY <1>1, <1>2, NothingHasNoFacts DEF IndInv, MessageInv, sendVars
<1>15. OrderInv'
  <2>1. wire' = wire /\ message' = message
    BY <1>1 DEF callVars, sendVars
  <2>2. /\ \A i \in DOMAIN wire : Rising(wire[i].facts)
        /\ Rising(message["pipeline"].facts)
        /\ \A i, j \in DOMAIN wire : i < j => Below(ToSet(wire[i].facts), ToSet(wire[j].facts))
        /\ Below(Sent, Staged)
    BY DEF IndInv, OrderInv
  <2>3. /\ Below(Sent, Staged') /\ Below(Sent, Pending') /\ Below(Staged', Pending')
    <3>1. CASE Fits(size)
      BY <1>8, <1>9, <1>10, <2>2, <3>1 DEF Below
    <3>2. CASE ~Fits(size)
      BY <1>8, <1>9, <1>10, <2>2, <3>2 DEF Below, Staged
    <3> QED
      BY <3>1, <3>2
  <2>4. Sent \cup Staged' \subseteq Fitting(n + 1)'
    BY <1>5, <1>8, <1>9 DEF Staged
  <2>5. Pending' \subseteq 1 .. n + 1
    BY <1>3, <1>10
  <2>6. \A A : Below({}, A) /\ Below(A, {})
    BY DEF Below
  <2>7. Fitting(Len(handed))' = Fitting(n + 1)'
    BY <1>4 DEF Fitting
  <2> QED
    BY <1>4, <1>6, <1>9, <2>1, <2>2, <2>3, <2>4, <2>5, <2>6, <2>7 DEF OrderInv, Rising, Below
<1>16. CompleteInv'
  <2>1. CASE cancelled \/ gaveUp
    BY <1>1, <2>1 DEF CompleteInv, callVars
  <2>2. CASE ~(cancelled \/ gaveUp)
    <3>1. Fitting(n) \subseteq Sent \cup Staged
      BY <1>0, <1>1, <1>6, <1>7, <2>2 DEF IndInv, CompleteInv, Ending
    <3>2. \A f \in Fitting(n + 1)' : f \in Sent \cup Staged' \cup Pending'
      <4>1. CASE Fits(size)
        BY <1>5, <1>9, <3>1, <4>1
      <4>2. CASE ~Fits(size)
        BY <1>5, <1>9, <1>10, <3>1, <4>2 DEF Staged
      <4> QED
        BY <4>1, <4>2
    <3>3. Fitting(Len(handed))' = Fitting(n + 1)'
      BY <1>4 DEF Fitting
    <3> QED
      BY <1>6, <3>2, <3>3 DEF CompleteInv
  <2> QED
    BY <2>1, <2>2
<1>17. GaplessInv'
  <2>1. \A f \in Sent : Fitting(f)' = Fitting(f)
    BY <1>5, <1>8
  <2> QED
    BY <1>1, <1>6, <2>1 DEF IndInv, GaplessInv
<1>18. /\ MarksFollowFacts' /\ \A i \in DOMAIN wire' : wire'[i].kind \in Marks => wire'[i].upto <= Len(handed')
  <2>1. wire' = wire /\ gaveUp' = gaveUp
    BY <1>1 DEF callVars
  <2>2. ASSUME NEW i \in DOMAIN wire, wire[i].kind \in Marks
        PROVE  wire[i].upto \in Nat /\ wire[i].upto <= n /\ wire[i].upto <= n + 1
    <3>1. wire[i] \in Messages
      BY <1>2 DEF TypeOK
    <3>2. wire[i].upto <= n /\ wire[i].upto \in Nat
      BY <1>0, <2>2, <3>1 DEF IndInv, Messages
    <3> QED
      BY <1>3, <3>2
  <2>3. ASSUME NEW i \in DOMAIN wire, wire[i].kind \in Marks
        PROVE  Fitting(wire[i].upto)' = Fitting(wire[i].upto)
    <3>1. \A m \in Nat : m <= n => {a \in 1 .. m : handed'[a] < MaxBytes} = {a \in 1 .. m : handed[a] < MaxBytes}
      BY <1>5 DEF Fitting
    <3> QED
      BY <2>1, <2>2, <2>3, <3>1 DEF Fitting
  <2>4. MarksFollowFacts'
    <3> SUFFICES ASSUME NEW i \in DOMAIN wire, wire[i].kind \in Marks, ~gaveUp
                 PROVE  Fitting(wire[i].upto)' \subseteq SentBy(i)
      BY <1>6, <2>1 DEF MarksFollowFacts
    <3> QED
      BY <2>3 DEF IndInv, MarksFollowFacts
  <2> QED
    BY <1>4, <2>1, <2>2, <2>4
<1> QED
  BY <1>11, <1>12, <1>13, <1>14, <1>15, <1>16, <1>17, <1>18 DEF IndInv

-----------------------------------------------------------------------------
(* The steps of a handler. *)

Taken(step, from, to, places) == steps = from /\ steps' = to /\ phase \in places

(* What step of which handler it is. *)
LEMMA WhichStep ==
  ASSUME IndInv, NEW step, NextStep(step)
  PROVE  \/ step = "info" /\ Taken(step, <<"info">>, <<>>, {"catchup"})
         \/ step = "flush" /\ Taken(step, <<"flush", "add">>, <<"add">>, {"catchup", "follow"})
         \/ step = "add" /\ Taken(step, <<"add">>, <<>>, {"catchup", "follow"})
         \/ step = "flush" /\ Taken(step, <<"flush">>, <<>>, {"flushed", "flush", "failing"})
         \/ step = "ffwd" /\ Taken(step, <<"ffwd">>, <<>>, {"forwarded"})
         \/ step = "flush" /\ Taken(step, <<"flush", "catchup">>, <<"catchup">>, {"caughtUp"})
         \/ step = "catchup" /\ Taken(step, <<"catchup">>, <<>>, {"caughtUp"})
         \/ step = "flush" /\ Taken(step, <<"flush", "complete", "completed">>,
                                    <<"complete", "completed">>, {"completing"})
         \/ step = "complete" /\ Taken(step, <<"complete", "completed">>, <<"completed">>, {"completing"})
         \/ step = "completed" /\ Taken(step, <<"completed">>, <<>>, {"completing"})
         \/ step = "flush" /\ Taken(step, <<"flush", "error">>, <<"error">>, {"over"})
         \/ step = "error" /\ Taken(step, <<"error">>, <<>>, {"over"})
<1>1. steps # <<>> /\ Head(steps) = step /\ steps' = Tail(steps)
  BY DEF NextStep
<1>2. StepsInv /\ phase \in Phases
  BY DEF IndInv, TypeOK
<1>3. CASE phase = "start"
  BY <1>1, <1>2, <1>3 DEF StepsInv
<1>4. CASE phase = "catchup"
  <2>1. steps \in {<<"info">>, <<"flush", "add">>, <<"add">>}
    BY <1>1, <1>2, <1>4 DEF StepsInv
  <2> QED
    BY <1>1, <1>4, <2>1, StepSequences DEF Taken
<1>5. CASE phase = "flushed"
  <2>1. steps = <<"flush">>
    BY <1>1, <1>2, <1>5 DEF StepsInv
  <2> QED
    BY <1>1, <1>5, <2>1, StepSequences DEF Taken
<1>6. CASE phase = "forwarded"
  <2>1. steps = <<"ffwd">>
    BY <1>1, <1>2, <1>6 DEF StepsInv
  <2> QED
    BY <1>1, <1>6, <2>1, StepSequences DEF Taken
<1>7. CASE phase = "caughtUp"
  <2>1. steps \in {<<"flush", "catchup">>, <<"catchup">>}
    BY <1>1, <1>2, <1>7 DEF StepsInv
  <2> QED
    BY <1>1, <1>7, <2>1, StepSequences DEF Taken
<1>8. CASE phase = "follow"
  <2>1. steps \in {<<"flush", "add">>, <<"add">>}
    BY <1>1, <1>2, <1>8 DEF StepsInv
  <2> QED
    BY <1>1, <1>8, <2>1, StepSequences DEF Taken
<1>9. CASE phase = "flush"
  <2>1. steps = <<"flush">>
    BY <1>1, <1>2, <1>9 DEF StepsInv
  <2> QED
    BY <1>1, <1>9, <2>1, StepSequences DEF Taken
<1>10. CASE phase = "completing"
  <2>1. steps \in {<<"completed">>, <<"complete", "completed">>, <<"flush", "complete", "completed">>}
    BY <1>1, <1>2, <1>10 DEF StepsInv
  <2> QED
    BY <1>1, <1>10, <2>1, StepSequences DEF Taken
<1>11. CASE phase = "failing"
  <2>1. steps = <<"flush">>
    BY <1>1, <1>2, <1>11 DEF StepsInv
  <2> QED
    BY <1>1, <1>11, <2>1, StepSequences DEF Taken
<1>12. CASE phase = "over"
  <2>1. steps \in {<<"error">>, <<"flush", "error">>}
    BY <1>1, <1>2, <1>12 DEF StepsInv
  <2> QED
    BY <1>1, <1>12, <2>1, StepSequences DEF Taken
<1> QED
  BY <1>2, <1>3, <1>4, <1>5, <1>6, <1>7, <1>8, <1>9, <1>10, <1>11, <1>12 DEF Phases

LEMMA StepTaken ==
  ASSUME IndInv, NEW step, NextStep(step)
  PROVE  /\ StepsInv' /\ steps' \in Seq(Marks \cup {"info", "flush", "add", "completed", "error"})
         /\ steps' # <<>> => Head(steps') # "flush"
         /\ step # "flush" => staged = <<>> /\ bytes = 0
         /\ step # "add" => Pending' = Pending
         /\ step = "add" =>
              Pending = {Len(handed)} /\ Pending' = {} /\ steps' = <<>> /\ phase \in {"catchup", "follow"}
         /\ step = "ffwd" => phase = "forwarded"
         /\ step = "catchup" => phase = "caughtUp"
         /\ step = "complete" => phase = "completing"
         /\ phase' = phase /\ handed' = handed
<1> DEFINE Names == Marks \cup {"info", "flush", "add", "completed", "error"}
<1>1. /\ steps # <<>> /\ Head(steps) = step /\ steps' = Tail(steps) /\ phase' = phase /\ handed' = handed
  BY DEF NextStep, pipeVars
<1>2. steps' \in Seq(Names)
  BY <1>1 DEF IndInv, TypeOK
<1>3. step # "flush" => staged = <<>> /\ bytes = 0
  BY <1>1 DEF IndInv, StagedInv
<1> HIDE DEF Names
<1>4. <<>> # <<"add">> /\ <<>> # <<"flush", "add">> /\ <<"flush">> # <<"add">> /\ <<"ffwd">> # <<"add">>
      /\ <<"catchup">> # <<"add">> /\ <<"completed">> # <<"add">>
  OBVIOUS
<1>5. /\ <<"ffwd">> # <<"flush", "add">> /\ <<"catchup">> # <<"flush", "add">>
      /\ <<"completed">> # <<"flush", "add">> /\ <<"error">> # <<"flush", "add">>
      /\ <<"add">> # <<"flush", "add">> /\ <<"info">> # <<"flush", "add">>
  OBVIOUS
<1>6. /\ <<"flush", "catchup">> # <<"add">> /\ <<"flush", "error">> # <<"add">>
      /\ <<"complete", "completed">> # <<"add">> /\ <<"flush", "complete", "completed">> # <<"add">>
  OBVIOUS
<1>7. /\ StepsInv'
      /\ steps' # <<>> => Head(steps') # "flush"
      /\ step # "add" => Pending' = Pending
      /\ step = "add" =>
           Pending = {Len(handed)} /\ Pending' = {} /\ steps' = <<>> /\ phase \in {"catchup", "follow"}
      /\ step = "ffwd" => phase = "forwarded"
      /\ step = "catchup" => phase = "caughtUp"
      /\ step = "complete" => phase = "completing"
  <2>1. CASE step = "info" /\ Taken(step, <<"info">>, <<>>, {"catchup"})
    BY <1>1, <1>4, <2>1, Distinct DEF Taken, StepsInv, Pending
  <2>2. CASE step = "flush" /\ Taken(step, <<"flush", "add">>, <<"add">>, {"catchup", "follow"})
    BY <1>1, <2>2, StepSequences DEF Taken, StepsInv, Pending
  <2>3. CASE step = "add" /\ Taken(step, <<"add">>, <<>>, {"catchup", "follow"})
    BY <1>1, <1>4, <2>3 DEF Taken, StepsInv, Pending
  <2>4. CASE step = "flush" /\ Taken(step, <<"flush">>, <<>>, {"flushed", "flush", "failing"})
    BY <1>1, <1>4, <2>4, Distinct DEF Taken, StepsInv, Pending
  <2>5. CASE step = "ffwd" /\ Taken(step, <<"ffwd">>, <<>>, {"forwarded"})
    BY <1>1, <1>4, <1>5, <2>5 DEF Taken, StepsInv, Pending
  <2>6. CASE step = "flush" /\ Taken(step, <<"flush", "catchup">>, <<"catchup">>, {"caughtUp"})
    BY <1>1, <1>4, <1>5, <1>6, <2>6, Distinct, StepSequences DEF Taken, StepsInv, Pending
  <2>7. CASE step = "catchup" /\ Taken(step, <<"catchup">>, <<>>, {"caughtUp"})
    BY <1>1, <1>4, <1>5, <2>7 DEF Taken, StepsInv, Pending
  <2>8. CASE step = "flush" /\ Taken(step, <<"flush", "complete", "completed">>,
                                     <<"complete", "completed">>, {"completing"})
    BY <1>1, <1>6, <2>8, Distinct, StepSequences DEF Taken, StepsInv, Pending
  <2>9. CASE step = "complete" /\ Taken(step, <<"complete", "completed">>, <<"completed">>, {"completing"})
    BY <1>1, <1>4, <1>5, <1>6, <2>9, Distinct, StepSequences DEF Taken, StepsInv, Pending
  <2>10. CASE step = "completed" /\ Taken(step, <<"completed">>, <<>>, {"completing"})
    BY <1>1, <1>4, <1>5, <2>10 DEF Taken, StepsInv, Pending
  <2>11. CASE step = "flush" /\ Taken(step, <<"flush", "error">>, <<"error">>, {"over"})
    BY <1>1, <1>5, <1>6, <2>11, Distinct, StepSequences DEF Taken, StepsInv, Pending
  <2>12. CASE step = "error" /\ Taken(step, <<"error">>, <<>>, {"over"})
    BY <1>1, <1>4, <1>5, <2>12, Distinct DEF Taken, StepsInv, Pending
  <2> QED
    BY <2>1, <2>2, <2>3, <2>4, <2>5, <2>6, <2>7, <2>8, <2>9, <2>10, <2>11, <2>12, WhichStep
<1> QED
  BY <1>1, <1>2, <1>3, <1>7 DEF Names

LEMMA SendsTypes ==
  ASSUME TypeOK, NEW m \in Messages, NEW t \in Threads, Sends(t, m)
  PROVE  /\ message' \in [Threads -> Messages] /\ pc' \in [Threads -> {"idle", "send", "wait"}]
         /\ message'[t] = m /\ pc'[t] = "send"
         /\ \A u \in Threads \ {t} : message'[u] = message[u] /\ pc'[u] = pc[u]
BY DEF TypeOK, Sends

LEMMA MessageTypes ==
  ASSUME TypeOK
  PROVE  /\ Batch(staged) \in Messages /\ Batch(staged).facts = staged /\ Batch(staged).kind = "facts"
         /\ Batch(staged).kind \notin Marks /\ Batch(staged) # Nothing
         /\ \A kind \in Marks : /\ Mark(kind) \in Messages /\ Mark(kind).facts = <<>>
                                /\ Mark(kind).upto = Len(handed)
BY SetsOfIds DEF TypeOK, Batch, Mark, Nothing, Messages, Marks

(* A step that sends no facts, and leaves the staged ones alone. *)
LEMMA PlainStepKeeps ==
  ASSUME IndInv, NEW step, NextStep(step), step # "add", step # "flush" \/ staged = <<>>,
         TypeOK', UNCHANGED <<staged, bytes, cancelled, wire>>,
         message'["pipeline"].facts = <<>>, message'["timer"] = Nothing,
         pc'["timer"] = pc["timer"],
         \/ message' = message /\ pc' = pc
         \/ message'["pipeline"] = Nothing /\ pc'["pipeline"] = "send"
         \/ /\ pc'["pipeline"] = "send" /\ message'["pipeline"].upto = Len(handed)
            /\ phase \in {"forwarded", "caughtUp", "completing"}
  PROVE  IndInv'
<1>1. /\ StepsInv' /\ (steps' # <<>> => Head(steps') # "flush") /\ Pending' = Pending
      /\ phase' = phase /\ handed' = handed /\ staged = <<>>
  BY StepTaken
<1>2. /\ pc["pipeline"] = "idle" /\ message["pipeline"] = Nothing /\ tries' = tries /\ gaveUp' = gaveUp
  BY DEF NextStep, IndInv, MessageInv
<1>3. StagedInv'
  BY <1>1 DEF IndInv, StagedInv
<1>4. MessageInv'
  BY <1>1, <1>2, NothingHasNoFacts DEF IndInv, MessageInv, Threads
<1>5. InFlight' = InFlight
  BY <1>2, NothingHasNoFacts DEF InFlight
<1>6. Ending => Ending'
  BY <1>1, <1>2 DEF Ending
<1> QED
  BY <1>1, <1>2, <1>3, <1>4, <1>5, <1>6, NothingArrives

LEMMA SendInfoKeeps == IndInv /\ SendInfo => IndInv'
<1> SUFFICES ASSUME IndInv, SendInfo PROVE IndInv'
  OBVIOUS
<1>1. /\ NextStep("info") /\ Sends("pipeline", Nothing) /\ UNCHANGED <<staged, bytes, closed, callVars>>
      /\ TypeOK /\ message["timer"] = Nothing
  BY DEF SendInfo, IndInv, MessageInv
<1>2. /\ message' \in [Threads -> Messages] /\ pc' \in [Threads -> {"idle", "send", "wait"}]
      /\ message'["pipeline"] = Nothing /\ pc'["pipeline"] = "send"
      /\ message'["timer"] = message["timer"] /\ pc'["timer"] = pc["timer"]
  BY <1>1, SendsTypes, NothingHasNoFacts DEF Threads
<1>3. TypeOK'
  BY <1>1, <1>2, StepTaken DEF TypeOK, NextStep, pipeVars, callVars
<1> QED
  BY <1>1, <1>2, <1>3, NothingHasNoFacts, PlainStepKeeps DEF callVars

LEMMA SendMarkKeeps ==
  ASSUME IndInv, NEW kind \in Marks, SendMark(kind)
  PROVE  IndInv'
<1>1. /\ NextStep(kind) /\ Sends("pipeline", Mark(kind)) /\ UNCHANGED <<staged, bytes, closed, callVars>>
      /\ TypeOK /\ message["timer"] = Nothing
  BY DEF SendMark, IndInv, MessageInv
<1>2. /\ message' \in [Threads -> Messages] /\ pc' \in [Threads -> {"idle", "send", "wait"}]
      /\ message'["pipeline"] = Mark(kind) /\ pc'["pipeline"] = "send"
      /\ message'["timer"] = message["timer"] /\ pc'["timer"] = pc["timer"]
  BY <1>1, SendsTypes, MessageTypes DEF Threads
<1>3. TypeOK'
  BY <1>1, <1>2, StepTaken DEF TypeOK, NextStep, pipeVars, callVars
<1>4. phase \in {"forwarded", "caughtUp", "completing"} /\ kind # "add" /\ kind # "flush"
  BY <1>1, StepTaken DEF Marks
<1> QED
  BY <1>1, <1>2, <1>3, <1>4, MessageTypes, PlainStepKeeps DEF callVars

LEMMA EndKeeps ==
  ASSUME IndInv, NEW how \in {"completed", "error"}, End(how)
  PROVE  IndInv'
<1>1. /\ NextStep(how) /\ UNCHANGED <<staged, bytes, pc, message, ready, cancelled, wire>>
      /\ closed' = TRUE /\ ended' = IF ended = "open" THEN how ELSE ended
      /\ TypeOK /\ message["timer"] = Nothing
  BY DEF End, IndInv, MessageInv
<1>2. message["pipeline"] = Nothing
  BY <1>1 DEF NextStep, IndInv, MessageInv
<1>3. TypeOK'
  <2>1. ended' \in {"open", "completed", "error"}
    BY <1>1 DEF TypeOK
  <2> QED
    BY <1>1, <2>1, StepTaken DEF TypeOK, NextStep, pipeVars
<1> QED
  BY <1>1, <1>2, <1>3, NothingHasNoFacts, PlainStepKeeps

LEMMA FlushKeeps == IndInv /\ Flush => IndInv'
<1> SUFFICES ASSUME IndInv, Flush PROVE IndInv'
  OBVIOUS
<1>1. /\ NextStep("flush") /\ UNCHANGED <<closed, callVars>> /\ TypeOK /\ message["timer"] = Nothing
      /\ pc["pipeline"] = "idle" /\ message["pipeline"] = Nothing
  BY DEF Flush, NextStep, IndInv, MessageInv
<1>2. CASE staged = <<>>
  <2>1. UNCHANGED <<staged, bytes, pc, message>>
    BY <1>2 DEF Flush
  <2>2. TypeOK'
    BY <1>1, <2>1, StepTaken DEF TypeOK, NextStep, pipeVars, callVars
  <2> QED
    BY <1>1, <1>2, <2>1, <2>2, NothingHasNoFacts, PlainStepKeeps DEF callVars
<1>3. CASE staged # <<>>
  <2>1. Sends("pipeline", Batch(staged)) /\ staged' = <<>> /\ bytes' = 0
    BY <1>3 DEF Flush, PopAll
  <2>2. /\ message' \in [Threads -> Messages] /\ pc' \in [Threads -> {"idle", "send", "wait"}]
        /\ message'["pipeline"] = Batch(staged) /\ pc'["pipeline"] = "send"
        /\ message'["timer"] = Nothing /\ pc'["timer"] = pc["timer"]
        /\ message'["pipeline"].facts = staged /\ message'["pipeline"].kind \notin Marks
    BY <1>1, <2>1, SendsTypes, MessageTypes DEF Threads
  <2>3. /\ StepsInv' /\ (steps' # <<>> => Head(steps') # "flush") /\ Pending' = Pending
        /\ phase' = phase /\ handed' = handed
    BY <1>1, StepTaken
  <2>4. tries' = tries /\ gaveUp' = gaveUp /\ wire' = wire /\ cancelled' = cancelled
    BY <1>1 DEF NextStep, callVars
  <2>5. TypeOK'
    BY <1>1, <2>1, <2>2, StepTaken, SetsOfIds DEF TypeOK, NextStep, pipeVars, callVars
  <2>6. StagedInv' /\ MessageInv'
    BY <2>1, <2>2, <2>3, <2>4 DEF StagedInv, IndInv, MessageInv, Threads
  <2>7. /\ Sent' = Sent /\ InFlight = {} /\ InFlight' = Staged /\ Staged' = {}
        /\ \A m : Fitting(m)' = Fitting(m) /\ SentBy(m)' = SentBy(m)
    BY <1>1, <2>1, <2>2, <2>3, <2>4, SetsOfIds, NothingHasNoFacts
       DEF Sent, InFlight, Staged, Fitting, SentBy
  <2>8. OrderInv'
    <3>1. /\ \A i \in DOMAIN wire : Rising(wire[i].facts)
          /\ Rising(staged)
          /\ \A i, j \in DOMAIN wire : i < j => Below(ToSet(wire[i].facts), ToSet(wire[j].facts))
          /\ Below(Sent, Staged) /\ Below(Sent, Pending) /\ Below(Staged, Pending)
          /\ Sent \cup Staged \subseteq Fitting(Len(handed))
          /\ Pending \subseteq 1 .. Len(handed)
      BY DEF IndInv, OrderInv
    <3>2. \A A : Below({}, A) /\ Below(A, {})
      BY DEF Below
    <3> QED
      BY <2>1, <2>2, <2>3, <2>4, <2>7, <3>1, <3>2, SetsOfIds DEF OrderInv, Rising, Below
  <2>9. CompleteInv'
    BY <1>3, <2>1, <2>3, <2>4, <2>7 DEF IndInv, CompleteInv, Ending
  <2>10. GaplessInv' /\ MarksFollowFacts' /\ \A i \in DOMAIN wire' : wire'[i].kind \in Marks => wire'[i].upto <= Len(handed')
    BY <2>3, <2>4, <2>7 DEF IndInv, GaplessInv, MarksFollowFacts
  <2> QED
    BY <2>3, <2>5, <2>6, <2>8, <2>9, <2>10 DEF IndInv
<1> QED
  BY <1>2, <1>3

LEMMA AddKeeps == IndInv /\ AddToNextBatch => IndInv'
<1> SUFFICES ASSUME IndInv, AddToNextBatch PROVE IndInv'
  OBVIOUS
<1>0. PICK n \in Nat : n = Len(handed)
  BY DEF IndInv, TypeOK
<1>1. /\ NextStep("add") /\ UNCHANGED <<pc, message, closed, callVars>> /\ TypeOK
      /\ pc["pipeline"] = "idle" /\ message["pipeline"] = Nothing
      /\ Add(Len(handed), Last(handed))
  BY DEF AddToNextBatch, NextStep, IndInv, MessageInv
<1>2. /\ StepsInv' /\ staged = <<>> /\ bytes = 0 /\ Pending = {n} /\ Pending' = {} /\ steps' = <<>>
      /\ phase \in {"catchup", "follow"} /\ phase' = phase /\ handed' = handed
  BY <1>0, <1>1, StepTaken
<1>3. tries' = tries /\ gaveUp' = gaveUp /\ wire' = wire /\ cancelled' = cancelled
  BY <1>1 DEF NextStep, callVars
<1>4. n \in 1 .. n /\ n \in Ids /\ Last(handed) = handed[n] /\ handed[n] \in Nat
  <2>1. n \in 1 .. n
    BY <1>0, <1>2 DEF IndInv, OrderInv
  <2>2. n \in Ids
    BY <1>0, <1>1, <2>1, Limits DEF TypeOK, Ids
  <2>3. handed[n] \in Sizes
    BY <1>0, <1>1, <2>1 DEF TypeOK
  <2> QED
    BY <1>0, <2>1, <2>2, <2>3, SizesAssumption DEF Last
<1>5. Fits(handed[n]) <=> n \in Fitting(n)
  <2>1. MaxBytes \in Int /\ 0 + handed[n] = handed[n]
    BY <1>4, Limits
  <2> QED
    BY <1>2, <1>4, <2>1 DEF Fits, Fitting
<1>6. /\ staged' \in Seq(Ids) /\ Rising(staged') /\ bytes' \in Nat /\ (staged' = <<>> => bytes' = 0)
      /\ IF Fits(handed[n]) THEN Staged' = {n} ELSE Staged' = {}
  <2>1. CASE Fits(handed[n])
    <3>1. staged' = Append(staged, n) /\ bytes' = bytes + handed[n]
      BY <1>0, <1>1, <1>4, <2>1 DEF Add
    <3>2. bytes' \in Nat
      BY <1>2, <1>4, <3>1
    <3>3. /\ Append(<<>>, n) \in Seq(Ids) /\ Rising(Append(<<>>, n)) /\ Append(<<>>, n) # <<>>
          /\ \A f : f \in ToSet(Append(<<>>, n)) <=> f = n
      BY <1>4, SetsOfIds, Appended
    <3> QED
      BY <1>2, <2>1, <3>1, <3>2, <3>3 DEF Staged
  <2>2. CASE ~Fits(handed[n])
    <3>1. staged' = staged /\ bytes' = bytes
      BY <1>0, <1>1, <1>4, <2>2 DEF Add
    <3> QED
      BY <1>2, <2>2, <3>1, SetsOfIds DEF Staged
  <2> QED
    BY <2>1, <2>2
<1>7. TypeOK'
  BY <1>1, <1>2, <1>6, StepTaken DEF TypeOK, NextStep, pipeVars, callVars
<1>8. StagedInv' /\ MessageInv'
  BY <1>1, <1>2, <1>3, <1>6 DEF StagedInv, IndInv, MessageInv
<1>9. /\ Sent' = Sent /\ InFlight = {} /\ InFlight' = {} /\ Staged = {}
      /\ \A m : Fitting(m)' = Fitting(m) /\ SentBy(m)' = SentBy(m)
  BY <1>1, <1>2, <1>3, SetsOfIds, NothingHasNoFacts DEF Sent, InFlight, Staged, Fitting, SentBy
<1>10. OrderInv'
  <2>1. /\ \A i \in DOMAIN wire : Rising(wire[i].facts)
        /\ Rising(message["pipeline"].facts)
        /\ \A i, j \in DOMAIN wire : i < j => Below(ToSet(wire[i].facts), ToSet(wire[j].facts))
        /\ Below(Sent, Pending) /\ Sent \subseteq Fitting(Len(handed))
    BY DEF IndInv, OrderInv
  <2>2. \A A : Below({}, A) /\ Below(A, {})
    BY DEF Below
  <2>3. Below(Sent, Staged') /\ Staged' \subseteq Fitting(Len(handed))
    BY <1>0, <1>2, <1>5, <1>6, <2>1 DEF Below
  <2> QED
    BY <1>1, <1>2, <1>3, <1>6, <1>9, <2>1, <2>2, <2>3 DEF OrderInv, Rising, Below
<1>11. CompleteInv'
  <2>1. \A f \in Fitting(n) : f = n => f \in Staged'
    BY <1>5, <1>6
  <2> QED
    BY <1>0, <1>2, <1>3, <1>9, <2>1 DEF IndInv, CompleteInv, Ending
<1>12. GaplessInv' /\ MarksFollowFacts' /\ \A i \in DOMAIN wire' : wire'[i].kind \in Marks => wire'[i].upto <= Len(handed')
  BY <1>2, <1>3, <1>9 DEF IndInv, GaplessInv, MarksFollowFacts
<1> QED
  BY <1>2, <1>7, <1>8, <1>10, <1>11, <1>12 DEF IndInv

-----------------------------------------------------------------------------
(* BlockingStreamObserver.onNext. *)

(* The thread has returned, by Done or by Throw. *)
LEMMA ReturnTypes ==
  ASSUME TypeOK, NEW t \in Threads, pc[t] # "idle",
         pc' = [pc EXCEPT ![t] = "idle"], message' = [message EXCEPT ![t] = Nothing],
         tries' = [tries EXCEPT ![t] = 0],
         IF t = "pipeline" THEN timer' = timer ELSE timer' \in {"scheduled", "off"}
  PROVE  /\ pc' \in [Threads -> {"idle", "send", "wait"}] /\ pc'[t] = "idle"
         /\ message' \in [Threads -> Messages] /\ message'[t] = Nothing
         /\ tries' \in [Threads -> 0 .. RetryCount]
         /\ timer' \in {"scheduled", "running", "stopping", "off"}
         /\ timer' \in {"running", "stopping"} <=> pc'["timer"] # "idle"
         /\ \A u \in Threads \ {t} : pc'[u] = pc[u] /\ message'[u] = message[u] /\ tries'[u] = tries[u]
<1>1. 0 \in 0 .. RetryCount
  BY Limits
<1>2. /\ pc' \in [Threads -> {"idle", "send", "wait"}] /\ pc'[t] = "idle"
      /\ message' \in [Threads -> Messages] /\ message'[t] = Nothing
      /\ tries' \in [Threads -> 0 .. RetryCount]
      /\ \A u \in Threads \ {t} : pc'[u] = pc[u] /\ message'[u] = message[u] /\ tries'[u] = tries[u]
  BY <1>1, NothingHasNoFacts DEF TypeOK
<1>3. /\ timer' \in {"scheduled", "running", "stopping", "off"}
      /\ timer' \in {"running", "stopping"} <=> pc'["timer"] # "idle"
  <2>1. CASE t = "pipeline"
    BY <1>2, <2>1 DEF TypeOK, Threads
  <2>2. CASE t = "timer"
    BY <1>2, <2>2
  <2> QED
    BY <2>1, <2>2 DEF Threads
<1> QED
  BY <1>2, <1>3

(* A keepalive is sent, dropped, given up or waits. *)
LEMMA TimerKeeps ==
  ASSUME IndInv, Sending("timer")
  PROVE  IndInv'
<1>1. /\ TypeOK /\ message["timer"] = Nothing /\ pc["timer"] # "idle" /\ "timer" \in Threads
      /\ "pipeline" \in Threads \ {"timer"} /\ RetryCount \in Nat /\ RetryCount > 0
  BY Limits DEF Sending, Send, Wake, IndInv, MessageInv, Threads
<1>2. UNCHANGED <<staged, bytes, closed, cancelled, ended>>
  BY DEF Sending, Send, Wake
<1>3. CASE Drop("timer") \/ Pass("timer") \/ Throw("timer")
  <2>1. /\ pc' = [pc EXCEPT !["timer"] = "idle"] /\ message' = [message EXCEPT !["timer"] = Nothing]
        /\ tries' = [tries EXCEPT !["timer"] = 0] /\ timer' \in {"scheduled", "off"}
        /\ UNCHANGED <<phase, handed, steps, gaveUp, wire>> /\ ready' \in BOOLEAN
    BY <1>1, <1>3 DEF Drop, Pass, Throw, Done, pipeVars, TypeOK
  <2>2. /\ pc' \in [Threads -> {"idle", "send", "wait"}] /\ pc'["timer"] = "idle"
        /\ message' \in [Threads -> Messages] /\ message'["timer"] = Nothing
        /\ tries' \in [Threads -> 0 .. RetryCount]
        /\ timer' \in {"scheduled", "running", "stopping", "off"}
        /\ timer' \in {"running", "stopping"} <=> pc'["timer"] # "idle"
        /\ \A u \in Threads \ {"timer"} : pc'[u] = pc[u] /\ message'[u] = message[u] /\ tries'[u] = tries[u]
    BY <1>1, <2>1, ReturnTypes
  <2>3. TypeOK'
    BY <1>1, <1>2, <2>1, <2>2 DEF TypeOK
  <2> QED
    BY <1>1, <1>2, <2>1, <2>2, <2>3, AsideKeeps
<1>4. CASE \/ /\ pc' = [pc EXCEPT !["timer"] = "wait"] /\ tries' = [tries EXCEPT !["timer"] = RetryCount]
              /\ UNCHANGED <<pipeVars, steps, gaveUp, message, timer, wire, ready>>
           \/ /\ PollsLeft("timer") # 0 /\ tries' = [tries EXCEPT !["timer"] = PollsLeft("timer")]
              /\ pc["timer"] = "wait"
              /\ UNCHANGED <<pipeVars, steps, gaveUp, pc, message, timer, wire, ready>>
  <2>1. /\ pc' \in [Threads -> {"idle", "send", "wait"}] /\ pc'["timer"] # "idle"
        /\ pc'["pipeline"] = pc["pipeline"]
    BY <1>1, <1>4 DEF TypeOK
  <2>2. /\ tries' \in [Threads -> 0 .. RetryCount] /\ tries'["timer"] > 0
        /\ tries'["pipeline"] = tries["pipeline"]
    <3>1. tries["timer"] \in 0 .. RetryCount /\ (pc["timer"] = "wait" => tries["timer"] > 0)
      BY <1>1 DEF TypeOK, IndInv, MessageInv
    <3>2. PICK k \in 0 .. RetryCount : k > 0 /\ tries' = [tries EXCEPT !["timer"] = k]
      BY <1>1, <1>4, <3>1 DEF PollsLeft
    <3> QED
      BY <1>1, <3>2 DEF TypeOK
  <2>3. TypeOK'
    BY <1>1, <1>2, <1>4, <2>1, <2>2 DEF TypeOK, pipeVars
  <2> QED
    BY <1>1, <1>2, <1>4, <2>1, <2>2, <2>3, AsideKeeps DEF pipeVars, TypeOK
<1> QED
  BY <1>3, <1>4 DEF Sending, Send, Wake

(* The pipeline's message is not sent yet: the thread waits. *)
LEMMA WaitKeeps ==
  ASSUME IndInv, UNCHANGED <<staged, bytes, closed, cancelled, ended>>,
         \/ /\ pc["pipeline"] = "send"
            /\ pc' = [pc EXCEPT !["pipeline"] = "wait"] /\ tries' = [tries EXCEPT !["pipeline"] = RetryCount]
            /\ UNCHANGED <<pipeVars, steps, gaveUp, message, timer, wire, ready>>
         \/ /\ PollsLeft("pipeline") # 0 /\ tries' = [tries EXCEPT !["pipeline"] = PollsLeft("pipeline")]
            /\ pc["pipeline"] = "wait"
            /\ UNCHANGED <<pipeVars, steps, gaveUp, pc, message, timer, wire, ready>>
  PROVE  IndInv'
<1>1. /\ TypeOK /\ "timer" \in Threads \ {"pipeline"} /\ "pipeline" \in Threads
      /\ RetryCount \in Nat /\ RetryCount > 0
  BY Limits DEF IndInv, Threads
<1>2. /\ pc' \in [Threads -> {"idle", "send", "wait"}] /\ pc'["pipeline"] = "wait"
      /\ pc'["timer"] = pc["timer"] /\ pc["pipeline"] # "idle"
  BY <1>1 DEF TypeOK
<1>3. /\ tries' \in [Threads -> 0 .. RetryCount] /\ tries'["pipeline"] > 0
      /\ tries'["timer"] = tries["timer"]
  <2>1. tries["pipeline"] \in 0 .. RetryCount /\ (pc["pipeline"] = "wait" => tries["pipeline"] > 0)
    BY <1>1 DEF TypeOK, IndInv, MessageInv
  <2>2. PICK k \in 0 .. RetryCount : k > 0 /\ tries' = [tries EXCEPT !["pipeline"] = k]
    BY <1>1, <2>1 DEF PollsLeft
  <2> QED
    BY <1>1, <2>2 DEF TypeOK
<1>4. UNCHANGED <<phase, handed, steps, gaveUp, message, timer, wire, ready>>
  BY DEF pipeVars
<1>5. TypeOK'
  BY <1>1, <1>2, <1>3, <1>4 DEF TypeOK
<1>6. StepsInv' /\ StagedInv'
  BY <1>2, <1>4 DEF IndInv, StepsInv, StagedInv
<1>7. MessageInv'
  BY <1>2, <1>3, <1>4 DEF IndInv, MessageInv, Threads
<1>8. Pending' = Pending /\ InFlight' = InFlight /\ (Ending <=> Ending')
  BY <1>4 DEF Pending, InFlight, Ending
<1> QED
  BY <1>4, <1>5, <1>6, <1>7, <1>8, NothingArrives

(* The pipeline's message is lost: nobody listens any more, or the polls are over. *)
LEMMA LossKeeps ==
  ASSUME IndInv, pc["pipeline"] # "idle", UNCHANGED <<staged, bytes, closed, cancelled, ended>>,
         (cancelled /\ Drop("pipeline")) \/ Throw("pipeline")
  PROVE  IndInv'
<1>1. TypeOK /\ "timer" \in Threads \ {"pipeline"} /\ "pipeline" \in Threads /\ staged = <<>>
  BY DEF IndInv, StagedInv, Threads
<1>2. /\ pc' = [pc EXCEPT !["pipeline"] = "idle"] /\ message' = [message EXCEPT !["pipeline"] = Nothing]
      /\ tries' = [tries EXCEPT !["pipeline"] = 0] /\ timer' = timer
      /\ UNCHANGED <<handed, wire, ready>>
  BY DEF Drop, Throw, Done, pipeVars
<1>3. /\ pc' \in [Threads -> {"idle", "send", "wait"}] /\ pc'["pipeline"] = "idle"
      /\ message' \in [Threads -> Messages] /\ message'["pipeline"] = Nothing
      /\ tries' \in [Threads -> 0 .. RetryCount]
      /\ timer' \in {"scheduled", "running", "stopping", "off"}
      /\ timer' \in {"running", "stopping"} <=> pc'["timer"] # "idle"
      /\ pc'["timer"] = pc["timer"] /\ message'["timer"] = message["timer"]
      /\ tries'["timer"] = tries["timer"]
  BY <1>1, <1>2, ReturnTypes
<1>4. MessageInv'
  BY <1>3, NothingHasNoFacts DEF IndInv, MessageInv, Threads
<1>5. message'["pipeline"].facts = <<>>
  BY <1>3, NothingHasNoFacts
<1>6. CASE cancelled /\ Drop("pipeline")
  <2>1. UNCHANGED <<phase, steps, gaveUp>>
    BY <1>6 DEF Drop, pipeVars
  <2>2. TypeOK'
    BY <1>1, <1>2, <1>3, <2>1 DEF TypeOK
  <2>3. StepsInv' /\ StagedInv'
    BY <1>3, <2>1 DEF IndInv, StepsInv, StagedInv
  <2>4. Pending' = Pending
    BY <1>2, <2>1 DEF Pending
  <2> QED
    BY <1>2, <1>4, <1>5, <1>6, <2>1, <2>2, <2>3, <2>4, NothingArrives
<1>7. CASE Throw("pipeline")
  <2>1. /\ steps' = <<>> /\ phase' = (IF Unreported THEN phase ELSE "failing")
        /\ gaveUp' = (gaveUp \/ Unreported)
    BY <1>7 DEF Throw
  <2>2. phase' \in Phases /\ gaveUp' \in BOOLEAN
    BY <1>1, <2>1 DEF TypeOK, Phases, Unreported
  <2>3. <<>> \in Seq(Marks \cup {"info", "flush", "add", "completed", "error"})
    OBVIOUS
  <2>4. TypeOK'
    BY <1>1, <1>2, <1>3, <2>1, <2>2, <2>3 DEF TypeOK
  <2>5. StepsInv'
    BY <2>1 DEF StepsInv
  <2>6. StagedInv'
    BY <1>1, <1>3, <2>1 DEF IndInv, StagedInv
  <2>7. Pending' \subseteq Pending
    <3>1. <<>> # <<"add">> /\ <<>> # <<"flush", "add">>
      OBVIOUS
    <3> QED
      BY <2>1, <3>1 DEF Pending
  <2>8. gaveUp' \/ Ending'
    BY <1>1, <1>3, <2>1 DEF Ending
  <2> QED
    BY <1>2, <1>4, <1>5, <2>1, <2>4, <2>5, <2>6, <2>7, <2>8, NothingArrives
<1> QED
  BY <1>6, <1>7

(* The call takes the pipeline's message. *)
LEMMA PassKeeps ==
  ASSUME IndInv, pc["pipeline"] # "idle", ~cancelled, Pass("pipeline"),
         UNCHANGED <<staged, bytes, closed, cancelled, ended>>
  PROVE  IndInv'
<1> DEFINE m == message["pipeline"]
<1>1. TypeOK /\ "timer" \in Threads \ {"pipeline"} /\ "pipeline" \in Threads /\ staged = <<>>
  BY DEF IndInv, StagedInv, Threads
<1>2. /\ pc' = [pc EXCEPT !["pipeline"] = "idle"] /\ message' = [message EXCEPT !["pipeline"] = Nothing]
      /\ tries' = [tries EXCEPT !["pipeline"] = 0] /\ timer' = timer
      /\ UNCHANGED <<phase, handed, steps, gaveUp>> /\ ready' \in BOOLEAN
      /\ wire' = IF m = Nothing THEN wire ELSE Append(wire, m)
  BY DEF Pass, Done, pipeVars
<1>3. /\ pc' \in [Threads -> {"idle", "send", "wait"}] /\ pc'["pipeline"] = "idle"
      /\ message' \in [Threads -> Messages] /\ message'["pipeline"] = Nothing
      /\ tries' \in [Threads -> 0 .. RetryCount]
      /\ timer' \in {"scheduled", "running", "stopping", "off"}
      /\ timer' \in {"running", "stopping"} <=> pc'["timer"] # "idle"
      /\ pc'["timer"] = pc["timer"] /\ message'["timer"] = message["timer"]
      /\ tries'["timer"] = tries["timer"]
  BY <1>1, <1>2, ReturnTypes
<1>4. m \in Messages /\ m.facts \in Seq(Ids) /\ wire \in Seq(Messages)
  BY <1>1 DEF TypeOK, Messages
<1>5. TypeOK'
  <2>1. wire' \in Seq(Messages)
    BY <1>2, <1>4
  <2> QED
    BY <1>1, <1>2, <1>3, <2>1 DEF TypeOK
<1>6. StepsInv' /\ StagedInv' /\ MessageInv'
  BY <1>2, <1>3, NothingHasNoFacts DEF IndInv, StepsInv, StagedInv, MessageInv, Threads
<1>7. Pending' = Pending
  BY <1>2 DEF Pending
<1>8. CASE m = Nothing
  <2>1. InFlight' = InFlight /\ wire' = wire /\ (Ending => Ending') /\ message'["pipeline"].facts = <<>>
    BY <1>2, <1>3, <1>8, NothingHasNoFacts DEF InFlight, Ending
  <2> QED
    BY <1>2, <1>5, <1>6, <1>7, <2>1, NothingArrives
<1>9. CASE m # Nothing
  <2>0. PICK n \in Nat : n = Len(wire)
    BY <1>4
  <2>1. /\ Len(wire') = n + 1 /\ wire'[n + 1] = m /\ \A i \in 1 .. n : wire'[i] = wire[i]
        /\ DOMAIN wire = 1 .. n /\ DOMAIN wire' = 1 .. n + 1
    BY <1>2, <1>4, <1>9, <2>0
  <2>2. /\ \A i \in 1 .. n + 1 : i \in 1 .. n \/ i = n + 1
        /\ n + 1 \in 1 .. n + 1 /\ \A i \in 1 .. n : i \in 1 .. n + 1
    BY <2>0
  <2>3. \A k \in 1 .. n : SentBy(k)' = SentBy(k)
    <3> SUFFICES ASSUME NEW k \in 1 .. n PROVE SentBy(k)' = SentBy(k)
      OBVIOUS
    <3>1. \A i \in 1 .. k : i \in 1 .. n
      BY <2>0
    <3> QED
      BY <2>1, <3>1 DEF SentBy
  <2>4. InFlight \subseteq Ids /\ InFlight = ToSet(m.facts) /\ InFlight' = {}
    BY <1>3, <1>4, SetsOfIds, NothingHasNoFacts DEF InFlight
  <2> HIDE DEF m
  <2>5. Sent' = Sent \cup InFlight
    <3>1. Sent' = {id \in Ids : \E i \in 1 .. n + 1 : id \in ToSet(wire'[i].facts)}
      BY <2>1 DEF Sent, SentBy
    <3>2. Sent = {id \in Ids : \E i \in 1 .. n : id \in ToSet(wire[i].facts)}
      BY <2>0 DEF Sent, SentBy
    <3>3. ASSUME NEW id \in Ids
          PROVE  (\E i \in 1 .. n + 1 : id \in ToSet(wire'[i].facts))
                   <=> (\E i \in 1 .. n : id \in ToSet(wire[i].facts)) \/ id \in ToSet(m.facts)
      BY <2>1, <2>2
    <3> QED
      BY <2>4, <3>1, <3>2, <3>3
  <2>6. Staged' = Staged /\ Staged = {} /\ \A k : Fitting(k)' = Fitting(k)
    BY <1>1, <1>2, SetsOfIds DEF Staged, Fitting
  <2>7. /\ \A i \in DOMAIN wire : Rising(wire[i].facts)
        /\ Rising(m.facts)
        /\ \A i, j \in DOMAIN wire : i < j => Below(ToSet(wire[i].facts), ToSet(wire[j].facts))
        /\ Below(Sent, InFlight) /\ Below(Sent, Pending) /\ Below(InFlight, Pending)
        /\ Sent \cup InFlight \subseteq Fitting(Len(handed)) /\ Pending \subseteq 1 .. Len(handed)
    BY DEF IndInv, OrderInv, m
  <2>8. OrderInv'
    <3>1. \A i \in DOMAIN wire' : Rising(wire'[i].facts)
      BY <2>1, <2>2, <2>7
    <3>2. ASSUME NEW i \in DOMAIN wire', NEW j \in DOMAIN wire', i < j
          PROVE  Below(ToSet(wire'[i].facts), ToSet(wire'[j].facts))
      <4>1. i \in 1 .. n
        BY <2>1, <3>2
      <4>2. CASE j \in 1 .. n
        BY <2>1, <2>7, <3>2, <4>1, <4>2
      <4>3. CASE j = n + 1
        <5>1. wire[i].facts \in Seq(Ids)
          <6>1. wire[i] \in Messages
            BY <1>4, <2>0, <4>1
          <6> QED
            BY <6>1 DEF Messages
        <5>2. ToSet(wire[i].facts) \subseteq Sent
          BY <2>0, <4>1, <5>1, SetsOfIds DEF Sent, SentBy
        <5> QED
          BY <2>1, <2>4, <2>7, <4>1, <4>3, <5>2 DEF Below
      <4> QED
        BY <2>1, <2>2, <4>2, <4>3
    <3>3. \A A : Below({}, A) /\ Below(A, {})
      BY DEF Below
    <3>4. Below(Sent', Pending) /\ Sent' \subseteq Fitting(Len(handed))
      BY <2>5, <2>7 DEF Below
    <3>5. Rising(message'["pipeline"].facts) /\ Rising(staged')
      BY <1>1, <1>3, SetsOfIds, NothingHasNoFacts
    <3> QED
      BY <1>2, <1>7, <2>4, <2>6, <2>7, <3>1, <3>2, <3>3, <3>4, <3>5 DEF OrderInv, Rising, Below
  <2>9. gaveUp \/ Fitting(Len(handed)) \subseteq Sent \cup InFlight \cup Pending
    BY <1>9, <2>6 DEF IndInv, CompleteInv, Ending, m
  <2>10. CompleteInv'
    BY <1>2, <1>7, <2>4, <2>5, <2>6, <2>9 DEF CompleteInv
  <2>11. GaplessInv'
    <3> SUFFICES ASSUME NEW f \in Sent', ~gaveUp, NEW g \in Fitting(f) PROVE g \in Sent'
      BY <1>2, <2>6 DEF GaplessInv
    <3>1. CASE f \in Sent
      BY <2>5, <3>1 DEF IndInv, GaplessInv
    <3>2. CASE f \in InFlight
      <4>1. f \in Nat /\ f <= Len(handed) /\ Len(handed) \in Nat
        BY <1>1, <2>7, <3>2 DEF Fitting, TypeOK
      <4>2. g \in Nat /\ g <= f /\ g \in Fitting(Len(handed))
        BY <4>1 DEF Fitting
      <4>3. g \notin Pending
        BY <2>7, <3>2, <4>1, <4>2 DEF Below
      <4> QED
        BY <2>5, <2>9, <4>2, <4>3
    <3> QED
      BY <2>5, <3>1, <3>2
  <2>12. m.kind \in Marks => m.upto = Len(handed) /\ Pending = {}
    <3>1. m.kind \in Marks => phase \in {"forwarded", "caughtUp", "completing"} /\ m.upto = Len(handed)
      BY DEF IndInv, MessageInv, m
    <3>2. phase \in {"forwarded", "caughtUp", "completing"} =>
            steps # <<"add">> /\ steps # <<"flush", "add">>
      <4>1. <<>> # <<"add">> /\ <<"ffwd">> # <<"add">> /\ <<"catchup">> # <<"add">>
            /\ <<"completed">> # <<"add">> /\ <<"flush", "catchup">> # <<"add">>
            /\ <<"complete", "completed">> # <<"add">>
        OBVIOUS
      <4>2. <<"flush", "complete", "completed">> # <<"add">> /\ <<>> # <<"flush", "add">>
            /\ <<"ffwd">> # <<"flush", "add">> /\ <<"catchup">> # <<"flush", "add">>
            /\ <<"completed">> # <<"flush", "add">>
        OBVIOUS
      <4>3. phase = "forwarded" => steps # <<"add">> /\ steps # <<"flush", "add">>
        BY <4>1, <4>2 DEF IndInv, StepsInv
      <4>4. phase = "caughtUp" => steps # <<"add">> /\ steps # <<"flush", "add">>
        BY <4>1, <4>2, Distinct DEF IndInv, StepsInv
      <4>5. phase = "completing" => steps # <<"add">> /\ steps # <<"flush", "add">>
        BY <4>1, <4>2, Distinct DEF IndInv, StepsInv
      <4> QED
        BY <4>3, <4>4, <4>5
    <3> QED
      BY <3>1, <3>2 DEF Pending
  <2>13. MarksFollowFacts' /\ \A i \in DOMAIN wire' : wire'[i].kind \in Marks => wire'[i].upto <= Len(handed')
    <3>1. ASSUME NEW i \in 1 .. n, wire[i].kind \in Marks
          PROVE  wire[i].upto <= Len(handed) /\ (~gaveUp => Fitting(wire[i].upto) \subseteq SentBy(i))
      BY <2>1, <3>1 DEF IndInv, MarksFollowFacts
    <3>2. ASSUME m.kind \in Marks
          PROVE  m.upto <= Len(handed) /\ (~gaveUp => Fitting(m.upto) \subseteq Sent')
      <4>1. Len(handed) \in Nat
        BY <1>1 DEF TypeOK
      <4> QED
        BY <2>5, <2>9, <2>12, <3>2, <4>1
    <3>3. SentBy(n + 1)' = Sent'
      <4>1. SentBy(Len(wire))' = {id \in Ids : \E i \in 1 .. n + 1 : id \in ToSet(wire'[i].facts)}
        BY <2>1 DEF SentBy
      <4> QED
        BY <4>1 DEF Sent, SentBy
    <3> QED
      BY <1>2, <2>1, <2>2, <2>3, <2>6, <3>1, <3>2, <3>3 DEF MarksFollowFacts
  <2> QED
    BY <1>5, <1>6, <2>8, <2>10, <2>11, <2>13 DEF IndInv
<1> QED
  BY <1>8, <1>9

LEMMA PipelineKeeps ==
  ASSUME IndInv, Sending("pipeline")
  PROVE  IndInv'
<1>1. pc["pipeline"] # "idle" /\ UNCHANGED <<staged, bytes, closed, cancelled, ended>>
  BY DEF Sending, Send, Wake
<1>2. \/ (cancelled /\ Drop("pipeline")) \/ Throw("pipeline")
      \/ ~cancelled /\ Pass("pipeline")
      \/ /\ pc["pipeline"] = "send"
         /\ pc' = [pc EXCEPT !["pipeline"] = "wait"] /\ tries' = [tries EXCEPT !["pipeline"] = RetryCount]
         /\ UNCHANGED <<pipeVars, steps, gaveUp, message, timer, wire, ready>>
      \/ /\ PollsLeft("pipeline") # 0 /\ tries' = [tries EXCEPT !["pipeline"] = PollsLeft("pipeline")]
         /\ pc["pipeline"] = "wait"
         /\ UNCHANGED <<pipeVars, steps, gaveUp, pc, message, timer, wire, ready>>
  BY DEF Sending, Send, Wake
<1>3. CASE (cancelled /\ Drop("pipeline")) \/ Throw("pipeline")
  BY <1>1, <1>3, LossKeeps
<1>4. CASE ~cancelled /\ Pass("pipeline")
  BY <1>1, <1>4, PassKeeps
<1> QED
  BY <1>1, <1>2, <1>3, <1>4, WaitKeeps

(* The timer, the client and the network. *)
LEMMA OutsideKeeps ==
  ASSUME IndInv, KeepaliveDue \/ BecomesReady \/ Cancel \/ OnCancel
  PROVE  IndInv'
<1>1. TypeOK /\ message["timer"] = Nothing /\ "timer" \in Threads /\ "pipeline" \in Threads \ {"timer"}
  BY DEF IndInv, MessageInv, Threads
<1>2. CASE KeepaliveDue
  <2>1. /\ message' \in [Threads -> Messages] /\ pc' \in [Threads -> {"idle", "send", "wait"}]
        /\ message'["timer"] = Nothing /\ pc'["timer"] = "send"
        /\ message'["pipeline"] = message["pipeline"] /\ pc'["pipeline"] = pc["pipeline"]
    BY <1>1, <1>2, SendsTypes, NothingHasNoFacts DEF KeepaliveDue
  <2>2. /\ timer' = "running"
        /\ UNCHANGED <<pipeVars, steps, staged, bytes, tries, closed, callVars, gaveUp>>
    BY <1>2 DEF KeepaliveDue
  <2>3. TypeOK'
    BY <1>1, <2>1, <2>2 DEF TypeOK, pipeVars, callVars
  <2> QED
    BY <2>1, <2>2, <2>3, AsideKeeps DEF pipeVars, callVars
<1>3. CASE BecomesReady
  <2>1. /\ ready' = TRUE
        /\ UNCHANGED <<pipeVars, steps, staged, bytes, sendVars, timer, closed, cancelled, ended, wire, gaveUp>>
    BY <1>3 DEF BecomesReady
  <2>2. TypeOK'
    BY <1>1, <2>1 DEF TypeOK, pipeVars, sendVars
  <2> QED
    BY <1>1, <2>1, <2>2, AsideKeeps DEF IndInv, MessageInv, pipeVars, sendVars, TypeOK
<1>4. CASE Cancel
  <2>1. /\ cancelled' = TRUE
        /\ UNCHANGED <<pipeVars, steps, staged, bytes, sendVars, timer, closed, ready, ended, wire, gaveUp>>
    BY <1>4 DEF Cancel
  <2>2. TypeOK'
    BY <1>1, <2>1 DEF TypeOK, pipeVars, sendVars
  <2> QED
    BY <1>1, <2>1, <2>2, AsideKeeps DEF IndInv, MessageInv, pipeVars, sendVars, TypeOK
<1>5. CASE OnCancel
  <2>1. /\ closed' = TRUE /\ DisableKeepalive
        /\ UNCHANGED <<pipeVars, steps, staged, bytes, sendVars, callVars, gaveUp>>
    BY <1>5 DEF OnCancel
  <2>2. /\ timer' \in {"scheduled", "running", "stopping", "off"}
        /\ timer' \in {"running", "stopping"} <=> pc'["timer"] # "idle"
    BY <1>1, <2>1, TimerTypes DEF sendVars
  <2>3. TypeOK'
    BY <1>1, <2>1, <2>2 DEF TypeOK, pipeVars, sendVars, callVars
  <2> QED
    BY <1>1, <2>1, <2>3, AsideKeeps DEF IndInv, MessageInv, pipeVars, sendVars, callVars, TypeOK
<1> QED
  BY <1>2, <1>3, <1>4, <1>5

-----------------------------------------------------------------------------
LEMMA InitIndInv == Init => IndInv
<1> SUFFICES ASSUME Init PROVE IndInv
  OBVIOUS
<1>1. /\ \A S : <<>> \in Seq(S) /\ Len(<<>>) = 0 /\ DOMAIN <<>> = {}
  OBVIOUS
<1>2. 0 \in 0 .. RetryCount /\ 0 <= MaxFacts /\ 0 \in Nat
  BY Limits
<1>3. TypeOK
  <2>1. /\ handed \in Seq(Sizes) /\ Len(handed) <= MaxFacts /\ wire \in Seq(Messages)
        /\ steps \in Seq(Marks \cup {"info", "flush", "add", "completed", "error"})
        /\ staged \in Seq(Ids)
    BY <1>1, <1>2 DEF Init
  <2>2. /\ pc \in [Threads -> {"idle", "send", "wait"}] /\ message \in [Threads -> Messages]
        /\ tries \in [Threads -> 0 .. RetryCount]
    BY <1>2, NothingHasNoFacts DEF Init
  <2>3. /\ timer \in {"scheduled", "running", "stopping", "off"}
        /\ timer \in {"running", "stopping"} <=> pc["timer"] # "idle"
    BY DEF Init, Threads
  <2> QED
    BY <1>2, <2>1, <2>2, <2>3 DEF Init, TypeOK, Phases
<1>4. StepsInv /\ StagedInv /\ MessageInv
  BY NothingHasNoFacts DEF Init, StepsInv, StagedInv, MessageInv, Threads
<1>5. Sent = {} /\ InFlight = {} /\ Staged = {} /\ Pending = {}
  <2>1. <<>> # <<"add">> /\ <<>> # <<"flush", "add">>
    OBVIOUS
  <2>2. \A i \in 1 .. 0 : FALSE
    OBVIOUS
  <2>3. Sent = {}
    BY <1>1, <2>2 DEF Init, Sent, SentBy
  <2> QED
    BY <2>1, <2>3, SetsOfIds, NothingHasNoFacts DEF Init, InFlight, Staged, Pending, Threads
<1>6. Fitting(Len(handed)) = {}
  <2>1. \A i \in 1 .. 0 : FALSE
    OBVIOUS
  <2> QED
    BY <1>1, <2>1 DEF Init, Fitting
<1>7. DOMAIN wire = {}
  BY <1>1 DEF Init
<1>8. Rising(message["pipeline"].facts) /\ Rising(staged)
  BY SetsOfIds, NothingHasNoFacts DEF Init, Threads
<1>9. OrderInv
  BY <1>5, <1>7, <1>8 DEF OrderInv, Below
<1>10. CompleteInv /\ GaplessInv /\ MarksFollowFacts
  BY <1>5, <1>6, <1>7 DEF CompleteInv, GaplessInv, MarksFollowFacts
<1> QED
  BY <1>3, <1>4, <1>7, <1>9, <1>10 DEF IndInv

LEMMA NextIndInv == IndInv /\ [Next]_vars => IndInv'
<1> SUFFICES ASSUME IndInv, [Next]_vars PROVE IndInv'
  OBVIOUS
<1>1. CASE Handler \/ OnError
  <2>1. ASSUME NEW size \in Sizes, OnNext(size) PROVE IndInv'
    BY <2>1, OnNextKeeps
  <2> QED
    BY <1>1, <2>1, OtherHandlersKeep, PipelineFailsKeeps DEF Handler
<1>2. CASE Step
  BY <1>2, FlushKeeps, AddKeeps, SendInfoKeeps, SendMarkKeeps, EndKeeps DEF Step
<1>3. CASE \E t \in Threads : Sending(t)
  BY <1>3, TimerKeeps, PipelineKeeps DEF Threads
<1>4. CASE KeepaliveDue \/ BecomesReady \/ Cancel \/ OnCancel
  BY <1>4, OutsideKeeps
<1>5. CASE UNCHANGED vars
  <2>1. UNCHANGED <<phase, handed, steps, staged, bytes, pc, message, tries, timer, closed,
                    ready, cancelled, ended, wire, gaveUp>>
    BY <1>5 DEF vars, pipeVars, sendVars, callVars
  <2>2. TypeOK'
    BY <2>1 DEF IndInv, TypeOK
  <2> QED
    BY <2>1, <2>2, AsideKeeps DEF IndInv, MessageInv, TypeOK, Threads
<1> QED
  BY <1>1, <1>2, <1>3, <1>4, <1>5 DEF Next

(* The invariant holds in every state of every behaviour of the adapter. *)
THEOREM Invariance == Spec => []IndInv
BY InitIndInv, NextIndInv, PTL DEF Spec

(* Facts, messages and polls have their types, and a task of the keepalive *)
(* timer runs exactly while the timer knows of it.                         *)
THEOREM TypeCorrect == Spec => []TypeOK
<1>1. IndInv => TypeOK
  BY DEF IndInv
<1> QED
  BY <1>1, Invariance, PTL

(* The client gets the facts in the order in which they were handed over,  *)
(* none twice and none left out, whatever is flushed when, whoever else    *)
(* sends, and however slow the client is.                                  *)
THEOREM FactsAreSentInOrder == Spec => []SentInOrder
<1>1. ASSUME IndInv PROVE SentInOrder
  <2>1. /\ \A i \in DOMAIN wire : Rising(wire[i].facts)
        /\ \A i, j \in DOMAIN wire : i < j => Below(ToSet(wire[i].facts), ToSet(wire[j].facts))
        /\ Sent \subseteq Fitting(Len(handed)) /\ (~gaveUp => \A f \in Sent : Fitting(f) \subseteq Sent)
    BY <1>1 DEF IndInv, OrderInv, GaplessInv
  <2> QED
    BY <2>1 DEF SentInOrder, Rising, Below, Sent
<1> QED
  BY <1>1, Invariance, PTL

(* When the client sees a fast-forward position, the end of the catchup or *)
(* the completion, it has got every fact handed over before.               *)
THEOREM NoMarkOvertakesFacts == Spec => []MarksFollowFacts
<1>1. IndInv => MarksFollowFacts
  BY DEF IndInv
<1> QED
  BY <1>1, Invariance, PTL

-----------------------------------------------------------------------------
(* Sizes of batches. *)

(* Bytes of the facts ids, if their sizes are h. *)
BytesWith(h, ids) == UNION {{i} \X (1 .. h[ids[i]]) : i \in DOMAIN ids}

LEMMA NoBytes == \A h : BytesWith(h, <<>>) = {}
<1>1. DOMAIN <<>> = {}
  OBVIOUS
<1> QED
  BY <1>1 DEF BytesWith

(* Only the sizes of its own facts matter to a batch. *)
LEMMA SameBytes ==
  ASSUME NEW h, NEW k, NEW s \in Seq(Ids), \A f \in ToSet(s) : h[f] = k[f]
  PROVE  BytesWith(h, s) = BytesWith(k, s)
<1>1. \A i \in DOMAIN s : h[s[i]] = k[s[i]]
  BY SetsOfIds
<1> QED
  BY <1>1 DEF BytesWith

(* One more fact adds its size, and nothing else. *)
LEMMA OneMoreFact ==
  ASSUME NEW h, NEW s \in Seq(Ids), NEW id \in Ids, h[id] \in Nat, IsFiniteSet(BytesWith(h, s))
  PROVE  /\ IsFiniteSet(BytesWith(h, Append(s, id)))
         /\ Cardinality(BytesWith(h, Append(s, id))) = Cardinality(BytesWith(h, s)) + h[id]
<1> DEFINE t == Append(s, id)
           Old == BytesWith(h, s)
           New == {Len(s) + 1} \X (1 .. h[id])
<1>1. /\ Len(s) \in Nat /\ DOMAIN s = 1 .. Len(s) /\ DOMAIN t = 1 .. Len(s) + 1
      /\ t[Len(s) + 1] = id /\ \A i \in DOMAIN s : t[i] = s[i]
  OBVIOUS
<1>2. /\ DOMAIN t = DOMAIN s \cup {Len(s) + 1} /\ Len(s) + 1 \notin DOMAIN s
  BY <1>1
<1>3. BytesWith(h, t) = Old \cup New
  <2>1. \A b : b \in BytesWith(h, t) <=> \E i \in DOMAIN t : b \in {i} \X (1 .. h[t[i]])
    BY DEF BytesWith
  <2>2. \A b : b \in Old <=> \E i \in DOMAIN s : b \in {i} \X (1 .. h[s[i]])
    BY DEF BytesWith
  <2> HIDE DEF t, Old
  <2>3. \A b : b \in BytesWith(h, t) <=> b \in Old \/ b \in New
    BY <1>1, <1>2, <2>1, <2>2
  <2> QED
    BY <2>3
<1>4. Old \cap New = {}
  <2>1. \A b \in Old : b[1] \in DOMAIN s
    BY DEF BytesWith
  <2>2. \A b \in New : b[1] = Len(s) + 1
    OBVIOUS
  <2> HIDE DEF Old, New
  <2> QED
    BY <1>2, <2>1, <2>2
<1>5. IsFiniteSet(New) /\ Cardinality(New) = h[id]
  <2>1. IsFiniteSet({Len(s) + 1}) /\ Cardinality({Len(s) + 1}) = 1
    BY FS_Singleton
  <2>2. IsFiniteSet(1 .. h[id]) /\ Cardinality(1 .. h[id]) = h[id]
    <3>1. 1 \in Int /\ h[id] \in Int
      OBVIOUS
    <3>2. /\ IsFiniteSet(1 .. h[id])
          /\ Cardinality(1 .. h[id]) = IF 1 > h[id] THEN 0 ELSE h[id] - 1 + 1
      BY <3>1, FS_Interval
    <3> QED
      BY <3>2
  <2>3. /\ IsFiniteSet(New)
        /\ Cardinality(New) = Cardinality({Len(s) + 1}) * Cardinality(1 .. h[id])
    BY <2>1, <2>2, FS_Product
  <2> QED
    BY <2>1, <2>2, <2>3
<1> HIDE DEF New, Old
<1>6. /\ IsFiniteSet(Old \cup New)
      /\ Cardinality(Old \cup New) = Cardinality(Old) + Cardinality(New) - Cardinality(Old \cap New)
  BY <1>5, FS_Union DEF Old
<1>7. Cardinality(Old \cap New) = 0 /\ Cardinality(Old) \in Nat
  BY <1>4, FS_EmptySet, FS_CardinalityType DEF Old
<1> QED
  BY <1>3, <1>5, <1>6, <1>7 DEF Old

(* The count of bytes is right, and what is staged always fits.  A batch   *)
(* keeps its size, as facts keep theirs.                                   *)
FitInv ==
  /\ IsFiniteSet(Bytes(staged)) /\ bytes = BytesOf(staged)
  /\ staged # <<>> => bytes < MaxBytes
  /\ message["pipeline"].kind = "facts" => BytesOf(message["pipeline"].facts) < MaxBytes
  /\ \A i \in DOMAIN wire : wire[i].kind = "facts" => BytesOf(wire[i].facts) < MaxBytes

LEMMA BytesOfHanded == \A s : Bytes(s) = BytesWith(handed, s) /\ BytesOf(s) = Cardinality(BytesWith(handed, s))
BY DEF Bytes, BytesOf, BytesWith

(* StagedFacts.add of a fact with a known size. *)
LEMMA AddFits ==
  ASSUME TypeOK, FitInv, NEW id \in Ids, NEW size \in Nat, Add(id, size),
         size = handed'[id], Bytes(staged)' = BytesWith(handed', staged'),
         BytesWith(handed', staged) = BytesWith(handed, staged)
  PROVE  /\ IsFiniteSet(BytesWith(handed', staged')) /\ bytes' = Cardinality(BytesWith(handed', staged'))
         /\ staged' # <<>> => bytes' < MaxBytes
<1>1. /\ IsFiniteSet(BytesWith(handed', staged)) /\ bytes = Cardinality(BytesWith(handed', staged))
      /\ staged # <<>> => bytes < MaxBytes
  BY BytesOfHanded DEF FitInv
<1>2. staged \in Seq(Ids)
  BY DEF TypeOK
<1>3. CASE Fits(size)
  <2>1. staged' = Append(staged, id) /\ bytes' = bytes + size
    BY <1>3 DEF Add
  <2> QED
    BY <1>1, <1>2, <1>3, <2>1, OneMoreFact DEF Fits
<1>4. CASE ~Fits(size)
  BY <1>1, <1>4 DEF Add
<1> QED
  BY <1>3, <1>4

(* The facts that the adapter deals with were handed over. *)
LEMMA BatchesAreHanded ==
  ASSUME IndInv
  PROVE  /\ staged \in Seq(Ids) /\ ToSet(staged) \subseteq 1 .. Len(handed)
         /\ message["pipeline"].facts \in Seq(Ids)
         /\ ToSet(message["pipeline"].facts) \subseteq 1 .. Len(handed)
         /\ \A i \in DOMAIN wire :
              wire[i].facts \in Seq(Ids) /\ ToSet(wire[i].facts) \subseteq 1 .. Len(handed)
<1>1. /\ Sent \cup InFlight \cup Staged \subseteq Fitting(Len(handed))
      /\ Fitting(Len(handed)) \subseteq 1 .. Len(handed)
  BY DEF IndInv, OrderInv, Fitting
<1>2. staged \in Seq(Ids) /\ message["pipeline"] \in Messages /\ wire \in Seq(Messages)
  BY DEF IndInv, TypeOK, Threads
<1>3. /\ message["pipeline"].facts \in Seq(Ids)
      /\ \A i \in DOMAIN wire : wire[i].facts \in Seq(Ids)
  <2>1. \A i \in DOMAIN wire : wire[i] \in Messages
    BY <1>2
  <2>2. \A m \in Messages : m.facts \in Seq(Ids)
    BY DEF Messages
  <2> QED
    BY <1>2, <2>1, <2>2
<1>4. ASSUME NEW i \in DOMAIN wire PROVE ToSet(wire[i].facts) \subseteq Sent
  <2>1. i \in 1 .. Len(wire)
    BY <1>2
  <2>2. ToSet(wire[i].facts) \subseteq Ids
    BY <1>3, SetsOfIds
  <2> QED
    BY <2>1, <2>2 DEF Sent, SentBy
<1> QED
  BY <1>1, <1>2, <1>3, <1>4 DEF InFlight, Staged

(* A step that stages nothing and forms no batch. *)
LEMMA FitStays ==
  ASSUME FitInv, UNCHANGED <<handed, staged, bytes>>,
         message'["pipeline"] = message["pipeline"] \/ message'["pipeline"].kind # "facts",
         \A i \in DOMAIN wire' : wire'[i].kind = "facts" =>
           \/ i \in DOMAIN wire /\ wire'[i] = wire[i]
           \/ wire'[i] = message["pipeline"]
  PROVE  FitInv'
<1>1. \A s : Bytes(s)' = Bytes(s) /\ BytesOf(s)' = BytesOf(s)
  BY BytesOfHanded DEF Bytes, BytesOf
<1>2. ASSUME NEW i \in DOMAIN wire', wire'[i].kind = "facts"
      PROVE  BytesOf(wire'[i].facts) < MaxBytes
  BY <1>2 DEF FitInv
<1> QED
  BY <1>1, <1>2 DEF FitInv

LEMMA OnNextFits ==
  ASSUME IndInv, FitInv, NEW size \in Sizes, OnNext(size)
  PROVE  FitInv'
<1> DEFINE n == Len(handed)
<1>1. /\ handed \in Seq(Sizes) /\ n \in Nat /\ n < MaxFacts /\ TypeOK
      /\ handed' = Append(handed, size) /\ Add(Len(handed'), size)
      /\ message' = message /\ wire' = wire
  BY DEF OnNext, IndInv, TypeOK, sendVars, callVars
<1>2. /\ Len(handed') = n + 1 /\ handed'[n + 1] = size /\ size \in Nat
      /\ \A f \in 1 .. n : handed'[f] = handed[f]
  BY <1>1, SizesAssumption
<1>3. n + 1 \in Ids
  BY <1>1, Limits DEF Ids
<1>4. /\ BytesWith(handed', staged) = BytesWith(handed, staged)
      /\ BytesWith(handed', message["pipeline"].facts) = BytesWith(handed, message["pipeline"].facts)
      /\ \A i \in DOMAIN wire : BytesWith(handed', wire[i].facts) = BytesWith(handed, wire[i].facts)
  BY <1>2, BatchesAreHanded, SameBytes
<1>5. \A s : Bytes(s)' = BytesWith(handed', s) /\ BytesOf(s)' = Cardinality(BytesWith(handed', s))
  BY DEF Bytes, BytesOf, BytesWith
<1>6. Bytes(staged)' = BytesWith(handed', staged') /\ BytesOf(staged)' = Cardinality(BytesWith(handed', staged'))
  BY DEF Bytes, BytesOf, BytesWith
<1> HIDE DEF n
<1>7. /\ IsFiniteSet(BytesWith(handed', staged')) /\ bytes' = Cardinality(BytesWith(handed', staged'))
      /\ staged' # <<>> => bytes' < MaxBytes
  BY <1>1, <1>2, <1>3, <1>4, <1>6, AddFits
<1>8. /\ message["pipeline"].kind = "facts" =>
           Cardinality(BytesWith(handed', message["pipeline"].facts)) < MaxBytes
      /\ \A i \in DOMAIN wire : wire[i].kind = "facts" =>
           Cardinality(BytesWith(handed', wire[i].facts)) < MaxBytes
  BY <1>4, BytesOfHanded DEF FitInv
<1>9. /\ (message["pipeline"].kind = "facts" => BytesOf(message["pipeline"].facts) < MaxBytes)'
      /\ (\A i \in DOMAIN wire : wire[i].kind = "facts" => BytesOf(wire[i].facts) < MaxBytes)'
  BY <1>1, <1>5, <1>8
<1>10. (IsFiniteSet(Bytes(staged)) /\ bytes = BytesOf(staged) /\ (staged # <<>> => bytes < MaxBytes))'
  BY <1>6, <1>7
<1> QED
  BY <1>9, <1>10 DEF FitInv

LEMMA FlushFits ==
  ASSUME IndInv, FitInv, Flush
  PROVE  FitInv'
<1>1. UNCHANGED <<handed, wire>>
  BY DEF Flush, NextStep, pipeVars, callVars
<1>2. CASE staged = <<>>
  BY <1>1, <1>2, FitStays DEF Flush
<1>3. CASE staged # <<>>
  <2>1. Sends("pipeline", Batch(staged)) /\ staged' = <<>> /\ bytes' = 0
    BY <1>3 DEF Flush, PopAll
  <2>2. message'["pipeline"].facts = staged
    BY <2>1, SendsTypes, MessageTypes DEF IndInv, Threads
  <2>3. BytesOf(staged) < MaxBytes
    BY <1>3 DEF FitInv
  <2>4. \A s : BytesOf(s)' = BytesOf(s)
    BY <1>1 DEF Bytes, BytesOf
  <2>5. Bytes(<<>>)' = {} /\ Bytes(staged)' = {}
    BY <2>1, NoBytes DEF Bytes, BytesWith
  <2>6. BytesOf(staged)' = 0 /\ IsFiniteSet(Bytes(staged)')
    BY <2>5, FS_EmptySet DEF BytesOf
  <2> QED
    BY <1>1, <2>1, <2>2, <2>3, <2>4, <2>6 DEF FitInv, Bytes, BytesOf
<1> QED
  BY <1>2, <1>3

LEMMA AddToNextBatchFits ==
  ASSUME IndInv, FitInv, AddToNextBatch
  PROVE  FitInv'
<1> DEFINE n == Len(handed)
<1>1. /\ handed' = handed /\ message' = message /\ wire' = wire /\ TypeOK
      /\ Add(n, Last(handed)) /\ handed \in Seq(Sizes) /\ n \in Nat /\ n <= MaxFacts
  BY DEF AddToNextBatch, NextStep, pipeVars, callVars, IndInv, TypeOK
<1>2. n \in 1 .. n
  <2>1. Pending = {n} /\ Pending \subseteq 1 .. n
    BY StepTaken DEF AddToNextBatch, IndInv, OrderInv
  <2> QED
    BY <2>1
<1>3. n \in Ids /\ Last(handed) = handed[n] /\ handed[n] \in Nat
  <2>1. handed[n] \in Sizes
    BY <1>1, <1>2
  <2>2. n \in 1 .. MaxFacts
    BY <1>1, <1>2, Limits
  <2> QED
    BY <2>1, <2>2, SizesAssumption DEF Ids, Last
<1>4. /\ Bytes(staged)' = BytesWith(handed', staged')
      /\ BytesOf(staged)' = Cardinality(BytesWith(handed', staged'))
      /\ BytesWith(handed', staged) = BytesWith(handed, staged)
  BY <1>1 DEF Bytes, BytesOf, BytesWith
<1> HIDE DEF n
<1>5. /\ IsFiniteSet(BytesWith(handed', staged')) /\ bytes' = Cardinality(BytesWith(handed', staged'))
      /\ staged' # <<>> => bytes' < MaxBytes
  BY <1>1, <1>3, <1>4, AddFits
<1>6. \A s : BytesOf(s)' = BytesOf(s)
  BY <1>1 DEF Bytes, BytesOf
<1> QED
  BY <1>1, <1>4, <1>5, <1>6 DEF FitInv, Bytes, BytesOf, BytesWith

LEMMA SendingFits ==
  ASSUME IndInv, FitInv, NEW t \in Threads, Sending(t)
  PROVE  FitInv'
<1>1. UNCHANGED <<staged, bytes, handed>>
  BY DEF Sending, Send, Wake, Pass, Drop, Throw, pipeVars
<1>2. /\ message["timer"] = Nothing /\ Nothing.kind = "other" /\ message \in [Threads -> Messages]
      /\ wire \in Seq(Messages) /\ message[t] \in Messages
  BY NothingHasNoFacts DEF IndInv, MessageInv, TypeOK
<1>3. message' = message \/ message' = [message EXCEPT ![t] = Nothing]
  BY DEF Sending, Send, Wake, Pass, Drop, Throw, Done
<1>4. message'["pipeline"] = message["pipeline"] \/ message'["pipeline"].kind # "facts"
  BY <1>2, <1>3 DEF Threads
<1>5. wire' = wire \/ wire' = Append(wire, message[t])
  BY DEF Sending, Send, Wake, Pass, Drop, Throw
<1>6. ASSUME NEW i \in DOMAIN wire', wire'[i].kind = "facts"
      PROVE  \/ i \in DOMAIN wire /\ wire'[i] = wire[i]
             \/ wire'[i] = message["pipeline"]
  <2>1. CASE wire' = wire
    BY <1>6, <2>1
  <2>2. CASE wire' = Append(wire, message[t])
    <3>1. \/ i \in DOMAIN wire /\ wire'[i] = wire[i]
          \/ wire'[i] = message[t]
      BY <1>2, <1>6, <2>2
    <3> QED
      BY <1>2, <1>6, <3>1 DEF Threads
  <2> QED
    BY <1>5, <2>1, <2>2
<1> QED
  BY <1>1, <1>4, <1>6, FitStays

(* Everything else sends marks or nothing at all. *)
LEMMA OthersFit ==
  ASSUME IndInv, FitInv,
         \/ Handler /\ ~\E size \in Sizes : OnNext(size)
         \/ OnError \/ SendInfo \/ \E kind \in Marks : SendMark(kind)
         \/ \E how \in {"completed", "error"} : End(how)
         \/ KeepaliveDue \/ BecomesReady \/ Cancel \/ OnCancel \/ UNCHANGED vars
  PROVE  FitInv'
<1>1. TypeOK /\ Nothing \in Messages /\ Nothing.kind # "facts" /\ "pipeline" \in Threads
  BY NothingHasNoFacts DEF IndInv, Threads
<1>2. UNCHANGED <<handed, staged, bytes, wire>>
  BY DEF Handler, OnError, SendInfo, SendMark, End, KeepaliveDue, BecomesReady, Cancel, OnCancel, vars,
         OnFactStreamInfo, FlushCatchup, OnFastForward, OnCatchup, Follow, FlushQuery, QueryEnds,
         OnComplete, PipelineFails, Call, NextStep, pipeVars, callVars
<1>3. CASE \/ Handler /\ ~\E size \in Sizes : OnNext(size)
           \/ OnError \/ \E how \in {"completed", "error"} : End(how)
           \/ BecomesReady \/ Cancel \/ OnCancel \/ UNCHANGED vars
  <2>1. message' = message
    BY <1>3 DEF Handler, OnError, End, BecomesReady, Cancel, OnCancel, vars,
         OnFactStreamInfo, FlushCatchup, OnFastForward, OnCatchup, Follow, FlushQuery, QueryEnds,
         OnComplete, PipelineFails, Call, sendVars
  <2> QED
    BY <1>2, <2>1, FitStays
<1>4. CASE SendInfo
  <2>1. message'["pipeline"] = Nothing
    BY <1>1, <1>4, SendsTypes DEF SendInfo
  <2> QED
    BY <1>1, <1>2, <2>1, FitStays
<1>5. CASE \E kind \in Marks : SendMark(kind)
  <2>1. PICK kind \in Marks : SendMark(kind)
    BY <1>5
  <2>2. message'["pipeline"] = Mark(kind) /\ Mark(kind).kind # "facts"
    BY <1>1, <2>1, SendsTypes, MessageTypes DEF SendMark, Mark, Marks
  <2> QED
    BY <1>2, <2>2, FitStays
<1>6. CASE KeepaliveDue
  <2>1. message'["pipeline"] = message["pipeline"]
    BY <1>1, <1>6, SendsTypes DEF KeepaliveDue, Threads
  <2> QED
    BY <1>2, <2>1, FitStays
<1> QED
  BY <1>3, <1>4, <1>5, <1>6

LEMMA FitStep == IndInv /\ FitInv /\ [Next]_vars => FitInv'
<1> SUFFICES ASSUME IndInv, FitInv, [Next]_vars PROVE FitInv'
  OBVIOUS
<1>1. CASE \E size \in Sizes : OnNext(size)
  BY <1>1, OnNextFits
<1>2. CASE Flush \/ AddToNextBatch
  BY <1>2, FlushFits, AddToNextBatchFits
<1>3. CASE \E t \in Threads : Sending(t)
  BY <1>3, SendingFits
<1>4. CASE \/ Handler /\ ~\E size \in Sizes : OnNext(size)
           \/ OnError \/ SendInfo \/ \E kind \in Marks : SendMark(kind)
           \/ \E how \in {"completed", "error"} : End(how)
           \/ KeepaliveDue \/ BecomesReady \/ Cancel \/ OnCancel \/ UNCHANGED vars
  BY <1>4, OthersFit
<1> QED
  BY <1>1, <1>2, <1>3, <1>4 DEF Next, Step

LEMMA FitInit == Init => FitInv
<1> SUFFICES ASSUME Init PROVE FitInv
  OBVIOUS
<1>1. Bytes(staged) = {}
  BY NoBytes, BytesOfHanded DEF Init
<1>2. message["pipeline"].kind # "facts" /\ DOMAIN wire = {}
  <2>1. DOMAIN <<>> = {}
    OBVIOUS
  <2> QED
    BY <2>1, NothingHasNoFacts DEF Init, Threads
<1> QED
  BY <1>1, <1>2, FS_EmptySet DEF FitInv, BytesOf, Init

(* No batch of facts is too large for the client, and StagedFacts counts   *)
(* the bytes of exactly what it has staged: after a flush it starts at     *)
(* nothing, and a fact that does not fit is not counted.                   *)
THEOREM BatchesFit == Spec => []MessagesFit
<1>1. FitInv => MessagesFit
  BY DEF FitInv, MessagesFit
<1>2. Spec => []FitInv
  BY FitInit, FitStep, Invariance, PTL DEF Spec
<1> QED
  BY <1>1, <1>2, PTL

=============================================================================
