--------------------------- MODULE BlacklistProofs ---------------------------
(***************************************************************************)
(* Proofs about Blacklist, for any ids and any number of changes, lost     *)
(* connections and failed queries: the types, that the table takes effect  *)
(* when all is quiet, and that an update unblocks nothing in passing.      *)
(***************************************************************************)
EXTENDS Blacklist, TLAPS

(* Something is under way that will have the table read again. *)
Coming == \/ pc["bus"] = "fetch" \/ signals > 0
          \/ notifications > 0 \/ listener # "up"

(* No change is overlooked: from the first read on, what was read last is  *)
(* the table, or it will be read again.                                    *)
KnownInv ==
  pc["start"] \in {"remove", "add", "done"} => known = table \/ failed \/ Coming

(* An update that nobody disturbs works with what was read last, and       *)
(* leaves nothing else behind.                                             *)
AloneInv == alone =>
  /\ \A u \in Updaters : Busy(u) => list[u] = known
  /\ \A u \in Updaters : pc[u] = "add" => blocked \subseteq known
  /\ \A u, v \in Updaters : Busy(u) /\ Busy(v) => u = v
  /\ ~failed /\ (\A u \in Updaters : ~Busy(u)) => blocked = known

(* The inductive invariant. *)
IndInv == TypeOK /\ KnownInv /\ AloneInv

-----------------------------------------------------------------------------
LEMMA InitIndInv == Init => IndInv
<1> SUFFICES ASSUME Init PROVE IndInv
  OBVIOUS
<1>1. TypeOK
  <2>1. 0 \in 0 .. MaxChanges /\ 0 \in 0 .. MaxBreaks /\ 0 \in 0 .. MaxFailures
    BY BoundsAssumption
  <2> QED
    BY <2>1 DEF Init, TypeOK
<1>2. KnownInv /\ AloneInv
  BY DEF Init, KnownInv, AloneInv, Busy, Updaters
<1> QED
  BY <1>1, <1>2 DEF IndInv

(* An updating thread that goes somewhere. *)
LEMMA GoesType ==
  ASSUME TypeOK, NEW u \in Updaters,
         NEW place \in {"none", "fetch", "remove", "add", "done", "dead"}, Goes(u, place)
  PROVE  /\ pc' \in [Updaters -> {"none", "fetch", "remove", "add", "done", "dead"}]
         /\ pc'[u] = place /\ \A v \in Updaters : v # u => pc'[v] = pc[v]
BY DEF Goes, TypeOK

(* An event is on the bus once the provider is registered. *)
LEMMA PostCounts ==
  ASSUME TypeOK, Post
  PROVE  /\ signals' \in Nat /\ signals' >= signals
         /\ pc["start"] = "none" => signals' = 0
         /\ pc["start"] # "none" => signals' > 0
BY DEF Post, TypeOK

(* The table and the listener: whatever is changed, or missed, is to come. *)
LEMMA OutsideKeeps ==
  ASSUME IndInv, Change \/ Break \/ Listen \/ Inform \/ Notify
  PROVE  IndInv'
<1>1. UNCHANGED <<pc, list, blocked, failures, history>>
  BY DEF Change, Break, Listen, Inform, Notify
<1>2. TypeOK
  BY DEF IndInv
<1>3. signals' = signals \/ Post
  BY DEF Change, Break, Listen, Inform, Notify, TellOfConnection
<1>4. signals' \in Nat /\ (pc["start"] = "none" => signals' = 0)
  BY <1>2, <1>3, PostCounts DEF TypeOK
<1>5. /\ table' \subseteq Ids /\ listener' \in {"down", "listening", "up"}
      /\ notifications' \in Nat /\ changes' \in 0 .. MaxChanges /\ breaks' \in 0 .. MaxBreaks
  BY <1>2, BoundsAssumption
     DEF Change, Break, Listen, Inform, Notify, environment, TypeOK
<1>6. TypeOK'
  BY <1>1, <1>2, <1>4, <1>5 DEF TypeOK, history
<1>7. AloneInv'
  BY <1>1 DEF IndInv, AloneInv, Busy, history
<1>8. KnownInv'
  <2>1. SUFFICES ASSUME pc["start"] \in {"remove", "add", "done"}, ~failed
                 PROVE  known = table' \/ Coming'
    BY <1>1 DEF KnownInv, history
  <2>2. CASE Change
    <3>1. listener' = listener /\ (listener = "up" => notifications' = notifications + 1)
      BY <2>2 DEF Change
    <3> QED
      BY <1>2, <3>1 DEF Coming, TypeOK
  <2>3. CASE Break \/ Listen
    BY <2>3 DEF Break, Listen, Coming
  <2>4. CASE Inform \/ Notify
    <3>1. signals' > 0
      BY <1>2, <2>1, <2>4, PostCounts DEF Inform, Notify, TellOfConnection
    <3> QED
      BY <3>1 DEF Coming
  <2> QED
    BY <2>2, <2>3, <2>4
<1> QED
  BY <1>6, <1>7, <1>8 DEF IndInv

(* A read is due. *)
LEMMA ProviderKeeps ==
  ASSUME IndInv, Register \/ Dispatch
  PROVE  IndInv'
<1>1. UNCHANGED <<environment, connection, list, blocked, failures, history>>
  BY DEF Register, Dispatch
<1>2. TypeOK
  BY DEF IndInv
<1>3. PICK u \in Updaters : Goes(u, "fetch") /\ ~Busy(u)
  BY DEF Register, Dispatch, Updaters, Busy
<1>4. /\ pc' \in [Updaters -> {"none", "fetch", "remove", "add", "done", "dead"}]
      /\ pc'[u] = "fetch" /\ \A v \in Updaters : v # u => pc'[v] = pc[v]
  BY <1>2, <1>3, GoesType
<1>5. signals' \in Nat /\ (pc'["start"] = "none" => signals' = 0)
  BY <1>2, <1>3, <1>4 DEF Register, Dispatch, TypeOK, Updaters
<1>6. TypeOK'
  BY <1>1, <1>2, <1>4, <1>5 DEF TypeOK, environment, connection, history
<1>7. AloneInv'
  <2>1. \A v \in Updaters : (Busy(v)' <=> Busy(v)) /\ (pc'[v] = "add" <=> pc[v] = "add")
    BY <1>3, <1>4 DEF Busy
  <2>2. UNCHANGED <<list, blocked, known, alone, failed>>
    BY <1>1 DEF history
  <2> QED
    BY <2>1, <2>2 DEF IndInv, AloneInv
<1>8. KnownInv'
  <2>1. CASE Register
    <3>1. pc'["start"] = "fetch"
      BY <1>2, <2>1, GoesType DEF Register, Updaters
    <3> QED
      BY <3>1 DEF KnownInv
  <2>2. CASE Dispatch
    <3>1. pc'["bus"] = "fetch"
      BY <1>2, <2>2, GoesType DEF Dispatch, Updaters
    <3> QED
      BY <3>1 DEF KnownInv, Coming
  <2> QED
    BY <2>1, <2>2
<1> QED
  BY <1>6, <1>7, <1>8 DEF IndInv

(* The table is read. *)
LEMMA FetchKeeps ==
  ASSUME IndInv, NEW u \in Updaters, Fetch(u)
  PROVE  IndInv'
<1>1. /\ UNCHANGED <<environment, connection, signals, blocked, failures>>
      /\ known' = table /\ failed' = FALSE
      /\ alone' = (\A v \in Updaters \ {u} : ~Busy(v))
      /\ list' = [list EXCEPT ![u] = table]
  BY DEF Fetch
<1>2. TypeOK
  BY DEF IndInv
<1>3. /\ pc' \in [Updaters -> {"none", "fetch", "remove", "add", "done", "dead"}]
      /\ pc'[u] = "remove" /\ \A v \in Updaters : v # u => pc'[v] = pc[v]
  BY <1>2, GoesType DEF Fetch
<1>4. list' \in [Updaters -> SUBSET Ids] /\ list'[u] = table
  BY <1>1, <1>2 DEF TypeOK
<1>5. alone' \in BOOLEAN
  BY <1>1
<1>6. TypeOK'
  <2>1. pc'["start"] = "none" => pc["start"] = "none"
    BY <1>3 DEF Updaters
  <2> QED
    BY <1>1, <1>2, <1>3, <1>4, <1>5, <2>1 DEF TypeOK, environment, connection
<1>7. KnownInv'
  BY <1>1 DEF KnownInv, environment
<1>8. AloneInv'
  <2>1. SUFFICES ASSUME alone' PROVE AloneInv'
    BY DEF AloneInv
  <2>2. \A v \in Updaters : Busy(v)' => v = u
    BY <1>1, <1>3, <2>1 DEF Busy
  <2>3. Busy(u)' /\ list'[u] = known' /\ pc'[u] # "add"
    BY <1>1, <1>3, <1>4 DEF Busy
  <2>4. \A v \in Updaters : pc'[v] = "add" => Busy(v)'
    BY DEF Busy
  <2> QED
    BY <2>2, <2>3, <2>4 DEF AloneInv
<1> QED
  BY <1>6, <1>7, <1>8 DEF IndInv

(* An update fails. *)
LEMMA FailureKeeps ==
  ASSUME IndInv, NEW u \in Updaters, FetchFails(u) \/ RemoveThrows(u)
  PROVE  IndInv'
<1>1. /\ UNCHANGED <<environment, connection, signals, list, known, alone>> /\ failed' = TRUE
      /\ pc[u] \in {"fetch", "remove"} /\ Goes(u, IF u = "start" THEN "dead" ELSE "done")
  BY DEF FetchFails, RemoveThrows, Fails
<1>2. TypeOK
  BY DEF IndInv
<1>3. /\ pc' \in [Updaters -> {"none", "fetch", "remove", "add", "done", "dead"}]
      /\ pc'[u] \in {"dead", "done"} /\ \A v \in Updaters : v # u => pc'[v] = pc[v]
  BY <1>1, <1>2, GoesType
<1>4. blocked' \subseteq blocked /\ failures' \in 0 .. MaxFailures
  BY <1>2, BoundsAssumption DEF FetchFails, RemoveThrows, TypeOK
<1>5. TypeOK'
  <2>1. pc'["start"] = "none" => pc["start"] = "none"
    BY <1>3 DEF Updaters
  <2> QED
    BY <1>1, <1>2, <1>3, <1>4, <2>1 DEF TypeOK, environment, connection
<1>6. KnownInv'
  BY <1>1 DEF KnownInv
<1>7. AloneInv'
  <2>1. \A v \in Updaters : /\ Busy(v)' => Busy(v) /\ (pc'[v] = "add" => pc[v] = "add")
    BY <1>3 DEF Busy
  <2> QED
    BY <1>1, <1>3, <1>4, <2>1 DEF IndInv, AloneInv, Busy
<1> QED
  BY <1>5, <1>6, <1>7 DEF IndInv

(* The set is adapted. *)
LEMMA AcceptKeeps ==
  ASSUME IndInv, NEW u \in Updaters, RemoveAll(u) \/ AddAll(u)
  PROVE  IndInv'
<1>1. UNCHANGED <<environment, connection, signals, list, failures, history>>
  BY DEF RemoveAll, AddAll
<1>2. TypeOK
  BY DEF IndInv
<1>3. /\ pc' \in [Updaters -> {"none", "fetch", "remove", "add", "done", "dead"}]
      /\ \A v \in Updaters : v # u => pc'[v] = pc[v]
      /\ RemoveAll(u) => pc'[u] = "add"
      /\ AddAll(u) => pc'[u] = "done"
  BY <1>2, GoesType DEF RemoveAll, AddAll
<1>4. /\ Busy(u) /\ (RemoveAll(u) => blocked' = blocked \cap list[u])
      /\ (AddAll(u) => blocked' = blocked \cup list[u] /\ pc[u] = "add")
  BY DEF RemoveAll, AddAll, Busy, Kept
<1>5. TypeOK'
  <2>1. blocked' \subseteq Ids
    BY <1>2, <1>4 DEF TypeOK
  <2>2. pc'["start"] = "none" => pc["start"] = "none"
    BY <1>3 DEF Updaters, RemoveAll, AddAll
  <2> QED
    BY <1>1, <1>2, <1>3, <2>1, <2>2 DEF TypeOK, environment, connection, history
<1>6. KnownInv'
  <2>1. u # "bus" => pc'["bus"] = pc["bus"]
    BY <1>3 DEF Updaters
  <2>2. u = "bus" => pc["bus"] # "fetch"
    BY <1>4 DEF Busy
  <2>3. pc'["start"] \in {"remove", "add", "done"} => pc["start"] \in {"remove", "add", "done"}
    BY <1>3, <1>4 DEF Updaters, Busy
  <2> QED
    BY <1>1, <2>1, <2>2, <2>3 DEF IndInv, KnownInv, Coming, environment, connection, history
<1>7. AloneInv'
  <2>1. SUFFICES ASSUME alone PROVE AloneInv'
    BY <1>1 DEF AloneInv, history
  <2>2. /\ list[u] = known /\ \A v \in Updaters : Busy(v) => v = u
        /\ pc[u] = "add" => blocked \subseteq known
    BY <1>4, <2>1 DEF IndInv, AloneInv
  <2>3. UNCHANGED <<list, known, failed>>
    BY <1>1 DEF history
  <2>4. \A v \in Updaters : Busy(v)' => v = u
    BY <1>3, <2>2 DEF Busy
  <2>5. CASE RemoveAll(u)
    <3>1. blocked' \subseteq known /\ Busy(u)'
      BY <1>3, <1>4, <2>2, <2>5 DEF Busy
    <3> QED
      BY <2>2, <2>3, <2>4, <3>1 DEF AloneInv
  <2>6. CASE AddAll(u)
    <3>1. blocked' = known /\ ~Busy(u)'
      BY <1>3, <1>4, <2>2, <2>6 DEF Busy
    <3>2. \A v \in Updaters : ~Busy(v)' /\ pc'[v] # "add"
      BY <2>4, <3>1 DEF Busy
    <3> QED
      BY <2>3, <3>1, <3>2 DEF AloneInv
  <2> QED
    BY <2>5, <2>6
<1> QED
  BY <1>5, <1>6, <1>7 DEF IndInv

(* Every step preserves the invariant. *)
LEMMA NextIndInv == IndInv /\ [Next]_vars => IndInv'
<1>1. ASSUME IndInv, UNCHANGED vars PROVE IndInv'
  BY <1>1 DEF IndInv, TypeOK, KnownInv, AloneInv, Coming, Busy, vars, environment, connection,
              history
<1> QED
  BY <1>1, OutsideKeeps, ProviderKeeps, FetchKeeps, FailureKeeps, AcceptKeeps
     DEF Next, World, ListenerStep, ProviderStep, Update

THEOREM Invariance == Spec => []IndInv
BY InitIndInv, NextIndInv, PTL DEF Spec

-----------------------------------------------------------------------------
(* The variables of Blacklist always have their types. *)
THEOREM TypeCorrect == Spec => []TypeOK
<1>1. IndInv => TypeOK
  BY DEF IndInv
<1> QED
  BY <1>1, Invariance, PTL

(* For any ids, changes of the table, lost connections and failures: when  *)
(* nothing is under way, exactly the ids in the table are blocked, unless  *)
(* the last update failed or overlapped with the one at the start.         *)
THEOREM TableTakesEffect == Spec => []UpdateTakesEffect
<1>1. IndInv => UpdateTakesEffect
  <2>1. SUFFICES ASSUME IndInv, Quiet, alone, ~failed PROVE blocked = table
    BY DEF UpdateTakesEffect
  <2>2. known = table
    BY <2>1 DEF IndInv, TypeOK, KnownInv, Coming, Quiet
  <2>3. \A u \in Updaters : ~Busy(u)
    BY <2>1 DEF Quiet, Updaters, Busy
  <2>4. blocked = known
    BY <2>1, <2>3 DEF IndInv, AloneInv
  <2> QED
    BY <2>2, <2>4
<1> QED
  BY <1>1, Invariance, PTL

(* No update that runs alone unblocks an id in passing that was blocked    *)
(* before and is still in the list (Blacklist.accept).                     *)
THEOREM UpdatesLeaveNoGap == Spec => NoGapInUpdate
<1>1. ASSUME IndInv, [Next]_vars
      PROVE  [alone => \A x \in blocked \ blocked' : x \notin known]_vars
  <2>1. CASE UNCHANGED vars
    BY <2>1
  <2>2. ASSUME Next, alone, NEW x \in blocked \ blocked' PROVE x \notin known
    <3>1. PICK u \in Updaters : RemoveAll(u) \/ RemoveThrows(u)
      BY <2>2 DEF Next, World, Change, Break, ListenerStep, Listen, Inform, Notify,
                  ProviderStep, Register, Dispatch, Update, Fetch, FetchFails, AddAll
    <3>2. list[u] = known
      BY <1>1, <2>2, <3>1 DEF IndInv, AloneInv, RemoveAll, RemoveThrows, Busy
    <3> QED
      BY <2>2, <3>1, <3>2 DEF RemoveAll, RemoveThrows, Kept, ToRemove
  <2> QED
    BY <1>1, <2>1, <2>2
<1> QED
  BY <1>1, Invariance, PTL DEF Spec, NoGapInUpdate

=============================================================================
