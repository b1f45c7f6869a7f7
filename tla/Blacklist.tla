------------------------------ MODULE Blacklist ------------------------------
(***************************************************************************)
(* The blacklist of a FactCast server: a set of fact ids that the          *)
(* pipelines of all subscriptions consult, kept up to date with a table.   *)
(*                                                                         *)
(* A trigger notifies the server when a transaction changes the table;     *)
(* PgListener turns notifications, and every fresh connection of its own,  *)
(* into BlacklistChangeSignals on the asynchronous event bus; and          *)
(* PgBlacklistDataProvider reads the table again on every signal, one      *)
(* signal at a time because the bus synchronizes on the subscriber.  The   *)
(* thread that starts the server does the same once, after it has          *)
(* registered the provider on the bus, and is synchronized with nothing.   *)
(*                                                                         *)
(* The table, its trigger and the event bus are external.                  *)
(***************************************************************************)
EXTENDS Naturals, FiniteSets

CONSTANTS Ids,             \* ids of facts
          MaxChanges,      \* bound: transactions that change the table
          MaxBreaks,       \* bound: connections that PgListener loses
          MaxFailures      \* bound: queries that fail

ASSUME BoundsAssumption == MaxChanges \in Nat /\ MaxBreaks \in Nat /\ MaxFailures \in Nat

VARIABLES table,           \* the ids in table blacklist
          listener,        \* PgListener: "down", "listening" or "up"
          notifications,   \* how many wait in its connection
          signals,         \* events on the bus for the provider
          pc, list,        \* where each updating thread is, and what it has read
          blocked,         \* Blacklist.blocked
          changes, breaks, failures

(* (history) What was read last; whether nobody else was updating then;    *)
(* whether the update that it was read for has failed.                     *)
VARIABLES known, alone, failed

environment == <<table, changes>>
connection == <<listener, notifications, breaks>>
history == <<known, alone, failed>>
vars == <<environment, connection, signals, pc, list, blocked, failures, history>>

Updaters == {"start", "bus"}

Busy(u) == pc[u] \in {"remove", "add"}

TypeOK ==
  /\ table \subseteq Ids /\ blocked \subseteq Ids /\ known \subseteq Ids
  /\ listener \in {"down", "listening", "up"}
  /\ notifications \in Nat /\ signals \in Nat
  /\ pc["start"] = "none" => signals = 0
  /\ pc \in [Updaters -> {"none", "fetch", "remove", "add", "done", "dead"}]
  /\ list \in [Updaters -> SUBSET Ids]
  /\ alone \in BOOLEAN /\ failed \in BOOLEAN
  /\ changes \in 0 .. MaxChanges /\ breaks \in 0 .. MaxBreaks
  /\ failures \in 0 .. MaxFailures

Init ==
  /\ table \in SUBSET Ids /\ blocked = {} /\ known = {}
  /\ listener = "down" /\ notifications = 0 /\ signals = 0
  /\ pc = [u \in Updaters |-> "none"] /\ list = [u \in Updaters |-> {}]
  /\ alone = TRUE /\ failed = FALSE
  /\ changes = 0 /\ breaks = 0 /\ failures = 0

Goes(u, place) == pc' = [pc EXCEPT ![u] = place]

-----------------------------------------------------------------------------
(* The table and the listener. *)

(* A slip: events wait for a provider that is not registered yet. *)
PostAnyway == signals' = signals + 1

(* An event that is posted before the provider is registered is lost. *)
Post == signals' = signals + (IF pc["start"] = "none" THEN 0 ELSE 1)

(* A transaction; PostgreSQL folds the notifications of its rows. *)
Change ==
  /\ changes < MaxChanges /\ changes' = changes + 1
  /\ table' \in SUBSET Ids /\ table' # table
  /\ notifications' = notifications + (IF listener = "down" THEN 0 ELSE 1)
  /\ UNCHANGED <<listener, breaks, signals, pc, list, blocked, failures, history>>

(* setupPostgresListeners *)
Listen ==
  /\ listener = "down" /\ listener' = "listening"
  /\ UNCHANGED <<environment, notifications, breaks, signals, pc, list, blocked,
                 failures, history>>

(* A slip: nobody is told of a fresh connection. *)
KeepQuiet == signals' = signals

TellOfConnection == Post

(* informSubscribersAboutFreshConnection *)
Inform ==
  /\ listener = "listening" /\ listener' = "up"
  /\ TellOfConnection
  /\ UNCHANGED <<environment, notifications, breaks, pc, list, blocked, failures, history>>

(* processNotifications *)
Notify ==
  /\ listener = "up" /\ notifications > 0
  /\ notifications' = notifications - 1
  /\ Post
  /\ UNCHANGED <<environment, listener, breaks, pc, list, blocked, failures, history>>

Break ==
  /\ listener # "down" /\ breaks < MaxBreaks
  /\ breaks' = breaks + 1
  /\ listener' = "down" /\ notifications' = 0
  /\ UNCHANGED <<environment, signals, pc, list, blocked, failures, history>>

-----------------------------------------------------------------------------
(* PgBlacklistDataProvider. *)

(* afterSingletonsInstantiated registers the provider and reads on. *)
Register ==
  /\ pc["start"] = "none"
  /\ Goes("start", "fetch")
  /\ UNCHANGED <<environment, connection, signals, list, blocked, failures, history>>

(* on(BlacklistChangeSignal), in a thread of the bus. *)
Dispatch ==
  /\ pc["bus"] \in {"none", "done"} /\ signals > 0
  /\ signals' = signals - 1
  /\ Goes("bus", "fetch")
  /\ UNCHANGED <<environment, connection, list, blocked, failures, history>>

(* An exception ends the start of the server; the bus only logs it. *)
Fails(u) ==
  /\ Goes(u, IF u = "start" THEN "dead" ELSE "done")
  /\ failed' = TRUE
  /\ UNCHANGED <<known, alone>>

(* fetchBlacklist *)
Fetch(u) ==
  /\ pc[u] = "fetch"
  /\ list' = [list EXCEPT ![u] = table]
  /\ Goes(u, "remove")
  /\ known' = table /\ failed' = FALSE
  /\ alone' = (\A v \in Updaters \ {u} : ~Busy(v))
  /\ UNCHANGED <<environment, connection, signals, blocked, failures>>

FetchFails(u) ==
  /\ pc[u] = "fetch" /\ failures < MaxFailures
  /\ failures' = failures + 1
  /\ Fails(u)
  /\ UNCHANGED <<environment, connection, signals, list, blocked>>

-----------------------------------------------------------------------------
(* Blacklist.accept: two calls of a synchronized set. *)

(* toRemove, a view of blocked as it is at any time. *)
ToRemove(u) == blocked \ list[u]

(* A slip: the set is emptied and filled again. *)
Nothing(u) == {}

(* A slip: ids are only ever added. *)
Everything(u) == blocked

Kept(u) == blocked \cap list[u]

(* AbstractSet.removeAll.  It walks blocked itself if everything is to be  *)
(* removed, and otherwise the view, whose iterator walks blocked as well   *)
(* and throws when it moves on after something was removed: all goes well  *)
(* only if that was a single id and the last of the iteration.             *)
RemoveAll(u) ==
  /\ pc[u] = "remove"
  /\ ToRemove(u) \in {{}, blocked} \cup {{x} : x \in Ids}
  /\ blocked' = Kept(u)
  /\ Goes(u, "add")
  /\ UNCHANGED <<environment, connection, signals, list, failures, history>>

(* ConcurrentModificationException, after the first id was removed. *)
RemoveThrows(u) ==
  /\ pc[u] = "remove"
  /\ ToRemove(u) # blocked
  /\ \E x \in ToRemove(u) : blocked' = blocked \ {x}
  /\ Fails(u)
  /\ UNCHANGED <<environment, connection, signals, list, failures>>

(* addAll *)
AddAll(u) ==
  /\ pc[u] = "add"
  /\ blocked' = blocked \cup list[u]
  /\ Goes(u, "done")
  /\ UNCHANGED <<environment, connection, signals, list, failures, history>>

-----------------------------------------------------------------------------
(* A server that could not start is stopped. *)
Running == pc["start"] # "dead"

World == Running /\ (Change \/ Break)
ListenerStep == Running /\ (Listen \/ Inform \/ Notify)
ProviderStep == Running /\ (Register \/ Dispatch)
Update(u) ==
  Running /\ (Fetch(u) \/ FetchFails(u) \/ RemoveAll(u) \/ RemoveThrows(u) \/ AddAll(u))

Next == World \/ ListenerStep \/ ProviderStep \/ \E u \in Updaters : Update(u)

Spec == Init /\ [][Next]_vars

(* The threads run, and the listener reconnects until it succeeds. *)
Fairness == /\ WF_vars(ListenerStep)
            /\ WF_vars(Running /\ Register) /\ WF_vars(Running /\ Dispatch)
            /\ \A u \in Updaters : WF_vars(Update(u))

FairSpec == Spec /\ Fairness

-----------------------------------------------------------------------------
(* Nothing is under way. *)
Quiet == /\ pc["start"] = "done" /\ pc["bus"] \in {"none", "done"}
         /\ listener = "up" /\ notifications = 0 /\ signals = 0

(* Once nothing is under way, exactly the ids in the table are blocked,    *)
(* whatever connections were lost and however changes, the start of the    *)
(* server and updates overlapped, unless the last update failed, or the    *)
(* one at the start was still busy when it began                           *)
(* (PgBlacklistDataProvider.on, PgListener.connectionSetup).               *)
UpdateTakesEffect == Quiet /\ alone /\ ~failed => blocked = table

(* While an update runs that nobody disturbs, no pipeline finds an id free *)
(* that was blocked before and is in the list: Blacklist.accept does not   *)
(* simply replace the set.                                                 *)
NoGapInUpdate == [][alone => \A x \in blocked \ blocked' : x \notin known]_vars

(* The table takes effect sooner or later, unless an update fails or       *)
(* overlaps with the start.                                                *)
EventuallyInEffect == <>[](pc["start"] = "dead" \/ (alone /\ ~failed => blocked = table))

(* blacklisting.md says that a change of the table updates the internal    *)
(* representations of the running servers, to make sure that it takes      *)
(* immediate effect: a change that nothing has disturbed is in effect when *)
(* no signal is left.                                                      *)
ChangesTakeEffect == Quiet /\ alone => blocked = table
=============================================================================
