----------------------------- MODULE QueryPage -----------------------------
(***************************************************************************)
(* The query page of the server's user interface.                          *)
(*                                                                         *)
(* On the server, FullQueryPage keeps the conditions of the query          *)
(* (FullQueryBean.criteria), a view for each of them, and the last result. *)
(* In the browser, the web component json-view shows the result in an      *)
(* editor.  Hovering over a value offers links that add it to one          *)
(* condition or to all of them: a link names a condition by its index at   *)
(* the time of rendering.  What the server tells the component, and what   *)
(* the user does, travel in order, and may cross each other.               *)
(*                                                                         *)
(* The user may also navigate while the page is open: the history of the   *)
(* browser or the menu leads to the same route, and Vaadin keeps the page. *)
(*                                                                         *)
(* A condition is a number that stands for the object FactCriteria.  A     *)
(* result is the number of its query.  Metadata other than quick filters   *)
(* is left out, and so are positions in the text.                          *)
(***************************************************************************)
EXTENDS Integers, Sequences, SequencesExt

CONSTANTS MaxInitial,     \* bound: conditions that a URL of the page brings along
          MaxConditions,  \* bound: conditions made
          MaxRequests,    \* bound: requests of the user
          MaxEditors      \* bound: editors created

ASSUME BoundsAssumption == /\ MaxConditions \in Nat /\ MaxInitial \in 1 .. MaxConditions
                           /\ MaxRequests \in Nat /\ MaxEditors \in Nat

(* FullQueryPage, on the server. *)
VARIABLES criteria,   \* formBean.criteria
          views,      \* the conditions that the FilterCriteriaViews are bound to
          filtered,   \* conditions with a value from a quick filter
          made,       \* conditions made so far
          queries,    \* queries that had a result so far
          queryResult, \* the last of them, 0 if there is none
          navigated   \* history: the conditions came from the URL after the last rendering

(* In between. *)
VARIABLES calls,      \* JavaScript calls on their way to the component
          requests,   \* the user's requests on their way to the server
          sent        \* requests so far

(* JsonView, in the browser. *)
VARIABLES connected,  \* the element is in the document
          rendered,   \* editorDiv exists
          editor,     \* number of the editor, 0 if there is none
          editors,    \* editors created so far
          providers,  \* editors whose providers are registered
          content,    \* the result in the editor, 0 if it is empty
          metaData    \* of the quick filters: result, links' count and command

serverVars == <<criteria, views, filtered, made, queries, queryResult, navigated>>
viewVars == <<connected, rendered, editor, editors, providers, content, metaData>>
vars == <<serverVars, calls, requests, sent, viewVars>>

Conditions == 1 .. MaxConditions
NoMetaData == [result |-> 0, conditions |-> <<>>, command |-> 0]

Calls == [name : {"clear"}]
         \cup [name : {"renderJson"}, result : Nat, conditions : Seq(Conditions)]
UserRequests == [name : {"query", "add", "reset", "navigate"}]
                \cup [name : {"remove"}, condition : Conditions]
                \cup [name : {"filter"}, affected : Int, named : SUBSET Conditions,
                      rendered : Seq(Conditions)]

TypeOK ==
  /\ criteria \in Seq(Conditions) /\ criteria # <<>> /\ IsInjective(criteria)
  /\ views \in Seq(Conditions) /\ filtered \subseteq Conditions
  /\ calls \in Seq(Calls) /\ requests \in Seq(UserRequests)
  /\ made \in Conditions /\ queries \in Nat /\ queryResult \in 0 .. queries
  /\ sent \in 0 .. MaxRequests /\ Len(requests) <= sent
  /\ {connected, rendered, navigated} \subseteq BOOLEAN
  /\ editors \in 0 .. MaxEditors /\ editor \in 0 .. editors
  /\ providers \subseteq 1 .. editors
  /\ content \in 0 .. queries
  /\ metaData \in [result : 0 .. queries, conditions : Seq(Conditions), command : 0 .. editors]

(* The page is new: setParameter has read the conditions from the URL, and *)
(* built the views.                                                        *)
Init ==
  /\ \E n \in 1 .. MaxInitial : criteria = [i \in 1 .. n |-> i] /\ made = n
  /\ views = criteria /\ filtered = {}
  /\ queries = 0 /\ queryResult = 0 /\ navigated = FALSE
  /\ calls = <<>> /\ requests = <<>> /\ sent = 0
  /\ connected = FALSE /\ rendered = FALSE /\ editor = 0 /\ editors = 0
  /\ providers = {} /\ content = 0 /\ metaData = NoMetaData

-----------------------------------------------------------------------------
(* JsonView: life cycle of the element. *)

(* setupEditor registers providers and creates the editor. *)
SetupEditor(hasDiv) ==
  IF editor # 0 \/ ~hasDiv
  THEN UNCHANGED <<editor, editors, providers, content>>
  ELSE /\ editors < MaxEditors
       /\ editors' = editors + 1 /\ editor' = editors'
       /\ providers' = providers \cup {editor'}
       /\ content' = 0

ConnectedCallback ==
  /\ ~connected /\ connected' = TRUE
  /\ SetupEditor(rendered)
  /\ UNCHANGED <<serverVars, calls, requests, sent, rendered, metaData>>

(* The element is rendered for the first time. *)
FirstUpdated ==
  /\ connected /\ ~rendered /\ rendered' = TRUE
  /\ SetupEditor(TRUE)
  /\ UNCHANGED <<serverVars, calls, requests, sent, connected, metaData>>

(* A slip: the providers outlive their editor. *)
DisposeEditor == UNCHANGED providers

Dispose == providers' = providers \ {editor}

DisconnectedCallback ==
  /\ connected /\ connected' = FALSE
  /\ Dispose
  /\ editor' = 0 /\ content' = 0
  /\ UNCHANGED <<serverVars, calls, requests, sent, rendered, editors, metaData>>

-----------------------------------------------------------------------------
(* JsonView: calls of the server. *)

NextCall(name) == calls # <<>> /\ Head(calls).name = name /\ calls' = Tail(calls)

(* parseMetaData: the links are made for the number of conditions that the *)
(* call brings along, and for the command of the editor that is there.     *)
ParseMetaData(call) ==
  [result |-> call.result, conditions |-> call.conditions, command |-> editor]

(* renderJson does nothing if there is no editor; the two settings that it *)
(* remembers are read nowhere but in parseMetaData, after it has set them. *)
RenderJson ==
  /\ NextCall("renderJson")
  /\ IF editor = 0 THEN UNCHANGED <<metaData, content>>
     ELSE metaData' = ParseMetaData(Head(calls)) /\ content' = Head(calls).result
  /\ UNCHANGED <<serverVars, requests, sent, connected, rendered, editor, editors, providers>>

(* clear leaves the metadata alone. *)
Clear ==
  /\ NextCall("clear")
  /\ content' = 0
  /\ UNCHANGED <<serverVars, requests, sent, connected, rendered, editor, editors, providers, metaData>>

(* A slip: an index that starts with 1. *)
LinksFromOne(conditionCount) ==
  IF conditionCount = 1 THEN {[affected |-> 0, says |-> {1}]}
  ELSE {[affected |-> -1, says |-> 1 .. conditionCount]} \cup
       {[affected |-> i, says |-> {i}] : i \in 1 .. conditionCount}

(* buildFilterCommandLinks: the argument affectedCriteria of each link,    *)
(* and the conditions that its text speaks of.                             *)
FilterCommandLinks(conditionCount) ==
  IF conditionCount = 1 THEN {[affected |-> 0, says |-> {1}]}
  ELSE {[affected |-> -1, says |-> 1 .. conditionCount]} \cup
       {[affected |-> i, says |-> {i + 1}] : i \in 0 .. conditionCount - 1}

(* provideHover: the links on offer.  Nothing is offered in an empty editor. *)
Links == IF providers = {} \/ content = 0 THEN {}
         ELSE FilterCommandLinks(Len(metaData.conditions))

-----------------------------------------------------------------------------
(* The user. *)

Requests(request) ==
  /\ connected /\ sent < MaxRequests /\ sent' = sent + 1
  /\ requests' = Append(requests, request)
  /\ UNCHANGED <<serverVars, calls, viewVars>>

ClickButton == \E name \in {"query", "add", "reset"} : Requests([name |-> name])

(* A slip: the first condition can be removed, too. *)
AnyView(v) == v \in DOMAIN views

(* All views but the first have a button to remove them. *)
Removable(v) == v \in DOMAIN views /\ v # 1

ClickRemove == \E v \in DOMAIN views : /\ Removable(v)
                                       /\ Requests([name |-> "remove", condition |-> views[v]])

(* Back, forward, or the entry of the menu: the same route again.          *)
Navigate == Requests([name |-> "navigate"])

(* The editor's command passes the argument on.  The rest of the request   *)
(* is history, for the properties only.                                    *)
ClickLink ==
  /\ metaData.command = editor
  /\ \E link \in Links :
       Requests([name |-> "filter", affected |-> link.affected,
                 named |-> {metaData.conditions[i] : i \in link.says},
                 rendered |-> metaData.conditions])

-----------------------------------------------------------------------------
(* FullQueryPage: requests of the user. *)

NextRequest(name) == requests # <<>> /\ Head(requests).name = name /\ requests' = Tail(requests)

(* JsonView.renderFacts, JsonView.clear. *)
RenderFacts(result) ==
  Append(calls, [name |-> "renderJson", result |-> result, conditions |-> criteria'])

(* A slip: the links are not renumbered. *)
NoRendering == UNCHANGED <<calls, navigated>>

(* The listener that FullQueryPage registers: the count has changed. *)
OnFilterCriteriaCountChanged ==
  IF queryResult = 0 THEN UNCHANGED <<calls, navigated>>
  ELSE calls' = RenderFacts(queryResult) /\ navigated' = FALSE

AddCondition ==
  /\ NextRequest("add") /\ made < MaxConditions
  /\ made' = made + 1
  /\ criteria' = Append(criteria, made') /\ views' = Append(views, made')
  /\ OnFilterCriteriaCountChanged
  /\ UNCHANGED <<filtered, queries, queryResult, sent, viewVars>>

(* A slip: conditions that look alike are taken for the same. *)
FirstAlike(condition) == 1

(* List.remove finds the very object: FactCriteria.equals. *)
IndexOf(condition) == CHOOSE i \in DOMAIN criteria : criteria[i] = condition

(* The view whose button was clicked. *)
ViewOf(condition) == CHOOSE i \in DOMAIN views : views[i] = condition

(* removeConditionAndBackingBean.  The click on a view that is gone is     *)
(* ignored.                                                                *)
RemoveCondition ==
  /\ NextRequest("remove")
  /\ LET condition == Head(requests).condition IN
     IF condition \in Range(views)
     THEN /\ views' = RemoveAt(views, ViewOf(condition))
          /\ criteria' = RemoveAt(criteria, IndexOf(condition))
          /\ OnFilterCriteriaCountChanged
     ELSE UNCHANGED <<views, criteria, calls, navigated>>
  /\ UNCHANGED <<filtered, made, queries, queryResult, sent, viewVars>>

(* The button Reset.  The last result is kept. *)
Reset ==
  /\ NextRequest("reset") /\ made < MaxConditions
  /\ made' = made + 1
  /\ criteria' = <<made'>>
  /\ views' = criteria'
  /\ calls' = Append(calls, [name |-> "clear"]) /\ navigated' = FALSE
  /\ UNCHANGED <<filtered, queries, queryResult, sent, viewVars>>

(* runQuery.  If a field is not valid or the query fails, the user is told *)
(* and everything stays as it is.                                          *)
RunQuery ==
  \/ /\ queries' = queries + 1
     /\ queryResult' = queries'
     /\ calls' = RenderFacts(queries') /\ navigated' = FALSE
  \/ UNCHANGED <<queries, queryResult, calls, navigated>>

Query ==
  /\ NextRequest("query")
  /\ UNCHANGED criteria
  /\ RunQuery
  /\ UNCHANGED <<views, filtered, made, sent, viewVars>>

(* updateQuickFilters: -1, and an index that is out of range, mean all.    *)
(* The views are rebuilt, and the query runs.                              *)
Affected(index) == IF index \in 0 .. Len(criteria) - 1 THEN {criteria[index + 1]}
                   ELSE Range(criteria)

UpdateQuickFilters ==
  /\ NextRequest("filter")
  /\ filtered' = filtered \cup Affected(Head(requests).affected)
  /\ UNCHANGED criteria
  /\ views' = criteria
  /\ RunQuery
  /\ UNCHANGED <<made, sent, viewVars>>

(* readFromQueryParams: the conditions stay if the URL has no state, or    *)
(* none that can be read, and make room for new ones otherwise.  A URL     *)
(* that the page wrote has one at least.                                   *)
ReadFromQueryParams ==
  \/ UNCHANGED <<criteria, made, navigated>>
  \/ \E n \in 1 .. MaxInitial :
       /\ made + n <= MaxConditions /\ made' = made + n
       /\ criteria' = [i \in 1 .. n |-> made + i]
       /\ navigated' = TRUE

(* setParameter, of a page that is open.  The views are rebuilt, but the   *)
(* last result is neither rendered again nor cleared.                      *)
SetParameter ==
  /\ NextRequest("navigate")
  /\ ReadFromQueryParams
  /\ views' = criteria'
  /\ UNCHANGED <<filtered, queries, queryResult, calls, sent, viewVars>>

-----------------------------------------------------------------------------
Browser == \/ ConnectedCallback \/ FirstUpdated \/ DisconnectedCallback
           \/ RenderJson \/ Clear
User == ClickButton \/ ClickRemove \/ ClickLink \/ Navigate
Server == \/ AddCondition \/ RemoveCondition \/ Reset
          \/ Query \/ UpdateQuickFilters \/ SetParameter

Next == Browser \/ User \/ Server

Spec == Init /\ [][Next]_vars

-----------------------------------------------------------------------------
(* What the user sees of the query is what is queried: the views show the  *)
(* conditions of the bean, in their order, after any sequence of adding,   *)
(* removing, resetting, quick filters and navigation                       *)
(* (FilterCriteriaViews).                                                  *)
ViewsShowConditions == views = criteria

(* When no call is under way, every link belongs to the result shown, and  *)
(* works: it was rendered for the editor that is there now.  It means the  *)
(* condition that its text names: the conditions it was rendered for are   *)
(* those of now, whatever was added, removed, reset or filtered since, and *)
(* unless the URL has replaced them since (renderJson, clear, the listener *)
(* for the count of conditions; setParameter does not render).             *)
LinksNameConditions ==
  calls = <<>> /\ Links # {} =>
    /\ metaData.result = content
    /\ metaData.command = editor
    /\ ~navigated => metaData.conditions = criteria

(* A quick filter goes to the conditions that the text of its link spoke   *)
(* of, unless conditions came or went since the link was rendered          *)
(* (buildFilterCommandLinks in the browser, updateQuickFilters on the      *)
(* server).                                                                *)
FiltersHitTheirConditions ==
  [][UpdateQuickFilters /\ Head(requests).rendered = criteria =>
       filtered' = filtered \cup Head(requests).named]_vars

(* The element's providers, which serve all editors of the page, are       *)
(* registered if and only if its editor exists, however often the element  *)
(* comes and goes (setupEditor, disconnectedCallback).                     *)
ProvidersFollowEditor == providers = IF editor = 0 THEN {} ELSE {editor}
=============================================================================
