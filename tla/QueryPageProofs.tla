--------------------------- MODULE QueryPageProofs ---------------------------
(***************************************************************************)
(* Proofs about QueryPage, for any number of conditions, requests and      *)
(* editors: the types, that the views show the conditions of the bean,     *)
(* that links name what they change and quick filters reach it, and that   *)
(* the providers come and go with their editor.                            *)
(***************************************************************************)
EXTENDS QueryPage, TLAPS

(* No request takes the first condition away, and none means a condition   *)
(* that is yet to be made: an index of its own is what a new one gets.     *)
ConditionsInv ==
  /\ views = criteria
  /\ \A i \in 1 .. Len(criteria) : criteria[i] <= made
  /\ \A k \in 1 .. Len(requests) : requests[k].name = "remove" =>
       requests[k].condition <= made /\ requests[k].condition # criteria[1]

(* A request of a link names the conditions that it was rendered for. *)
FilterInv ==
  \A k \in 1 .. Len(requests) : requests[k].name = "filter" =>
    \/ requests[k].affected = -1 /\ requests[k].named = Range(requests[k].rendered)
    \/ /\ requests[k].affected \in 0 .. Len(requests[k].rendered) - 1
       /\ requests[k].named = {requests[k].rendered[requests[k].affected + 1]}

(* Nothing is shown before there is a result. *)
ResultInv ==
  /\ \A k \in 1 .. Len(calls) : calls[k].name = "renderJson" =>
       queryResult # 0 /\ calls[k].result \in 1 .. queries
  /\ queryResult = 0 => content = 0

(* The last word is about the conditions that there are now, unless the    *)
(* URL has replaced them since: either the last call under way, or, if     *)
(* there is none, what the editor shows.                                   *)
RenderInv ==
  ~navigated =>
    /\ calls # <<>> /\ calls[Len(calls)].name = "renderJson" =>
         calls[Len(calls)].conditions = criteria
    /\ calls = <<>> /\ content # 0 => metaData.conditions = criteria

(* What is shown belongs to the editor that is there. *)
EditorInv ==
  /\ editor = 0 => content = 0
  /\ content # 0 => metaData.result = content /\ metaData.command = editor

(* The inductive invariant. *)
IndInv == /\ TypeOK /\ ConditionsInv /\ FilterInv /\ ResultInv /\ RenderInv
          /\ EditorInv /\ ProvidersFollowEditor

-----------------------------------------------------------------------------
(* Sequences. *)

LEMMA Bounds == /\ MaxConditions \in Nat /\ MaxInitial \in 1 .. MaxConditions
                /\ MaxRequests \in Nat /\ MaxEditors \in Nat
BY BoundsAssumption

(* The rest of a sequence. *)
LEMMA TailFacts ==
  ASSUME NEW S, NEW s \in Seq(S), s # <<>>
  PROVE  /\ Len(s) \in Nat /\ 1 <= Len(s)
         /\ Head(s) = s[1] /\ Head(s) \in S
         /\ Tail(s) \in Seq(S) /\ Len(Tail(s)) = Len(s) - 1
         /\ \A k \in 1 .. Len(s) - 1 : Tail(s)[k] = s[k + 1] /\ k + 1 \in 1 .. Len(s)
OBVIOUS

(* A sequence with one more element. *)
LEMMA AppendFacts ==
  ASSUME NEW S, NEW s \in Seq(S), NEW e \in S
  PROVE  /\ Len(s) \in Nat
         /\ Append(s, e) \in Seq(S) /\ Len(Append(s, e)) = Len(s) + 1
         /\ Append(s, e) # <<>>
         /\ Append(s, e)[Len(s) + 1] = e
         /\ \A k \in 1 .. Len(s) : Append(s, e)[k] = s[k]
OBVIOUS

(* One sequence after another. *)
LEMMA ConcatFacts ==
  ASSUME NEW S, NEW s \in Seq(S), NEW t \in Seq(S)
  PROVE  /\ s \o t \in Seq(S) /\ Len(s \o t) = Len(s) + Len(t)
         /\ \A k \in 1 .. Len(s) + Len(t) :
              (s \o t)[k] = IF k <= Len(s) THEN s[k] ELSE t[k - Len(s)]
OBVIOUS

(* A sequence without one of its elements. *)
LEMMA RemoveAtFacts ==
  ASSUME NEW S, NEW s \in Seq(S), NEW i \in 1 .. Len(s)
  PROVE  /\ RemoveAt(s, i) \in Seq(S) /\ Len(RemoveAt(s, i)) = Len(s) - 1
         /\ \A k \in 1 .. Len(s) - 1 :
              /\ RemoveAt(s, i)[k] = IF k < i THEN s[k] ELSE s[k + 1]
              /\ k \in 1 .. Len(s) /\ k + 1 \in 1 .. Len(s)
<1> DEFINE left == SubSeq(s, 1, i - 1)
           right == SubSeq(s, i + 1, Len(s))
<1>0. Len(s) \in Nat /\ i \in Nat /\ 1 <= i /\ i <= Len(s)
  OBVIOUS
<1>1. left \in Seq(S) /\ Len(left) = i - 1 /\ \A k \in 1 .. i - 1 : left[k] = s[k]
  BY <1>0
<1>2. right \in Seq(S) /\ Len(right) = Len(s) - i /\ \A k \in 1 .. Len(s) - i : right[k] = s[i + k]
  BY <1>0
<1>3. RemoveAt(s, i) = left \o right
  BY DEF RemoveAt
<1> HIDE DEF left, right
<1>4. left \o right \in Seq(S) /\ Len(left \o right) = Len(left) + Len(right)
  BY <1>1, <1>2, ConcatFacts
<1>5. \A k \in 1 .. Len(left) + Len(right) :
        (left \o right)[k] = IF k <= Len(left) THEN left[k] ELSE right[k - Len(left)]
  BY <1>1, <1>2, ConcatFacts
<1>6. ASSUME NEW k \in 1 .. Len(s) - 1
      PROVE  /\ RemoveAt(s, i)[k] = IF k < i THEN s[k] ELSE s[k + 1]
             /\ k \in 1 .. Len(s) /\ k + 1 \in 1 .. Len(s)
  <2>1. CASE k < i
    BY <1>0, <1>1, <1>2, <1>3, <1>5, <2>1
  <2>2. CASE ~(k < i)
    <3>1. k - (i - 1) \in 1 .. Len(s) - i /\ i + (k - (i - 1)) = k + 1
      BY <1>0, <2>2
    <3>2. right[k - (i - 1)] = s[k + 1]
      BY <1>2, <3>1
    <3> QED
      BY <1>0, <1>1, <1>2, <1>3, <1>5, <2>2, <3>2
  <2> QED
    BY <2>1, <2>2
<1> QED
  BY <1>0, <1>1, <1>2, <1>3, <1>4, <1>6
-----------------------------------------------------------------------------
(* The initial state. *)

LEMMA Initially == Init => IndInv
<1> SUFFICES ASSUME Init PROVE IndInv
  OBVIOUS
<1>1. PICK n \in 1 .. MaxInitial : criteria = [i \in 1 .. n |-> i] /\ made = n
  BY DEF Init
<1>2. n \in Nat /\ 1 <= n /\ n \in Conditions /\ 1 .. n \subseteq Conditions
  BY Bounds DEF Conditions
<1>3. criteria \in Seq(Conditions) /\ Len(criteria) = n /\ criteria # <<>>
  BY <1>1, <1>2
<1>4. \A i \in 1 .. n : criteria[i] = i
  BY <1>1
<1>5. IsInjective(criteria)
  BY <1>1, <1>4 DEF IsInjective
<1>6. TypeOK
  <2>1. NoMetaData \in [result : 0 .. 0, conditions : Seq(Conditions), command : 0 .. 0]
    BY DEF NoMetaData
  <2>2. metaData \in [result : 0 .. queries, conditions : Seq(Conditions), command : 0 .. editors]
    BY <2>1 DEF Init
  <2>3. /\ criteria \in Seq(Conditions) /\ criteria # <<>> /\ IsInjective(criteria)
        /\ views \in Seq(Conditions) /\ filtered \subseteq Conditions /\ made \in Conditions
    BY <1>1, <1>2, <1>3, <1>5 DEF Init
  <2>4. calls \in Seq(Calls) /\ requests \in Seq(UserRequests) /\ Len(requests) = 0
    BY DEF Init
  <2>5. /\ queries \in Nat /\ queryResult \in 0 .. queries /\ sent \in 0 .. MaxRequests
        /\ editors \in 0 .. MaxEditors /\ editor \in 0 .. editors
        /\ providers \subseteq 1 .. editors /\ content \in 0 .. queries /\ sent = 0
    BY Bounds DEF Init
  <2>6. {connected, rendered, navigated} \subseteq BOOLEAN
    BY DEF Init
  <2> QED
    BY <2>2, <2>3, <2>4, <2>5, <2>6 DEF TypeOK
<1>7. ConditionsInv
  BY <1>1, <1>2, <1>3, <1>4 DEF Init, ConditionsInv
<1>8. FilterInv /\ ResultInv /\ RenderInv /\ EditorInv /\ ProvidersFollowEditor
  BY DEF Init, FilterInv, ResultInv, RenderInv, EditorInv, ProvidersFollowEditor
<1> QED
  BY <1>6, <1>7, <1>8 DEF IndInv

-----------------------------------------------------------------------------
(* The browser. *)

(* The conditions and the requests are none of the browser's business. *)
LEMMA ServerAside ==
  ASSUME ConditionsInv, FilterInv, UNCHANGED <<criteria, views, made, requests>>
  PROVE  ConditionsInv' /\ FilterInv'
BY DEF ConditionsInv, FilterInv

(* The editor is there already, or cannot be made yet, or is made. *)
LEMMA SetupStep ==
  ASSUME IndInv, NEW hasDiv, SetupEditor(hasDiv),
         UNCHANGED <<serverVars, calls, requests, sent, metaData>>,
         {connected, rendered, navigated}' \subseteq BOOLEAN
  PROVE  IndInv'
<1> USE DEF IndInv
<1>1. ConditionsInv' /\ FilterInv'
  BY ServerAside DEF serverVars
<1>2. /\ editors \in Nat /\ editor \in Nat /\ editors' \in editors .. editors + 1
      /\ \/ UNCHANGED <<editor, editors, providers, content>>
         \/ /\ editors' \in 1 .. MaxEditors /\ editor' = editors'
            /\ editor = 0 /\ providers' = providers \cup {editor'} /\ content' = 0
  <2>1. editors \in Nat /\ editor \in Nat
    BY Bounds DEF TypeOK
  <2> QED
    BY <2>1, Bounds DEF SetupEditor
<1>3. TypeOK'
  <2>1. /\ editors' \in 0 .. MaxEditors /\ editor' \in 0 .. editors'
        /\ providers' \subseteq 1 .. editors' /\ content' \in 0 .. queries'
    <3>1. /\ editors \in 0 .. MaxEditors /\ editor \in 0 .. editors /\ queries \in Nat
          /\ providers \subseteq 1 .. editors /\ content \in 0 .. queries /\ queries' = queries
      BY DEF TypeOK, serverVars
    <3>2. editors' \in 0 .. MaxEditors /\ editor' \in 0 .. editors' /\ content' \in 0 .. queries'
      BY <1>2, <3>1, Bounds
    <3>3. ASSUME NEW e \in providers' PROVE e \in 1 .. editors'
      <4>1. e \in providers \/ (e = editors' /\ editors' \in 1 .. MaxEditors)
        BY <1>2
      <4>2. e \in providers => e \in 1 .. editors
        BY <3>1
      <4> QED
        BY <1>2, <4>1, <4>2, Bounds
    <3> QED
      BY <3>2, <3>3
  <2>2. ASSUME NEW n \in 0 .. editors PROVE n \in 0 .. editors'
    BY <1>2
  <2>3. metaData' \in [result : 0 .. queries', conditions : Seq(Conditions), command : 0 .. editors']
    <3>1. /\ metaData \in [result : 0 .. queries, conditions : Seq(Conditions), command : 0 .. editors]
          /\ metaData' = metaData /\ queries' = queries
      BY DEF TypeOK, serverVars
    <3> QED
      BY <2>2, <3>1
  <2> QED
    BY <2>1, <2>3 DEF TypeOK, serverVars
<1>4. ResultInv'
  BY <1>2 DEF ResultInv, serverVars
<1>5. RenderInv'
  BY <1>2 DEF RenderInv, serverVars
<1>6. EditorInv' /\ ProvidersFollowEditor'
  BY <1>2 DEF EditorInv, ProvidersFollowEditor
<1> QED
  BY <1>1, <1>3, <1>4, <1>5, <1>6

LEMMA ConnectedStep == IndInv /\ ConnectedCallback => IndInv'
<1> SUFFICES ASSUME IndInv, ConnectedCallback PROVE IndInv'
  OBVIOUS
<1>1. {connected, rendered, navigated}' \subseteq BOOLEAN
  BY DEF IndInv, TypeOK, ConnectedCallback, serverVars
<1> QED
  BY <1>1, SetupStep DEF ConnectedCallback

LEMMA FirstUpdatedStep == IndInv /\ FirstUpdated => IndInv'
<1> SUFFICES ASSUME IndInv, FirstUpdated PROVE IndInv'
  OBVIOUS
<1>1. {connected, rendered, navigated}' \subseteq BOOLEAN
  BY DEF IndInv, TypeOK, FirstUpdated, serverVars
<1> QED
  BY <1>1, SetupStep DEF FirstUpdated

LEMMA DisconnectedStep == IndInv /\ DisconnectedCallback => IndInv'
<1> SUFFICES ASSUME IndInv, DisconnectedCallback PROVE IndInv'
  OBVIOUS
<1> USE DEF IndInv
<1>1. ConditionsInv' /\ FilterInv'
  BY ServerAside DEF DisconnectedCallback, serverVars
<1>2. {connected, rendered, navigated}' \subseteq BOOLEAN
  BY DEF TypeOK, DisconnectedCallback, serverVars
<1>3. TypeOK'
  BY <1>2 DEF TypeOK, DisconnectedCallback, Dispose, serverVars
<1>4. ResultInv' /\ RenderInv'
  BY DEF DisconnectedCallback, ResultInv, RenderInv, serverVars
<1>5. EditorInv' /\ ProvidersFollowEditor'
  BY DEF DisconnectedCallback, Dispose, EditorInv, ProvidersFollowEditor
<1> QED
  BY <1>1, <1>3, <1>4, <1>5

(* What the next call is, and what is left of the calls. *)
LEMMA NextCallFacts ==
  ASSUME IndInv, NEW name, NextCall(name)
  PROVE  /\ calls # <<>> /\ Len(calls) \in Nat /\ 1 <= Len(calls)
         /\ Head(calls) = calls[1] /\ calls[1] \in Calls /\ calls[1].name = name
         /\ calls' \in Seq(Calls) /\ Len(calls') = Len(calls) - 1
         /\ \A k \in 1 .. Len(calls') : calls'[k] = calls[k + 1] /\ k + 1 \in 1 .. Len(calls)
         /\ calls' = <<>> <=> Len(calls) = 1
         /\ calls' # <<>> => calls'[Len(calls')] = calls[Len(calls)]
<1>1. calls \in Seq(Calls) /\ calls # <<>> /\ Head(calls).name = name /\ calls' = Tail(calls)
  BY DEF IndInv, TypeOK, NextCall
<1>2. /\ Len(calls) \in Nat /\ 1 <= Len(calls) /\ Head(calls) = calls[1] /\ Head(calls) \in Calls
      /\ calls' \in Seq(Calls) /\ Len(calls') = Len(calls) - 1
      /\ \A k \in 1 .. Len(calls) - 1 : calls'[k] = calls[k + 1] /\ k + 1 \in 1 .. Len(calls)
  BY <1>1, TailFacts
<1>3. calls' = <<>> <=> Len(calls') = 0
  BY <1>2
<1>4. calls' # <<>> => Len(calls) - 1 \in 1 .. Len(calls) - 1 /\ Len(calls) - 1 + 1 = Len(calls)
  BY <1>2, <1>3
<1>5. calls' # <<>> => calls'[Len(calls')] = calls[Len(calls)]
  BY <1>2, <1>4
<1> QED
  BY <1>1, <1>2, <1>3, <1>5

LEMMA ClearStep == IndInv /\ Clear => IndInv'
<1> SUFFICES ASSUME IndInv, Clear PROVE IndInv'
  OBVIOUS
<1>0. NextCall("clear") /\ content' = 0
  BY DEF Clear
<1> USE DEF IndInv
<1>1. ConditionsInv' /\ FilterInv'
  BY ServerAside DEF Clear, serverVars
<1>2. TypeOK'
  <2>1. calls' \in Seq(Calls)
    BY <1>0, NextCallFacts
  <2>2. {connected, rendered, navigated}' \subseteq BOOLEAN /\ content' \in 0 .. queries'
    BY <1>0 DEF TypeOK, Clear, serverVars
  <2> QED
    BY <2>1, <2>2 DEF TypeOK, Clear, serverVars
<1>3. ResultInv'
  <2>1. \A k \in 1 .. Len(calls') : calls'[k] = calls[k + 1] /\ k + 1 \in 1 .. Len(calls)
    BY <1>0, NextCallFacts
  <2> QED
    BY <1>0, <2>1 DEF ResultInv, Clear, serverVars
<1>4. RenderInv'
  <2>1. calls # <<>> /\ (calls' # <<>> => calls'[Len(calls')] = calls[Len(calls)])
    BY <1>0, NextCallFacts
  <2> QED
    BY <1>0, <2>1 DEF RenderInv, Clear, serverVars
<1>5. EditorInv' /\ ProvidersFollowEditor'
  BY <1>0 DEF Clear, EditorInv, ProvidersFollowEditor
<1> QED
  BY <1>1, <1>2, <1>3, <1>4, <1>5

LEMMA RenderJsonStep == IndInv /\ RenderJson => IndInv'
<1> SUFFICES ASSUME IndInv, RenderJson PROVE IndInv'
  OBVIOUS
<1>0. NextCall("renderJson")
  BY DEF RenderJson
<1> USE DEF IndInv
<1>1. ConditionsInv' /\ FilterInv'
  BY ServerAside DEF RenderJson, serverVars
<1>2. /\ calls # <<>> /\ Len(calls) \in Nat /\ 1 \in 1 .. Len(calls)
      /\ Head(calls) = calls[1] /\ calls[1] \in Calls /\ calls[1].name = "renderJson"
  BY <1>0, NextCallFacts
<1>3. /\ calls[1].result \in 1 .. queries /\ queryResult # 0 /\ queries \in Nat
      /\ calls[1].conditions \in Seq(Conditions)
  <2>1. calls[1].conditions \in Seq(Conditions)
    BY <1>2 DEF Calls
  <2>2. calls[1].result \in 1 .. queries /\ queryResult # 0
    BY <1>2 DEF ResultInv
  <2> QED
    BY <2>1, <2>2 DEF TypeOK
<1>4. \/ editor = 0 /\ UNCHANGED <<metaData, content>>
      \/ /\ editor # 0 /\ content' = calls[1].result
         /\ metaData' = [result |-> calls[1].result, conditions |-> calls[1].conditions,
                         command |-> editor]
  BY <1>2 DEF RenderJson, ParseMetaData
<1>5. TypeOK'
  <2>1. calls' \in Seq(Calls)
    BY <1>0, NextCallFacts
  <2>2. {connected, rendered, navigated}' \subseteq BOOLEAN /\ content' \in 0 .. queries'
    <3>1. UNCHANGED <<connected, rendered, navigated, queries>>
      BY DEF RenderJson, serverVars
    <3>2. {connected, rendered, navigated} \subseteq BOOLEAN /\ content \in 0 .. queries
      BY DEF TypeOK
    <3>3. content' \in 0 .. queries
      BY <1>3, <1>4, <3>2
    <3> QED
      BY <3>1, <3>2, <3>3
  <2>3. metaData' \in [result : 0 .. queries, conditions : Seq(Conditions), command : 0 .. editors]
    <3>0. editor \in 0 .. editors
      BY DEF TypeOK
    <3>1. calls[1].result \in 0 .. queries
      <4> HIDE DEF IndInv
      <4> QED
        BY <1>3
    <3>2. metaData \in [result : 0 .. queries, conditions : Seq(Conditions), command : 0 .. editors]
      BY DEF TypeOK
    <3>3. metaData' = metaData
          \/ metaData' = [result |-> calls[1].result, conditions |-> calls[1].conditions,
                          command |-> editor]
      BY <1>4
    <3>4. calls[1].conditions \in Seq(Conditions)
      BY <1>3
    <3> QED
      BY <3>0, <3>1, <3>2, <3>3, <3>4
  <2> QED
    BY <2>1, <2>2, <2>3 DEF TypeOK, RenderJson, serverVars
<1>6. ResultInv'
  <2>1. \A k \in 1 .. Len(calls') : calls'[k] = calls[k + 1] /\ k + 1 \in 1 .. Len(calls)
    BY <1>0, NextCallFacts
  <2> QED
    BY <1>3, <2>1 DEF ResultInv, RenderJson, serverVars
<1>7. RenderInv'
  <2>1. calls' # <<>> => calls'[Len(calls')] = calls[Len(calls)]
    BY <1>0, NextCallFacts
  <2>2. calls' = <<>> => Len(calls) = 1
    BY <1>0, NextCallFacts
  <2>3. ~navigated' /\ calls' = <<>> /\ content' # 0 => metaData'.conditions = criteria'
    <3>1. ~navigated /\ calls' = <<>> => calls[1].conditions = criteria
      BY <1>2, <2>2 DEF RenderInv
    <3> QED
      BY <1>4, <3>1 DEF EditorInv, RenderJson, serverVars
  <2> QED
    BY <1>2, <2>1, <2>3 DEF RenderInv, RenderJson, serverVars
<1>8. EditorInv' /\ ProvidersFollowEditor'
  BY <1>4 DEF RenderJson, EditorInv, ProvidersFollowEditor
<1> QED
  BY <1>1, <1>5, <1>6, <1>7, <1>8

-----------------------------------------------------------------------------
(* The user. *)

(* What a request may be about. *)
Sound(r) ==
  /\ r.name = "remove" => r.condition <= made /\ r.condition # criteria[1]
  /\ r.name = "filter" =>
       \/ r.affected = -1 /\ r.named = Range(r.rendered)
       \/ /\ r.affected \in 0 .. Len(r.rendered) - 1
          /\ r.named = {r.rendered[r.affected + 1]}

LEMMA RequestStep ==
  ASSUME IndInv, NEW r \in UserRequests, Sound(r), Requests(r)
  PROVE  IndInv'
<1> USE DEF IndInv
<1>1. /\ sent' = sent + 1 /\ sent < MaxRequests /\ requests' = Append(requests, r)
      /\ UNCHANGED <<criteria, views, filtered, made, queries, queryResult, navigated, calls,
                     connected, rendered, editor, editors, providers, content, metaData>>
  BY DEF Requests, serverVars, viewVars
<1>2. /\ Len(requests) \in Nat /\ requests' \in Seq(UserRequests)
      /\ Len(requests') = Len(requests) + 1 /\ requests'[Len(requests) + 1] = r
      /\ \A k \in 1 .. Len(requests) : requests'[k] = requests[k]
  BY <1>1, AppendFacts DEF TypeOK
<1>3. \A k \in 1 .. Len(requests') : k \in 1 .. Len(requests) \/ requests'[k] = r
  BY <1>2
<1>4. TypeOK'
  <2>1. sent' \in 0 .. MaxRequests /\ Len(requests') <= sent'
    BY <1>1, <1>2, Bounds DEF TypeOK
  <2> QED
    BY <1>1, <1>2, <2>1 DEF TypeOK
<1>5. ConditionsInv'
  BY <1>1, <1>2, <1>3 DEF ConditionsInv, Sound
<1>6. FilterInv'
  BY <1>1, <1>2, <1>3 DEF FilterInv, Sound
<1>7. ResultInv' /\ RenderInv' /\ EditorInv' /\ ProvidersFollowEditor'
  BY <1>1 DEF ResultInv, RenderInv, EditorInv, ProvidersFollowEditor
<1> QED
  BY <1>4, <1>5, <1>6, <1>7

LEMMA ClickButtonStep == IndInv /\ ClickButton => IndInv'
<1> SUFFICES ASSUME IndInv, ClickButton PROVE IndInv'
  OBVIOUS
<1>1. PICK name \in {"query", "add", "reset"} : Requests([name |-> name])
  BY DEF ClickButton
<1> DEFINE r == [name |-> name]
<1>2. r \in UserRequests /\ Sound(r)
  BY DEF UserRequests, Sound
<1> QED
  BY <1>1, <1>2, RequestStep

LEMMA NavigateStep == IndInv /\ Navigate => IndInv'
<1> SUFFICES ASSUME IndInv, Navigate PROVE IndInv'
  OBVIOUS
<1> DEFINE r == [name |-> "navigate"]
<1>1. r \in UserRequests /\ Sound(r)
  BY DEF UserRequests, Sound
<1> QED
  BY <1>1, RequestStep DEF Navigate

(* The button stands next to a view that is not the first. *)
LEMMA ClickRemoveStep == IndInv /\ ClickRemove => IndInv'
<1> SUFFICES ASSUME IndInv, ClickRemove PROVE IndInv'
  OBVIOUS
<1>1. PICK v \in DOMAIN views :
        v # 1 /\ Requests([name |-> "remove", condition |-> views[v]])
  BY DEF ClickRemove, Removable
<1>2. views = criteria /\ v \in 1 .. Len(criteria) /\ v \in DOMAIN criteria
  BY <1>1 DEF IndInv, TypeOK, ConditionsInv
<1>3. 1 \in DOMAIN criteria
  BY <1>2 DEF IndInv, TypeOK
<1>4. views[v] # criteria[1]
  BY <1>1, <1>2, <1>3 DEF IndInv, TypeOK, IsInjective
<1>5. views[v] \in Conditions /\ views[v] <= made
  BY <1>1, <1>2 DEF IndInv, TypeOK, ConditionsInv
<1> DEFINE r == [name |-> "remove", condition |-> views[v]]
<1>6. r \in UserRequests
  BY <1>5 DEF UserRequests
<1>7. Sound(r)
  BY <1>4, <1>5 DEF Sound
<1> QED
  BY <1>1, <1>6, <1>7, RequestStep

(* The links of n conditions: one for all of them, and one for each. *)
LEMMA LinkFacts ==
  ASSUME NEW n \in Nat, NEW link \in FilterCommandLinks(n)
  PROVE  \/ link.affected = -1 /\ link.says = 1 .. n
         \/ link.affected \in 0 .. n - 1 /\ link.says = {link.affected + 1}
<1>1. CASE n = 1
  BY <1>1 DEF FilterCommandLinks
<1>2. CASE n # 1
  <2>1. \/ link = [affected |-> -1, says |-> 1 .. n]
        \/ \E i \in 0 .. n - 1 : link = [affected |-> i, says |-> {i + 1}]
    BY <1>2 DEF FilterCommandLinks
  <2> QED
    BY <2>1
<1> QED
  BY <1>1, <1>2

LEMMA ClickLinkStep == IndInv /\ ClickLink => IndInv'
<1> SUFFICES ASSUME IndInv, ClickLink PROVE IndInv'
  OBVIOUS
<1> DEFINE cs == metaData.conditions
<1>1. cs \in Seq(Conditions) /\ Len(cs) \in Nat /\ DOMAIN cs = 1 .. Len(cs)
  BY DEF IndInv, TypeOK
<1>2. PICK link \in FilterCommandLinks(Len(cs)) :
        Requests([name |-> "filter", affected |-> link.affected,
                  named |-> {cs[i] : i \in link.says}, rendered |-> cs])
  BY DEF ClickLink, Links
<1>3. \/ link.affected = -1 /\ link.says = 1 .. Len(cs)
      \/ link.affected \in 0 .. Len(cs) - 1 /\ link.says = {link.affected + 1}
  BY <1>1, LinkFacts
<1> DEFINE named == {cs[i] : i \in link.says}
           r == [name |-> "filter", affected |-> link.affected, named |-> named, rendered |-> cs]
<1> HIDE DEF cs
<1>4. /\ named \in SUBSET Conditions /\ link.affected \in Int
      /\ \/ link.affected = -1 /\ named = Range(cs)
         \/ link.affected \in 0 .. Len(cs) - 1 /\ named = {cs[link.affected + 1]}
  <2>1. CASE link.affected = -1 /\ link.says = 1 .. Len(cs)
    BY <1>1, <2>1 DEF Range
  <2>2. CASE link.affected \in 0 .. Len(cs) - 1 /\ link.says = {link.affected + 1}
    <3>1. link.affected + 1 \in 1 .. Len(cs) /\ named = {cs[link.affected + 1]}
      BY <1>1, <2>2
    <3> QED
      BY <1>1, <2>2, <3>1
  <2> QED
    BY <1>3, <2>1, <2>2
<1> HIDE DEF named
<1>5. r \in UserRequests
  BY <1>1, <1>4 DEF UserRequests
<1>6. Sound(r)
  BY <1>4 DEF Sound
<1>7. Requests(r)
  BY <1>2 DEF named
<1> QED
  BY <1>5, <1>6, <1>7, RequestStep

-----------------------------------------------------------------------------
(* The server. *)

(* The server takes a request. *)
LEMMA NextRequestFacts ==
  ASSUME IndInv, NEW name, NextRequest(name)
  PROVE  /\ Len(requests) \in Nat /\ 1 \in 1 .. Len(requests)
         /\ Head(requests) = requests[1] /\ requests[1] \in UserRequests /\ requests[1].name = name
         /\ requests' \in Seq(UserRequests) /\ Len(requests') <= sent
         /\ \A k \in 1 .. Len(requests') :
              requests'[k] = requests[k + 1] /\ k + 1 \in 1 .. Len(requests)
<1>1. requests \in Seq(UserRequests) /\ requests # <<>> /\ Head(requests).name = name
      /\ requests' = Tail(requests) /\ Len(requests) <= sent /\ sent \in 0 .. MaxRequests
  BY DEF IndInv, TypeOK, NextRequest
<1>2. /\ Len(requests) \in Nat /\ 1 <= Len(requests)
      /\ Head(requests) = requests[1] /\ Head(requests) \in UserRequests
      /\ requests' \in Seq(UserRequests) /\ Len(requests') = Len(requests) - 1
      /\ \A k \in 1 .. Len(requests) - 1 :
           requests'[k] = requests[k + 1] /\ k + 1 \in 1 .. Len(requests)
  BY <1>1, TailFacts
<1>3. Len(requests) - 1 <= sent
  BY <1>1, <1>2, Bounds
<1> QED
  BY <1>1, <1>2, <1>3

(* What a request does to the query: the conditions that it makes are new, *)
(* and the first one is either the one that was, or new.                   *)
Edits ==
  /\ criteria' \in Seq(Conditions) /\ criteria' # <<>> /\ IsInjective(criteria')
  /\ views' = criteria'
  /\ made' \in Conditions /\ made <= made'
  /\ \A i \in 1 .. Len(criteria') : criteria'[i] <= made'
  /\ criteria'[1] = criteria[1] \/ criteria'[1] > made

(* What a request makes the server tell the browser.  It renders whenever  *)
(* the conditions change, but those of a URL, if there is a result.        *)
Tells ==
  /\ queries' \in Nat /\ queries <= queries' /\ queryResult' \in 0 .. queries'
  /\ queryResult # 0 => queryResult' # 0
  /\ \/ calls' = calls /\ criteria' = criteria /\ UNCHANGED <<queryResult, navigated>>
     \/ calls' = calls /\ navigated' = TRUE /\ queryResult' = queryResult
     \/ calls' = calls /\ queryResult = 0 /\ queryResult' = 0
     \/ calls' = Append(calls, [name |-> "clear"]) /\ queryResult' = queryResult
     \/ /\ queryResult' # 0
        /\ calls' = Append(calls, [name |-> "renderJson", result |-> queryResult',
                                   conditions |-> criteria'])

LEMMA EditsStep ==
  ASSUME IndInv, NEW name, NextRequest(name), Edits
  PROVE  ConditionsInv' /\ FilterInv'
<1>1. /\ requests' \in Seq(UserRequests)
      /\ \A k \in 1 .. Len(requests') :
           requests'[k] = requests[k + 1] /\ k + 1 \in 1 .. Len(requests)
  BY NextRequestFacts
<1>2. FilterInv'
  BY <1>1 DEF IndInv, FilterInv
<1>3. ASSUME NEW k \in 1 .. Len(requests'), requests'[k].name = "remove"
      PROVE  requests'[k].condition <= made' /\ requests'[k].condition # criteria'[1]
  <2>1. requests'[k].condition <= made /\ requests'[k].condition # criteria[1]
    BY <1>1, <1>3 DEF IndInv, ConditionsInv
  <2>2. requests'[k] \in UserRequests
    BY <1>1
  <2>3. requests'[k].condition \in Conditions
    BY <1>3, <2>2 DEF UserRequests
  <2>4. criteria'[1] \in Conditions
    BY DEF Edits
  <2>5. made \in Nat /\ made' \in Nat /\ requests'[k].condition \in Nat /\ criteria'[1] \in Nat
    <3>1. \A c \in Conditions : c \in Nat
      BY Bounds DEF Conditions
    <3>2. made \in Conditions /\ made' \in Conditions
      BY DEF IndInv, TypeOK, Edits
    <3> QED
      BY <2>3, <2>4, <3>1, <3>2
  <2> QED
    BY <2>1, <2>5 DEF Edits
<1> QED
  BY <1>2, <1>3 DEF ConditionsInv, Edits

LEMMA TellsStep ==
  ASSUME IndInv, Edits, Tells, UNCHANGED <<content, metaData>>
  PROVE  calls' \in Seq(Calls) /\ ResultInv' /\ RenderInv'
<1>0. calls \in Seq(Calls) /\ Len(calls) \in Nat /\ queries \in Nat
  BY DEF IndInv, TypeOK
<1>1. CASE calls' = calls
  <2>1. calls' \in Seq(Calls)
    BY <1>0, <1>1
  <2>2. ASSUME NEW k \in 1 .. Len(calls'), calls'[k].name = "renderJson"
        PROVE  queryResult' # 0 /\ calls'[k].result \in 1 .. queries'
    <3>1. queryResult # 0 /\ calls'[k].result \in 1 .. queries
      BY <1>1, <2>2 DEF IndInv, ResultInv
    <3> QED
      BY <1>0, <3>1 DEF Tells
  <2>3. queryResult' = 0 => content' = 0
    BY DEF IndInv, ResultInv, Tells
  <2>4. RenderInv'
    <3>0. CASE navigated'
      BY <3>0 DEF RenderInv
    <3>1. CASE criteria' = criteria /\ navigated' = navigated
      BY <1>1, <3>1 DEF IndInv, RenderInv
    <3>2. CASE queryResult = 0
      <4>1. content' = 0
        BY <3>2 DEF IndInv, ResultInv
      <4>2. calls # <<>> => Len(calls) \in 1 .. Len(calls)
        BY <1>0
      <4>3. calls # <<>> => calls[Len(calls)].name # "renderJson"
        BY <3>2, <4>2 DEF IndInv, ResultInv
      <4> QED
        BY <1>1, <4>1, <4>3 DEF RenderInv
    <3>3. calls # Append(calls, [name |-> "clear"])
      BY <1>0
    <3>4. navigated' \/ (criteria' = criteria /\ navigated' = navigated) \/ queryResult = 0
          \/ calls' = Append(calls, [name |-> "renderJson", result |-> queryResult',
                                     conditions |-> criteria'])
      BY <1>1, <3>3 DEF Tells
    <3>5. calls' # Append(calls, [name |-> "renderJson", result |-> queryResult',
                                  conditions |-> criteria'])
      BY <1>0, <1>1
    <3> QED
      BY <3>0, <3>1, <3>2, <3>4, <3>5
  <2> QED
    BY <2>1, <2>2, <2>3, <2>4 DEF ResultInv
<1>2. ASSUME NEW call \in Calls, calls' = Append(calls, call),
             call.name = "renderJson" =>
               call.result \in 1 .. queries' /\ queryResult' # 0 /\ call.conditions = criteria'
      PROVE  calls' \in Seq(Calls) /\ ResultInv' /\ RenderInv'
  <2>1. /\ calls' \in Seq(Calls) /\ Len(calls') = Len(calls) + 1 /\ calls' # <<>>
        /\ calls'[Len(calls) + 1] = call
        /\ \A k \in 1 .. Len(calls) : calls'[k] = calls[k]
    BY <1>0, <1>2, AppendFacts
  <2>2. ASSUME NEW k \in 1 .. Len(calls'), calls'[k].name = "renderJson"
        PROVE  queryResult' # 0 /\ calls'[k].result \in 1 .. queries'
    <3>1. CASE k \in 1 .. Len(calls)
      <4>1. queryResult # 0 /\ calls'[k].result \in 1 .. queries
        BY <2>1, <2>2, <3>1 DEF IndInv, ResultInv
      <4> QED
        BY <1>0, <4>1 DEF Tells
    <3>2. CASE k = Len(calls) + 1
      BY <1>2, <2>1, <2>2, <3>2
    <3> QED
      BY <1>0, <2>1, <3>1, <3>2
  <2>3. queryResult' = 0 => content' = 0
    BY DEF IndInv, ResultInv, Tells
  <2>4. RenderInv'
    BY <1>2, <2>1 DEF RenderInv
  <2> QED
    BY <2>1, <2>2, <2>3, <2>4 DEF ResultInv
<1>3. CASE calls' = Append(calls, [name |-> "clear"])
  <2> DEFINE call == [name |-> "clear"]
  <2>1. call \in Calls /\ call.name # "renderJson"
    BY DEF Calls
  <2> QED
    BY <1>2, <1>3, <2>1
<1>4. CASE /\ queryResult' # 0
           /\ calls' = Append(calls, [name |-> "renderJson", result |-> queryResult',
                                      conditions |-> criteria'])
  <2> DEFINE call == [name |-> "renderJson", result |-> queryResult', conditions |-> criteria']
  <2>1. queryResult' \in 1 .. queries' /\ queryResult' \in Nat /\ criteria' \in Seq(Conditions)
    BY <1>4 DEF Tells, Edits
  <2>2. call \in Calls
    BY <2>1 DEF Calls
  <2> QED
    BY <1>2, <1>4, <2>1, <2>2
<1> QED
  BY <1>1, <1>3, <1>4 DEF Tells

LEMMA ServerStep ==
  ASSUME IndInv, NEW name, NextRequest(name), Edits, Tells,
         filtered' \subseteq Conditions, navigated' \in BOOLEAN, UNCHANGED <<sent, viewVars>>
  PROVE  IndInv'
<1>1. ConditionsInv' /\ FilterInv'
  BY EditsStep
<1>2. calls' \in Seq(Calls) /\ ResultInv' /\ RenderInv'
  BY TellsStep DEF viewVars
<1>3. requests' \in Seq(UserRequests) /\ Len(requests') <= sent'
  BY NextRequestFacts
<1>4. EditorInv' /\ ProvidersFollowEditor'
  BY DEF IndInv, EditorInv, ProvidersFollowEditor, viewVars
<1>5. TypeOK'
  <2>1. content' \in 0 .. queries'
    BY DEF IndInv, TypeOK, Tells, viewVars
  <2>2. metaData' \in [result : 0 .. queries', conditions : Seq(Conditions), command : 0 .. editors']
    <3>1. /\ metaData \in [result : 0 .. queries, conditions : Seq(Conditions), command : 0 .. editors]
          /\ metaData' = metaData /\ editors' = editors
      BY DEF IndInv, TypeOK, viewVars
    <3>2. ASSUME NEW n \in 0 .. queries PROVE n \in 0 .. queries'
      BY DEF IndInv, TypeOK, Tells
    <3> QED
      BY <3>1, <3>2
  <2>3. /\ sent' \in 0 .. MaxRequests /\ {connected, rendered, navigated}' \subseteq BOOLEAN
        /\ editors' \in 0 .. MaxEditors /\ editor' \in 0 .. editors'
        /\ providers' \subseteq 1 .. editors'
    BY DEF IndInv, TypeOK, viewVars
  <2>4. /\ criteria' \in Seq(Conditions) /\ criteria' # <<>> /\ IsInjective(criteria')
        /\ views' \in Seq(Conditions) /\ made' \in Conditions
        /\ queries' \in Nat /\ queryResult' \in 0 .. queries'
    BY DEF Edits, Tells
  <2> QED
    BY <1>2, <1>3, <2>1, <2>2, <2>3, <2>4 DEF TypeOK
<1> QED
  BY <1>1, <1>2, <1>4, <1>5 DEF IndInv

(* What the invariant says of the conditions. *)
LEMMA CriteriaFacts ==
  ASSUME IndInv
  PROVE  /\ criteria \in Seq(Conditions) /\ criteria # <<>> /\ views = criteria
         /\ Len(criteria) \in Nat /\ 1 \in 1 .. Len(criteria) /\ DOMAIN criteria = 1 .. Len(criteria)
         /\ \A a, b \in 1 .. Len(criteria) : criteria[a] = criteria[b] => a = b
         /\ \A a \in 1 .. Len(criteria) : criteria[a] <= made /\ criteria[a] \in Nat
         /\ made \in Nat /\ made \in Conditions /\ queries \in Nat /\ queryResult \in 0 .. queries
         /\ navigated \in BOOLEAN
<1>1. /\ criteria \in Seq(Conditions) /\ criteria # <<>> /\ views = criteria
      /\ made \in Conditions /\ queries \in Nat /\ queryResult \in 0 .. queries
      /\ \A a \in 1 .. Len(criteria) : criteria[a] <= made
  BY DEF IndInv, TypeOK, ConditionsInv
<1>2. Len(criteria) \in Nat /\ 1 \in 1 .. Len(criteria) /\ DOMAIN criteria = 1 .. Len(criteria)
  BY <1>1
<1>3. \A a, b \in 1 .. Len(criteria) : criteria[a] = criteria[b] => a = b
  BY <1>2 DEF IndInv, TypeOK, IsInjective
<1>4. \A c \in Conditions : c \in Nat
  BY Bounds DEF Conditions
<1>5. \A a \in 1 .. Len(criteria) : criteria[a] \in Nat
  BY <1>1, <1>4
<1>6. navigated \in BOOLEAN
  BY DEF IndInv, TypeOK
<1> QED
  BY <1>1, <1>2, <1>3, <1>4, <1>5, <1>6

(* The listener for the count of conditions. *)
LEMMA CountTells ==
  ASSUME IndInv, OnFilterCriteriaCountChanged, UNCHANGED <<queries, queryResult>>
  PROVE  Tells
BY CriteriaFacts DEF OnFilterCriteriaCountChanged, RenderFacts, Tells

(* The query runs, or fails. *)
LEMMA QueryTells ==
  ASSUME IndInv, RunQuery, UNCHANGED criteria
  PROVE  Tells
BY CriteriaFacts DEF RunQuery, RenderFacts, Tells

(* The conditions stay. *)
LEMMA NothingEdited ==
  ASSUME IndInv, UNCHANGED <<criteria, made>>, views' = criteria
  PROVE  Edits
BY CriteriaFacts DEF Edits, IndInv, TypeOK

LEMMA QueryStep == IndInv /\ Query => IndInv'
<1> SUFFICES ASSUME IndInv, Query PROVE IndInv'
  OBVIOUS
<1>1. Edits
  BY NothingEdited, CriteriaFacts DEF Query
<1>2. Tells
  BY QueryTells DEF Query
<1>3. NextRequest("query") /\ UNCHANGED <<sent, viewVars>> /\ filtered' \subseteq Conditions
  BY DEF IndInv, TypeOK, Query
<1>4. navigated' \in BOOLEAN
  BY CriteriaFacts DEF Query, RunQuery
<1> QED
  BY <1>1, <1>2, <1>3, <1>4, ServerStep

LEMMA UpdateQuickFiltersStep == IndInv /\ UpdateQuickFilters => IndInv'
<1> SUFFICES ASSUME IndInv, UpdateQuickFilters PROVE IndInv'
  OBVIOUS
<1>1. Edits
  BY NothingEdited, CriteriaFacts DEF UpdateQuickFilters
<1>2. Tells
  BY QueryTells DEF UpdateQuickFilters
<1>3. NextRequest("filter") /\ UNCHANGED <<sent, viewVars>>
  BY DEF UpdateQuickFilters
<1>4. filtered' \subseteq Conditions
  <2>1. \A a \in 1 .. Len(criteria) : criteria[a] \in Conditions
    BY CriteriaFacts
  <2>2. \A index : index \in 0 .. Len(criteria) - 1 => index + 1 \in 1 .. Len(criteria)
    BY CriteriaFacts
  <2>3. \A index : Affected(index) \subseteq Conditions
    BY <2>1, <2>2, CriteriaFacts DEF Affected, Range
  <2> QED
    BY <2>3 DEF IndInv, TypeOK, UpdateQuickFilters
<1>5. navigated' \in BOOLEAN
  BY CriteriaFacts DEF UpdateQuickFilters, RunQuery
<1> QED
  BY <1>1, <1>2, <1>3, <1>4, <1>5, ServerStep

LEMMA ResetStep == IndInv /\ Reset => IndInv'
<1> SUFFICES ASSUME IndInv, Reset PROVE IndInv'
  OBVIOUS
<1>1. /\ made' = made + 1 /\ made < MaxConditions /\ criteria' = <<made'>> /\ views' = criteria'
      /\ UNCHANGED <<queries, queryResult>>
      /\ calls' = Append(calls, [name |-> "clear"]) /\ navigated' = FALSE
  BY DEF Reset
<1>2. made' \in Conditions /\ made <= made' /\ made' > made /\ made' <= made'
  BY <1>1, CriteriaFacts, Bounds DEF Conditions
<1>3. Edits
  <2>1. criteria' \in Seq(Conditions) /\ criteria' # <<>> /\ criteria'[1] = made'
        /\ Len(criteria') = 1 /\ DOMAIN criteria' = {1}
    BY <1>1, <1>2
  <2>2. \A i \in 1 .. Len(criteria') : criteria'[i] <= made'
    BY <1>2, <2>1
  <2> QED
    BY <1>1, <1>2, <2>1, <2>2 DEF Edits, IsInjective
<1>4. Tells
  BY <1>1, CriteriaFacts DEF Tells
<1>5. NextRequest("reset") /\ UNCHANGED <<sent, viewVars>> /\ filtered' \subseteq Conditions
  BY DEF IndInv, TypeOK, Reset
<1>6. navigated' \in BOOLEAN
  BY <1>1
<1> QED
  BY <1>3, <1>4, <1>5, <1>6, ServerStep

LEMMA AddConditionStep == IndInv /\ AddCondition => IndInv'
<1> SUFFICES ASSUME IndInv, AddCondition PROVE IndInv'
  OBVIOUS
<1>1. /\ made' = made + 1 /\ made < MaxConditions
      /\ criteria' = Append(criteria, made') /\ views' = Append(views, made')
      /\ OnFilterCriteriaCountChanged /\ UNCHANGED <<queries, queryResult>>
  BY DEF AddCondition
<1>2. made' \in Conditions /\ made' \in Nat /\ made <= made' /\ made' > made /\ made' <= made'
  BY <1>1, CriteriaFacts, Bounds DEF Conditions
<1>3. /\ criteria' \in Seq(Conditions) /\ Len(criteria') = Len(criteria) + 1 /\ criteria' # <<>>
      /\ criteria'[Len(criteria) + 1] = made'
      /\ \A a \in 1 .. Len(criteria) : criteria'[a] = criteria[a]
  BY <1>1, <1>2, CriteriaFacts, AppendFacts
<1>4. DOMAIN criteria' = 1 .. Len(criteria) + 1
  BY <1>3
<1>5. \A a \in 1 .. Len(criteria) + 1 : a \in 1 .. Len(criteria) \/ a = Len(criteria) + 1
  BY CriteriaFacts
<1>6. \A a \in 1 .. Len(criteria) : criteria'[a] <= made /\ criteria'[a] # made' /\ criteria'[a] <= made'
  BY <1>2, <1>3, CriteriaFacts
<1>7. IsInjective(criteria')
  <2> SUFFICES ASSUME NEW a \in 1 .. Len(criteria) + 1, NEW b \in 1 .. Len(criteria) + 1,
                      criteria'[a] = criteria'[b]
               PROVE  a = b
    BY <1>4 DEF IsInjective
  <2>1. CASE a \in 1 .. Len(criteria) /\ b \in 1 .. Len(criteria)
    BY <1>3, <2>1, CriteriaFacts
  <2> QED
    BY <1>3, <1>5, <1>6, <2>1
<1>8. \A a \in 1 .. Len(criteria') : criteria'[a] <= made'
  BY <1>2, <1>3, <1>5, <1>6
<1>9. Edits
  BY <1>1, <1>2, <1>3, <1>7, <1>8, CriteriaFacts DEF Edits
<1>10. Tells
  BY <1>1, CountTells
<1>11. NextRequest("add") /\ UNCHANGED <<sent, viewVars>> /\ filtered' \subseteq Conditions
  BY DEF IndInv, TypeOK, AddCondition
<1>12. navigated' \in BOOLEAN
  BY <1>1, CriteriaFacts DEF OnFilterCriteriaCountChanged
<1> QED
  BY <1>9, <1>10, <1>11, <1>12, ServerStep

(* The condition is found at an index that is not the first, in the bean   *)
(* and among the views alike.                                              *)
LEMMA RemoveConditionStep == IndInv /\ RemoveCondition => IndInv'
<1> SUFFICES ASSUME IndInv, RemoveCondition PROVE IndInv'
  OBVIOUS
<1> DEFINE condition == Head(requests).condition
<1>1. /\ NextRequest("remove") /\ UNCHANGED <<sent, viewVars>> /\ filtered' \subseteq Conditions
      /\ UNCHANGED <<made, queries, queryResult>>
  BY DEF IndInv, TypeOK, RemoveCondition
<1>2. condition # criteria[1]
  <2>1. 1 \in 1 .. Len(requests) /\ Head(requests) = requests[1] /\ requests[1].name = "remove"
    BY <1>1, NextRequestFacts
  <2> QED
    BY <2>1 DEF IndInv, ConditionsInv
<1> HIDE DEF condition
<1>3. CASE condition \notin Range(views)
  <2>1. UNCHANGED <<views, criteria, calls, navigated>>
    BY <1>3 DEF RemoveCondition, condition
  <2>2. Edits
    BY <1>1, <2>1, NothingEdited, CriteriaFacts
  <2>3. Tells
    BY <1>1, <2>1, CriteriaFacts DEF Tells
  <2>4. navigated' \in BOOLEAN
    BY <2>1, CriteriaFacts
  <2> QED
    BY <1>1, <2>2, <2>3, <2>4, ServerStep
<1>4. CASE condition \in Range(views)
  <2>1. PICK i \in 1 .. Len(criteria) : i = IndexOf(condition) /\ criteria[i] = condition
    <3>1. \E i \in DOMAIN criteria : criteria[i] = condition
      BY <1>4, CriteriaFacts DEF Range
    <3> QED
      BY <3>1, CriteriaFacts DEF IndexOf
  <2>2. ViewOf(condition) = i
    BY <2>1, CriteriaFacts DEF IndexOf, ViewOf
  <2>3. /\ criteria' = RemoveAt(criteria, i) /\ views' = RemoveAt(views, i)
        /\ OnFilterCriteriaCountChanged
    BY <1>4, <2>1, <2>2 DEF RemoveCondition, condition
  <2>4. i # 1 /\ i \in Nat /\ 1 < i
    BY <1>2, <2>1, CriteriaFacts
  <2>5. PICK n \in Nat : n = Len(criteria) - 1 /\ 1 <= n
    <3>1. Len(criteria) - 1 \in Nat /\ 1 <= Len(criteria) - 1
      BY <2>1, <2>4, CriteriaFacts
    <3> QED
      BY <3>1
  <2>6. criteria' \in Seq(Conditions) /\ Len(criteria') = n
    BY <2>3, <2>5, CriteriaFacts, RemoveAtFacts
  <2>7. \A k \in 1 .. n : /\ criteria'[k] = IF k < i THEN criteria[k] ELSE criteria[k + 1]
                          /\ k \in 1 .. Len(criteria) /\ k + 1 \in 1 .. Len(criteria)
    <3>1. criteria \in Seq(Conditions) /\ 1 .. n = 1 .. Len(criteria) - 1
      BY <2>5, CriteriaFacts
    <3>2. \A k \in 1 .. Len(criteria) - 1 :
            /\ RemoveAt(criteria, i)[k] = IF k < i THEN criteria[k] ELSE criteria[k + 1]
            /\ k \in 1 .. Len(criteria) /\ k + 1 \in 1 .. Len(criteria)
      BY <3>1, RemoveAtFacts
    <3> QED
      BY <2>3, <3>1, <3>2
  <2>8. criteria' # <<>> /\ DOMAIN criteria' = 1 .. n
    BY <2>5, <2>6
  <2>9. IsInjective(criteria')
    <3> SUFFICES ASSUME NEW a \in 1 .. n, NEW b \in 1 .. n, criteria'[a] = criteria'[b]
                 PROVE  a = b
      BY <2>8 DEF IsInjective
    <3>1. a \in Nat /\ b \in Nat
      BY <2>5
    <3>2. CASE a < i /\ b < i
      BY <2>7, <3>2, CriteriaFacts
    <3>3. CASE ~(a < i) /\ ~(b < i)
      <4>1. a + 1 = b + 1
        BY <2>7, <3>3, CriteriaFacts
      <4> QED
        BY <3>1, <4>1
    <3>4. CASE a < i /\ ~(b < i)
      <4>1. a = b + 1
        BY <2>7, <3>4, CriteriaFacts
      <4> QED
        BY <2>4, <3>1, <3>4, <4>1
    <3>5. CASE ~(a < i) /\ b < i
      <4>1. a + 1 = b
        BY <2>7, <3>5, CriteriaFacts
      <4> QED
        BY <2>4, <3>1, <3>5, <4>1
    <3> QED
      BY <3>2, <3>3, <3>4, <3>5
  <2>10. \A a \in 1 .. Len(criteria') : criteria'[a] <= made'
    BY <1>1, <2>6, <2>7, CriteriaFacts
  <2>11. criteria'[1] = criteria[1]
    BY <2>4, <2>5, <2>7
  <2>12. Edits
    BY <1>1, <2>3, <2>6, <2>8, <2>9, <2>10, <2>11, CriteriaFacts DEF Edits
  <2>13. Tells
    BY <1>1, <2>3, CountTells
  <2>14. navigated' \in BOOLEAN
    BY <2>3, CriteriaFacts DEF OnFilterCriteriaCountChanged
  <2> QED
    BY <1>1, <2>12, <2>13, <2>14, ServerStep
<1> QED
  BY <1>3, <1>4

(* The conditions stay, or all of them are new. *)
LEMMA SetParameterStep == IndInv /\ SetParameter => IndInv'
<1> SUFFICES ASSUME IndInv, SetParameter PROVE IndInv'
  OBVIOUS
<1>1. /\ NextRequest("navigate") /\ ReadFromQueryParams /\ views' = criteria'
      /\ UNCHANGED <<sent, viewVars, queries, queryResult, calls>> /\ filtered' \subseteq Conditions
  BY DEF IndInv, TypeOK, SetParameter
<1>2. CASE UNCHANGED <<criteria, made, navigated>>
  <2>1. Edits
    BY <1>1, <1>2, NothingEdited
  <2>2. Tells
    BY <1>1, <1>2, CriteriaFacts DEF Tells
  <2>3. navigated' \in BOOLEAN
    BY <1>2, CriteriaFacts
  <2> QED
    BY <1>1, <2>1, <2>2, <2>3, ServerStep
<1>3. ASSUME NEW n \in 1 .. MaxInitial, made + n <= MaxConditions, made' = made + n,
             criteria' = [i \in 1 .. n |-> made + i], navigated' = TRUE
      PROVE  IndInv'
  <2>1. made \in Nat /\ 1 <= made /\ n \in Nat /\ 1 <= n
    BY <1>3, CriteriaFacts, Bounds DEF Conditions
  <2>2. made' \in Conditions /\ made <= made'
    BY <1>3, <2>1, Bounds DEF Conditions
  <2>3. \A i \in 1 .. n : made + i \in Conditions /\ made + i <= made' /\ made + i > made
    BY <1>3, <2>1, Bounds DEF Conditions
  <2>4. /\ criteria' \in Seq(Conditions) /\ Len(criteria') = n /\ criteria' # <<>>
        /\ DOMAIN criteria' = 1 .. n /\ 1 \in 1 .. n
    <3>1. criteria' \in [1 .. n -> Conditions]
      BY <1>3, <2>3
    <3> QED
      BY <2>1, <3>1
  <2>5. \A i \in 1 .. n : criteria'[i] = made + i
    BY <1>3
  <2>6. IsInjective(criteria')
    <3>1. \A a, b \in 1 .. n : made + a = made + b => a = b
      BY <2>1
    <3> QED
      BY <2>4, <2>5, <3>1 DEF IsInjective
  <2>7. Edits
    BY <1>1, <2>2, <2>3, <2>4, <2>5, <2>6 DEF Edits
  <2>8. Tells
    BY <1>1, <1>3, CriteriaFacts DEF Tells
  <2>9. navigated' \in BOOLEAN
    BY <1>3
  <2> QED
    BY <1>1, <2>7, <2>8, <2>9, ServerStep
<1> QED
  BY <1>1, <1>2, <1>3 DEF ReadFromQueryParams

-----------------------------------------------------------------------------
(* Every step. *)

LEMMA StutterStep == IndInv /\ UNCHANGED vars => IndInv'
<1> SUFFICES ASSUME IndInv, UNCHANGED vars PROVE IndInv'
  OBVIOUS
<1> USE DEF vars, serverVars, viewVars
<1>1. {connected, rendered, navigated}' \subseteq BOOLEAN
  BY DEF IndInv, TypeOK
<1>2. TypeOK'
  BY <1>1 DEF IndInv, TypeOK
<1>3. ConditionsInv' /\ FilterInv'
  BY ServerAside DEF IndInv
<1>4. ResultInv' /\ RenderInv' /\ EditorInv' /\ ProvidersFollowEditor'
  BY DEF IndInv, ResultInv, RenderInv, EditorInv, ProvidersFollowEditor
<1> QED
  BY <1>2, <1>3, <1>4 DEF IndInv

LEMMA EveryStep == IndInv /\ [Next]_vars => IndInv'
<1> SUFFICES ASSUME IndInv, [Next]_vars PROVE IndInv'
  OBVIOUS
<1>1. CASE Browser
  BY <1>1, ConnectedStep, FirstUpdatedStep, DisconnectedStep, RenderJsonStep, ClearStep DEF Browser
<1>2. CASE User
  BY <1>2, ClickButtonStep, ClickRemoveStep, ClickLinkStep, NavigateStep DEF User
<1>3. CASE Server
  BY <1>3, AddConditionStep, RemoveConditionStep, ResetStep, QueryStep, UpdateQuickFiltersStep,
     SetParameterStep DEF Server
<1>4. CASE UNCHANGED vars
  BY <1>4, StutterStep
<1> QED
  BY <1>1, <1>2, <1>3, <1>4 DEF Next

(* The invariant holds in every state that the page and the server reach.  *)
THEOREM Invariance == Spec => []IndInv
BY Initially, EveryStep, PTL DEF Spec

(* The page has at least one condition, and no condition twice.  Every     *)
(* call and every request is complete, and results, commands and providers *)
(* are of queries and editors that there have been.                        *)
THEOREM TypeCorrect == Spec => []TypeOK
<1>1. IndInv => TypeOK
  BY DEF IndInv
<1> QED
  BY <1>1, Invariance, PTL

(* The views show the conditions of the bean, in their order, after any    *)
(* sequence of adding, removing, resetting, quick filters and navigation.  *)
THEOREM QueryIsShown == Spec => []ViewsShowConditions
<1>1. IndInv => ViewsShowConditions
  BY DEF IndInv, ConditionsInv, ViewsShowConditions
<1> QED
  BY <1>1, Invariance, PTL

(* When no call is under way, every link shows the result that it was made *)
(* for, and works; and it means the conditions that there are now, unless  *)
(* a URL has replaced them since the result was rendered: the listener for *)
(* the count renders after every other change, but setParameter does not.  *)
THEOREM LinksAreCurrent == Spec => []LinksNameConditions
<1>1. IndInv => LinksNameConditions
  BY DEF IndInv, RenderInv, EditorInv, LinksNameConditions, Links
<1> QED
  BY <1>1, Invariance, PTL

(* The providers are registered if and only if the editor exists, however  *)
(* often the element is attached and detached.                             *)
THEOREM ProvidersComeAndGo == Spec => []ProvidersFollowEditor
<1>1. IndInv => ProvidersFollowEditor
  BY DEF IndInv
<1> QED
  BY <1>1, Invariance, PTL

(* A quick filter goes to the conditions that the text of its link spoke   *)
(* of, unless conditions came or went since the link was rendered          *)
(* (buildFilterCommandLinks and updateQuickFilters).                       *)
THEOREM FiltersHit == Spec => FiltersHitTheirConditions
<1>1. ASSUME IndInv, UpdateQuickFilters, Head(requests).rendered = criteria
      PROVE  filtered' = filtered \cup Head(requests).named
  <2> DEFINE r == Head(requests)
  <2>1. 1 \in 1 .. Len(requests) /\ r = requests[1] /\ r.name = "filter"
    BY <1>1, NextRequestFacts DEF UpdateQuickFilters
  <2>2. \/ r.affected = -1 /\ r.named = Range(criteria)
        \/ r.affected \in 0 .. Len(criteria) - 1 /\ r.named = {criteria[r.affected + 1]}
    BY <1>1, <2>1 DEF IndInv, FilterInv
  <2>3. -1 \notin 0 .. Len(criteria) - 1
    BY <1>1, CriteriaFacts
  <2>4. Affected(r.affected) = r.named
    BY <2>2, <2>3 DEF Affected
  <2> QED
    BY <1>1, <2>4 DEF UpdateQuickFilters
<1>2. IndInv => [UpdateQuickFilters /\ Head(requests).rendered = criteria =>
                   filtered' = filtered \cup Head(requests).named]_vars
  BY <1>1
<1> QED
  BY <1>2, Invariance, PTL DEF FiltersHitTheirConditions

=============================================================================
