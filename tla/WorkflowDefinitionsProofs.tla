-------------------- MODULE WorkflowDefinitionsProofs --------------------
(***************************************************************************)
(* For any number of sessions, versions, steps and transitions: every       *)
(* settled route is valid, running routes do not change, and a definition   *)
(* that is seeded with a published version always has exactly one.          *)
(* The argument is optimistic concurrency: every step that changes a        *)
(* version row raises its revision (VersionsMove), so what a transaction    *)
(* learned about a row still holds when the revision it carries does.       *)
(***************************************************************************)
EXTENDS WorkflowDefinitions, TLAPS

---------------------------------------------------------------------------
(* Lemmas *)

\* Adding a row to a route gives a route.
LEMMA AddedType ==
  ASSUME NEW route \in Route, NEW v \in Version, NEW r \in Added(route, v)
  PROVE  r \in Route
<1>1. CASE r = [route EXCEPT !.rules = 1]
  BY <1>1 DEF Route
<1>2. CASE r \in AddedSteps(route, v)
  <2>1. PICK k \in Step, a \in Version \cup {NoRule} :
          r = WithStep(route, k, a)
    BY <1>2 DEF AddedSteps
  <2> QED
    BY <2>1 DEF Route, WithStep
<1>3. CASE r \in AddedEdges(route)
  BY <1>3 DEF AddedEdges, Route
<1> QED
  BY <1>1, <1>2, <1>3 DEF Added

\* The route of a new version is a route.
LEMMA EmptyRouteType == EmptyRoute \in Route
BY DEF EmptyRoute, Route

\* A connection without a transaction is a request in the model's sense.
LEMMA IdleType == Idle \in Request
BY EmptyRouteType, VersionAssumption DEF Idle, Request, Phase, Op

\* What a step must establish of the one request it changes.
WellFormed(r) ==
  /\ r \in Request
  /\ r.op # "none" => r.target \in Version
  /\ r.op = "draft" /\ r.phase \in {"validated", "collected"} => r.base \in Version

\* An idle connection names no version.
LEMMA IdleWellFormed == WellFormed(Idle)
BY IdleType DEF WellFormed, Idle

\* Replacing one request by a well-formed one keeps all requests well formed.
LEMMA RequestStep ==
  ASSUME TypeOK, RequestsNameVersions, NEW s \in Session, NEW r, WellFormed(r),
         session' = [session EXCEPT ![s] = r],
         version' \in [Version -> VersionRow], UNCHANGED instances
  PROVE  TypeOK' /\ RequestsNameVersions'
BY DEF TypeOK, RequestsNameVersions, WellFormed

\* The type invariant is inductive together with what is known of drafts.
LEMMA TypeStep ==
  ASSUME TypeOK, RequestsNameVersions, [Next]_vars
  PROVE  TypeOK' /\ RequestsNameVersions'
<1> USE DEF TypeOK
<1>1. ASSUME NEW s \in Session, BeginDraft(s)
      PROVE  TypeOK' /\ RequestsNameVersions'
  <2>1. PICK n \in Version, b \in Version \cup {0} :
          session' = [session EXCEPT ![s] = [Idle EXCEPT !.phase = "loaded", !.op = "draft",
                                                         !.target = n, !.base = b]]
    BY <1>1 DEF BeginDraft
  <2>2. WellFormed([Idle EXCEPT !.phase = "loaded", !.op = "draft", !.target = n, !.base = b])
    BY IdleType DEF WellFormed, Request, Phase, Op, Idle
  <2> QED
    BY <1>1, <2>1, <2>2, RequestStep DEF BeginDraft
<1>2. ASSUME NEW s \in Session, CloneRules(s)
      PROVE  TypeOK' /\ RequestsNameVersions'
  <2>1. session[s].base \in Version
    BY <1>2 DEF CloneRules, Request
  <2>2. version[session[s].base].route.rules \in 0..1
    BY <2>1 DEF VersionRow, Route
  <2>3. session[s] \in Request /\ session[s].target \in Version
    BY <1>2 DEF CloneRules, RequestsNameVersions
  <2>4. ASSUME NEW n \in 0..1
        PROVE  WellFormed([session[s] EXCEPT !.phase = "validated", !.route.rules = n])
    BY <2>1, <2>3 DEF WellFormed, Request, Route, Phase
  <2> QED
    BY <1>2, <2>2, <2>4, RequestStep DEF CloneRules
<1>3. ASSUME NEW s \in Session, CloneSteps(s)
      PROVE  TypeOK' /\ RequestsNameVersions'
  <2>1. /\ session[s] \in Request
        /\ session[s].base \in Version
        /\ session[s].target \in Version
    BY <1>3 DEF CloneSteps, RequestsNameVersions
  <2>2. ASSUME NEW route \in Route, NEW base \in Route, NEW b, NEW n \in Version
        PROVE  ClonedSteps(route, base, b, n) \in Route
    BY DEF ClonedSteps, Route
  <2>3. ClonedSteps(session[s].route, version[session[s].base].route,
                    session[s].base, session[s].target) \in Route
    BY <2>1, <2>2 DEF Request, VersionRow
  <2>4. ASSUME NEW route \in Route
        PROVE  WellFormed([session[s] EXCEPT !.phase = "collected", !.route = route])
    BY <2>1 DEF WellFormed, Request, Phase
  <2> QED
    BY <1>3, <2>3, <2>4, RequestStep DEF CloneSteps
<1>4. ASSUME NEW s \in Session, CommitDraft(s)
      PROVE  TypeOK' /\ RequestsNameVersions'
  <2>1. session[s].target \in Version /\ session[s] \in Request
    BY <1>4 DEF CommitDraft, RequestsNameVersions
  <2> DEFINE edges == IF session[s].base = 0 THEN {} ELSE version[session[s].base].route.edges
  <2>2. edges \in SUBSET Edge
    BY <2>1 DEF VersionRow, Request, Route
  <2>3. version' = [version EXCEPT ![session[s].target] =
          [status |-> "draft", revision |-> 1,
           route |-> [session[s].route EXCEPT !.edges = edges]]]
    BY <1>4 DEF CommitDraft
  <2> HIDE DEF edges
  <2>4. [session[s].route EXCEPT !.edges = edges] \in Route
    BY <2>1, <2>2 DEF Request, Route
  <2>5. [status |-> "draft", revision |-> 1, route |-> [session[s].route EXCEPT !.edges = edges]]
          \in VersionRow
    BY <2>4, VersionAssumption DEF VersionRow, Status
  <2>6. version' \in [Version -> VersionRow]
    BY <2>1, <2>3, <2>5
  <2> QED
    BY <1>4, <2>6, IdleWellFormed, RequestStep DEF CommitDraft
<1>5. ASSUME NEW s \in Session, BeginSave(s)
      PROVE  TypeOK' /\ RequestsNameVersions'
  <2>1. PICK v \in Version :
          session' = [session EXCEPT ![s] = [Idle EXCEPT !.phase = "loaded", !.op = "save",
                                              !.target = v, !.seen = version[v].revision]]
    BY <1>5 DEF BeginSave
  <2>2. WellFormed([Idle EXCEPT !.phase = "loaded", !.op = "save",
                                !.target = v, !.seen = version[v].revision])
    BY IdleType DEF WellFormed, Request, VersionRow, Phase, Op, Idle
  <2> QED
    BY <1>5, <2>1, <2>2, RequestStep DEF BeginSave
<1>6. ASSUME NEW s \in Session, CommitSave(s)
      PROVE  TypeOK' /\ RequestsNameVersions'
  <2> DEFINE v == session[s].target
  <2>1. v \in Version
    BY <1>6 DEF CommitSave, RequestsNameVersions
  <2>2. PICK route \in Added(version[v].route, v) :
          version' = [version EXCEPT ![v].route = route, ![v].revision = @ + 1]
    BY <1>6 DEF CommitSave
  <2>3. route \in Route
    BY <2>1, <2>2, AddedType DEF VersionRow
  <2>4. version[v].revision + 1 \in 0..MaxRevision
    BY <1>6, <2>1, VersionAssumption DEF CommitSave, VersionRow
  <2>5. version' \in [Version -> VersionRow]
    BY <2>1, <2>2, <2>3, <2>4 DEF VersionRow
  <2> QED
    BY <1>6, <2>5, IdleWellFormed, RequestStep DEF CommitSave
<1>7. ASSUME NEW s \in Session, BeginTransition(s)
      PROVE  TypeOK' /\ RequestsNameVersions'
  <2>1. PICK v \in Version, op \in {"submit", "return", "publish"} :
          session' = [session EXCEPT ![s] = [Idle EXCEPT !.phase = "loaded", !.op = op,
                                              !.target = v, !.seen = version[v].revision]]
    BY <1>7 DEF BeginTransition
  <2>2. WellFormed([Idle EXCEPT !.phase = "loaded", !.op = op,
                                !.target = v, !.seen = version[v].revision])
    BY IdleType DEF WellFormed, Request, VersionRow, Phase, Op, Idle
  <2> QED
    BY <1>7, <2>1, <2>2, RequestStep DEF BeginTransition
<1>8. ASSUME NEW s \in Session, Validate(s)
      PROVE  TypeOK' /\ RequestsNameVersions'
  <2>1. WellFormed([session[s] EXCEPT !.phase = "validated"])
    BY <1>8 DEF Validate, WellFormed, RequestsNameVersions, Request, Phase
  <2> QED
    BY <1>8, <2>1, IdleWellFormed, RequestStep DEF Validate
<1>9. ASSUME NEW s \in Session, CollectPrevious(s)
      PROVE  TypeOK' /\ RequestsNameVersions'
  <2> DEFINE old == {<<p, version[p].revision>> : p \in
                       {q \in Version : version[q].status = "published"}}
  <2>1. old \in SUBSET (Version \X (0..MaxRevision))
    BY DEF VersionRow
  <2>2. session' = [session EXCEPT ![s] = [@ EXCEPT !.phase = "collected", !.previous = old]]
    BY <1>9 DEF CollectPrevious
  <2> HIDE DEF old
  <2>3. WellFormed([session[s] EXCEPT !.phase = "collected", !.previous = old])
    BY <1>9, <2>1 DEF CollectPrevious, WellFormed, RequestsNameVersions, Request, Phase
  <2> QED
    BY <1>9, <2>2, <2>3, RequestStep DEF CollectPrevious
<1>10. ASSUME NEW s \in Session, CommitReview(s)
       PROVE  TypeOK' /\ RequestsNameVersions'
  <2>1. session[s].target \in Version
    BY <1>10 DEF CommitReview, RequestsNameVersions
  <2>2. version[session[s].target].revision + 1 \in 0..MaxRevision
    BY <1>10, <2>1, VersionAssumption DEF CommitReview, VersionRow
  <2>3. version' \in [Version -> VersionRow]
    BY <1>10, <2>1, <2>2 DEF CommitReview, VersionRow, Status
  <2> QED
    BY <1>10, <2>3, IdleWellFormed, RequestStep DEF CommitReview
<1>11. ASSUME NEW s \in Session, CommitPublish(s)
       PROVE  TypeOK' /\ RequestsNameVersions'
  <2>1. ASSUME NEW v \in Version, version[v].revision < MaxRevision,
               NEW status \in Status
        PROVE  [version[v] EXCEPT !.status = status, !.revision = @ + 1] \in VersionRow
    <3>1. version[v].revision + 1 \in 0..MaxRevision
      BY <2>1, VersionAssumption DEF VersionRow
    <3>2. version[v] \in VersionRow
      OBVIOUS
    <3> QED
      BY <3>1, <3>2 DEF VersionRow
  <2>2. ASSUME NEW v \in Version
        PROVE  version'[v] \in VersionRow
    BY <1>11, <2>1 DEF CommitPublish, Status
  <2>3. version' \in [Version -> VersionRow]
    BY <1>11, <2>2 DEF CommitPublish
  <2> QED
    BY <1>11, <2>3, IdleWellFormed, RequestStep DEF CommitPublish
<1>12. ASSUME NEW s \in Session, Fail(s)
       PROVE  TypeOK' /\ RequestsNameVersions'
  BY <1>12, IdleWellFormed, RequestStep DEF Fail
<1>13. CASE StartInstance
  BY <1>13 DEF StartInstance, RequestsNameVersions, VersionRow
<1>14. CASE UNCHANGED vars
  BY <1>14 DEF vars, RequestsNameVersions
<1> QED
  BY <1>1, <1>2, <1>3, <1>4, <1>5, <1>6, <1>7, <1>8, <1>9, <1>10, <1>11, <1>12, <1>13, <1>14
  DEF Next
---------------------------------------------------------------------------
(* What a transaction read stays true, or is refused by its revision *)

\* A version that exists keeps existing, and changes only under a higher revision.
LEMMA VersionsMove ==
  ASSUME TypeOK, RequestsNameVersions, [Next]_vars,
         NEW v \in Version, version[v].status # "absent"
  PROVE  /\ version'[v].status # "absent"
         /\ version'[v] = version[v] \/ version'[v].revision > version[v].revision
<1> USE DEF TypeOK, VersionRow
<1>1. ASSUME NEW s \in Session, CommitDraft(s)
      PROVE  version'[v] = version[v]
  BY <1>1 DEF CommitDraft, Exists
<1>2. ASSUME NEW s \in Session, CommitSave(s)
      PROVE  /\ version'[v].status = version[v].status
             /\ version'[v] = version[v] \/ version'[v].revision > version[v].revision
  BY <1>2, VersionAssumption DEF CommitSave
<1>3. ASSUME NEW s \in Session, CommitReview(s)
      PROVE  /\ version'[v].status \in {version[v].status, "in_review", "draft"}
             /\ version'[v] = version[v] \/ version'[v].revision > version[v].revision
  BY <1>3, VersionAssumption DEF CommitReview
<1>4. ASSUME NEW s \in Session, CommitPublish(s)
      PROVE  /\ version'[v].status \in {version[v].status, "published", "archived"}
             /\ version'[v] = version[v] \/ version'[v].revision > version[v].revision
  <2>1. version[v] \in VersionRow /\ version[v].revision \in Nat
    BY VersionAssumption
  <2>2. CASE v = session[s].target
    <3>1. version'[v] = [version[v] EXCEPT !.status = "published", !.revision = @ + 1]
      BY <1>4, <2>2 DEF CommitPublish
    <3> QED
      BY <2>1, <3>1
  <2>3. CASE v # session[s].target /\ v \in {p[1] : p \in session[s].previous}
    <3>1. version'[v] = [version[v] EXCEPT !.status = "archived", !.revision = @ + 1]
      BY <1>4, <2>3 DEF CommitPublish
    <3> QED
      BY <2>1, <3>1
  <2>4. CASE v # session[s].target /\ v \notin {p[1] : p \in session[s].previous}
    BY <1>4, <2>4 DEF CommitPublish
  <2> QED
    BY <2>2, <2>3, <2>4
<1>5. ASSUME UNCHANGED version
      PROVE  version'[v] = version[v]
  BY <1>5
<1> QED
  BY <1>1, <1>2, <1>3, <1>4, <1>5
  DEF Next, vars, BeginDraft, CloneRules, CloneSteps, BeginSave, BeginTransition, Validate,
      CollectPrevious, Fail, StartInstance

\* A request no step touches is still current or stale.
LEMMA Untouched ==
  ASSUME TypeOK, RequestsNameVersions, RequestsAreCurrentOrStale, [Next]_vars,
         NEW s \in Session, session'[s] = session[s]
  PROVE  TargetIsCurrentOrStale(session[s])' /\ PreviousIsCurrentOrStale(session[s])'
<1>1. TargetIsCurrentOrStale(session[s]) /\ PreviousIsCurrentOrStale(session[s])
  BY DEF RequestsAreCurrentOrStale
<1>2. session[s] \in Request /\ version \in [Version -> VersionRow]
  BY DEF TypeOK
<1>3. version' \in [Version -> VersionRow]
  BY TypeStep DEF TypeOK
<1>4. TargetIsCurrentOrStale(session[s])'
  <2>1. SUFFICES ASSUME session[s].op \in {"save", "submit", "return", "publish"}
                 PROVE  TargetIsCurrentOrStale(session[s])'
    BY DEF TargetIsCurrentOrStale
  <2>2. session[s].target \in Version
    BY <2>1 DEF RequestsNameVersions
  <2>3. /\ version[session[s].target].status # "absent"
        /\ session[s].seen <= version[session[s].target].revision
    BY <1>1, <2>1 DEF TargetIsCurrentOrStale
  <2>4. CASE version'[session[s].target] = version[session[s].target]
    BY <1>1, <2>1, <2>4 DEF TargetIsCurrentOrStale
  <2>5. CASE version'[session[s].target].revision > version[session[s].target].revision
    <3>1. session[s].seen \in Nat /\ version[session[s].target].revision \in Nat
      BY <1>2, <2>2, VersionAssumption DEF Request, VersionRow
    <3>2. version'[session[s].target].revision \in Nat
      BY <1>3, <2>2, VersionAssumption DEF VersionRow
    <3>3. version'[session[s].target].status # "absent"
      BY <2>2, <2>3, VersionsMove
    <3> QED
      BY <2>3, <2>5, <3>1, <3>2, <3>3 DEF TargetIsCurrentOrStale
  <2> QED
    BY <2>2, <2>3, <2>4, <2>5, VersionsMove
<1>5. PreviousIsCurrentOrStale(session[s])'
  <2>1. SUFFICES ASSUME NEW p \in session[s].previous
                 PROVE  /\ version'[p[1]].status # "absent"
                        /\ p[2] <= version'[p[1]].revision
                        /\ p[2] = version'[p[1]].revision => version'[p[1]].status = "published"
    BY DEF PreviousIsCurrentOrStale
  <2>2. p[1] \in Version /\ p[2] \in Nat
    BY <1>2, <2>1, VersionAssumption DEF Request
  <2>3. /\ version[p[1]].status # "absent"
        /\ p[2] <= version[p[1]].revision
        /\ p[2] = version[p[1]].revision => version[p[1]].status = "published"
    BY <1>1, <2>1 DEF PreviousIsCurrentOrStale
  <2>4. version[p[1]].revision \in Nat /\ version'[p[1]].revision \in Nat
    BY <1>2, <1>3, <2>2, VersionAssumption DEF VersionRow
  <2>5. /\ version'[p[1]].status # "absent"
        /\ version'[p[1]] = version[p[1]] \/ version'[p[1]].revision > version[p[1]].revision
    BY <2>2, <2>3, VersionsMove
  <2> QED
    BY <2>2, <2>3, <2>4, <2>5
<1> QED
  BY <1>4, <1>5

\* The step of a request leaves it current: it has just read the rows.
LEMMA CurrentStep ==
  ASSUME IInv, [Next]_vars
  PROVE  RequestsAreCurrentOrStale'
<1> SUFFICES ASSUME NEW t \in Session
             PROVE  TargetIsCurrentOrStale(session[t])' /\ PreviousIsCurrentOrStale(session[t])'
  BY DEF RequestsAreCurrentOrStale
<1> USE DEF IInv
<1>0. session \in [Session -> Request] /\ version \in [Version -> VersionRow]
  BY DEF TypeOK
<1>1. CASE session'[t] = session[t]
  BY <1>1, Untouched
<1>2. CASE session'[t] = Idle
  BY <1>2 DEF TargetIsCurrentOrStale, PreviousIsCurrentOrStale, Idle
<1>3. TargetIsCurrentOrStale(session[t]) /\ PreviousIsCurrentOrStale(session[t])
  BY DEF RequestsAreCurrentOrStale
<1>4. ASSUME NEW s \in Session, BeginDraft(s) \/ CloneRules(s) \/ CloneSteps(s)
      PROVE  session'[t] = session[t] \/ (session'[t].op = "draft" /\ session'[t].previous
               \in {{}, session[t].previous} /\ UNCHANGED version)
  <2>1. CASE BeginDraft(s)
    BY <1>0, <2>1 DEF BeginDraft, Idle
  <2>2. CASE CloneRules(s)
    BY <1>0, <2>2 DEF CloneRules, Request
  <2>3. CASE CloneSteps(s)
    BY <1>0, <2>3 DEF CloneSteps, Request
  <2> QED
    BY <1>4, <2>1, <2>2, <2>3
<1>5. ASSUME NEW s \in Session, BeginSave(s), session'[t] # session[t]
      PROVE  TargetIsCurrentOrStale(session[t])' /\ PreviousIsCurrentOrStale(session[t])'
  <2>1. PICK v \in Version :
          /\ version[v].status = "draft"
          /\ session'[t] = [Idle EXCEPT !.phase = "loaded", !.op = "save",
                                        !.target = v, !.seen = version[v].revision]
          /\ UNCHANGED version
    BY <1>0, <1>5 DEF BeginSave
  <2> QED
    BY <1>0, <2>1, VersionAssumption
    DEF TargetIsCurrentOrStale, PreviousIsCurrentOrStale, Idle, VersionRow, LoadedStatus
<1>6. ASSUME NEW s \in Session, BeginTransition(s), session'[t] # session[t]
      PROVE  TargetIsCurrentOrStale(session[t])' /\ PreviousIsCurrentOrStale(session[t])'
  <2>1. PICK v \in Version, op \in {"submit", "return", "publish"} :
          /\ version[v].status \in SourceStatus(op)
          /\ session'[t] = [Idle EXCEPT !.phase = "loaded", !.op = op,
                                        !.target = v, !.seen = version[v].revision]
          /\ UNCHANGED version
    BY <1>0, <1>6 DEF BeginTransition
  <2> QED
    BY <1>0, <2>1, VersionAssumption
    DEF TargetIsCurrentOrStale, PreviousIsCurrentOrStale, Idle, VersionRow, LoadedStatus,
        SourceStatus
<1>7. ASSUME NEW s \in Session, Validate(s), session'[t] # session[t], session'[t] # Idle
      PROVE  TargetIsCurrentOrStale(session[t])' /\ PreviousIsCurrentOrStale(session[t])'
  <2>1. /\ session'[t] = [session[t] EXCEPT !.phase = "validated"]
        /\ Publishable(version[session[t].target].route)
        /\ UNCHANGED version
    BY <1>0, <1>7 DEF Validate
  <2> QED
    BY <1>0, <1>3, <2>1 DEF TargetIsCurrentOrStale, PreviousIsCurrentOrStale, Request
<1>8. ASSUME NEW s \in Session, CollectPrevious(s), session'[t] # session[t]
      PROVE  TargetIsCurrentOrStale(session[t])' /\ PreviousIsCurrentOrStale(session[t])'
  <2> DEFINE old == {<<p, version[p].revision>> : p \in
                       {q \in Version : version[q].status = "published"}}
  <2>1. /\ session'[t] = [session[t] EXCEPT !.phase = "collected", !.previous = old]
        /\ session[t].phase = "validated"
        /\ UNCHANGED version
    BY <1>0, <1>8 DEF CollectPrevious
  <2>2. \A p \in old : /\ version[p[1]].status = "published"
                       /\ p[2] = version[p[1]].revision /\ p[2] \in Nat
    BY <1>0, VersionAssumption DEF VersionRow
  <2> HIDE DEF old
  <2> QED
    BY <1>0, <1>3, <2>1, <2>2 DEF TargetIsCurrentOrStale, PreviousIsCurrentOrStale, Request
<1>9. ASSUME NEW s \in Session,
             CommitDraft(s) \/ CommitSave(s) \/ CommitReview(s) \/ CommitPublish(s) \/ Fail(s)
      PROVE  session'[t] \in {session[t], Idle}
  BY <1>0, <1>9 DEF CommitDraft, CommitSave, CommitReview, CommitPublish, Fail
<1>10. ASSUME StartInstance \/ UNCHANGED vars
       PROVE  session'[t] = session[t]
  BY <1>10 DEF StartInstance, vars
<1>11. ASSUME session'[t].op = "draft", session'[t].previous \in {{}, session[t].previous},
              UNCHANGED version
       PROVE  TargetIsCurrentOrStale(session[t])' /\ PreviousIsCurrentOrStale(session[t])'
  BY <1>3, <1>11 DEF TargetIsCurrentOrStale, PreviousIsCurrentOrStale
<1> QED
  BY <1>1, <1>2, <1>4, <1>5, <1>6, <1>7, <1>8, <1>9, <1>10, <1>11 DEF Next
---------------------------------------------------------------------------
(* Theorems *)

\* An empty definition and a seeded one satisfy the invariant.
LEMMA InvariantInit == ASSUME Init \/ SeededInit PROVE IInv
<1> USE VersionAssumption DEF Version
<1>1. TypeOK
  <2>1. CASE Init
    BY <2>1, IdleType, EmptyRouteType DEF Init, TypeOK, VersionRow, Status
  <2>2. CASE SeededInit
    BY <2>2, IdleType, EmptyRouteType DEF SeededInit, TypeOK, VersionRow, Status
  <2> QED
    BY <2>1, <2>2
<1>2. RequestsNameVersions /\ RequestsAreCurrentOrStale
  BY DEF Init, SeededInit, Idle, RequestsNameVersions, RequestsAreCurrentOrStale,
         TargetIsCurrentOrStale, PreviousIsCurrentOrStale
<1> QED
  BY <1>1, <1>2 DEF IInv

\* Every step of every request keeps the invariant.
LEMMA InvariantStep == ASSUME IInv, [Next]_vars PROVE IInv'
BY TypeStep, CurrentStep DEF IInv

\* From any start the code has, every reachable state satisfies the invariant.
THEOREM Invariant == Spec => []IInv
BY InvariantInit, InvariantStep, PTL DEF Spec

\* The state of the requests and of the version rows stays well formed.
THEOREM TypeCorrect == Spec => []TypeOK
<1>1. IInv => TypeOK
  BY DEF IInv
<1> QED
  BY <1>1, Invariant, PTL

\* A commit that the revisions let through acts on the route that was validated.
LEMMA SettledStep ==
  ASSUME IInv, SettledRoutesAreValid, [Next]_vars
  PROVE  SettledRoutesAreValid'
<1> SUFFICES ASSUME NEW v \in Version,
                    version'[v].status \in {"in_review", "published", "archived"}
             PROVE  Publishable(version'[v].route)
  BY DEF SettledRoutesAreValid, Publishable
<1> USE DEF IInv, TypeOK
<1>1. version[v].status \in {"in_review", "published", "archived"}
        => Publishable(version[v].route)
  BY DEF SettledRoutesAreValid
<1>2. ASSUME NEW s \in Session, CommitDraft(s)
      PROVE  version'[v] = version[v]
  BY <1>2 DEF CommitDraft
<1>3. ASSUME NEW s \in Session, CommitSave(s)
      PROVE  version'[v] = version[v]
  <2>1. version[session[s].target].status = "draft"
    BY <1>3 DEF CommitSave, Fresh, RequestsAreCurrentOrStale, TargetIsCurrentOrStale, LoadedStatus
  <2> QED
    BY <1>3, <2>1 DEF CommitSave, VersionRow
<1>4. ASSUME NEW s \in Session, CommitReview(s)
      PROVE  Publishable(version'[v].route)
  <2>1. session[s].op = "submit" => Publishable(version[session[s].target].route)
    BY <1>4 DEF CommitReview, Fresh, RequestsAreCurrentOrStale, TargetIsCurrentOrStale
  <2> QED
    BY <1>1, <1>4, <2>1 DEF CommitReview, VersionRow
<1>5. ASSUME NEW s \in Session, CommitPublish(s)
      PROVE  Publishable(version'[v].route)
  <2>1. Publishable(version[session[s].target].route)
    BY <1>5 DEF CommitPublish, Fresh, RequestsAreCurrentOrStale, TargetIsCurrentOrStale
  <2>2. \A p \in session[s].previous : version[p[1]].status = "published"
    BY <1>5 DEF CommitPublish, Fresh, RequestsAreCurrentOrStale, PreviousIsCurrentOrStale
  <2>3. version'[v].route = version[v].route
    BY <1>5 DEF CommitPublish, VersionRow
  <2>4. CASE v = session[s].target
    BY <2>1, <2>3, <2>4
  <2>5. CASE v \in {p[1] : p \in session[s].previous}
    BY <1>1, <2>2, <2>3, <2>5
  <2>6. CASE v # session[s].target /\ v \notin {p[1] : p \in session[s].previous}
    BY <1>1, <1>5, <2>6 DEF CommitPublish
  <2> QED
    BY <2>4, <2>5, <2>6
<1>6. ASSUME UNCHANGED version
      PROVE  Publishable(version'[v].route)
  BY <1>1, <1>6
<1> QED
  BY <1>1, <1>2, <1>3, <1>4, <1>5, <1>6
  DEF Next, vars, BeginDraft, CloneRules, CloneSteps, BeginSave, BeginTransition, Validate,
      CollectPrevious, Fail, StartInstance

\* No interleaving of edits, reviews and publications settles an invalid route.
THEOREM SettledRoutes == Spec => []SettledRoutesAreValid
<1>1. Init => SettledRoutesAreValid
  BY DEF Init, SettledRoutesAreValid
<1> QED
  BY <1>1, Invariant, SettledStep, PTL DEF Spec

\* An instance runs a version whose route no edit can reach any more.
LEMMA RunningStep ==
  ASSUME IInv, RunningRoutesAreFixed, [Next]_vars
  PROVE  RunningRoutesAreFixed'
<1> USE DEF IInv, TypeOK
<1>1. ASSUME NEW v \in Version, version[v].status \in {"published", "archived"}
      PROVE  /\ version'[v].status \in {"published", "archived"}
             /\ version'[v].route = version[v].route
  <2>1. ASSUME NEW s \in Session, CommitDraft(s)
        PROVE  version'[v] = version[v]
    BY <1>1, <2>1 DEF CommitDraft, Exists
  <2>2. ASSUME NEW s \in Session, CommitSave(s) \/ CommitReview(s)
        PROVE  version'[v] = version[v]
    <3>1. version[session[s].target].status \in {"draft", "in_review"}
      BY <2>2 DEF CommitSave, CommitReview, Fresh, RequestsAreCurrentOrStale,
                  TargetIsCurrentOrStale, LoadedStatus, SourceStatus
    <3> QED
      BY <1>1, <2>2, <3>1 DEF CommitSave, CommitReview, VersionRow
  <2>3. ASSUME NEW s \in Session, CommitPublish(s)
        PROVE  /\ version'[v].status \in {"published", "archived"}
               /\ version'[v].route = version[v].route
    BY <1>1, <2>3 DEF CommitPublish, VersionRow
  <2>4. ASSUME UNCHANGED version
        PROVE  version'[v] = version[v]
    BY <2>4
  <2> QED
    BY <1>1, <2>1, <2>2, <2>3, <2>4
    DEF Next, vars, BeginDraft, CloneRules, CloneSteps, BeginSave, BeginTransition, Validate,
        CollectPrevious, Fail, StartInstance
<1>2. CASE UNCHANGED instances
  BY <1>1, <1>2 DEF RunningRoutesAreFixed
<1>3. CASE StartInstance
  BY <1>3 DEF StartInstance, RunningRoutesAreFixed
<1> QED
  BY <1>2, <1>3
  DEF Next, vars, BeginDraft, CloneRules, CloneSteps, CommitDraft, BeginSave, CommitSave,
      BeginTransition, Validate, CollectPrevious, CommitReview, CommitPublish, Fail

\* An instance's version keeps the route the instance was started with.
THEOREM RunningRoutes == Spec => []RunningRoutesAreFixed
<1>1. Init => RunningRoutesAreFixed
  BY DEF Init, RunningRoutesAreFixed
<1> QED
  BY <1>1, Invariant, RunningStep, PTL DEF Spec

\* Once there is a published version, two publications both archive it, so the
\* later one carries a stale revision.
LEMMA SeededStep ==
  ASSUME IInv, SeededInv, [Next]_vars
  PROVE  SeededInv'
<1> USE DEF IInv, TypeOK, SeededInv
<1>1. PICK w \in Version : version[w].status = "published"
  OBVIOUS
<1>2. \A v \in Version : version[v].status = "published" => v = w
  BY <1>1 DEF OnePublishedVersion
<1>3. ASSUME NEW s \in Session, CommitPublish(s)
      PROVE  /\ OnePublishedVersion'
             /\ \E v \in Version : version'[v].status = "published"
  <2>1. /\ session[s].target \in Version
        /\ version[session[s].target].status # "published"
    BY <1>3 DEF CommitPublish, Fresh, RequestsNameVersions, RequestsAreCurrentOrStale,
                TargetIsCurrentOrStale, LoadedStatus, SourceStatus
  <2>2. PICK p \in session[s].previous : p[1] = w
    <3>1. PICK p \in session[s].previous : TRUE
      BY <1>3 DEF CommitPublish
    <3>2. p[1] \in Version
      BY <3>1 DEF Request
    <3>3. version[p[1]].revision = p[2]
      BY <1>3, <3>1 DEF CommitPublish, Fresh
    <3>4. version[p[1]].status = "published"
      BY <3>1, <3>3 DEF RequestsAreCurrentOrStale, PreviousIsCurrentOrStale
    <3> QED
      BY <1>2, <3>1, <3>2, <3>4
  <2>3. \A v \in Version : version'[v].status = "published" <=> v = session[s].target
    BY <1>2, <1>3, <2>1, <2>2 DEF CommitPublish, VersionRow
  <2> QED
    BY <2>1, <2>3 DEF OnePublishedVersion
<1>4. ASSUME NEW s \in Session, CommitDraft(s) \/ CommitSave(s) \/ CommitReview(s)
      PROVE  \A v \in Version : version'[v].status = "published" <=> v = w
  <2>1. CASE CommitDraft(s)
    BY <1>1, <1>2, <2>1 DEF CommitDraft, Exists
  <2>2. CASE CommitSave(s)
    BY <1>1, <1>2, <2>2 DEF CommitSave, VersionRow
  <2>3. CASE CommitReview(s)
    <3>1. version[session[s].target].status # "published"
      BY <2>3 DEF CommitReview, Fresh, RequestsAreCurrentOrStale, TargetIsCurrentOrStale,
                  LoadedStatus, SourceStatus
    <3> QED
      BY <1>1, <1>2, <2>3, <3>1 DEF CommitReview, VersionRow
  <2> QED
    BY <1>4, <2>1, <2>2, <2>3
<1>5. ASSUME UNCHANGED version
      PROVE  \A v \in Version : version'[v].status = "published" <=> v = w
  BY <1>1, <1>2, <1>5
<1>6. /\ OnePublishedVersion'
      /\ \E v \in Version : version'[v].status = "published"
  BY <1>3, <1>4, <1>5
  DEF OnePublishedVersion, Next, vars, BeginDraft, CloneRules, CloneSteps, BeginSave,
      BeginTransition, Validate, CollectPrevious, Fail, StartInstance
<1>7. ASSUME NEW t \in Session, session'[t].op = "publish", session'[t].phase = "collected"
      PROVE  session'[t].previous # {}
  <2>1. CASE session'[t] = session[t]
    BY <1>7, <2>1
  <2>2. ASSUME NEW s \in Session, CollectPrevious(s), session'[t] # session[t]
        PROVE  session'[t].previous # {}
    <3>1. session'[t].previous = {<<p, version[p].revision>> : p \in
                                    {q \in Version : version[q].status = "published"}}
      BY <2>2 DEF CollectPrevious, Request
    <3> QED
      BY <1>1, <3>1
  <2>3. ASSUME NEW s \in Session, CloneSteps(s), session'[t] # session[t]
        PROVE  FALSE
    BY <1>7, <2>3 DEF CloneSteps, Request
  <2>4. ASSUME NEW s \in Session, CloneRules(s) \/ Validate(s), session'[t] # session[t]
        PROVE  FALSE
    <3>1. CASE CloneRules(s)
      BY <1>7, <2>4, <3>1 DEF CloneRules, Request
    <3>2. CASE Validate(s)
      <4>1. session'[t] \in {Idle, [session[t] EXCEPT !.phase = "validated"]}
        BY <2>4, <3>2 DEF Validate
      <4> QED
        BY <1>7, <4>1 DEF Idle, Request
    <3> QED
      BY <2>4, <3>1, <3>2
  <2>5. ASSUME NEW s \in Session,
               BeginDraft(s) \/ BeginSave(s) \/ BeginTransition(s), session'[t] # session[t]
        PROVE  FALSE
    BY <1>7, <2>5 DEF BeginDraft, BeginSave, BeginTransition, Idle
  <2>6. ASSUME NEW s \in Session,
               CommitDraft(s) \/ CommitSave(s) \/ CommitReview(s) \/ CommitPublish(s) \/ Fail(s),
               session'[t] # session[t]
        PROVE  FALSE
    <3>1. session' = [session EXCEPT ![s] = Idle]
      BY <2>6 DEF CommitDraft, CommitSave, CommitReview, CommitPublish, Fail
    <3>2. session'[t] = Idle
      BY <2>6, <3>1
    <3> QED
      BY <1>7, <3>2 DEF Idle
  <2> QED
    BY <2>1, <2>2, <2>3, <2>4, <2>5, <2>6 DEF Next, StartInstance, vars
<1> QED
  BY <1>6, <1>7

\* From the definitions the seed installs, a version is published in every state, no second
\* one is, and every publication that has collected the published rows has found one to
\* archive: what no start without a published version gives (the previous of
\* publish_version).
THEOREM SeededInvariant == SeededSpec => [](IInv /\ SeededInv)
<1>1. SeededInit => IInv /\ SeededInv
  <2>1. SeededInit => 1 \in Version /\ \A v \in Version : version[v].status = "published" <=> v = 1
    BY VersionAssumption DEF SeededInit, Version
  <2>2. SeededInit => SeededInv
    BY <2>1 DEF SeededInit, SeededInv, OnePublishedVersion, Idle
  <2> QED
    BY <2>2, InvariantInit
<1>2. IInv /\ SeededInv /\ [Next]_vars => (IInv /\ SeededInv)'
  BY InvariantStep, SeededStep
<1> QED
  BY <1>1, <1>2, PTL DEF SeededSpec

\* A seeded definition has exactly one published version in every state.
THEOREM OnePublished == SeededSpec => []OnePublishedVersion
<1>1. SeededInv => OnePublishedVersion
  BY DEF SeededInv
<1> QED
  BY <1>1, SeededInvariant, PTL
===========================================================================
