---------------------- MODULE WorkflowRuntimeProofs ----------------------
(***************************************************************************)
(* Proofs about WorkflowRuntime.  An active process keeps its tasks because *)
(* the tasks of a step were as many as it requires when they were created   *)
(* (ChosenEnough), and an approval that is waited with moves one of them     *)
(* from active to completed: the two together stay as many (RuntimeInv).     *)
(***************************************************************************)
EXTENDS WorkflowRuntime, FiniteSetTheorems, FunctionTheorems, TLAPS

(* Sets of tasks by their status. *)

Having(p, s, D) == {u \in User : p.task[<<s, u>>] \in D}

LEMMA Finite ==
  /\ \A S \in SUBSET User : IsFiniteSet(S) /\ Cardinality(S) \in Nat
  /\ \A S, T \in SUBSET User : S \subseteq T => Cardinality(S) <= Cardinality(T)
<1>1. ASSUME NEW S \in SUBSET User PROVE IsFiniteSet(S) /\ Cardinality(S) \in Nat
  BY UserAssumption, FS_Subset, FS_CardinalityType
<1>2. ASSUME NEW S \in SUBSET User, NEW T \in SUBSET User, S \subseteq T
      PROVE  Cardinality(S) <= Cardinality(T)
  BY <1>1, <1>2, FS_Subset
<1> QED
  BY <1>1, <1>2

LEMMA FewEmpty == \A S \in SUBSET User : Cardinality(S) > 0 => S # {}
BY FS_EmptySet

LEMMA ProcessFields ==
  ASSUME NEW p \in Process
  PROVE  /\ p.phase \in Step /\ p.status \in {"active", "configuration_error"} \cup Terminal
         /\ p.task \in [Step \X User -> {"none", "active"} \cup Decision]
         /\ \A s \in Step, u \in User : <<s, u>> \in Step \X User
                                        /\ p.task[<<s, u>>] \in {"none", "active"} \cup Decision
BY DEF Process

LEMMA RouteFields ==
  ASSUME NEW r \in Routes
  PROVE  /\ r.first \in Step /\ \A s \in Step : r.required[s] \in Nat /\ r.required[s] > 0
         /\ \A s \in Step : r.allowed[s] \subseteq Action
         /\ \A s \in Step, action \in Action :
              r.goto[<<s, action>>] \in Step \cup {NoStep} /\ r.goto[<<s, action>>] # s
<1>1. r \in Route
  BY RoutesAssumption
<1>2. \A s \in Step, action \in Action : <<s, action>> \in Step \X Action
  OBVIOUS
<1> QED
  BY <1>1, <1>2, RoutesAssumption DEF Route

---------------------------------------------------------------------------
(* _create_tasks *)

\* Numbering users by how many come before them, the first k are k.
LEMMA FirstOnes ==
  ASSUME NEW users \in SUBSET User, NEW k \in Nat, Cardinality(users) >= k
  PROVE  Cardinality({u \in users : Cardinality({v \in users : v < u}) < k}) >= k
<1> DEFINE below(u) == {v \in users : v < u}
           n == Cardinality(users)
           firstOnes == {u \in users : Cardinality(below(u)) < k}
           rank == [u \in users |-> Cardinality(below(u))]
           firstRank == [u \in firstOnes |-> Cardinality(below(u))]
<1>1. IsFiniteSet(users) /\ n \in Nat /\ users \subseteq Nat
  BY Finite, UserAssumption
<1>2. ASSUME NEW u \in users PROVE Cardinality(below(u)) \in 0..(n - 1)
  <2>1. below(u) \in SUBSET (users \ {u}) /\ below(u) \in SUBSET User
    <3>1. u \in Nat
      BY <1>1
    <3>2. u \notin below(u)
      BY <3>1
    <3> QED
      BY <3>2
  <2>2. IsFiniteSet(users \ {u}) /\ Cardinality(users \ {u}) = n - 1
    BY <1>1, FS_RemoveElement
  <2>3. Cardinality(below(u)) <= n - 1
    BY <2>1, <2>2, FS_Subset
  <2> QED
    BY <1>1, <2>1, <2>3, Finite
<1>3. ASSUME NEW u \in users, NEW v \in users, u < v
      PROVE  Cardinality(below(u)) < Cardinality(below(v))
  <2>1. u \in Nat /\ v \in Nat
    BY <1>1
  <2>2. below(u) \cup {u} \subseteq below(v)
    <3>1. ASSUME NEW w \in below(u) PROVE w \in below(v)
      <4>1. w \in users /\ w \in Nat /\ w < u
        BY <1>1, <3>1
      <4>2. w < v
        BY <1>3, <2>1, <4>1
      <4> QED
        BY <4>1, <4>2
    <3>2. u \in below(v)
      BY <1>3
    <3> QED
      BY <3>1, <3>2
  <2>3. below(u) \in SUBSET User /\ below(u) \cup {u} \in SUBSET User /\ below(v) \in SUBSET User
    OBVIOUS
  <2>4. u \notin below(u)
    BY <2>1
  <2>5. IsFiniteSet(below(u)) /\ Cardinality(below(u)) \in Nat /\ Cardinality(below(v)) \in Nat
    BY <2>3, Finite
  <2>6. Cardinality(below(u) \cup {u}) = Cardinality(below(u)) + 1
    BY <2>4, <2>5, FS_AddElement
  <2>7. Cardinality(below(u) \cup {u}) <= Cardinality(below(v))
    BY <2>2, <2>3, Finite
  <2> QED
    BY <2>5, <2>6, <2>7
<1>4. rank \in Injection(users, 0..(n - 1))
  <2>1. rank \in [users -> 0..(n - 1)]
    BY <1>2
  <2>2. ASSUME NEW u \in users, NEW v \in users, rank[u] = rank[v] PROVE u = v
    <3>1. u \in Nat /\ v \in Nat /\ Cardinality(below(u)) \in Nat /\ Cardinality(below(v)) \in Nat
      BY <1>1, <1>2
    <3>2. Cardinality(below(u)) = Cardinality(below(v))
      BY <2>2
    <3>3. ~(u < v) /\ ~(v < u)
      BY <1>3, <3>1, <3>2
    <3> QED
      BY <3>1, <3>3
  <2> QED
    BY <2>1, <2>2, Fun_IsInj
<1>5. IsFiniteSet(0..(n - 1)) /\ Cardinality(0..(n - 1)) = n
  <2>1. \A m \in Nat : IsFiniteSet(0..(m - 1)) /\ Cardinality(0..(m - 1)) = m
    BY FS_Interval
  <2> QED
    BY <1>1, <2>1
<1>6. rank \in Surjection(users, 0..(n - 1))
  BY <1>4, <1>5, FS_Injection
<1>7. \A i \in 0..(k - 1) : \E u \in firstOnes : firstRank[u] = i
  <2> SUFFICES ASSUME NEW i \in 0..(k - 1)
               PROVE  \E u \in firstOnes : firstRank[u] = i
    OBVIOUS
  <2>1. i \in 0..(n - 1) /\ i < k
    BY <1>1
  <2>2. PICK u \in users : rank[u] = i
    BY <1>6, <2>1 DEF Surjection
  <2>3. Cardinality(below(u)) = i
    BY <2>2
  <2> QED
    BY <2>1, <2>3
<1>8. firstRank \in [firstOnes -> 0..(k - 1)]
  BY <1>2
<1>9. firstRank \in Surjection(firstOnes, 0..(k - 1))
  BY <1>7, <1>8, Fun_IsSurj
<1>10. firstOnes \in SUBSET User /\ IsFiniteSet(firstOnes) /\ Cardinality(firstOnes) \in Nat
  BY Finite
<1>11. Cardinality(0..(k - 1)) = k
  BY FS_Interval
<1>12. Cardinality(0..(k - 1)) <= Cardinality(firstOnes)
  BY <1>9, <1>10, FS_Surjection
<1> QED
  BY <1>11, <1>12

\* A step that finds its users gets at least as many tasks as it requires.
LEMMA ChosenEnough ==
  ASSUME NEW r \in Routes, NEW s \in Step, NEW users \in SUBSET User, Resolved(r, s, users)
  PROVE  Chosen(r, s, users) \in SUBSET User /\ Cardinality(Chosen(r, s, users)) >= r.required[s]
<1>1. r.required[s] \in Nat /\ Cardinality(users) >= r.required[s]
  BY RouteFields DEF Resolved
<1>2. CASE s \in r.parallel
  BY <1>1, <1>2 DEF Chosen
<1>3. CASE s \notin r.parallel
  <2>1. Chosen(r, s, users) = {u \in users : Cardinality({v \in users : v < u}) < r.required[s]}
    BY <1>3 DEF Chosen
  <2> QED
    BY <1>1, <2>1, FirstOnes
<1> QED
  BY <1>2, <1>3

---------------------------------------------------------------------------
(* act_task on one process *)

LEMMA VerdictIs ==
  ASSUME NEW action \in Action
  PROVE  /\ Verdict(action) \in Decision
         /\ Verdict(action) = "completed" <=> action = "approve"
BY DEF Verdict, Decision, Action

LEMMA RecordedIs ==
  ASSUME NEW p \in Process, NEW s \in Step, NEW u \in User, NEW action \in Action
  PROVE  \E q \in Process :
           /\ q = Recorded(p, s, u, action) /\ q.phase = p.phase /\ q.status = p.status
           /\ \A x \in Step, v \in User :
                q.task[<<x, v>>] = IF x = s /\ v = u THEN Verdict(action) ELSE p.task[<<x, v>>]
<1>1. PICK q : q = [p EXCEPT !.task[<<s, u>>] = Verdict(action)]
  OBVIOUS
<1>2. /\ q \in Process /\ q.phase = p.phase /\ q.status = p.status
      /\ q.task = [p.task EXCEPT ![<<s, u>>] = Verdict(action)]
  BY <1>1, VerdictIs DEF Process
<1>3. \A x \in Step, v \in User :
        q.task[<<x, v>>] = IF x = s /\ v = u THEN Verdict(action) ELSE p.task[<<x, v>>]
  BY <1>2, ProcessFields
<1>4. q = Recorded(p, s, u, action)
  BY <1>1 DEF Recorded
<1> QED
  BY <1>2, <1>3, <1>4

\* The siblings that a first approval makes superfluous.
Sweeps(r, s, action) == action = "approve" /\ r.mode[s] = "any"

LEMMA SettledIs ==
  ASSUME NEW p \in Process, NEW r \in Routes, NEW s \in Step, NEW action \in Action
  PROVE  \E q \in Process :
           /\ q = Settled(p, r, s, action) /\ q.phase = p.phase /\ q.status = p.status
           /\ \A x \in Step, v \in User :
                q.task[<<x, v>>] = IF x = s /\ Sweeps(r, s, action) /\ p.task[<<x, v>>] = "active"
                                   THEN "cancelled" ELSE p.task[<<x, v>>]
<1>1. CASE Sweeps(r, s, action)
  <2>1. PICK tasks : tasks = [k \in Step \X User |->
                                IF k[1] = s /\ p.task[k] = "active" THEN "cancelled" ELSE p.task[k]]
    OBVIOUS
  <2>2. tasks \in [Step \X User -> {"none", "active"} \cup Decision]
    BY <2>1, ProcessFields DEF Decision
  <2>3. PICK q : q = [p EXCEPT !.task = tasks]
    OBVIOUS
  <2>4. q \in Process /\ q.phase = p.phase /\ q.status = p.status /\ q.task = tasks
    BY <2>2, <2>3 DEF Process
  <2>5. \A x \in Step, v \in User :
          q.task[<<x, v>>] = IF x = s /\ p.task[<<x, v>>] = "active" THEN "cancelled" ELSE p.task[<<x, v>>]
    BY <2>1, <2>4
  <2>6. q = Settled(p, r, s, action)
    BY <1>1, <2>1, <2>3 DEF Settled, Sweeps
  <2> QED
    BY <1>1, <2>4, <2>5, <2>6
<1>2. CASE ~Sweeps(r, s, action)
  <2>1. Settled(p, r, s, action) = p
    BY <1>2 DEF Settled, Sweeps
  <2> QED
    BY <1>2, <2>1
<1> QED
  BY <1>1, <1>2

LEMMA TasksAdded ==
  ASSUME NEW p \in Process, NEW s \in Step, NEW users \in SUBSET User
  PROVE  \E q \in Process :
           /\ q = AddTasks(p, s, users) /\ q.phase = s /\ q.status = p.status
           /\ \A x \in Step, v \in User :
                q.task[<<x, v>>] = IF x = s /\ v \in users THEN "active" ELSE p.task[<<x, v>>]
<1>1. PICK tasks : tasks = [k \in Step \X User |->
                              IF k[1] = s /\ k[2] \in users THEN "active" ELSE p.task[k]]
  OBVIOUS
<1>2. tasks \in [Step \X User -> {"none", "active"} \cup Decision]
  BY <1>1, ProcessFields
<1>3. PICK q : q = [p EXCEPT !.phase = s, !.task = tasks]
  OBVIOUS
<1>4. q \in Process /\ q.phase = s /\ q.status = p.status /\ q.task = tasks
  BY <1>2, <1>3 DEF Process
<1>5. \A x \in Step, v \in User :
        q.task[<<x, v>>] = IF x = s /\ v \in users THEN "active" ELSE p.task[<<x, v>>]
  BY <1>1, <1>4
<1>6. q = AddTasks(p, s, users)
  BY <1>1, <1>3 DEF AddTasks
<1> QED
  BY <1>4, <1>5, <1>6

LEMMA ConfiguredIs ==
  ASSUME NEW p \in Process, NEW s \in Step
  PROVE  \E q \in Process :
           q = Configured(p, s) /\ q.phase = s /\ q.status = "configuration_error" /\ q.task = p.task
<1>1. PICK q : q = [p EXCEPT !.phase = s, !.status = "configuration_error"]
  OBVIOUS
<1>2. q \in Process /\ q.phase = s /\ q.status = "configuration_error" /\ q.task = p.task
  BY <1>1 DEF Process
<1> QED
  BY <1>1, <1>2 DEF Configured

LEMMA OverIs ==
  ASSUME NEW p \in Process, NEW status \in Terminal
  PROVE  \E q \in Process :
           q = [p EXCEPT !.status = status] /\ q.status = status /\ q.phase = p.phase /\ q.task = p.task
<1>1. PICK q : q = [p EXCEPT !.status = status]
  OBVIOUS
<1>2. q \in Process /\ q.status = status /\ q.phase = p.phase /\ q.task = p.task
  BY <1>1 DEF Process
<1> QED
  BY <1>1, <1>2

\* What a decision makes of the tasks: added are the tasks it creates, at the phase.
TasksMove(p, q, r, s, u, action, swept, added) ==
  \A x \in Step, v \in User :
    q.task[<<x, v>>] =
      IF x = s /\ v = u THEN Verdict(action)
      ELSE IF x = q.phase /\ v \in added THEN "active"
      ELSE IF x = s /\ swept /\ p.task[<<x, v>>] = "active" THEN "cancelled"
      ELSE p.task[<<x, v>>]

\* The recorded approval is waited with, or the process is over, or it goes on, or it
\* finds nobody to go on with.
Acts(p, q, r, s, u, action, added) ==
  LET t == r.goto[<<s, action>>] IN
  /\ TasksMove(p, q, r, s, u, action, ~Waits(p, r, s, u, action) /\ Sweeps(r, s, action), added)
  /\ added # {} => q.phase # s
  /\ Insertable(p, q.phase, added)
  /\ \/ Waits(p, r, s, u, action) /\ added = {} /\ q.phase = p.phase /\ q.status = p.status
     \/ /\ ~Waits(p, r, s, u, action)
        /\ \/ added = {} /\ q.phase = p.phase /\ q.status \in Terminal
           \/ q.phase = t /\ t \in Step /\ t # s /\ q.status = p.status
              /\ Cardinality(added) >= r.required[t]
           \/ q.phase = t /\ t \in Step /\ t # s /\ q.status = "configuration_error" /\ added = {}

LEMMA ActedActs ==
  ASSUME NEW p \in Process, NEW r \in Routes, NEW h \in [Step -> SUBSET User],
         NEW s \in Step, NEW u \in User, NEW action \in Action,
         CanAct(p, r, h, s, u, action)
  PROVE  \E q \in Process, added \in SUBSET User :
           q = Acted(p, r, h, s, u, action) /\ Acts(p, q, r, s, u, action, added)
<1> DEFINE t == r.goto[<<s, action>>]
<1>1. t \in Step \cup {NoStep} /\ t # s
  BY RouteFields
<1>2. PICK recorded \in Process :
        /\ recorded = Recorded(p, s, u, action) /\ recorded.phase = p.phase /\ recorded.status = p.status
        /\ \A x \in Step, v \in User :
             recorded.task[<<x, v>>] = IF x = s /\ v = u THEN Verdict(action) ELSE p.task[<<x, v>>]
  BY <1>1, RecordedIs
<1>3. PICK settled \in Process :
        /\ settled = Settled(recorded, r, s, action)
        /\ settled.phase = recorded.phase /\ settled.status = recorded.status
        /\ \A x \in Step, v \in User :
             settled.task[<<x, v>>] =
               IF x = s /\ Sweeps(r, s, action) /\ recorded.task[<<x, v>>] = "active"
               THEN "cancelled" ELSE recorded.task[<<x, v>>]
  BY <1>1, SettledIs
<1>4. \A x \in Step, v \in User :
        settled.task[<<x, v>>] =
          IF x = s /\ v = u THEN Verdict(action)
          ELSE IF x = s /\ Sweeps(r, s, action) /\ p.task[<<x, v>>] = "active" THEN "cancelled"
          ELSE p.task[<<x, v>>]
  <2> TAKE x \in Step, v \in User
  <2>1. Verdict(action) # "active"
    BY <1>1, VerdictIs DEF Decision
  <2>2. recorded.task[<<x, v>>] = IF x = s /\ v = u THEN Verdict(action) ELSE p.task[<<x, v>>]
    BY <1>2
  <2>3. settled.task[<<x, v>>] = IF x = s /\ Sweeps(r, s, action) /\ recorded.task[<<x, v>>] = "active"
                                 THEN "cancelled" ELSE recorded.task[<<x, v>>]
    BY <1>3
  <2> QED
    BY <2>1, <2>2, <2>3
<1>5. CASE Waits(p, r, s, u, action)
  <2>1. recorded = Acted(p, r, h, s, u, action)
    BY <1>2, <1>5 DEF Acted
  <2>2. Acts(p, recorded, r, s, u, action, {})
    BY <1>2, <1>5 DEF Acts, TasksMove, Insertable
  <2> QED
    BY <1>2, <2>1, <2>2
<1>6. CASE ~Waits(p, r, s, u, action) /\ t = NoStep
  <2>1. PICK status \in Terminal : status = IF action = "cancel" THEN "cancelled" ELSE "completed"
    BY DEF Terminal
  <2>2. PICK q \in Process : /\ q = [settled EXCEPT !.status = status] /\ q.status = status
                             /\ q.phase = settled.phase /\ q.task = settled.task
    BY OverIs
  <2>3. q = Acted(p, r, h, s, u, action)
    BY <1>2, <1>3, <1>6, <2>1, <2>2 DEF Acted
  <2>4. Acts(p, q, r, s, u, action, {})
    BY <1>2, <1>3, <1>4, <1>6, <2>1, <2>2 DEF Acts, TasksMove, Insertable
  <2> QED
    BY <2>3, <2>4
<1>7. CASE ~Waits(p, r, s, u, action) /\ t # NoStep /\ Resolved(r, t, h[t])
  <2>1. t \in Step /\ h[t] \in SUBSET User
    BY <1>1, <1>7
  <2>2. PICK added \in SUBSET User : added = Chosen(r, t, h[t]) /\ Cardinality(added) >= r.required[t]
    BY <1>7, <2>1, ChosenEnough
  <2>3. Insertable(p, t, added)
    BY <1>7, <2>2 DEF CanAct
  <2>4. PICK q \in Process :
          /\ q = AddTasks(settled, t, added) /\ q.phase = t /\ q.status = settled.status
          /\ \A x \in Step, v \in User :
               q.task[<<x, v>>] = IF x = t /\ v \in added THEN "active" ELSE settled.task[<<x, v>>]
    BY <2>1, TasksAdded
  <2>5. q = Acted(p, r, h, s, u, action)
    BY <1>2, <1>3, <1>7, <2>2, <2>4 DEF Acted
  <2>6. TasksMove(p, q, r, s, u, action, ~Waits(p, r, s, u, action) /\ Sweeps(r, s, action), added)
    <3> SUFFICES ASSUME NEW x \in Step, NEW v \in User
                 PROVE  q.task[<<x, v>>] =
                          IF x = s /\ v = u THEN Verdict(action)
                          ELSE IF x = q.phase /\ v \in added THEN "active"
                          ELSE IF x = s /\ (~Waits(p, r, s, u, action) /\ Sweeps(r, s, action))
                                  /\ p.task[<<x, v>>] = "active" THEN "cancelled"
                          ELSE p.task[<<x, v>>]
      BY DEF TasksMove
    <3>1. q.task[<<x, v>>] = IF x = t /\ v \in added THEN "active" ELSE settled.task[<<x, v>>]
      BY <2>4
    <3>2. settled.task[<<x, v>>] =
            IF x = s /\ v = u THEN Verdict(action)
            ELSE IF x = s /\ Sweeps(r, s, action) /\ p.task[<<x, v>>] = "active" THEN "cancelled"
            ELSE p.task[<<x, v>>]
      BY <1>4
    <3>3. ~Waits(p, r, s, u, action) /\ t # s /\ q.phase = t
      BY <1>1, <1>7, <2>4
    <3> QED
      BY <3>1, <3>2, <3>3
  <2>7. Acts(p, q, r, s, u, action, added)
    BY <1>1, <1>2, <1>3, <1>7, <2>1, <2>2, <2>3, <2>4, <2>6 DEF Acts
  <2> QED
    BY <2>5, <2>7
<1>8. CASE ~Waits(p, r, s, u, action) /\ t # NoStep /\ ~Resolved(r, t, h[t])
  <2>1. t \in Step
    BY <1>1, <1>8
  <2>2. PICK q \in Process :
          /\ q = Configured(settled, t) /\ q.phase = t
          /\ q.status = "configuration_error" /\ q.task = settled.task
    BY <2>1, ConfiguredIs
  <2>3. q = Acted(p, r, h, s, u, action)
    BY <1>2, <1>3, <1>8, <2>2 DEF Acted
  <2>4. Acts(p, q, r, s, u, action, {})
    BY <1>1, <1>4, <1>8, <2>1, <2>2 DEF Acts, TasksMove, Insertable
  <2> QED
    BY <2>3, <2>4
<1> QED
  BY <1>5, <1>6, <1>7, <1>8

---------------------------------------------------------------------------
(* What act_task keeps *)

\* Decided tasks stay, tasks come only where they are added, siblings of other steps stay open.
LEMMA TaskByTask ==
  ASSUME NEW p \in Process, NEW q \in Process, NEW r \in Routes, NEW s \in Step, NEW u \in User,
         NEW action \in Action, NEW added \in SUBSET User,
         p.task[<<s, u>>] = "active", Acts(p, q, r, s, u, action, added),
         NEW x \in Step, NEW v \in User
  PROVE  /\ p.task[<<x, v>>] \in Decision => q.task[<<x, v>>] = p.task[<<x, v>>]
         /\ q.task[<<x, v>>] = "active" => p.task[<<x, v>>] = "active" \/ (x = q.phase /\ v \in added)
         /\ q.task[<<x, v>>] # "none" => p.task[<<x, v>>] # "none" \/ (x = q.phase /\ v \in added)
         /\ x = s /\ v = u => q.task[<<x, v>>] = Verdict(action)
         /\ x = q.phase /\ v \in added => p.task[<<x, v>>] = "none" /\ q.task[<<x, v>>] = "active"
<1>1. PICK swept \in BOOLEAN :
        q.task[<<x, v>>] =
          IF x = s /\ v = u THEN Verdict(action)
          ELSE IF x = q.phase /\ v \in added THEN "active"
          ELSE IF x = s /\ swept /\ p.task[<<x, v>>] = "active" THEN "cancelled"
          ELSE p.task[<<x, v>>]
  BY DEF Acts, TasksMove
<1>2. x = q.phase /\ v \in added => p.task[<<x, v>>] = "none" /\ x # s
  BY DEF Acts, Insertable
<1>3. Verdict(action) \in Decision
  BY VerdictIs
<1> QED
  BY <1>1, <1>2, <1>3 DEF Decision

LEMMA DecisionsKept ==
  ASSUME NEW p \in Process, NEW q \in Process, NEW r \in Routes, NEW s \in Step, NEW u \in User,
         NEW action \in Action, NEW added \in SUBSET User,
         p.task[<<s, u>>] = "active", Acts(p, q, r, s, u, action, added),
         NEW x \in Step, NEW d \in Decision
  PROVE  /\ With(p, x, d) \subseteq With(q, x, d)
         /\ With(p, x, d) \in SUBSET User /\ With(q, x, d) \in SUBSET User
         /\ Cardinality(With(p, x, d)) \in Nat /\ Cardinality(With(q, x, d)) \in Nat
         /\ Cardinality(With(q, x, d)) >= Cardinality(With(p, x, d))
<1>1. With(p, x, d) \subseteq With(q, x, d)
  BY TaskByTask DEF With
<1>2. With(p, x, d) \in SUBSET User /\ With(q, x, d) \in SUBSET User
  BY DEF With
<1>3. /\ Cardinality(With(p, x, d)) \in Nat /\ Cardinality(With(q, x, d)) \in Nat
      /\ Cardinality(With(p, x, d)) <= Cardinality(With(q, x, d))
  BY <1>1, <1>2, Finite
<1> QED
  BY <1>1, <1>2, <1>3

\* A step that has its approvals, and nobody to ask, stays so if it is not entered again.
LEMMA ReadyStays ==
  ASSUME NEW p \in Process, NEW q \in Process, NEW r \in Routes, NEW s \in Step, NEW u \in User,
         NEW action \in Action, NEW added \in SUBSET User,
         p.task[<<s, u>>] = "active", Acts(p, q, r, s, u, action, added),
         NEW x \in Step, Ready(p, r, x), x # q.phase \/ added = {}
  PROVE  Ready(q, r, x)
<1>1. "completed" \in Decision
  BY DEF Decision
<1>2. r.required[x] \in Nat
  BY RouteFields
<1>3. Cardinality(With(q, x, "completed")) >= r.required[x]
  BY <1>1, <1>2, DecisionsKept DEF Ready
<1>4. With(q, x, "active") \subseteq With(p, x, "active")
  BY TaskByTask DEF With
<1> QED
  BY <1>3, <1>4 DEF Ready

\* The step just decided counts its approvals with the recorded one.
LEMMA CountsAsRecorded ==
  ASSUME NEW p \in Process, NEW q \in Process, NEW r \in Routes, NEW s \in Step, NEW u \in User,
         NEW action \in Action, NEW added \in SUBSET User,
         p.task[<<s, u>>] = "active", Acts(p, q, r, s, u, action, added)
  PROVE  /\ With(q, s, "completed") = With(Recorded(p, s, u, action), s, "completed")
         /\ With(q, s, "active") \subseteq With(Recorded(p, s, u, action), s, "active")
         /\ Waits(p, r, s, u, action) =>
              With(q, s, "active") = With(Recorded(p, s, u, action), s, "active")
<1>1. PICK recorded \in Process :
        /\ recorded = Recorded(p, s, u, action)
        /\ \A x \in Step, v \in User :
             recorded.task[<<x, v>>] = IF x = s /\ v = u THEN Verdict(action) ELSE p.task[<<x, v>>]
  BY RecordedIs
<1>2. PICK swept \in BOOLEAN :
        /\ swept => ~Waits(p, r, s, u, action)
        /\ \A v \in User : q.task[<<s, v>>] =
             IF v = u THEN Verdict(action)
             ELSE IF swept /\ p.task[<<s, v>>] = "active" THEN "cancelled"
             ELSE p.task[<<s, v>>]
  <2>1. \A v \in User : ~(s = q.phase /\ v \in added)
    BY DEF Acts
  <2>2. PICK swept \in BOOLEAN : swept = (~Waits(p, r, s, u, action) /\ Sweeps(r, s, action))
    OBVIOUS
  <2>3. TasksMove(p, q, r, s, u, action, swept, added)
    BY <2>2 DEF Acts
  <2> QED
    BY <2>1, <2>2, <2>3 DEF TasksMove
<1>3. \A v \in User : recorded.task[<<s, v>>] = IF v = u THEN Verdict(action) ELSE p.task[<<s, v>>]
  BY <1>1
<1> QED
  BY <1>1, <1>2, <1>3 DEF With

LEMMA ReadyAfter ==
  ASSUME NEW p \in Process, NEW q \in Process, NEW r \in Routes, NEW s \in Step, NEW u \in User,
         NEW action \in Action, NEW added \in SUBSET User,
         p.task[<<s, u>>] = "active", Acts(p, q, r, s, u, action, added)
  PROVE  /\ Waits(p, r, s, u, action) => action = "approve" /\ ~Ready(q, r, s)
         /\ ~Waits(p, r, s, u, action) /\ action = "approve" => Ready(q, r, s)
<1>1. /\ With(q, s, "completed") = With(Recorded(p, s, u, action), s, "completed")
      /\ With(q, s, "active") \subseteq With(Recorded(p, s, u, action), s, "active")
      /\ Waits(p, r, s, u, action) =>
           With(q, s, "active") = With(Recorded(p, s, u, action), s, "active")
  BY CountsAsRecorded
<1> QED
  BY <1>1 DEF Waits, Ready

---------------------------------------------------------------------------
(* Enough tasks at the phase of an active process *)

Enough(p, r) ==
  p.status = "active" =>
    /\ With(p, p.phase, "active") # {}
    /\ Cardinality(Having(p, p.phase, {"active", "completed"})) >= r.required[p.phase]

LEMMA EnoughKept ==
  ASSUME NEW p \in Process, NEW q \in Process, NEW r \in Routes, NEW s \in Step, NEW u \in User,
         NEW action \in Action, NEW added \in SUBSET User,
         p.task[<<s, u>>] = "active", Acts(p, q, r, s, u, action, added), Enough(p, r)
  PROVE  Enough(q, r)
<1> DEFINE t == r.goto[<<s, action>>]
<1> SUFFICES ASSUME q.status = "active" PROVE Enough(q, r)
  BY DEF Enough
<1>1. \/ Waits(p, r, s, u, action) /\ added = {} /\ q.phase = p.phase /\ p.status = "active"
      \/ q.phase = t /\ t \in Step /\ Cardinality(added) >= r.required[t]
  BY DEF Acts, Terminal
<1>2. CASE q.phase = t /\ t \in Step /\ Cardinality(added) >= r.required[t]
  <2>1. added \subseteq With(q, t, "active") /\ added \subseteq Having(q, t, {"active", "completed"})
    BY <1>2, TaskByTask DEF With, Having
  <2>2. Having(q, t, {"active", "completed"}) \in SUBSET User
    BY DEF Having
  <2>3. Cardinality(added) > 0 /\ r.required[t] \in Nat /\ Cardinality(added) \in Nat
    BY <1>2, RouteFields, Finite
  <2>4. added # {}
    BY <2>3, FewEmpty
  <2>5. /\ Cardinality(Having(q, t, {"active", "completed"})) \in Nat
        /\ Cardinality(added) <= Cardinality(Having(q, t, {"active", "completed"}))
    BY <2>1, <2>2, Finite
  <2>6. Cardinality(Having(q, t, {"active", "completed"})) >= r.required[t]
    BY <1>2, <2>3, <2>5
  <2> QED
    BY <1>2, <2>1, <2>4, <2>6 DEF Enough
<1>3. CASE Waits(p, r, s, u, action) /\ added = {} /\ q.phase = p.phase /\ p.status = "active"
  <2>1. PICK f \in Step : f = p.phase /\ f = q.phase
    BY <1>3, ProcessFields
  <2>2. action = "approve" /\ ~Ready(q, r, s)
    BY <1>3, ReadyAfter
  <2>3. \A v \in User : q.task[<<f, v>>] = IF f = s /\ v = u THEN "completed" ELSE p.task[<<f, v>>]
    BY <1>3, <2>2 DEF Acts, TasksMove, Verdict
  <2>4. Having(q, f, {"active", "completed"}) = Having(p, f, {"active", "completed"})
    BY <2>3 DEF Having
  <2>5. Cardinality(Having(q, f, {"active", "completed"})) >= r.required[f]
    BY <1>3, <2>1, <2>4 DEF Enough
  <2>6. With(q, f, "active") # {}
    <3>1. CASE f # s
      <4>1. With(q, f, "active") = With(p, f, "active")
        BY <2>3, <3>1 DEF With
      <4> QED
        BY <1>3, <2>1, <4>1 DEF Enough
    <3>2. CASE f = s
      <4> SUFFICES ASSUME With(q, s, "active") = {} PROVE FALSE
        BY <3>2
      <4>1. Having(q, s, {"active", "completed"}) = With(q, s, "completed")
        BY DEF Having, With
      <4>2. Cardinality(With(q, s, "completed")) >= r.required[s]
        BY <2>5, <3>2, <4>1
      <4> QED
        BY <2>2, <4>2 DEF Ready
    <3> QED
      BY <3>1, <3>2
  <2> QED
    BY <2>1, <2>5, <2>6 DEF Enough
<1> QED
  BY <1>1, <1>2, <1>3

---------------------------------------------------------------------------
(* reassign_task *)

HandedOver(p, q, s, u, v) ==
  \A x \in Step, w \in User :
    q.task[<<x, w>>] = IF x = s /\ w = u THEN "none"
                       ELSE IF x = s /\ w = v THEN p.task[<<s, u>>] ELSE p.task[<<x, w>>]

LEMMA ReassignedIs ==
  ASSUME NEW p \in Process, NEW s \in Step, NEW u \in User, NEW v \in User, u # v
  PROVE  \E q \in Process :
           /\ q = [p EXCEPT !.task[<<s, v>>] = p.task[<<s, u>>], !.task[<<s, u>>] = "none"]
           /\ q.phase = p.phase /\ q.status = p.status
           /\ HandedOver(p, q, s, u, v)
<1>1. PICK q : q = [p EXCEPT !.task[<<s, v>>] = p.task[<<s, u>>], !.task[<<s, u>>] = "none"]
  OBVIOUS
<1>2. /\ q \in Process /\ q.phase = p.phase /\ q.status = p.status
      /\ q.task = [[p.task EXCEPT ![<<s, v>>] = p.task[<<s, u>>]] EXCEPT ![<<s, u>>] = "none"]
  BY <1>1, ProcessFields DEF Process
<1>3. \A x \in Step, w \in User :
        q.task[<<x, w>>] = IF x = s /\ w = u THEN "none"
                           ELSE IF x = s /\ w = v THEN p.task[<<s, u>>] ELSE p.task[<<x, w>>]
  BY <1>2, ProcessFields
<1> QED
  BY <1>1, <1>2, <1>3 DEF HandedOver

\* One row changes hands: as many users have a task of each status as before.
LEMMA HandsChanged ==
  ASSUME NEW p \in Process, NEW q \in Process, NEW s \in Step, NEW u \in User, NEW v \in User,
         p.task[<<s, u>>] # "none", p.task[<<s, v>>] = "none",
         HandedOver(p, q, s, u, v),
         NEW x \in Step, NEW D, "none" \notin D
  PROVE  Cardinality(Having(q, x, D)) = Cardinality(Having(p, x, D))
<1>1. CASE x = s /\ p.task[<<s, u>>] \in D
  <2>1. u \in Having(p, s, D) /\ v \notin Having(p, s, D) \ {u}
    BY <1>1 DEF Having
  <2>2. Having(q, s, D) = (Having(p, s, D) \ {u}) \cup {v}
    BY <1>1 DEF Having, HandedOver
  <2>3. IsFiniteSet(Having(p, s, D)) /\ Cardinality(Having(p, s, D)) \in Nat
    BY Finite DEF Having
  <2>4. /\ IsFiniteSet(Having(p, s, D) \ {u})
        /\ Cardinality(Having(p, s, D) \ {u}) = Cardinality(Having(p, s, D)) - 1
    BY <2>1, <2>3, FS_RemoveElement
  <2>5. Cardinality((Having(p, s, D) \ {u}) \cup {v}) = Cardinality(Having(p, s, D) \ {u}) + 1
    BY <2>1, <2>4, FS_AddElement
  <2> QED
    BY <1>1, <2>2, <2>3, <2>4, <2>5
<1>2. CASE x # s \/ p.task[<<s, u>>] \notin D
  <2>1. \A w \in User : q.task[<<x, w>>] \in D <=> p.task[<<x, w>>] \in D
    BY <1>2 DEF HandedOver
  <2>2. Having(q, x, D) = Having(p, x, D)
    BY <2>1 DEF Having
  <2> QED
    BY <2>2
<1> QED
  BY <1>1, <1>2

LEMMA CountsStay ==
  ASSUME NEW p \in Process, NEW q \in Process, NEW s \in Step, NEW u \in User, NEW v \in User,
         p.task[<<s, u>>] # "none", p.task[<<s, v>>] = "none",
         HandedOver(p, q, s, u, v),
         NEW x \in Step, NEW d \in {"active"} \cup Decision
  PROVE  /\ Cardinality(With(q, x, d)) = Cardinality(With(p, x, d))
         /\ Cardinality(With(p, x, d)) \in Nat
         /\ With(q, x, d) = {} <=> With(p, x, d) = {}
<1>1. "none" \notin {d}
  BY DEF Decision
<1>2. Cardinality(With(q, x, d)) = Cardinality(With(p, x, d))
  <2>1. PICK D : D = {d}
    OBVIOUS
  <2>2. Cardinality(Having(q, x, D)) = Cardinality(Having(p, x, D))
    BY <1>1, <2>1, HandsChanged
  <2>3. With(q, x, d) = Having(q, x, D) /\ With(p, x, d) = Having(p, x, D)
    BY <2>1 DEF With, Having
  <2> QED
    BY <2>2, <2>3
<1>3. /\ IsFiniteSet(With(p, x, d)) /\ IsFiniteSet(With(q, x, d)) /\ Cardinality(With(p, x, d)) \in Nat
  BY Finite DEF With
<1>4. \A S \in SUBSET User : S = {} <=> Cardinality(S) = 0
  BY Finite, FS_EmptySet
<1>5. With(p, x, d) \in SUBSET User /\ With(q, x, d) \in SUBSET User
  BY DEF With
<1> QED
  BY <1>2, <1>3, <1>4, <1>5

---------------------------------------------------------------------------
(* The invariant *)

\* A task locked by an open act_task stays active: reassign_task waits for the lock, and a
\* decision that closes the task aborts it.
LockedTasksAreActive ==
  \A x \in Session : session[x] # NoTask => process.task[<<session[x].step, session[x].user>>] = "active"

RuntimeInv == TypeOK /\ LockedTasksAreActive /\ Enough(process, route) /\ StepsAreEarned

DecisionsGrow ==
  \A s \in Step, d \in Decision :
    Cardinality(With(process', s, d)) >= Cardinality(With(process, s, d))

LEMMA LockedFields ==
  ASSUME TypeOK, NEW x \in Session, session[x] # NoTask
  PROVE  /\ session[x] \in Locked /\ session[x].step \in Step /\ session[x].user \in User
         /\ session[x].action \in Action
<1>1. session[x] \in Locked
  BY DEF TypeOK
<1> QED
  BY <1>1 DEF Locked

LEMMA InitInv == Init => RuntimeInv
<1> SUFFICES ASSUME Init PROVE RuntimeInv
  OBVIOUS
<1>1. route \in Routes /\ holders \in [Step -> SUBSET User] /\ session = [x \in Session |-> NoTask]
  BY HoldersAssumption DEF Init
<1>2. PICK s \in Step : s = route.first /\ holders[s] \in SUBSET User
  BY <1>1, RouteFields
<1>3. PICK fresh \in Process : /\ fresh = Fresh(s) /\ fresh.status = "active"
                               /\ \A x \in Step, v \in User : fresh.task[<<x, v>>] = "none"
  <2>1. PICK tasks : tasks = [k \in Step \X User |-> "none"]
    OBVIOUS
  <2>2. PICK p : p = [status |-> "active", phase |-> s, task |-> tasks]
    OBVIOUS
  <2>3. tasks \in [Step \X User -> {"none", "active"} \cup Decision]
    BY <2>1
  <2>4. p \in Process /\ p.status = "active" /\ p.task = tasks
    BY <2>2, <2>3 DEF Process
  <2>5. \A x \in Step, v \in User : p.task[<<x, v>>] = "none"
    BY <2>1, <2>4
  <2>6. p = Fresh(s)
    BY <2>1, <2>2 DEF Fresh
  <2> QED
    BY <2>4, <2>5, <2>6
<1>4. process \in Process /\ Enough(process, route) /\ process.phase = s
      /\ \A x \in Step, v \in User : process.task[<<x, v>>] # "none" => x = s
  <2>1. CASE Resolved(route, s, holders[s])
    <3>1. PICK added \in SUBSET User :
            added = Chosen(route, s, holders[s]) /\ Cardinality(added) >= route.required[s]
      BY <1>1, <1>2, <2>1, ChosenEnough
    <3>2. PICK p \in Process :
            /\ p = AddTasks(fresh, s, added) /\ p.phase = s
            /\ \A x \in Step, v \in User :
                 p.task[<<x, v>>] = IF x = s /\ v \in added THEN "active" ELSE fresh.task[<<x, v>>]
      BY TasksAdded
    <3>3. process = p
      <4>1. Started(route, holders) = AddTasks(Fresh(s), s, Chosen(route, s, holders[s]))
        BY <1>2, <2>1 DEF Started
      <4> QED
        BY <1>3, <3>1, <3>2, <4>1 DEF Init
    <3>4. \A x \in Step, v \in User : p.task[<<x, v>>] = IF x = s /\ v \in added THEN "active" ELSE "none"
      <4> TAKE x \in Step, v \in User
      <4>1. fresh.task[<<x, v>>] = "none"
        BY <1>3
      <4>2. p.task[<<x, v>>] = IF x = s /\ v \in added THEN "active" ELSE fresh.task[<<x, v>>]
        BY <3>2
      <4> QED
        BY <4>1, <4>2
    <3>5. added = With(p, s, "active") /\ added = Having(p, s, {"active", "completed"})
      <4>1. \A v \in User : p.task[<<s, v>>] = IF v \in added THEN "active" ELSE "none"
        BY <3>4
      <4> QED
        BY <4>1 DEF With, Having
    <3>6. route.required[s] \in Nat /\ Cardinality(added) \in Nat /\ Cardinality(added) > 0
      BY <1>1, <3>1, RouteFields, Finite
    <3>7. added # {}
      BY <3>6, FewEmpty
    <3>8. Enough(p, route)
      BY <3>1, <3>2, <3>5, <3>7 DEF Enough
    <3> QED
      BY <3>2, <3>3, <3>4, <3>8
  <2>2. CASE ~Resolved(route, s, holders[s])
    <3>1. PICK p \in Process : /\ p = Configured(fresh, s) /\ p.phase = s
                               /\ p.status = "configuration_error" /\ p.task = fresh.task
      BY ConfiguredIs
    <3>2. process = p
      BY <1>2, <1>3, <2>2, <3>1 DEF Init, Started
    <3> QED
      BY <1>3, <3>1, <3>2 DEF Enough
  <2> QED
    BY <2>1, <2>2
<1>5. TypeOK /\ LockedTasksAreActive
  BY <1>1, <1>4 DEF TypeOK, LockedTasksAreActive
<1>6. StepsAreEarned
  BY <1>2, <1>4 DEF StepsAreEarned
<1> QED
  BY <1>4, <1>5, <1>6 DEF RuntimeInv

\* What is added or entered comes from the step just decided; the rest is as earned as before.
LEMMA EarnedKept ==
  ASSUME RuntimeInv, process' \in Process, route' = route,
         NEW s \in Step, NEW u \in User, NEW action \in Action, NEW added \in SUBSET User,
         process.task[<<s, u>>] = "active", Acts(process, process', route, s, u, action, added)
  PROVE  StepsAreEarned'
<1>1. PICK p \in Process, q \in Process, r \in Routes :
        p = process /\ q = process' /\ r = route /\ r = route'
  BY DEF RuntimeInv, TypeOK
<1>2. p.task[<<s, u>>] = "active" /\ Acts(p, q, r, s, u, action, added)
  BY <1>1
<1>3. ASSUME NEW x \in Step, NEW t \in Step, TurnedTo(x, t) PROVE TurnedTo(x, t)'
  <2>1. PICK turn \in {"return", "reject", "cancel"} :
          r.goto[<<x, turn>>] = t /\ With(p, x, Verdict(turn)) # {}
    BY <1>1, <1>3 DEF TurnedTo
  <2>2. Verdict(turn) \in Decision
    BY VerdictIs DEF Action
  <2>3. With(p, x, Verdict(turn)) \subseteq With(q, x, Verdict(turn))
    BY <1>2, <2>2, DecisionsKept
  <2> QED
    BY <1>1, <2>1, <2>3 DEF TurnedTo
<1>4. ASSUME NEW x \in Step, NEW t \in Step, ApprovedTo(x, t) PROVE ApprovedTo(x, t)'
  <2>1. r.goto[<<x, "approve">>] = t /\ Cardinality(With(p, x, "completed")) >= r.required[x]
    BY <1>1, <1>4 DEF ApprovedTo
  <2>2. r.required[x] \in Nat /\ "completed" \in Decision
    BY RouteFields DEF Decision
  <2>3. /\ Cardinality(With(p, x, "completed")) \in Nat /\ Cardinality(With(q, x, "completed")) \in Nat
        /\ Cardinality(With(q, x, "completed")) >= Cardinality(With(p, x, "completed"))
    BY <1>2, <2>2, DecisionsKept
  <2>4. Cardinality(With(q, x, "completed")) >= r.required[x]
    BY <2>1, <2>2, <2>3
  <2> QED
    BY <1>1, <2>1, <2>4 DEF ApprovedTo
<1>5. ASSUME ~Waits(p, r, s, u, action), q.phase = r.goto[<<s, action>>]
      PROVE  TurnedTo(s, q.phase)' \/ (ApprovedTo(s, q.phase)' /\ Ready(q, r, s))
  <2>1. CASE action = "approve"
    <3>1. Ready(q, r, s)
      BY <1>2, <1>5, <2>1, ReadyAfter
    <3> QED
      BY <1>1, <1>5, <2>1, <3>1 DEF ApprovedTo, Ready
  <2>2. CASE action # "approve"
    <3>1. u \in With(q, s, Verdict(action))
      BY <1>2, TaskByTask DEF With
    <3>2. action \in {"return", "reject", "cancel"}
      BY <2>2 DEF Action
    <3> QED
      BY <1>1, <1>5, <3>1, <3>2 DEF TurnedTo
  <2> QED
    BY <2>1, <2>2
<1>6. \/ added = {} /\ q.phase = p.phase
      \/ ~Waits(p, r, s, u, action) /\ q.phase = r.goto[<<s, action>>]
  BY <1>2 DEF Acts
<1>7. \A x \in Step, v \in User :
        q.task[<<x, v>>] # "none" => p.task[<<x, v>>] # "none" \/ (x = q.phase /\ added # {})
  BY <1>2, TaskByTask
<1>8. ASSUME NEW t \in Step, t # r.first, \E v \in User : q.task[<<t, v>>] # "none"
      PROVE  \E x \in Step : TurnedTo(x, t)' \/ ApprovedTo(x, t)'
  <2>1. CASE \E v \in User : p.task[<<t, v>>] # "none"
    <3>1. \E x \in Step : TurnedTo(x, t) \/ ApprovedTo(x, t)
      BY <1>1, <1>8, <2>1 DEF RuntimeInv, StepsAreEarned
    <3> QED
      BY <1>3, <1>4, <3>1
  <2>2. CASE t = q.phase /\ added # {}
    BY <1>5, <1>6, <2>2
  <2> QED
    BY <1>7, <1>8, <2>1, <2>2
<1>9. ASSUME q.phase # r.first
      PROVE  \E x \in Step : TurnedTo(x, q.phase)' \/ (ApprovedTo(x, q.phase)' /\ Ready(q, r, x))
  <2>1. CASE added = {} /\ q.phase = p.phase
    <3>1. PICK x \in Step : TurnedTo(x, p.phase) \/ (ApprovedTo(x, p.phase) /\ Ready(p, r, x))
      BY <1>1, <1>9, <2>1 DEF RuntimeInv, StepsAreEarned
    <3>2. p.phase \in Step
      BY ProcessFields
    <3>3. Ready(p, r, x) => Ready(q, r, x)
      BY <1>2, <2>1, ReadyStays
    <3> QED
      BY <1>3, <1>4, <2>1, <3>1, <3>2, <3>3
  <2> QED
    BY <1>5, <1>6, <2>1
<1> QED
  BY <1>1, <1>8, <1>9 DEF StepsAreEarned

LEMMA CommitActKeeps ==
  ASSUME RuntimeInv, NEW x \in Session, CommitAct(x)
  PROVE  RuntimeInv' /\ DecisionsGrow
<1>1. process \in Process /\ route \in Routes /\ holders \in [Step -> SUBSET User]
  BY DEF RuntimeInv, TypeOK
<1>2. PICK s \in Step, u \in User, action \in Action :
        /\ s = session[x].step /\ u = session[x].user /\ action = session[x].action
        /\ process.task[<<s, u>>] = "active"
  BY LockedFields DEF CommitAct, RuntimeInv, LockedTasksAreActive
<1>3. PICK q \in Process, added \in SUBSET User :
        q = process' /\ Acts(process, q, route, s, u, action, added)
  BY <1>1, <1>2, ActedActs DEF CommitAct
<1>4. route' = route /\ holders' = holders
  BY DEF CommitAct
<1>5. DecisionsGrow
  BY <1>1, <1>2, <1>3, DecisionsKept DEF DecisionsGrow
<1>6. Enough(process', route')
  BY <1>1, <1>2, <1>3, <1>4, EnoughKept DEF RuntimeInv
<1>7. StepsAreEarned'
  BY <1>2, <1>3, <1>4, EarnedKept
<1>8. /\ session' \in [Session -> Locked \cup {NoTask}]
      /\ \A y \in Session : session'[y] # NoTask =>
           /\ session'[y] = session[y]
           /\ process'.task[<<session[y].step, session[y].user>>] = "active"
  BY DEF CommitAct, RuntimeInv, TypeOK
<1>9. TypeOK'
  BY <1>1, <1>3, <1>4, <1>8 DEF TypeOK
<1>10. LockedTasksAreActive'
  BY <1>8 DEF LockedTasksAreActive
<1> QED
  BY <1>4, <1>5, <1>6, <1>7, <1>9, <1>10 DEF RuntimeInv, Enough

LEMMA ReassignKeeps ==
  ASSUME RuntimeInv, NEW u \in User, NEW v \in User, Reassign(u, v)
  PROVE  RuntimeInv' /\ DecisionsGrow
<1>1. PICK p \in Process, r \in Routes : p = process /\ r = route /\ r = route'
  BY DEF RuntimeInv, TypeOK, Reassign
<1>2. PICK s \in Step :
        /\ p.task[<<s, u>>] # "none" /\ p.task[<<s, v>>] = "none" /\ LockedBy(s, u) = {}
        /\ process' = [p EXCEPT !.task[<<s, v>>] = p.task[<<s, u>>], !.task[<<s, u>>] = "none"]
  BY <1>1 DEF Reassign
<1>3. PICK q \in Process :
        q = process' /\ q.phase = p.phase /\ q.status = p.status /\ HandedOver(p, q, s, u, v)
  BY <1>2, ReassignedIs
<1>4. ASSUME NEW x \in Step, NEW d \in {"active"} \cup Decision
      PROVE  /\ Cardinality(With(q, x, d)) = Cardinality(With(p, x, d))
             /\ Cardinality(With(p, x, d)) \in Nat
             /\ With(q, x, d) = {} <=> With(p, x, d) = {}
  BY <1>2, <1>3, CountsStay
<1>5. DecisionsGrow
  <2> SUFFICES ASSUME NEW x \in Step, NEW d \in Decision
               PROVE  Cardinality(With(q, x, d)) >= Cardinality(With(p, x, d))
    BY <1>1, <1>3 DEF DecisionsGrow
  <2>1. Cardinality(With(q, x, d)) = Cardinality(With(p, x, d)) /\ Cardinality(With(p, x, d)) \in Nat
    BY <1>4
  <2>2. PICK n \in Nat : n = Cardinality(With(p, x, d))
    BY <2>1
  <2>3. n >= n
    BY <2>2
  <2> QED
    BY <2>1, <2>2, <2>3
<1>6. TypeOK'
  BY <1>3 DEF RuntimeInv, TypeOK, Reassign
<1>7. LockedTasksAreActive'
  <2> SUFFICES ASSUME NEW x \in Session, session[x] # NoTask
               PROVE  q.task[<<session[x].step, session[x].user>>] = "active"
    BY <1>3 DEF LockedTasksAreActive, Reassign
  <2>1. PICK y \in Step, w \in User : y = session[x].step /\ w = session[x].user
    BY LockedFields DEF RuntimeInv
  <2>2. p.task[<<y, w>>] = "active"
    BY <1>1, <2>1 DEF RuntimeInv, LockedTasksAreActive
  <2>3. ~(y = s /\ w = u)
    BY <1>2, <2>1 DEF LockedBy
  <2>4. ~(y = s /\ w = v)
    BY <1>2, <2>2
  <2> QED
    BY <1>3, <2>1, <2>2, <2>3, <2>4 DEF HandedOver
<1>8. Enough(q, r)
  <2>1. p.phase \in Step
    BY ProcessFields
  <2>2. PICK D : D = {"active", "completed"}
    OBVIOUS
  <2>3. "none" \notin D
    BY <2>2
  <2>4. Cardinality(Having(q, p.phase, D)) = Cardinality(Having(p, p.phase, D))
    BY <1>2, <1>3, <2>1, <2>3, HandsChanged
  <2> QED
    BY <1>1, <1>3, <1>4, <2>1, <2>2, <2>4 DEF RuntimeInv, Enough
<1>9. ASSUME NEW x \in Step, NEW t \in Step
      PROVE  /\ TurnedTo(x, t) => TurnedTo(x, t)'
             /\ ApprovedTo(x, t) => ApprovedTo(x, t)'
             /\ Ready(p, r, x) => Ready(q, r, x)
  <2>1. \A turn \in {"return", "reject", "cancel"} : Verdict(turn) \in Decision
    BY VerdictIs DEF Action
  <2>2. TurnedTo(x, t) => TurnedTo(x, t)'
    BY <1>1, <1>3, <1>4, <2>1 DEF TurnedTo
  <2>3. Cardinality(With(q, x, "completed")) = Cardinality(With(p, x, "completed"))
    BY <1>4 DEF Decision
  <2>4. With(q, x, "active") = {} <=> With(p, x, "active") = {}
    BY <1>4
  <2> QED
    BY <1>1, <1>3, <2>2, <2>3, <2>4 DEF ApprovedTo, Ready
<1>10. ASSUME NEW t \in Step, t # r.first, \E w \in User : q.task[<<t, w>>] # "none"
       PROVE  \E x \in Step : TurnedTo(x, t)' \/ ApprovedTo(x, t)'
  <2>1. \E w \in User : p.task[<<t, w>>] # "none"
    BY <1>2, <1>3, <1>10 DEF HandedOver
  <2>2. \E x \in Step : TurnedTo(x, t) \/ ApprovedTo(x, t)
    BY <1>1, <1>10, <2>1 DEF RuntimeInv, StepsAreEarned
  <2> QED
    BY <1>9, <2>2
<1>11. ASSUME p.phase # r.first
       PROVE  \E x \in Step : TurnedTo(x, p.phase)' \/ (ApprovedTo(x, p.phase)' /\ Ready(q, r, x))
  <2>1. p.phase \in Step
    BY ProcessFields
  <2>2. \E x \in Step : TurnedTo(x, p.phase) \/ (ApprovedTo(x, p.phase) /\ Ready(p, r, x))
    BY <1>1, <1>11 DEF RuntimeInv, StepsAreEarned
  <2> QED
    BY <1>9, <2>1, <2>2
<1>12. StepsAreEarned'
  BY <1>1, <1>3, <1>10, <1>11 DEF StepsAreEarned
<1> QED
  BY <1>1, <1>3, <1>5, <1>6, <1>7, <1>8, <1>12 DEF RuntimeInv, Enough

\* Nothing but sessions or roles: the process is as it was.
LEMMA ProcessUntouched ==
  ASSUME RuntimeInv, process' = process, route' = route, TypeOK', LockedTasksAreActive'
  PROVE  RuntimeInv' /\ DecisionsGrow
<1>1. StepsAreEarned'
  BY DEF RuntimeInv, StepsAreEarned, TurnedTo, ApprovedTo
<1>2. Enough(process', route')
  BY DEF RuntimeInv, Enough
<1>3. ASSUME NEW s \in Step, NEW d \in Decision
      PROVE  Cardinality(With(process', s, d)) >= Cardinality(With(process, s, d))
  <2>1. Cardinality(With(process, s, d)) \in Nat
    BY Finite DEF With
  <2> QED
    BY <2>1
<1> QED
  BY <1>1, <1>2, <1>3 DEF RuntimeInv, DecisionsGrow, Enough

LEMMA StepKeeps ==
  ASSUME RuntimeInv, [Next]_vars
  PROVE  RuntimeInv' /\ DecisionsGrow
<1>1. TypeOK /\ LockedTasksAreActive
  BY DEF RuntimeInv
<1>2. ASSUME NEW x \in Session, BeginAct(x) PROVE RuntimeInv' /\ DecisionsGrow
  <2>1. PICK s \in Step, u \in User : \E action \in route.allowed[s] :
          /\ process.task[<<s, u>>] = "active"
          /\ session' = [session EXCEPT ![x] = [step |-> s, user |-> u, action |-> action]]
    BY <1>2 DEF BeginAct
  <2>2. PICK action \in Action :
          session' = [session EXCEPT ![x] = [step |-> s, user |-> u, action |-> action]]
    BY <1>1, <2>1, RouteFields DEF TypeOK
  <2>3. process.task[<<s, u>>] = "active"
    BY <2>1
  <2>4. PICK a \in Locked : a = [step |-> s, user |-> u, action |-> action]
    BY DEF Locked
  <2>5. session' = [session EXCEPT ![x] = a] /\ a.step = s /\ a.user = u
    BY <2>2, <2>4
  <2>6. process' = process /\ route' = route /\ holders' = holders
    BY <1>2 DEF BeginAct
  <2>7. TypeOK' /\ LockedTasksAreActive'
    BY <1>1, <2>3, <2>5, <2>6 DEF TypeOK, LockedTasksAreActive
  <2> QED
    BY <2>6, <2>7, ProcessUntouched
<1>3. ASSUME NEW x \in Session, Rollback(x) PROVE RuntimeInv' /\ DecisionsGrow
  <2>1. process' = process /\ route' = route /\ holders' = holders
    BY <1>3 DEF Rollback
  <2>2. TypeOK' /\ LockedTasksAreActive'
    BY <1>1, <1>3 DEF Rollback, TypeOK, LockedTasksAreActive
  <2> QED
    BY <2>1, <2>2, ProcessUntouched
<1>4. CASE ChangeRoles
  <2>1. process' = process /\ route' = route /\ session' = session
    BY <1>4 DEF ChangeRoles
  <2>2. TypeOK' /\ LockedTasksAreActive'
    BY <1>1, <1>4, HoldersAssumption DEF ChangeRoles, TypeOK, LockedTasksAreActive
  <2> QED
    BY <2>1, <2>2, ProcessUntouched
<1>5. CASE UNCHANGED vars
  <2>1. process' = process /\ route' = route /\ session' = session /\ holders' = holders
    BY <1>5 DEF vars
  <2>2. TypeOK' /\ LockedTasksAreActive'
    BY <1>1, <2>1 DEF TypeOK, LockedTasksAreActive
  <2> QED
    BY <2>1, <2>2, ProcessUntouched
<1> QED
  BY <1>2, <1>3, <1>4, <1>5, CommitActKeeps, ReassignKeeps DEF Next

---------------------------------------------------------------------------
(* Theorems *)

\* The state stays well formed; a task that an open act_task holds stays active until it
\* commits; the phase of an active process has a task to act on and, with the completed
\* ones, as many as it requires.
THEOREM RuntimeInvariant == Spec => [](TypeOK /\ RuntimeInv)
<1>1. RuntimeInv => TypeOK
  BY DEF RuntimeInv
<1> QED
  BY <1>1, InitInv, StepKeeps, PTL DEF Spec

\* An active process has a task somebody can act on, however many approvers decide at
\* once, whoever the tasks are reassigned to and whatever becomes of the roles.
THEOREM ActiveProcessGoesOn == Spec => []ActiveHasTask
<1>1. ASSUME RuntimeInv PROVE ActiveHasTask
  <2>1. process.phase \in Step
    BY <1>1, ProcessFields DEF RuntimeInv, TypeOK
  <2> QED
    BY <1>1, <2>1 DEF RuntimeInv, Enough, ActiveHasTask
<1> QED
  BY <1>1, InitInv, StepKeeps, PTL DEF Spec

\* No step is entered but from one that has its approvals, or was turned the other way.
THEOREM NoStepIsSkipped == Spec => []StepsAreEarned
<1>1. RuntimeInv => StepsAreEarned
  BY DEF RuntimeInv
<1> QED
  BY <1>1, InitInv, StepKeeps, PTL DEF Spec

\* Decisions are not lost, to a sweep of siblings, a reassignment or another act_task.
THEOREM DecisionsAreFinal == Spec => DecisionsStay
<1>1. DecisionsGrow <=> \A s \in Step, d \in Decision :
                         Cardinality(With(process', s, d)) >= Cardinality(With(process, s, d))
  BY DEF DecisionsGrow
<1>2. RuntimeInv /\ [Next]_vars =>
        RuntimeInv' /\ [\A s \in Step, d \in Decision :
                         Cardinality(With(process', s, d)) >= Cardinality(With(process, s, d))]_vars
  BY <1>1, StepKeeps
<1> QED
  BY <1>2, InitInv, PTL DEF Spec, DecisionsStay
==========================================================================
