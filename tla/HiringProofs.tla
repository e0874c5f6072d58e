--------------------------- MODULE HiringProofs ---------------------------
(***************************************************************************)
(* Proofs about the two ways a candidate is hired.  Regulated hiring: the    *)
(* case and its form are proved apart, each by an invariant of its own on    *)
(* top of the type invariant.  Recruitment: the reviews, as values of the    *)
(* linked process, then the chain from the request to the hiring case.       *)
(***************************************************************************)
EXTENDS RegulatedHiring, Recruitment, SequenceTheorems, FiniteSetTheorems, TLAPS

---------------------------------------------------------------------------
(* Regulated hiring *)

\* Deciding the newest execution changes it and nothing else.
LEMMA NewestDecided ==
  ASSUME NEW T, NEW q \in Seq(T), q # << >>, NEW v \in T,
         NEW r, r = [q EXCEPT ![Len(q)] = v]
  PROVE  /\ r \in Seq(T) /\ Len(r) = Len(q) /\ r # << >>
         /\ r[Len(r)] = v
         /\ \A n \in 1..(Len(q) - 1) : r[n] = q[n]
<1>1. Len(q) \in Nat \ {0}
  BY EmptySeq
<1>2. r \in Seq(T) /\ Len(r) = Len(q) /\ \A j \in 1..Len(q) : r[j] = IF j = Len(q) THEN v ELSE q[j]
  BY <1>1, ExceptSeq
<1>3. r[Len(r)] = v
  BY <1>1, <1>2
<1>4. \A n \in 1..(Len(q) - 1) : r[n] = q[n]
  <2> TAKE n \in 1..(Len(q) - 1)
  <2>1. n \in 1..Len(q) /\ n # Len(q)
    BY <1>1
  <2> QED
    BY <1>2, <2>1
<1>5. r # << >>
  BY <1>1, <1>2, EmptySeq
<1> QED
  BY <1>2, <1>3, <1>4, <1>5

\* Every action is decided as one of the statuses of an execution.
LEMMA DecidedType ==
  ASSUME NEW action \in {"approve", "return", "reject", "cancel"}
  PROVE  /\ Decided(action) \in StageStatus \ {"active"}
         /\ action \in {"reject", "cancel"} => Decided(action) \notin Open \cup {"completed"}
BY DEF Decided, StageStatus, Open

\* Closing the active execution of a case.
LEMMA ClosedCurrent ==
  ASSUME TypeOK, CanAct, NEW action \in {"approve", "return", "reject", "cancel"}
  PROVE  /\ Closed(action) \in [Stage -> Seq(StageStatus)]
         /\ \A s \in Stage : s # Current => Closed(action)[s] = executions[s]
         /\ Closed(action)[Current] # << >>
         /\ Len(Closed(action)[Current]) = Len(executions[Current])
         /\ Newest(Closed(action)[Current]) = Decided(action)
         /\ \A n \in 1..(Len(executions[Current]) - 1) :
              Closed(action)[Current][n] = executions[Current][n]
<1> DEFINE q == executions[Current]
           r == [q EXCEPT ![Len(q)] = Decided(action)]
<1>1. Current \in Stage /\ q \in Seq(StageStatus) /\ q # << >>
  BY DEF TypeOK, Current, CanAct
<1>2. Decided(action) \in StageStatus
  BY DecidedType
<1>3. Closed(action) = [executions EXCEPT ![Current] = r]
  BY DEF Closed
<1>4. /\ r \in Seq(StageStatus) /\ Len(r) = Len(q) /\ r # << >>
      /\ r[Len(r)] = Decided(action)
      /\ \A n \in 1..(Len(q) - 1) : r[n] = q[n]
  BY <1>1, <1>2, NewestDecided
<1>5. executions \in [Stage -> Seq(StageStatus)]
  BY DEF TypeOK
<1>6. Closed(action)[Current] = r /\ \A s \in Stage : s # Current => Closed(action)[s] = executions[s]
  BY <1>1, <1>3, <1>5
<1>7. Closed(action) \in [Stage -> Seq(StageStatus)]
  BY <1>1, <1>3, <1>4, <1>5
<1> HIDE DEF q, r
<1> QED
  BY <1>4, <1>6, <1>7 DEF Newest, q

\* The decision of the active execution leaves none active.
LEMMA NoneActiveOnceClosed ==
  ASSUME TypeOK, OneActiveExecution, CanAct, NEW action \in {"approve", "return", "reject", "cancel"}
  PROVE  \A s \in Stage : \A n \in 1..Len(Closed(action)[s]) : Closed(action)[s][n] # "active"
<1> SUFFICES ASSUME NEW s \in Stage, NEW n \in 1..Len(Closed(action)[s])
             PROVE  Closed(action)[s][n] # "active"
  OBVIOUS
<1>1. CASE s # Current
  <2>1. Closed(action)[s] = executions[s]
    BY <1>1, ClosedCurrent
  <2> QED
    BY <1>1, <2>1 DEF OneActiveExecution
<1>2. CASE s = Current
  <2>1. executions[s] \in Seq(StageStatus) /\ Len(executions[s]) \in Nat
    BY LenProperties DEF TypeOK
  <2>2. CASE n = Len(executions[s])
    BY <1>2, <2>2, ClosedCurrent, DecidedType DEF Newest
  <2>3. CASE n \in 1..(Len(executions[s]) - 1)
    <3>1. Closed(action)[s][n] = executions[s][n]
      BY <1>2, <2>3, ClosedCurrent
    <3>2. executions[s][n] # "active"
      BY <2>1, <2>3 DEF OneActiveExecution
    <3> QED
      BY <3>1, <3>2
  <2> QED
    BY <1>2, <2>1, <2>2, <2>3, ClosedCurrent
<1> QED
  BY <1>1, <1>2

\* The version recorded follows the ones there, of which only the last can change, from
\* signed to superseded.
LEMMA FormGrows ==
  ASSUME TypeOK, NEW x \in Session, NEW signed \in BOOLEAN, NEW reason \in {"given", "none"},
         RecordForm(x, signed, reason)
  PROVE  /\ form' \in Seq(Record)
         /\ Len(form) \in Nat /\ Len(form') = Len(form) + 1
         /\ form'[Len(form')] = [status |-> IF signed THEN "signed" ELSE "draft", reason |-> reason]
         /\ \A n \in 1..Len(form) : form'[n] = Replaced(signed)[n]
<1> DEFINE new == [status |-> IF signed THEN "signed" ELSE "draft", reason |-> reason]
<1>1. form \in Seq(Record) /\ Len(form) \in Nat
  BY LenProperties DEF TypeOK
<1>2. \A n \in 1..Len(form) : form[n] \in Record /\ [form[n] EXCEPT !.status = "superseded"] \in Record
  <2> TAKE n \in 1..Len(form)
  <2>1. form[n] \in Record
    BY <1>1, ElementOfSeq
  <2> QED
    BY <2>1 DEF Record
<1>3. Replaced(signed) \in [1..Len(form) -> Record]
  BY <1>2 DEF Replaced
<1>4. Replaced(signed) \in Seq(Record) /\ Len(Replaced(signed)) = Len(form)
  BY <1>1, <1>3, SeqDef, LenProperties
<1>5. new \in Record
  BY DEF Record
<1>6. form' = Append(Replaced(signed), new)
  BY DEF RecordForm
<1> HIDE DEF new
<1>7. /\ form' \in Seq(Record)
      /\ Len(form') = Len(Replaced(signed)) + 1
      /\ \A n \in 1..Len(Replaced(signed)) : form'[n] = Replaced(signed)[n]
      /\ form'[Len(Replaced(signed)) + 1] = new
  BY <1>4, <1>5, <1>6, AppendProperties
<1> QED
  BY <1>1, <1>4, <1>7 DEF new

LEMMA InitType == Init => TypeOK
<1> SUFFICES ASSUME Init PROVE TypeOK
  OBVIOUS
<1>1. 0 \in Stage
  BY StagesAssumption DEF Stage
<1>2. executions \in [Stage -> Seq(StageStatus)]
  BY DEF Init, StageStatus
<1>3. form \in Seq(Record)
  BY DEF Init
<1> QED
  BY <1>1, <1>2, <1>3 DEF Init, TypeOK, StageStatus

LEMMA StepType == TypeOK /\ [Next]_vars => TypeOK'
<1> SUFFICES ASSUME TypeOK, [Next]_vars PROVE TypeOK'
  OBVIOUS
<1>0. /\ \A action \in {"approve", "return", "reject", "cancel"} :
           CanAct => Closed(action) \in [Stage -> Seq(StageStatus)]
      /\ Current \in Stage
  BY ClosedCurrent DEF TypeOK, Current
<1>1. CASE Approve
  <2>1. Current + 1 \in Stage /\ <<"active">> \in Seq(StageStatus)
    BY <1>0, <1>1, StagesAssumption DEF Approve, Stage, StageStatus
  <2>2. executions' \in [Stage -> Seq(StageStatus)]
    BY <1>0, <1>1, <2>1 DEF Approve
  <2> QED
    BY <1>1, <2>1, <2>2 DEF Approve, TypeOK, StageStatus
<1>2. CASE ApproveLast
  <2>1. executions' \in [Stage -> Seq(StageStatus)]
    BY <1>0, <1>2 DEF ApproveLast
  <2> QED
    BY <1>2, <2>1 DEF ApproveLast, TypeOK, StageStatus
<1>3. ASSUME NEW to \in Stage, Return(to) PROVE TypeOK'
  <2>1. Closed("return") \in [Stage -> Seq(StageStatus)]
    BY <1>0, <1>3 DEF Return
  <2>2. Append(Closed("return")[to], "active") \in Seq(StageStatus)
    BY <2>1, AppendProperties DEF StageStatus
  <2>3. executions' \in [Stage -> Seq(StageStatus)]
    BY <1>3, <2>1, <2>2 DEF Return
  <2> QED
    BY <1>3, <2>3 DEF Return, TypeOK, StageStatus
<1>4. ASSUME NEW action \in {"reject", "cancel"}, Terminate(action) PROVE TypeOK'
  <2>1. executions' \in [Stage -> Seq(StageStatus)]
    BY <1>0, <1>4 DEF Terminate
  <2> QED
    BY <1>4, <2>1, DecidedType DEF Terminate, TypeOK
<1>5. ASSUME NEW x \in Session, Query(x) \/ Fail(x) PROVE TypeOK'
  <2>1. Len(form) \in Nat
    BY LenProperties DEF TypeOK
  <2> QED
    BY <1>5, <2>1 DEF Query, Fail, TypeOK
<1>6. ASSUME NEW x \in Session, NEW signed \in BOOLEAN, NEW reason \in {"given", "none"},
             RecordForm(x, signed, reason)
      PROVE  TypeOK'
  <2>1. form' \in Seq(Record)
    BY <1>6, FormGrows
  <2> QED
    BY <1>6, <2>1 DEF RecordForm, TypeOK
<1>7. CASE UNCHANGED vars
  BY <1>7 DEF vars, TypeOK
<1> QED
  BY <1>1, <1>2, <1>3, <1>4, <1>5, <1>6, <1>7 DEF Next

\* Every variable of a case and its form keeps its type.
THEOREM TypeCorrect == Spec => []TypeOK
  BY InitType, StepType, PTL DEF Spec

\* An open case waits at its current stage only, with every earlier stage approved last,
\* and a decided case waits nowhere.
THEOREM CaseInvariant == Spec => []CaseInv
<1>1. Init => CaseInv
  <2> SUFFICES ASSUME Init PROVE CaseInv
    OBVIOUS
  <2>1. TypeOK
    BY InitType
  <2>2. OneActiveExecution
    <3>1. \A s \in Stage : executions[s] = IF s = 0 THEN <<"active">> ELSE << >>
      BY DEF Init
    <3> QED
      BY <3>1 DEF Init, OneActiveExecution, Current, Open
  <2>3. PassedStages
    BY StagesAssumption DEF Init, PassedStages, Current, Stage
  <2> QED
    BY <2>1, <2>2, <2>3 DEF Init, CaseInv, CompletedCasePassedEveryStage
<1>2. CaseInv /\ [Next]_vars => CaseInv'
  <2> SUFFICES ASSUME CaseInv, [Next]_vars PROVE CaseInv'
    OBVIOUS
  <2>t. TypeOK /\ TypeOK' /\ OneActiveExecution /\ PassedStages /\ CompletedCasePassedEveryStage
    BY StepType DEF CaseInv
  <2>c. /\ Current \in Stage /\ case.stage = Current
        /\ \A s \in Stage : executions[s] \in Seq(StageStatus) /\ Len(executions[s]) \in Nat
    BY <2>t, LenProperties DEF TypeOK, Current
  <2>1. CASE Approve
    <3> DEFINE R == Closed("approve")
    <3>1. CanAct /\ Current + 1 \in Stage /\ Current # Current + 1
      BY <2>1, <2>c, StagesAssumption DEF Approve, Stage
    <3>2. /\ R \in [Stage -> Seq(StageStatus)]
          /\ \A s \in Stage : s # Current => R[s] = executions[s]
          /\ R[Current] # << >> /\ Newest(R[Current]) = "completed"
          /\ \A s \in Stage : \A n \in 1..Len(R[s]) : R[s][n] # "active"
      BY <2>t, <3>1, ClosedCurrent, NoneActiveOnceClosed DEF Decided
    <3> HIDE DEF R
    <3>3. /\ executions' = [R EXCEPT ![Current + 1] = <<"active">>]
          /\ case' = [status |-> "active", stage |-> Current + 1]
      BY <2>1 DEF Approve, R
    <3>4. /\ executions'[Current + 1] = <<"active">>
          /\ \A s \in Stage : s # Current + 1 => executions'[s] = R[s]
          /\ case'.status = "active" /\ Current' = Current + 1
      BY <3>1, <3>2, <3>3 DEF Current
    <3>5. OneActiveExecution'
      <4> SUFFICES ASSUME NEW s \in Stage, NEW n \in 1..Len(executions'[s])
                   PROVE  executions'[s][n] = "active" <=> s = Current + 1 /\ n = Len(executions'[s])
        BY <3>4 DEF OneActiveExecution, Open
      <4>1. CASE s = Current + 1
        <5>1. executions'[s] = <<"active">>
          BY <3>4, <4>1
        <5>2. Len(executions'[s]) = 1 /\ executions'[s][1] = "active"
          BY <5>1
        <5> QED
          BY <4>1, <5>2
      <4>2. CASE s # Current + 1
        BY <3>2, <3>4, <4>2
      <4> QED
        BY <4>1, <4>2
    <3>6. PassedStages'
      <4> SUFFICES ASSUME NEW s \in Stage, s < Current + 1
                   PROVE  executions'[s] # << >> /\ Newest(executions'[s]) = "completed"
        BY <3>4 DEF PassedStages, Newest
      <4>1. executions'[s] = R[s]
        BY <3>1, <3>4 DEF Stage
      <4>2. CASE s = Current
        BY <3>2, <4>1, <4>2
      <4>3. CASE s < Current
        BY <2>t, <3>1, <3>2, <4>1, <4>3 DEF PassedStages, CanAct, Stage
      <4> QED
        BY <2>c, <4>2, <4>3 DEF Stage
    <3> QED
      BY <2>t, <3>4, <3>5, <3>6 DEF CaseInv, CompletedCasePassedEveryStage
  <2>2. CASE ApproveLast
    <3> DEFINE R == Closed("approve")
    <3>1. CanAct /\ Current = Stages - 1
      BY <2>2 DEF ApproveLast
    <3>2. /\ R \in [Stage -> Seq(StageStatus)]
          /\ \A s \in Stage : s # Current => R[s] = executions[s]
          /\ R[Current] # << >> /\ Newest(R[Current]) = "completed"
          /\ \A s \in Stage : \A n \in 1..Len(R[s]) : R[s][n] # "active"
      BY <2>t, <3>1, ClosedCurrent, NoneActiveOnceClosed DEF Decided
    <3> HIDE DEF R
    <3>3. executions' = R /\ case'.status = "completed"
      BY <2>2, <2>t DEF ApproveLast, R, TypeOK
    <3>4. OneActiveExecution' /\ PassedStages'
      BY <3>2, <3>3 DEF OneActiveExecution, PassedStages, Open
    <3>5. CompletedCasePassedEveryStage'
      <4> SUFFICES ASSUME NEW s \in Stage
                   PROVE  executions'[s] # << >> /\ Newest(executions'[s]) = "completed"
        BY DEF CompletedCasePassedEveryStage, Newest
      <4>1. CASE s = Current
        BY <3>2, <3>3, <4>1
      <4>2. CASE s # Current
        <5>1. s < Current
          BY <3>1, <4>2, StagesAssumption DEF Stage
        <5> QED
          BY <2>t, <3>1, <3>2, <3>3, <4>2, <5>1 DEF PassedStages, CanAct
      <4> QED
        BY <4>1, <4>2
    <3> QED
      BY <2>t, <3>4, <3>5 DEF CaseInv
  <2>3. ASSUME NEW to \in Stage, Return(to) PROVE CaseInv'
    <3> DEFINE R == Closed("return")
    <3>1. CanAct /\ to < Current /\ to # Current
      BY <2>3, <2>c DEF Return, Stage
    <3>2. /\ R \in [Stage -> Seq(StageStatus)]
          /\ \A s \in Stage : s # Current => R[s] = executions[s]
          /\ \A s \in Stage : \A n \in 1..Len(R[s]) : R[s][n] # "active"
      BY <2>t, <3>1, ClosedCurrent, NoneActiveOnceClosed
    <3> HIDE DEF R
    <3>3. /\ executions' = [R EXCEPT ![to] = Append(@, "active")]
          /\ case' = [status |-> "returned", stage |-> to]
      BY <2>3 DEF Return, R
    <3>4. /\ executions'[to] = Append(R[to], "active")
          /\ \A s \in Stage : s # to => executions'[s] = R[s]
          /\ case'.status = "returned" /\ Current' = to
      BY <3>2, <3>3 DEF Current
    <3>5. /\ R[to] \in Seq(StageStatus) /\ Len(R[to]) \in Nat
          /\ Len(executions'[to]) = Len(R[to]) + 1
          /\ \A n \in 1..Len(R[to]) : executions'[to][n] = R[to][n]
          /\ executions'[to][Len(R[to]) + 1] = "active"
      <4>1. R[to] \in Seq(StageStatus) /\ "active" \in StageStatus
        BY <3>2 DEF StageStatus
      <4> QED
        BY <3>4, <4>1, AppendProperties, LenProperties
    <3>6. OneActiveExecution'
      <4> SUFFICES ASSUME NEW s \in Stage, NEW n \in 1..Len(executions'[s])
                   PROVE  executions'[s][n] = "active" <=> s = to /\ n = Len(executions'[s])
        BY <3>4 DEF OneActiveExecution, Open
      <4>1. CASE s # to
        BY <3>2, <3>4, <4>1
      <4>2. CASE s = to /\ n = Len(executions'[s])
        BY <3>5, <4>2
      <4>3. CASE s = to /\ n # Len(executions'[s])
        <5>1. n \in 1..Len(R[to])
          BY <3>5, <4>3
        <5> QED
          BY <3>2, <3>5, <4>3, <5>1
      <4> QED
        BY <4>1, <4>2, <4>3
    <3>7. PassedStages'
      <4> SUFFICES ASSUME NEW s \in Stage, s < to
                   PROVE  executions'[s] # << >> /\ Newest(executions'[s]) = "completed"
        BY <3>4 DEF PassedStages, Newest
      <4>1. s # to /\ s # Current /\ s < Current
        BY <2>c, <3>1 DEF Stage
      <4> QED
        BY <2>t, <3>1, <3>2, <3>4, <4>1 DEF PassedStages, CanAct
    <3> QED
      BY <2>t, <3>4, <3>6, <3>7 DEF CaseInv, CompletedCasePassedEveryStage
  <2>4. ASSUME NEW action \in {"reject", "cancel"}, Terminate(action) PROVE CaseInv'
    <3>1. CanAct /\ executions' = Closed(action) /\ case'.status = Decided(action)
      BY <2>4, <2>t DEF Terminate, TypeOK
    <3>2. Decided(action) \notin Open \cup {"completed"}
      BY DecidedType
    <3>3. \A s \in Stage : \A n \in 1..Len(executions'[s]) : executions'[s][n] # "active"
      BY <2>t, <3>1, NoneActiveOnceClosed
    <3> QED
      BY <2>t, <3>1, <3>2, <3>3
      DEF CaseInv, OneActiveExecution, PassedStages, CompletedCasePassedEveryStage
  <2>5. CASE UNCHANGED <<case, executions>>
    BY <2>t, <2>5
    DEF CaseInv, OneActiveExecution, PassedStages, CompletedCasePassedEveryStage, Current
  <2>6. Approve \/ ApproveLast \/ (\E to \in Stage : Return(to))
        \/ (\E action \in {"reject", "cancel"} : Terminate(action)) \/ UNCHANGED <<case, executions>>
    BY DEF Next, vars, Query, Fail, RecordForm
  <2> QED
    BY <2>1, <2>2, <2>3, <2>4, <2>5, <2>6
<1> QED
  BY <1>1, <1>2, PTL DEF Spec

\* Whatever was decided at the same time, an open case has one execution to decide.
THEOREM OneActive == Spec => []OneActiveExecution
<1>1. CaseInv => OneActiveExecution
  BY DEF CaseInv
<1> QED
  BY <1>1, CaseInvariant, PTL

\* A completed case was approved last at every stage, however many stages there are and
\* however often it was returned.
THEOREM CompletedPassed == Spec => []CompletedCasePassedEveryStage
<1>1. CaseInv => CompletedCasePassedEveryStage
  BY DEF CaseInv
<1> QED
  BY <1>1, CaseInvariant, PTL

\* The form: the last version may be signed, the others are not, and what follows a
\* superseded one has a reason.
THEOREM FormInvariant == Spec => []FormInv
<1>1. Init => FormInv
  <2> SUFFICES ASSUME Init PROVE FormInv
    OBVIOUS
  <2>1. TypeOK /\ form = << >>
    BY InitType DEF Init
  <2> QED
    BY <2>1 DEF FormInv, SignedFormIsNewest, CorrectionsHaveReasons
<1>2. FormInv /\ [Next]_vars => FormInv'
  <2> SUFFICES ASSUME FormInv, [Next]_vars PROVE FormInv'
    OBVIOUS
  <2>t. TypeOK /\ TypeOK' /\ SignedFormIsNewest /\ CorrectionsHaveReasons
    BY StepType DEF FormInv
  <2>1. ASSUME NEW x \in Session, NEW signed \in BOOLEAN, NEW reason \in {"given", "none"},
               RecordForm(x, signed, reason)
        PROVE  FormInv'
    <3> DEFINE k == Len(form)
    <3>1. /\ k \in Nat /\ Len(form') = k + 1
          /\ form'[k + 1] = [status |-> IF signed THEN "signed" ELSE "draft", reason |-> reason]
          /\ \A n \in 1..k : form'[n] = Replaced(signed)[n]
      BY <2>1, <2>t, FormGrows
    <3>2. \A n \in 1..k : form[n] \in Record
      BY <2>t, ElementOfSeq DEF TypeOK
    <3>3. form'[k + 1].status # "superseded" /\ form'[k + 1].reason = reason
      BY <3>1
    <3>4. \A n \in 1..k : n # k => form'[n] = form[n]
      BY <3>1 DEF Replaced
    <3>5. ASSUME k \in 1..k
          PROVE  /\ form'[k].status # "signed"
                 /\ form'[k].status = "superseded" =>
                      form[k].status = "superseded" \/ reason = "given"
      <4>1. Newest(form) = form[k] /\ form # << >>
        BY <3>5, EmptySeq DEF Newest
      <4>2. CASE form[k].status = "signed"
        <5>1. form'[k] = [form[k] EXCEPT !.status = "superseded"]
          BY <3>1, <3>5, <4>2 DEF Replaced
        <5>2. reason = "given"
          BY <2>1, <4>1, <4>2 DEF RecordForm, NeedsReason
        <5> QED
          BY <3>2, <3>5, <5>1, <5>2 DEF Record
      <4>3. CASE form[k].status # "signed"
        BY <3>1, <3>5, <4>3 DEF Replaced
      <4> QED
        BY <4>2, <4>3
    <3> HIDE DEF k
    <3>6. Len(form) = k
      BY DEF k
    <3>7. SignedFormIsNewest'
      <4> SUFFICES ASSUME NEW n \in 1..(k + 1), n # k + 1 PROVE form'[n].status # "signed"
        BY <3>1 DEF SignedFormIsNewest
      <4>1. n \in 1..k
        BY <3>1
      <4>2. CASE n = k
        BY <3>5, <4>1, <4>2
      <4>3. CASE n # k
        BY <2>t, <3>4, <3>6, <4>1, <4>3 DEF SignedFormIsNewest
      <4> QED
        BY <4>2, <4>3
    <3>8. CorrectionsHaveReasons'
      <4> SUFFICES ASSUME NEW n \in 1..(k + 1), form'[n].status = "superseded"
                   PROVE  n < k + 1 /\ form'[n + 1].reason = "given"
        BY <3>1 DEF CorrectionsHaveReasons
      <4>1. n \in 1..k
        BY <3>1, <3>3
      <4>2. CASE n = k
        <5>1. form[k].status # "superseded"
          BY <2>t, <3>1, <3>6, <4>1, <4>2 DEF CorrectionsHaveReasons
        <5> QED
          BY <3>1, <3>3, <3>5, <4>1, <4>2, <5>1
      <4>3. CASE n # k
        <5>1. n + 1 \in 1..k /\ form[n].status = "superseded"
          BY <3>1, <3>4, <4>1, <4>3
        <5>2. form[n + 1].reason = "given"
          BY <2>t, <3>6, <4>1, <5>1 DEF CorrectionsHaveReasons
        <5>3. CASE n + 1 # k
          BY <3>1, <3>4, <4>1, <5>1, <5>2, <5>3
        <5>4. CASE n + 1 = k
          <6>1. form'[k].reason = form[k].reason
            BY <3>1, <3>2, <3>6, <5>1, <5>4 DEF Replaced, Record
          <6> QED
            BY <3>1, <4>1, <5>2, <5>4, <6>1
        <5> QED
          BY <5>3, <5>4
      <4> QED
        BY <4>2, <4>3
    <3> QED
      BY <2>t, <3>7, <3>8 DEF FormInv
  <2>2. CASE UNCHANGED form
    BY <2>t, <2>2 DEF FormInv, SignedFormIsNewest, CorrectionsHaveReasons
  <2>3. UNCHANGED form \/ \E x \in Session, signed \in BOOLEAN, reason \in {"given", "none"} :
                            RecordForm(x, signed, reason)
    BY DEF Next, vars, Approve, ApproveLast, Return, Terminate, Query, Fail
  <2> QED
    BY <2>1, <2>2, <2>3
<1> QED
  BY <1>1, <1>2, PTL DEF Spec

\* A signed form is the newest one, whoever records versions at the same time.
THEOREM SignedNewest == Spec => []SignedFormIsNewest
<1>1. FormInv => SignedFormIsNewest
  BY DEF FormInv
<1> QED
  BY <1>1, FormInvariant, PTL

\* The version that replaced a signed one has a reason, whether it is signed or a draft.
THEOREM CorrectionsReasoned == Spec => []CorrectionsHaveReasons
<1>1. FormInv => CorrectionsHaveReasons
  BY DEF FormInv
<1> QED
  BY <1>1, FormInvariant, PTL

---------------------------------------------------------------------------
(* Recruitment *)

(* Reviews.  The linked process asks, or waits for the correction of, its phase only; a phase    *)
(* is reached by the completion of those before it, whose tasks nobody can act on any more.       *)

AtReview(p) == \A s \in ReviewStage : p.task[<<s, 1>>] \in {"active", "returned"} => s = p.phase

Passed(p) ==
  /\ p.phase # "hr_review" => p.task[<<"hr_review", 1>>] = "completed"
  /\ p.phase = "vacancy_management" => p.task[<<"staffing_review", 1>>] = "completed"

RequestInv ==
  /\ AtReview(process) /\ Passed(process)
  /\ request.review = "approved" => process.phase = "vacancy_management"
  /\ request.review = "approved" <=> request.status \in {"approved", "vacancy_created", "completed"}
  /\ vacancy.status # "none" => request.review = "approved"

(* Candidates.  Each step of the protocol is there because the one before it is: what later       *)
(* becomes of the application takes none of them back.                                            *)

Recommended(c) == \E k \in Commission : Quorate(k) /\ decision[c][k] = "recommended"

CandidateInv(c) ==
  /\ application[c] # "none" => request.review = "approved"
  /\ application[c] = "selected" => Recommended(c)
  /\ offer[c] # "none" => application[c] # "none" /\ Recommended(c)
  /\ hiring[c].status # "none" => offer[c] = "accepted"
  /\ hiring[c].employee <=> hiring[c].status = "completed"
  /\ hiring[c].status \in {"completed", "cancelled"} => hiring[c].process = hiring[c].status
  /\ hiring[c].status = "cancelled" => \A t \in Task : task[c][t] # "pending"
  /\ hiring[c].status = "completed" => \A t \in Task : task[c][t] \in {"none", "completed"}

(* Transactions between their two steps.  One that completes or cancels a case has it to itself,  *)
(* so no task is added to what it has read; tasks it has read may still be completed.             *)

Holds(x) == x.op \in {"complete", "cancel"}

HandlerInv(x) ==
  /\ x.op = "apply" => request.review = "approved"
  /\ x.op = "complete" => /\ hiring[x.candidate].status # "none"
                          /\ \A t \in Task : task[x.candidate][t] \in {"none", "completed"}
  /\ x.op = "cancel" => /\ hiring[x.candidate].status \notin {"none", "completed"}
                        /\ \A t \in Task : task[x.candidate][t] = "pending" => t \in x.pending

Apart(f) == \A s, x \in Handler : Holds(f[s]) /\ Holds(f[x]) /\ f[s].candidate = f[x].candidate => s = x

RecruitmentInv ==
  /\ RecruitmentTypeOK
  /\ RequestInv
  /\ \A c \in Candidate : CandidateInv(c)
  /\ \A s \in Handler : HandlerInv(session[s])
  /\ Apart(session)
LEMMA ProcessFields ==
  ASSUME NEW p \in Workflow!Process
  PROVE  /\ p.phase \in ReviewStage /\ p.status \in {"active", "configuration_error"} \cup Workflow!Terminal
         /\ p.task \in [ReviewStage \X {1} -> {"none", "active"} \cup Workflow!Decision]
         /\ \A s \in ReviewStage : <<s, 1>> \in ReviewStage \X {1} /\ p.task[<<s, 1>>] \in {"none", "active"} \cup Workflow!Decision
BY DEF Workflow!Process

\* A decision that stays in the phase leaves the reviews before it completed.
LEMMA PassedStays ==
  ASSUME NEW p \in Workflow!Process, NEW q \in Workflow!Process, Passed(p), q.phase = p.phase,
         \A x \in ReviewStage : x # p.phase /\ p.task[<<x, 1>>] = "completed" => q.task[<<x, 1>>] = "completed"
  PROVE  Passed(q)
BY ProcessFields DEF Passed, ReviewStage

\* The end of a linked process.
LEMMA ClosedAsks ==
  ASSUME NEW p \in Workflow!Process, NEW status \in Workflow!Terminal, AtReview(p), Passed(p)
  PROVE  \E q \in Workflow!Process :
           q = Workflow!Closed(p, status) /\ q.phase = p.phase /\ AtReview(q) /\ Passed(q)
<1>1. PICK tasks : tasks = [k \in ReviewStage \X {1} |-> IF p.task[k] = "active" THEN "cancelled" ELSE p.task[k]]
  OBVIOUS
<1>2. tasks \in [ReviewStage \X {1} -> {"none", "active"} \cup Workflow!Decision]
  BY <1>1, ProcessFields DEF Workflow!Decision
<1>3. PICK q : q = [p EXCEPT !.status = status, !.task = tasks]
  OBVIOUS
<1>4. q \in Workflow!Process /\ q.task = tasks /\ q.phase = p.phase
  BY <1>2, <1>3 DEF Workflow!Process
<1>5. \A s \in ReviewStage : q.task[<<s, 1>>] = IF p.task[<<s, 1>>] = "active" THEN "cancelled" ELSE p.task[<<s, 1>>]
  BY <1>1, <1>4
<1>6. q = Workflow!Closed(p, status)
  BY <1>1, <1>3 DEF Workflow!Closed
<1>7. AtReview(q)
  BY <1>4, <1>5 DEF AtReview
<1>8. Passed(q)
  BY <1>4, <1>5, PassedStays
<1> QED
  BY <1>4, <1>6, <1>7, <1>8

\* One decision on the task of the phase.
LEMMA RecordedIs ==
  ASSUME NEW p \in Workflow!Process, NEW s \in ReviewStage, NEW action \in Workflow!Action
  PROVE  \E q \in Workflow!Process :
           /\ q = Workflow!Recorded(p, s, 1, action) /\ q.phase = p.phase /\ q.status = p.status
           /\ q.task[<<s, 1>>] = Workflow!Verdict(action) /\ Workflow!Verdict(action) \in Workflow!Decision
           /\ \A x \in ReviewStage : x # s => q.task[<<x, 1>>] = p.task[<<x, 1>>]
<1>1. Workflow!Verdict(action) \in Workflow!Decision
  BY DEF Workflow!Verdict, Workflow!Decision, Workflow!Action
<1>2. PICK q : q = [p EXCEPT !.task[<<s, 1>>] = Workflow!Verdict(action)]
  OBVIOUS
<1>3. /\ q \in Workflow!Process /\ q.phase = p.phase /\ q.status = p.status
      /\ q.task = [p.task EXCEPT ![<<s, 1>>] = Workflow!Verdict(action)]
  BY <1>1, <1>2 DEF Workflow!Process
<1>4. \A x \in ReviewStage : q.task[<<x, 1>>] = IF x = s THEN Workflow!Verdict(action) ELSE p.task[<<x, 1>>]
  BY <1>3, ProcessFields
<1>5. q = Workflow!Recorded(p, s, 1, action)
  BY <1>2 DEF Workflow!Recorded
<1> QED
  BY <1>1, <1>3, <1>4, <1>5

LEMMA TasksAdded ==
  ASSUME NEW p \in Workflow!Process, NEW s \in ReviewStage, NEW users
  PROVE  \E q \in Workflow!Process :
           /\ q = Workflow!AddTasks(p, s, users) /\ q.phase = s
           /\ \A x \in ReviewStage : q.task[<<x, 1>>] = IF x = s /\ 1 \in users THEN "active" ELSE p.task[<<x, 1>>]
<1>1. PICK tasks : tasks = [k \in ReviewStage \X {1} |-> IF k[1] = s /\ k[2] \in users THEN "active" ELSE p.task[k]]
  OBVIOUS
<1>2. tasks \in [ReviewStage \X {1} -> {"none", "active"} \cup Workflow!Decision]
  BY <1>1, ProcessFields
<1>3. PICK q : q = [p EXCEPT !.phase = s, !.task = tasks]
  OBVIOUS
<1>4. q \in Workflow!Process /\ q.phase = s /\ q.task = tasks
  BY <1>2, <1>3 DEF Workflow!Process
<1>5. \A x \in ReviewStage : q.task[<<x, 1>>] = IF x = s /\ 1 \in users THEN "active" ELSE p.task[<<x, 1>>]
  BY <1>1, <1>4
<1>6. q = Workflow!AddTasks(p, s, users)
  BY <1>1, <1>3 DEF Workflow!AddTasks
<1> QED
  BY <1>4, <1>5, <1>6

\* The route of a request: one approval is enough, and leads on or to the end.
LEMMA RequestRouteIs ==
  /\ \A s \in ReviewStage : RequestRoute.required[s] = 1 /\ RequestRoute.mode[s] = "all"
  /\ RequestRoute.first = "hr_review"
  /\ \A s \in ReviewStage, action \in Workflow!Action :
       RequestRoute.goto[<<s, action>>] =
         IF action = "approve" /\ s = "hr_review" THEN "staffing_review"
         ELSE IF action = "approve" /\ s = "staffing_review" THEN "vacancy_management" ELSE "none"
  /\ \A s \in ReviewStage : Reviewers[s] = {1}
  /\ \A s \in ReviewStage : RequestRoute.allowed[s] \subseteq Workflow!Action
<1>1. \A k \in ReviewStage \X Workflow!Action : RequestRoute.goto[k] =
        CASE k = <<"hr_review", "approve">> -> "staffing_review"
          [] k = <<"staffing_review", "approve">> -> "vacancy_management"
          [] OTHER -> "none"
  BY DEF RequestRoute
<1>2. ASSUME NEW s \in ReviewStage, NEW action \in Workflow!Action
      PROVE  RequestRoute.goto[<<s, action>>] =
               IF action = "approve" /\ s = "hr_review" THEN "staffing_review"
               ELSE IF action = "approve" /\ s = "staffing_review" THEN "vacancy_management" ELSE "none"
  <2>1. <<s, action>> \in ReviewStage \X Workflow!Action
    OBVIOUS
  <2> QED
    BY <1>1, <2>1
<1>3. \A s \in ReviewStage : RequestRoute.required[s] = 1 /\ RequestRoute.mode[s] = "all" /\ Reviewers[s] = {1}
  BY DEF RequestRoute, Reviewers
<1>4. \A s \in ReviewStage : RequestRoute.allowed[s] = IF s = "vacancy_management" THEN {"approve", "return", "cancel"}
                                                       ELSE {"approve", "return", "reject"}
  BY DEF RequestRoute
<1>5. RequestRoute.first = "hr_review"
  BY DEF RequestRoute
<1> QED
  BY <1>2, <1>3, <1>4, <1>5 DEF Workflow!Action

\* Nothing waits: the one approval completes the step.
LEMMA NothingWaits ==
  ASSUME NEW p \in Workflow!Process, NEW s \in ReviewStage, NEW action \in Workflow!Action
  PROVE  ~Workflow!Waits(p, RequestRoute, s, 1, action)
<1> SUFFICES ASSUME action = "approve"
             PROVE  Workflow!Ready(Workflow!Recorded(p, s, 1, action), RequestRoute, s)
  BY DEF Workflow!Waits
<1>1. PICK q \in Workflow!Process :
        q = Workflow!Recorded(p, s, 1, action) /\ q.task[<<s, 1>>] = Workflow!Verdict(action)
  BY RecordedIs
<1>2. q.task[<<s, 1>>] = "completed"
  BY <1>1 DEF Workflow!Verdict
<1>3. Workflow!With(q, s, "completed") = {1} /\ Workflow!With(q, s, "active") = {}
  BY <1>2 DEF Workflow!With
<1>4. Workflow!Cardinality(Workflow!With(q, s, "completed")) = 1
  <2>1. Workflow!Cardinality({1}) = Cardinality({1})
    BY DEF Workflow!Cardinality, Cardinality
  <2> QED
    BY <1>3, <2>1, FS_Singleton
<1>5. RequestRoute.required[s] = 1 /\ RequestRoute.mode[s] = "all"
  BY RequestRouteIs
<1>6. Workflow!Ready(q, RequestRoute, s)
  BY <1>3, <1>4, <1>5 DEF Workflow!Ready
<1> QED
  BY <1>1, <1>6

\* A step of mode "all" leaves the tasks as they were recorded.
LEMMA SettledIs ==
  ASSUME NEW p, NEW s \in ReviewStage, NEW action
  PROVE  Workflow!Settled(p, RequestRoute, s, action) = p
BY RequestRouteIs DEF Workflow!Settled

\* act_task and act_linked_task on the task of the phase.
LEMMA ReviewActed ==
  ASSUME NEW p \in Workflow!Process, AtReview(p), Passed(p),
         NEW s \in ReviewStage, p.task[<<s, 1>>] = "active", NEW action \in Workflow!Action
  PROVE  /\ \E q \in Workflow!Process :
              /\ q = Workflow!Acted(p, RequestRoute, Reviewers, s, 1, action) /\ AtReview(q) /\ Passed(q)
              /\ p.phase = "vacancy_management" => q.phase = "vacancy_management"
         /\ \E q \in Workflow!Process :
              /\ q = Workflow!ActedLinked(p, RequestRoute, Reviewers, s, 1, action) /\ AtReview(q) /\ Passed(q)
              /\ p.phase = "vacancy_management" => q.phase = "vacancy_management"
              /\ action = "approve" /\ s = "staffing_review" => q.phase = "vacancy_management"
<1>1. s = p.phase /\ \A x \in ReviewStage : x # s => p.task[<<x, 1>>] \notin {"active", "returned"}
  BY DEF AtReview
<1>2. PICK r \in Workflow!Process :
        /\ r = Workflow!Recorded(p, s, 1, action) /\ r.phase = p.phase /\ r.status = p.status
        /\ r.task[<<s, 1>>] = Workflow!Verdict(action) /\ Workflow!Verdict(action) \in Workflow!Decision
        /\ \A x \in ReviewStage : x # s => r.task[<<x, 1>>] = p.task[<<x, 1>>]
  BY RecordedIs
<1>3. AtReview(r) /\ Passed(r)
  BY <1>1, <1>2, PassedStays DEF AtReview
<1>4. PICK t : t = RequestRoute.goto[<<s, action>>]
  OBVIOUS
<1>5. /\ t # "none" => /\ action = "approve" /\ t \in ReviewStage
                       /\ <<s, t>> \in {<<"hr_review", "staffing_review">>, <<"staffing_review", "vacancy_management">>}
      /\ action = "approve" /\ s = "staffing_review" => t = "vacancy_management"
  BY <1>4, RequestRouteIs DEF ReviewStage
<1>6. Workflow!Settled(r, RequestRoute, s, action) = r
  BY SettledIs
<1>7. ~Workflow!Waits(p, RequestRoute, s, 1, action)
  BY NothingWaits
<1>8. ASSUME t # "none"
      PROVE  /\ s = p.phase /\ p.phase # "vacancy_management" /\ r.task[<<s, 1>>] = "completed"
             /\ \A x \in ReviewStage : r.task[<<x, 1>>] \notin {"active", "returned"}
             /\ \A q \in Workflow!Process :
                  /\ q.phase = t
                  /\ \A x \in ReviewStage : x # t => q.task[<<x, 1>>] = r.task[<<x, 1>>]
                  => AtReview(q) /\ Passed(q)
  <2>1. r.task[<<s, 1>>] = "completed"
    BY <1>2, <1>5, <1>8 DEF Workflow!Verdict
  <2>2. \A x \in ReviewStage : r.task[<<x, 1>>] \notin {"active", "returned"}
    BY <1>1, <1>2, <2>1
  <2>3. t = "vacancy_management" => r.task[<<"hr_review", 1>>] = "completed" /\ s = "staffing_review"
    BY <1>1, <1>2, <1>3, <1>5, <1>8 DEF Passed
  <2>4. /\ t = "staffing_review" => r.task[<<"hr_review", 1>>] = "completed"
        /\ t = "vacancy_management" => r.task[<<"staffing_review", 1>>] = "completed"
        /\ t \in {"staffing_review", "vacancy_management"}
    BY <1>5, <1>8, <2>1
  <2>5. ASSUME NEW q \in Workflow!Process, q.phase = t,
               \A x \in ReviewStage : x # t => q.task[<<x, 1>>] = r.task[<<x, 1>>]
        PROVE  AtReview(q) /\ Passed(q)
    <3>1. AtReview(q)
      BY <2>2, <2>5 DEF AtReview
    <3>2. Passed(q)
      BY <2>3, <2>4, <2>5 DEF Passed, ReviewStage
    <3> QED
      BY <3>1, <3>2
  <2> QED
    BY <1>1, <1>5, <1>8, <2>1, <2>2, <2>5
<1>9. ASSUME t # "none", NEW users
      PROVE  \E q \in Workflow!Process :
               q = Workflow!AddTasks(r, t, users) /\ AtReview(q) /\ Passed(q) /\ q.phase = t
  BY <1>5, <1>8, <1>9, TasksAdded
<1>10. \E q \in Workflow!Process :
         /\ q = Workflow!Acted(p, RequestRoute, Reviewers, s, 1, action) /\ AtReview(q) /\ Passed(q)
         /\ p.phase = "vacancy_management" => q.phase = "vacancy_management"
  <2>1. CASE t = "none"
    <3>1. PICK status \in Workflow!Terminal : status = IF action = "cancel" THEN "cancelled" ELSE "completed"
      BY DEF Workflow!Terminal
    <3>2. PICK q : q = [r EXCEPT !.status = status]
      OBVIOUS
    <3>3. q \in Workflow!Process /\ q.task = r.task /\ q.phase = r.phase
      BY <3>1, <3>2 DEF Workflow!Process
    <3>4. q = Workflow!Acted(p, RequestRoute, Reviewers, s, 1, action)
      BY <1>2, <1>4, <1>6, <1>7, <2>1, <3>1, <3>2 DEF Workflow!Acted
    <3> QED
      BY <1>2, <1>3, <3>3, <3>4 DEF AtReview, Passed
  <2>2. CASE t # "none"
    <3>1. PICK users : users = Workflow!Chosen(RequestRoute, t, Reviewers[t])
      OBVIOUS
    <3>2. CASE Workflow!Resolved(RequestRoute, t, Reviewers[t])
      <4>1. Workflow!Acted(p, RequestRoute, Reviewers, s, 1, action) = Workflow!AddTasks(r, t, users)
        BY <1>2, <1>4, <1>6, <1>7, <2>2, <3>1, <3>2 DEF Workflow!Acted
      <4> QED
        BY <1>8, <1>9, <2>2, <4>1
    <3>3. CASE ~Workflow!Resolved(RequestRoute, t, Reviewers[t])
      <4>1. PICK q : q = [r EXCEPT !.phase = t, !.status = "configuration_error"]
        OBVIOUS
      <4>2. q \in Workflow!Process /\ q.task = r.task /\ q.phase = t
        BY <1>5, <2>2, <4>1 DEF Workflow!Process
      <4>3. q = Workflow!Acted(p, RequestRoute, Reviewers, s, 1, action)
        BY <1>2, <1>4, <1>6, <1>7, <2>2, <3>3, <4>1 DEF Workflow!Acted, Workflow!Configured
      <4> QED
        BY <1>8, <2>2, <4>2, <4>3
    <3> QED
      BY <3>2, <3>3
  <2> QED
    BY <2>1, <2>2
<1>11. \E q \in Workflow!Process :
         /\ q = Workflow!ActedLinked(p, RequestRoute, Reviewers, s, 1, action) /\ AtReview(q) /\ Passed(q)
         /\ p.phase = "vacancy_management" => q.phase = "vacancy_management"
         /\ action = "approve" /\ s = "staffing_review" => q.phase = "vacancy_management"
  <2>1. CASE t # "none"
    <3>1. PICK users : users = Workflow!Chosen(RequestRoute, t, Reviewers[t])
      OBVIOUS
    <3>2. Workflow!ActedLinked(p, RequestRoute, Reviewers, s, 1, action) = Workflow!AddTasks(r, t, users)
      BY <1>2, <1>4, <1>6, <1>7, <2>1, <3>1 DEF Workflow!ActedLinked
    <3> QED
      BY <1>5, <1>8, <1>9, <2>1, <3>2
  <2>2. CASE t = "none" /\ action = "return"
    <3>1. PICK q : q = [r EXCEPT !.status = "active"]
      OBVIOUS
    <3>2. q \in Workflow!Process /\ q.task = r.task /\ q.phase = r.phase
      BY <3>1 DEF Workflow!Process
    <3>3. q = Workflow!ActedLinked(p, RequestRoute, Reviewers, s, 1, action)
      BY <1>2, <1>4, <1>7, <2>2, <3>1 DEF Workflow!ActedLinked
    <3> QED
      BY <1>2, <1>3, <2>2, <3>2, <3>3 DEF AtReview, Passed
  <2>3. CASE t = "none" /\ action # "return"
    <3>1. PICK status \in Workflow!Terminal : status = Workflow!FinalStatus(action)
      BY DEF Workflow!Terminal, Workflow!FinalStatus
    <3>2. Workflow!ActedLinked(p, RequestRoute, Reviewers, s, 1, action) = Workflow!Closed(p, status)
      BY <1>2, <1>4, <1>7, <2>3, <3>1 DEF Workflow!ActedLinked
    <3>3. ~(action = "approve" /\ s = "staffing_review")
      BY <1>5, <2>3
    <3> QED
      BY <3>1, <3>2, <3>3, ClosedAsks
  <2> QED
    BY <2>1, <2>2, <2>3
<1> QED
  BY <1>10, <1>11

LEMMA ReviewStarted ==
  \E q \in Workflow!Process : q = Workflow!Started(RequestRoute, Reviewers) /\ AtReview(q) /\ Passed(q)
<1> DEFINE users == Workflow!Chosen(RequestRoute, "hr_review", Reviewers["hr_review"])
<1>1. PICK f : f = Workflow!Fresh("hr_review")
  OBVIOUS
<1>2. /\ f \in Workflow!Process /\ f.phase = "hr_review"
      /\ \A s \in ReviewStage : f.task[<<s, 1>>] = "none"
  BY <1>1 DEF Workflow!Fresh, Workflow!Process, ReviewStage
<1>3. PICK a \in Workflow!Process :
        /\ a = Workflow!AddTasks(f, "hr_review", users) /\ a.phase = "hr_review"
        /\ \A x \in ReviewStage : a.task[<<x, 1>>] = IF x = "hr_review" /\ 1 \in users THEN "active" ELSE f.task[<<x, 1>>]
  <2>1. "hr_review" \in ReviewStage
    BY DEF ReviewStage
  <2> HIDE DEF users
  <2> QED
    BY <1>2, <2>1, TasksAdded
<1>4. AtReview(a) /\ Passed(a)
  BY <1>2, <1>3 DEF AtReview, Passed
<1>5. PICK b : b = [f EXCEPT !.phase = "hr_review", !.status = "configuration_error"]
  OBVIOUS
<1>6. b \in Workflow!Process /\ AtReview(b) /\ Passed(b) /\ b = Workflow!Configured(f, "hr_review")
  BY <1>2, <1>5 DEF Workflow!Process, AtReview, Passed, Workflow!Configured
<1>7. Workflow!Started(RequestRoute, Reviewers) \in {a, b}
  BY <1>1, <1>3, <1>6, RequestRouteIs DEF Workflow!Started
<1> QED
  BY <1>3, <1>4, <1>6, <1>7

LEMMA ReviewResumed ==
  ASSUME NEW p \in Workflow!Process, AtReview(p), Passed(p),
         NEW s \in ReviewStage, p.task[<<s, 1>>] = "returned"
  PROVE  \E q \in Workflow!Process :
           q = Workflow!Resumed(p, s, 1) /\ q.phase = p.phase /\ AtReview(q) /\ Passed(q)
<1>1. PICK q : q = [p EXCEPT !.status = "active", !.task[<<s, 1>>] = "active"]
  OBVIOUS
<1>2. /\ q \in Workflow!Process /\ q.phase = p.phase
      /\ q.task = [p.task EXCEPT ![<<s, 1>>] = "active"]
  BY <1>1 DEF Workflow!Process
<1>3. \A x \in ReviewStage : q.task[<<x, 1>>] = IF x = s THEN "active" ELSE p.task[<<x, 1>>]
  BY <1>2, ProcessFields
<1>4. q = Workflow!Resumed(p, s, 1)
  BY <1>1 DEF Workflow!Resumed
<1>5. AtReview(q)
  BY <1>2, <1>3 DEF AtReview
<1>6. Passed(q)
  BY <1>2, <1>3, PassedStays
<1> QED
  BY <1>2, <1>4, <1>5, <1>6

\* The linked act of a review finds the task of the phase it expects.
LEMMA ReviewAdvances ==
  ASSUME process \in Workflow!Process, AtReview(process), Passed(process),
         NEW stage, NEW action \in Workflow!Action, Advances(stage, action)
  PROVE  /\ process' \in Workflow!Process /\ AtReview(process') /\ Passed(process')
         /\ process.phase = "vacancy_management" => process'.phase = "vacancy_management"
         /\ action = "approve" /\ stage = "staffing_review" => process'.phase = "vacancy_management"
<1>1. PICK k \in Workflow!LinkedTasks(process, Reviewers, 1) :
        process' = Workflow!ActedLinked(process, RequestRoute, Reviewers, k[1], 1, action)
  BY DEF Advances
<1>2. PICK s \in ReviewStage : k[1] = s /\ process.task[<<s, 1>>] = "active"
  BY DEF Workflow!LinkedTasks
<1>3. s = stage
  BY <1>2 DEF AtReview, Advances
<1>4. PICK q \in Workflow!Process :
        /\ q = Workflow!ActedLinked(process, RequestRoute, Reviewers, s, 1, action) /\ AtReview(q) /\ Passed(q)
        /\ process.phase = "vacancy_management" => q.phase = "vacancy_management"
        /\ action = "approve" /\ s = "staffing_review" => q.phase = "vacancy_management"
  BY <1>2, ReviewActed
<1> QED
  BY <1>1, <1>2, <1>3, <1>4

---------------------------------------------------------------------------
(* What the operations on a request and its candidates find *)

LEMMA RecruitmentFields ==
  ASSUME RecruitmentInv
  PROVE  /\ RecruitmentTypeOK /\ RequestInv
         /\ request \in RequestRow /\ process \in Workflow!Process /\ vacancy \in VacancyRow
         /\ application \in [Candidate -> ApplicationStatus]
         /\ decision \in [Candidate -> [Commission -> Outcome \cup {"none"}]]
         /\ offer \in [Candidate -> OfferStatus] /\ hiring \in [Candidate -> CaseRow]
         /\ task \in [Candidate -> [Task -> TaskStatus]]
         /\ session \in [Handler -> Transaction]
         /\ AtReview(process) /\ Passed(process)
         /\ \A s \in Handler : session[s].candidate \in Candidate /\ session[s].pending \subseteq Task
BY DEF RecruitmentInv, RecruitmentTypeOK, RequestInv, Transaction

LEMMA OneOfThem ==
  ASSUME RecruitmentInv, NEW c \in Candidate
  PROVE  /\ CandidateInv(c) /\ application[c] \in ApplicationStatus
         /\ decision[c] \in [Commission -> Outcome \cup {"none"}] /\ offer[c] \in OfferStatus
         /\ hiring[c] \in CaseRow /\ hiring[c].status \in CaseStatus /\ hiring[c].employee \in BOOLEAN
         /\ task[c] \in [Task -> TaskStatus]
BY RecruitmentFields DEF RecruitmentInv, CaseRow

LEMMA NoTransactionIs ==
  NoTransaction \in Transaction /\ NoTransaction.op = "none"
<1>1. (CHOOSE c \in Candidate : TRUE) \in Candidate
  BY CandidateAssumption
<1> QED
  BY <1>1 DEF NoTransaction, Transaction

\* Another session goes on with what it does.
SameWork(x, y) == y.op = x.op /\ y.candidate = x.candidate /\ y.pending = x.pending

LEMMA OutdatedIs ==
  ASSUME session \in [Handler -> Transaction], NEW c \in Candidate
  PROVE  /\ Outdated(c) \in [Handler -> Transaction]
         /\ \A s \in Handler : SameWork(session[s], Outdated(c)[s])
<1>1. ASSUME NEW s \in Handler
      PROVE  Outdated(c)[s] \in Transaction /\ SameWork(session[s], Outdated(c)[s])
  <2>1. PICK x \in Transaction : x = session[s]
    OBVIOUS
  <2>2. Outdated(c)[s] = IF x.candidate = c THEN [x EXCEPT !.fresh = FALSE] ELSE x
    BY <2>1 DEF Outdated
  <2>3. [x EXCEPT !.fresh = FALSE] \in Transaction /\ SameWork(x, [x EXCEPT !.fresh = FALSE])
    BY DEF Transaction, SameWork
  <2> QED
    BY <2>1, <2>2, <2>3 DEF SameWork
<1>2. Outdated(c) = [s \in Handler |-> Outdated(c)[s]]
  BY DEF Outdated
<1> QED
  BY <1>1, <1>2

\* Transactions that only end, or go on.
Continued(f) == \A s \in Handler : f[s].op = "none" \/ SameWork(session[s], f[s])

LEMMA ApartStays ==
  ASSUME Apart(session), NEW f, Continued(f)
  PROVE  Apart(f)
BY DEF Apart, Continued, SameWork, Holds

\* An operation on one candidate leaves the others, and what is under way for them.
LEMMA OneCandidate ==
  ASSUME RecruitmentInv, NEW c \in Candidate, RecruitmentTypeOK', RequestInv',
         request.review = "approved" => request'.review = "approved",
         \A d \in Candidate : d # c =>
           /\ application'[d] = application[d] /\ decision'[d] = decision[d] /\ offer'[d] = offer[d]
           /\ hiring'[d] = hiring[d] /\ task'[d] = task[d],
         CandidateInv(c)',
         Continued(session'),
         \A s \in Handler : session[s].candidate = c /\ SameWork(session[s], session'[s]) => HandlerInv(session[s])'
  PROVE  RecruitmentInv'
<1>1. ASSUME NEW d \in Candidate PROVE CandidateInv(d)'
  <2>1. CASE d = c
    BY <2>1
  <2>2. CASE d # c
    BY <2>2, OneOfThem DEF CandidateInv, Recommended
  <2> QED
    BY <2>1, <2>2
<1>2. ASSUME NEW s \in Handler PROVE HandlerInv(session[s])'
  <2>1. CASE session'[s].op = "none"
    BY <2>1 DEF HandlerInv
  <2>2. CASE session[s].candidate = c /\ SameWork(session[s], session'[s])
    BY <2>2
  <2>3. CASE session[s].candidate # c /\ SameWork(session[s], session'[s])
    <3>1. HandlerInv(session[s]) /\ session[s].candidate \in Candidate
      BY RecruitmentFields DEF RecruitmentInv
    <3> QED
      BY <2>3, <3>1 DEF HandlerInv, SameWork
  <2> QED
    BY <2>1, <2>2, <2>3 DEF Continued
<1>3. Apart(session')
  BY ApartStays DEF RecruitmentInv
<1> QED
  BY <1>1, <1>2, <1>3 DEF RecruitmentInv

\* An operation on the request or the vacancy leaves the candidates.
LEMMA AroundTheCandidates ==
  ASSUME RecruitmentInv, UNCHANGED <<application, decision, offer, hiring, task, session>>,
         RecruitmentTypeOK', RequestInv',
         request.review = "approved" => request'.review = "approved"
  PROVE  RecruitmentInv'
<1>1. ASSUME NEW d \in Candidate PROVE CandidateInv(d)'
  BY OneOfThem DEF CandidateInv, Recommended
<1>2. ASSUME NEW s \in Handler PROVE HandlerInv(session[s])'
  <2>1. HandlerInv(session[s])
    BY DEF RecruitmentInv
  <2> QED
    BY <2>1 DEF HandlerInv
<1>3. Apart(session)
  BY DEF RecruitmentInv
<1> QED
  BY <1>1, <1>2, <1>3 DEF RecruitmentInv, Apart

LEMMA RecruitmentInitHolds == RecruitmentInit => RecruitmentInv
<1> SUFFICES ASSUME RecruitmentInit PROVE RecruitmentInv
  OBVIOUS
<1>1. process \in Workflow!Process /\ AtReview(process) /\ Passed(process)
  BY ReviewStarted DEF RecruitmentInit
<1>2. session \in [Handler -> Transaction] /\ \A s \in Handler : session[s].op = "none"
  BY NoTransactionIs DEF RecruitmentInit
<1>3. hiring \in [Candidate -> CaseRow]
  BY DEF RecruitmentInit, CaseRow, CaseStatus
<1>4. RecruitmentTypeOK
  BY <1>1, <1>2, <1>3 DEF RecruitmentInit, RecruitmentTypeOK, RequestRow, VacancyRow, ApplicationStatus, OfferStatus,
                          TaskStatus, ItemStatus
<1>5. RequestInv
  BY <1>1 DEF RecruitmentInit, RequestInv
<1>6. \A c \in Candidate : CandidateInv(c)
  BY DEF RecruitmentInit, CandidateInv
<1>7. (\A s \in Handler : HandlerInv(session[s])) /\ Apart(session)
  BY <1>2 DEF HandlerInv, Apart, Holds
<1> QED
  BY <1>4, <1>5, <1>6, <1>7 DEF RecruitmentInv

---------------------------------------------------------------------------
(* Request and vacancy *)

LEMMA ReviewByHRKeeps ==
  ASSUME RecruitmentInv, NEW action \in {"approve", "return", "reject"}, ReviewByHR(action)
  PROVE  RecruitmentInv'
<1>1. /\ process' \in Workflow!Process /\ AtReview(process') /\ Passed(process')
      /\ process.phase = "vacancy_management" => process'.phase = "vacancy_management"
  <2>1. action \in Workflow!Action
    BY DEF Workflow!Action
  <2> QED
    BY <2>1, RecruitmentFields, ReviewAdvances DEF ReviewByHR
<1>2. PICK status \in {"staffing_review", "returned", "rejected"} :
        request' = [request EXCEPT !.status = status]
  BY DEF ReviewByHR
<1>3. request' \in RequestRow /\ request'.review = request.review /\ request'.status = status
  BY <1>2, RecruitmentFields DEF RequestRow
<1>4. request.review # "approved"
  BY RecruitmentFields DEF ReviewByHR, RequestInv
<1>5. UNCHANGED <<vacancy, session, application, decision, offer, hiring, task, checklist, anonymized>>
  BY DEF ReviewByHR, people
<1>6. RecruitmentTypeOK'
  BY <1>1, <1>3, <1>5, RecruitmentFields DEF RecruitmentTypeOK
<1>7. RequestInv'
  BY <1>1, <1>2, <1>3, <1>4, <1>5, RecruitmentFields DEF RequestInv
<1> QED
  BY <1>3, <1>5, <1>6, <1>7, AroundTheCandidates

LEMMA ReviewByStaffingKeeps ==
  ASSUME RecruitmentInv, NEW action \in {"approve", "return", "reject"}, NEW confirmed \in BOOLEAN,
         ReviewByStaffing(action, confirmed)
  PROVE  RecruitmentInv'
<1>1. /\ process' \in Workflow!Process /\ AtReview(process') /\ Passed(process')
      /\ action = "approve" => process'.phase = "vacancy_management"
  <2>1. action \in Workflow!Action
    BY DEF Workflow!Action
  <2> QED
    BY <2>1, RecruitmentFields, ReviewAdvances DEF ReviewByStaffing
<1>2. PICK outcome \in {"approved", "returned", "rejected"} :
        /\ request' = [status |-> outcome, review |-> outcome]
        /\ outcome = "approved" => action = "approve"
  BY DEF ReviewByStaffing
<1>3. request' \in RequestRow /\ request'.status = outcome /\ request'.review = outcome
  BY <1>2 DEF RequestRow
<1>4. request.review # "approved" /\ vacancy.status = "none"
  BY RecruitmentFields DEF ReviewByStaffing, RequestInv
<1>5. UNCHANGED <<vacancy, session, application, decision, offer, hiring, task, checklist, anonymized>>
  BY DEF ReviewByStaffing, people
<1>6. RecruitmentTypeOK'
  BY <1>1, <1>3, <1>5, RecruitmentFields DEF RecruitmentTypeOK
<1>7. RequestInv'
  BY <1>1, <1>2, <1>3, <1>4, <1>5 DEF RequestInv
<1> QED
  BY <1>4, <1>5, <1>6, <1>7, AroundTheCandidates

LEMMA ActOnReviewKeeps ==
  ASSUME RecruitmentInv, NEW stage \in ReviewStage, NEW action \in Workflow!Action, ActOnReview(stage, action)
  PROVE  RecruitmentInv'
<1>1. /\ process' \in Workflow!Process /\ AtReview(process') /\ Passed(process')
      /\ process.phase = "vacancy_management" => process'.phase = "vacancy_management"
  BY RecruitmentFields, ReviewActed DEF ActOnReview
<1>2. UNCHANGED <<request, vacancy, session, application, decision, offer, hiring, task, checklist, anonymized>>
  BY DEF ActOnReview, people
<1>3. RecruitmentTypeOK'
  BY <1>1, <1>2, RecruitmentFields DEF RecruitmentTypeOK
<1>4. RequestInv'
  BY <1>1, <1>2, RecruitmentFields DEF RequestInv
<1> QED
  BY <1>2, <1>3, <1>4, AroundTheCandidates

LEMMA CorrectRequestKeeps ==
  ASSUME RecruitmentInv, CorrectRequest
  PROVE  RecruitmentInv'
<1>1. /\ process' \in Workflow!Process /\ AtReview(process') /\ Passed(process')
      /\ process'.phase = process.phase
  <2>1. PICK k \in ReviewStage \X {1} :
          process.task[k] = "returned" /\ process' = Workflow!Resumed(process, k[1], k[2])
    BY DEF CorrectRequest
  <2>2. PICK s \in ReviewStage : k = <<s, 1>>
    BY <2>1
  <2> QED
    BY <2>1, <2>2, RecruitmentFields, ReviewResumed
<1>2. request' = [request EXCEPT !.status = "hr_review"]
  BY DEF CorrectRequest
<1>3. request' \in RequestRow /\ request'.review = request.review /\ request'.status = "hr_review"
  BY <1>2, RecruitmentFields DEF RequestRow
<1>4. request.review # "approved"
  BY RecruitmentFields DEF CorrectRequest, RequestInv
<1>5. UNCHANGED <<vacancy, session, application, decision, offer, hiring, task, checklist, anonymized>>
  BY DEF CorrectRequest, people
<1>6. RecruitmentTypeOK'
  BY <1>1, <1>3, <1>5, RecruitmentFields DEF RecruitmentTypeOK
<1>7. RequestInv'
  BY <1>1, <1>3, <1>4, <1>5, RecruitmentFields DEF RequestInv
<1> QED
  BY <1>3, <1>5, <1>6, <1>7, AroundTheCandidates

LEMMA CreateVacancyKeeps ==
  ASSUME RecruitmentInv, CreateVacancy
  PROVE  RecruitmentInv'
<1>1. request' = [request EXCEPT !.status = "vacancy_created"] /\ vacancy' = [vacancy EXCEPT !.status = "draft"]
  BY DEF CreateVacancy
<1>2. /\ request' \in RequestRow /\ request'.review = request.review /\ request'.status = "vacancy_created"
      /\ vacancy' \in VacancyRow
  BY <1>1, RecruitmentFields DEF RequestRow, VacancyRow
<1>3. request.review = "approved"
  BY RecruitmentFields DEF CreateVacancy, RequestInv
<1>4. UNCHANGED <<process, session, application, decision, offer, hiring, task, checklist, anonymized>>
  BY DEF CreateVacancy, people
<1>5. RecruitmentTypeOK'
  BY <1>2, <1>4, RecruitmentFields DEF RecruitmentTypeOK
<1>6. RequestInv'
  BY <1>2, <1>3, <1>4, RecruitmentFields DEF RequestInv
<1> QED
  BY <1>2, <1>4, <1>5, <1>6, AroundTheCandidates

LEMMA PublishVacancyKeeps ==
  ASSUME RecruitmentInv, NEW channel \in Channel, PublishVacancy(channel)
  PROVE  RecruitmentInv'
<1>1. vacancy' \in VacancyRow /\ vacancy.status # "none"
  BY RecruitmentFields DEF PublishVacancy, VacancyRow, Published
<1>2. UNCHANGED <<request, process, session, application, decision, offer, hiring, task, checklist, anonymized>>
  BY DEF PublishVacancy, people
<1>3. RecruitmentTypeOK'
  BY <1>1, <1>2, RecruitmentFields DEF RecruitmentTypeOK
<1>4. RequestInv'
  BY <1>1, <1>2, RecruitmentFields DEF RequestInv
<1> QED
  BY <1>2, <1>3, <1>4, AroundTheCandidates

---------------------------------------------------------------------------
(* Applications *)

\* An operation on the application, its decisions and its offer: it outdates what has read the
\* application, and touches neither the case nor its tasks.
LEMMA ApplicationMoves ==
  ASSUME RecruitmentInv, NEW c \in Candidate, NEW v \in ApplicationStatus \ {"none"},
         application' = [application EXCEPT ![c] = v], request.review = "approved",
         session' \in [Handler -> Transaction], Continued(session'),
         UnchangedCase, UNCHANGED anonymized,
         decision' \in [Candidate -> [Commission -> Outcome \cup {"none"}]],
         offer' \in [Candidate -> OfferStatus],
         \A d \in Candidate : d # c => decision'[d] = decision[d] /\ offer'[d] = offer[d],
         Recommended(c) => Recommended(c)',
         v = "selected" => Recommended(c)',
         offer'[c] # "none" => Recommended(c)',
         offer[c] = "accepted" => offer'[c] = "accepted"
  PROVE  RecruitmentInv'
<1>1. /\ application' \in [Candidate -> ApplicationStatus] /\ application'[c] = v
      /\ \A d \in Candidate : d # c => application'[d] = application[d]
  BY RecruitmentFields
<1>2. UNCHANGED <<request, process, vacancy, hiring, task, checklist, anonymized>>
  BY DEF UnchangedCase
<1>3. RecruitmentTypeOK'
  BY <1>1, <1>2, RecruitmentFields DEF RecruitmentTypeOK
<1>4. RequestInv'
  BY <1>2, RecruitmentFields DEF RequestInv
<1>5. CandidateInv(c)'
  BY <1>1, <1>2, OneOfThem DEF CandidateInv
<1>6. ASSUME NEW s \in Handler, session[s].candidate = c, SameWork(session[s], session'[s])
      PROVE  HandlerInv(session[s])'
  <2>1. HandlerInv(session[s])
    BY DEF RecruitmentInv
  <2> QED
    BY <1>2, <1>6, <2>1 DEF HandlerInv, SameWork
<1> QED
  BY <1>1, <1>2, <1>3, <1>4, <1>5, <1>6, OneCandidate

\* What has read the application goes on, and will find it outdated.
LEMMA Outdates ==
  ASSUME RecruitmentInv, NEW c \in Candidate, session' = Outdated(c)
  PROVE  session' \in [Handler -> Transaction] /\ Continued(session')
BY RecruitmentFields, OutdatedIs DEF Continued

LEMMA CommitApplyKeeps ==
  ASSUME RecruitmentInv, NEW s \in Handler, CommitApply(s)
  PROVE  RecruitmentInv'
<1>1. PICK c \in Candidate : c = session[s].candidate
  BY RecruitmentFields
<1>2. /\ session[s].op = "apply" /\ application' = [application EXCEPT ![c] = "received"]
      /\ session' = [session EXCEPT ![s] = NoTransaction] /\ application[c] = "none"
      /\ UnchangedCase /\ UNCHANGED <<decision, offer, anonymized>>
  BY <1>1 DEF CommitApply
<1>3. session' \in [Handler -> Transaction] /\ Continued(session')
  BY <1>2, RecruitmentFields, NoTransactionIs DEF Continued, SameWork
<1>4. request.review = "approved"
  BY <1>2 DEF RecruitmentInv, HandlerInv
<1>5. offer[c] = "none"
  BY <1>2, OneOfThem DEF CandidateInv
<1>6. "received" \in ApplicationStatus \ {"none"}
  BY DEF ApplicationStatus
<1>7. Recommended(c) => Recommended(c)'
  BY <1>2 DEF Recommended
<1> QED
  BY <1>2, <1>3, <1>4, <1>5, <1>6, <1>7, RecruitmentFields, ApplicationMoves

LEMMA ScreenKeeps ==
  ASSUME RecruitmentInv, NEW c \in Candidate, Screen(c) \/ ScheduleInterview(c)
  PROVE  RecruitmentInv'
<1>1. PICK v \in ApplicationStatus \ {"none"} :
        v \in {"shortlisted", "rejected", "interview"} /\ application' = [application EXCEPT ![c] = v]
  BY DEF Screen, ScheduleInterview, Becomes, ApplicationStatus
<1>2. session' = Outdated(c) /\ UnchangedCase /\ UNCHANGED <<decision, offer, anonymized>> /\ application[c] # "none"
  BY DEF Screen, ScheduleInterview, Becomes
<1>3. (Recommended(c) => Recommended(c)') /\ request.review = "approved" /\ (offer[c] # "none" => Recommended(c)')
  BY <1>2, OneOfThem DEF Recommended, CandidateInv
<1> QED
  BY <1>1, <1>2, <1>3, RecruitmentFields, Outdates, ApplicationMoves

LEMMA DecideKeeps ==
  ASSUME RecruitmentInv, NEW c \in Candidate, NEW k \in Commission, NEW outcome \in Outcome,
         Decide(c, k, outcome)
  PROVE  RecruitmentInv'
<1>1. PICK v \in ApplicationStatus \ {"none"} :
        v = IF outcome = "recommended" THEN "selected" ELSE outcome
  BY DEF Outcome, ApplicationStatus
<1>2. /\ application' = [application EXCEPT ![c] = v] /\ application[c] # "none"
      /\ session' = Outdated(c) /\ UnchangedCase /\ UNCHANGED <<offer, anonymized>>
      /\ decision' = [decision EXCEPT ![c][k] = outcome] /\ decision[c][k] = "none" /\ Quorate(k)
  BY <1>1 DEF Decide, Becomes
<1>3. PICK row \in [Commission -> Outcome \cup {"none"}] : row = [decision[c] EXCEPT ![k] = outcome]
  BY OneOfThem
<1>4. /\ decision' \in [Candidate -> [Commission -> Outcome \cup {"none"}]] /\ decision'[c] = row
      /\ \A d \in Candidate : d # c => decision'[d] = decision[d]
  <2>1. decision' = [decision EXCEPT ![c] = row]
    BY <1>2, <1>3
  <2> QED
    BY <2>1, RecruitmentFields
<1>5. row[k] = outcome /\ \A x \in Commission : x # k => row[x] = decision[c][x]
  BY <1>3, OneOfThem
<1>6. (Recommended(c) => Recommended(c)') /\ (v = "selected" => Recommended(c)')
  BY <1>1, <1>2, <1>4, <1>5 DEF Recommended, Quorate, Outcome
<1>7. request.review = "approved" /\ (offer[c] # "none" => Recommended(c))
  BY <1>2, OneOfThem DEF CandidateInv
<1> QED
  BY <1>1, <1>2, <1>4, <1>6, <1>7, RecruitmentFields, Outdates, ApplicationMoves

LEMMA OfferKeeps ==
  ASSUME RecruitmentInv, NEW c \in Candidate, CreateOffer(c) \/ \E accepted \in BOOLEAN : RespondOffer(c, accepted)
  PROVE  RecruitmentInv'
<1>1. PICK v \in ApplicationStatus \ {"none"} :
        v \in {"offer_pending", "offer_accepted", "offer_declined"} /\ application' = [application EXCEPT ![c] = v]
  BY DEF CreateOffer, RespondOffer, Becomes, ApplicationStatus
<1>2. PICK w \in {"sent", "accepted", "declined"} : offer' = [offer EXCEPT ![c] = w]
  BY DEF CreateOffer, RespondOffer
<1>3. /\ session' = Outdated(c) /\ UnchangedCase /\ UNCHANGED <<decision, anonymized>>
      /\ application[c] # "none" /\ offer[c] # "accepted"
      /\ application[c] = "selected" \/ offer[c] = "sent"
  BY DEF CreateOffer, RespondOffer, Becomes
<1>4. offer' \in [Candidate -> OfferStatus] /\ \A d \in Candidate : d # c => offer'[d] = offer[d]
  BY <1>2, RecruitmentFields DEF OfferStatus
<1>5. Recommended(c)' /\ request.review = "approved"
  BY <1>3, OneOfThem DEF Recommended, CandidateInv
<1> QED
  BY <1>1, <1>3, <1>4, <1>5, RecruitmentFields, Outdates, ApplicationMoves

LEMMA AnonymizeKeeps ==
  ASSUME RecruitmentInv, NEW c \in Candidate, Anonymize(c)
  PROVE  RecruitmentInv'
<1>1. /\ UNCHANGED <<request, process, vacancy, application, decision, offer, hiring, task, checklist, session>>
      /\ anonymized' = anonymized \cup {c}
  BY DEF Anonymize, UnchangedCase
<1>2. RecruitmentTypeOK' /\ RequestInv'
  BY <1>1, RecruitmentFields DEF RecruitmentTypeOK, RequestInv
<1> QED
  BY <1>1, <1>2, AroundTheCandidates

---------------------------------------------------------------------------
(* Hiring cases *)

\* An operation on a case and its tasks only.
LEMMA CaseMoves ==
  ASSUME RecruitmentInv, NEW c \in Candidate,
         UNCHANGED <<request, process, vacancy, application, decision, offer, anonymized, session>>,
         checklist' \in [Candidate -> [Document -> ItemStatus]],
         hiring' \in [Candidate -> CaseRow], task' \in [Candidate -> [Task -> TaskStatus]],
         \A d \in Candidate : d # c => hiring'[d] = hiring[d] /\ task'[d] = task[d],
         CandidateInv(c)',
         \A s \in Handler : session[s].candidate = c => HandlerInv(session[s])'
  PROVE  RecruitmentInv'
<1>1. RecruitmentTypeOK' /\ RequestInv'
  BY RecruitmentFields DEF RecruitmentTypeOK, RequestInv
<1>2. Continued(session')
  BY DEF Continued, SameWork
<1> QED
  BY <1>1, <1>2, OneCandidate

LEMMA StartHiringKeeps ==
  ASSUME RecruitmentInv, NEW c \in Candidate, StartHiring(c)
  PROVE  RecruitmentInv'
<1>1. PICK row \in CaseRow : row = [status |-> "document_collection", employee |-> FALSE, process |-> "active"]
  BY DEF CaseRow, CaseStatus
<1>2. /\ hiring' = [hiring EXCEPT ![c] = row] /\ offer[c] = "accepted" /\ hiring[c].status = "none"
      /\ UNCHANGED <<request, process, vacancy, application, decision, offer, task, checklist, anonymized, session>>
  BY <1>1 DEF StartHiring
<1>3. hiring' \in [Candidate -> CaseRow] /\ hiring'[c] = row /\ \A d \in Candidate : d # c => hiring'[d] = hiring[d]
  BY <1>2, RecruitmentFields
<1>4. CandidateInv(c)'
  BY <1>1, <1>2, <1>3, OneOfThem DEF CandidateInv, Recommended
<1>5. ASSUME NEW s \in Handler, session[s].candidate = c PROVE HandlerInv(session[s])'
  <2>1. HandlerInv(session[s])
    BY DEF RecruitmentInv
  <2> QED
    BY <1>1, <1>2, <1>3, <1>5, <2>1 DEF HandlerInv
<1> QED
  BY <1>2, <1>3, <1>4, <1>5, RecruitmentFields, CaseMoves DEF RecruitmentTypeOK

LEMMA AskForDocumentKeeps ==
  ASSUME RecruitmentInv, NEW c \in Candidate, NEW d \in Document, NEW status \in {"missing", "validated"},
         AskForDocument(c, d, status)
  PROVE  RecruitmentInv'
<1>1. checklist \in [Candidate -> [Document -> ItemStatus]]
  BY RecruitmentFields DEF RecruitmentTypeOK
<1>2. PICK row \in [Document -> ItemStatus] : row = [checklist[c] EXCEPT ![d] = status]
  BY <1>1 DEF ItemStatus
<1>3. /\ checklist' = [checklist EXCEPT ![c] = row]
      /\ UNCHANGED <<request, process, vacancy, application, decision, offer, hiring, task, anonymized, session>>
  BY <1>2 DEF AskForDocument
<1>4. checklist' \in [Candidate -> [Document -> ItemStatus]]
  BY <1>1, <1>3
<1>5. CandidateInv(c)'
  BY <1>3, OneOfThem DEF CandidateInv, Recommended
<1>6. ASSUME NEW s \in Handler PROVE HandlerInv(session[s])'
  <2>1. HandlerInv(session[s])
    BY DEF RecruitmentInv
  <2> QED
    BY <1>3, <2>1 DEF HandlerInv
<1> QED
  BY <1>3, <1>4, <1>5, <1>6, RecruitmentFields, CaseMoves

LEMMA TaskSet ==
  ASSUME RecruitmentInv, NEW c \in Candidate, NEW t \in Task, NEW v \in TaskStatus,
         task' = [task EXCEPT ![c][t] = v]
  PROVE  /\ task' \in [Candidate -> [Task -> TaskStatus]]
         /\ \A d \in Candidate : d # c => task'[d] = task[d]
         /\ \A x \in Task : task'[c][x] = IF x = t THEN v ELSE task[c][x]
<1>1. PICK row \in [Task -> TaskStatus] : row = [task[c] EXCEPT ![t] = v]
  BY OneOfThem
<1>2. task' = [task EXCEPT ![c] = row]
  BY <1>1
<1>3. task'[c] = row /\ task' \in [Candidate -> [Task -> TaskStatus]] /\ \A d \in Candidate : d # c => task'[d] = task[d]
  BY <1>2, RecruitmentFields
<1>4. \A x \in Task : row[x] = IF x = t THEN v ELSE task[c][x]
  BY <1>1, OneOfThem
<1> QED
  BY <1>3, <1>4

LEMMA CreateTaskKeeps ==
  ASSUME RecruitmentInv, NEW c \in Candidate, CreateTask(c)
  PROVE  RecruitmentInv'
<1>1. PICK t \in Task : task' = [task EXCEPT ![c][t] = "pending"]
  BY DEF CreateTask, NewTask
<1>2. /\ hiring[c].status \notin {"none", "completed", "cancelled"} /\ CaseFree(c)
      /\ UNCHANGED <<request, process, vacancy, application, decision, offer, hiring, checklist, anonymized, session>>
  BY DEF CreateTask
<1>3. "pending" \in TaskStatus
  BY DEF TaskStatus
<1>4. /\ task' \in [Candidate -> [Task -> TaskStatus]]
      /\ \A d \in Candidate : d # c => task'[d] = task[d]
  BY <1>1, <1>3, TaskSet
<1>5. CandidateInv(c)'
  BY <1>2, OneOfThem DEF CandidateInv, Recommended
<1>6. ASSUME NEW s \in Handler, session[s].candidate = c PROVE HandlerInv(session[s])'
  <2>1. HandlerInv(session[s]) /\ session[s].op \notin {"complete", "cancel"}
    BY <1>2, <1>6 DEF RecruitmentInv, CaseFree
  <2> QED
    BY <1>2, <2>1 DEF HandlerInv
<1> QED
  BY <1>2, <1>4, <1>5, <1>6, RecruitmentFields, CaseMoves DEF RecruitmentTypeOK

LEMMA CompleteTaskKeeps ==
  ASSUME RecruitmentInv, NEW c \in Candidate, NEW t \in Task, CompleteTask(c, t)
  PROVE  RecruitmentInv'
<1>1. /\ task' = [task EXCEPT ![c][t] = "completed"]
      /\ UNCHANGED <<request, process, vacancy, application, decision, offer, hiring, checklist, anonymized, session>>
  BY DEF CompleteTask
<1>2. "completed" \in TaskStatus
  BY DEF TaskStatus
<1>3. /\ task' \in [Candidate -> [Task -> TaskStatus]]
      /\ \A d \in Candidate : d # c => task'[d] = task[d]
      /\ \A x \in Task : task'[c][x] = IF x = t THEN "completed" ELSE task[c][x]
  BY <1>1, <1>2, TaskSet
<1>4. CandidateInv(c)'
  BY <1>1, <1>3, OneOfThem DEF CandidateInv, Recommended
<1>5. ASSUME NEW s \in Handler, session[s].candidate = c PROVE HandlerInv(session[s])'
  <2>1. HandlerInv(session[s])
    BY DEF RecruitmentInv
  <2> QED
    BY <1>1, <1>3, <1>5, <2>1 DEF HandlerInv
<1> QED
  BY <1>1, <1>3, <1>4, <1>5, RecruitmentFields, CaseMoves DEF RecruitmentTypeOK

LEMMA ActOnTaskKeeps ==
  ASSUME RecruitmentInv, NEW c \in Candidate, ActOnTask(c)
  PROVE  RecruitmentInv'
<1>1. PICK status \in {"completed", "cancelled"} : hiring' = [hiring EXCEPT ![c].process = status]
  BY DEF ActOnTask
<1>2. PICK row : row = [hiring[c] EXCEPT !.process = status]
  OBVIOUS
<1>3. row \in CaseRow /\ row.status = hiring[c].status /\ row.employee = hiring[c].employee
  BY <1>2, OneOfThem DEF CaseRow
<1>4. hiring' = [hiring EXCEPT ![c] = row]
  BY <1>1, <1>2
<1>5. hiring' \in [Candidate -> CaseRow] /\ hiring'[c] = row /\ \A d \in Candidate : d # c => hiring'[d] = hiring[d]
  BY <1>3, <1>4, RecruitmentFields
<1>6. /\ hiring[c].process = "active"
      /\ UNCHANGED <<request, process, vacancy, application, decision, offer, task, checklist, anonymized, session>>
  BY DEF ActOnTask
<1>7. hiring[c].status \notin {"completed", "cancelled"}
  BY <1>6, OneOfThem DEF CandidateInv
<1>8. CandidateInv(c)'
  BY <1>3, <1>5, <1>6, <1>7, OneOfThem DEF CandidateInv, Recommended
<1>9. ASSUME NEW s \in Handler, session[s].candidate = c PROVE HandlerInv(session[s])'
  <2>1. HandlerInv(session[s])
    BY DEF RecruitmentInv
  <2> QED
    BY <1>3, <1>5, <1>6, <1>9, <2>1 DEF HandlerInv
<1> QED
  BY <1>5, <1>6, <1>8, <1>9, RecruitmentFields, CaseMoves DEF RecruitmentTypeOK

---------------------------------------------------------------------------
(* Operations of two steps *)

\* A transaction begins, and has its case to itself.
LEMMA BeginKeeps ==
  ASSUME RecruitmentInv, NEW s \in Handler, NEW x \in Transaction,
         session[s].op = "none", session' = [session EXCEPT ![s] = x],
         UNCHANGED <<request, process, vacancy, application, decision, offer, hiring, task, checklist, anonymized>>,
         HandlerInv(x), Holds(x) => CaseFree(x.candidate)
  PROVE  RecruitmentInv'
<1>1. /\ session' \in [Handler -> Transaction] /\ session'[s] = x
      /\ \A y \in Handler : y # s => session'[y] = session[y]
  BY RecruitmentFields
<1>2. RecruitmentTypeOK' /\ RequestInv'
  BY <1>1, RecruitmentFields DEF RecruitmentTypeOK, RequestInv
<1>3. ASSUME NEW c \in Candidate PROVE CandidateInv(c)'
  BY OneOfThem DEF CandidateInv, Recommended
<1>4. ASSUME NEW y \in Handler PROVE HandlerInv(session[y])'
  <2>1. HandlerInv(session'[y])
    BY <1>1 DEF RecruitmentInv
  <2> QED
    BY <2>1 DEF HandlerInv
<1>5. Apart(session')
  BY <1>1 DEF RecruitmentInv, Apart, CaseFree, Holds
<1> QED
  BY <1>2, <1>3, <1>4, <1>5 DEF RecruitmentInv

LEMMA BeginsKeep ==
  ASSUME RecruitmentInv, NEW s \in Handler, NEW c \in Candidate,
         BeginApply(s, c) \/ BeginComplete(s, c) \/ BeginCancel(s, c)
  PROVE  RecruitmentInv'
<1>1. UNCHANGED <<request, process, vacancy, application, decision, offer, hiring, task, checklist, anonymized>>
  BY DEF BeginApply, BeginComplete, BeginCancel, people
<1>2. CASE BeginApply(s, c)
  <2>1. PICK x : x = [NoTransaction EXCEPT !.op = "apply", !.candidate = c]
    OBVIOUS
  <2>2. x \in Transaction /\ x.op = "apply" /\ x.candidate = c
    BY <2>1, NoTransactionIs DEF Transaction
  <2>3. request.review = "approved"
    BY <1>2, RecruitmentFields DEF BeginApply, Published, RequestInv
  <2> QED
    BY <1>1, <1>2, <2>1, <2>2, <2>3, BeginKeeps DEF BeginApply, HandlerInv, Holds
<1>3. CASE BeginComplete(s, c)
  <2>1. PICK x : x = [NoTransaction EXCEPT !.op = "complete", !.candidate = c]
    OBVIOUS
  <2>2. x \in Transaction /\ x.op = "complete" /\ x.candidate = c
    BY <2>1, NoTransactionIs DEF Transaction
  <2> QED
    BY <1>1, <1>3, <2>1, <2>2, BeginKeeps DEF BeginComplete, HandlerInv
<1>4. CASE BeginCancel(s, c)
  <2>1. PICK pending \in SUBSET Task : pending = {t \in Task : task[c][t] \in {"pending", "cancelled"}}
    OBVIOUS
  <2>2. PICK x : x = [NoTransaction EXCEPT !.op = "cancel", !.candidate = c, !.pending = pending]
    OBVIOUS
  <2>3. x \in Transaction /\ x.op = "cancel" /\ x.candidate = c /\ x.pending = pending
    BY <2>2, NoTransactionIs DEF Transaction
  <2>4. session[s].op = "none" /\ CaseFree(c) /\ hiring[c].status \notin {"none", "completed"}
    BY <1>4 DEF BeginCancel
  <2>5. session' = [session EXCEPT ![s] = x]
    BY <1>4, <2>1, <2>2 DEF BeginCancel
  <2>6. HandlerInv(x)
    BY <2>1, <2>3, <2>4 DEF HandlerInv
  <2> QED
    BY <1>1, <2>3, <2>4, <2>5, <2>6, BeginKeeps
<1> QED
  BY <1>2, <1>3, <1>4

\* What ends on c outdates the others, and the case has no other transaction.
LEMMA Ends ==
  ASSUME RecruitmentInv, NEW s \in Handler, NEW c \in Candidate, session[s].candidate = c, Holds(session[s]),
         session' = [Outdated(c) EXCEPT ![s] = NoTransaction]
  PROVE  /\ session' \in [Handler -> Transaction] /\ Continued(session')
         /\ \A y \in Handler : session[y].candidate = c /\ SameWork(session[y], session'[y]) => ~Holds(session[y])
<1>1. /\ session' \in [Handler -> Transaction] /\ session'[s].op = "none"
      /\ \A y \in Handler : y # s => SameWork(session[y], session'[y])
  BY RecruitmentFields, OutdatedIs, NoTransactionIs
<1>2. Continued(session')
  BY <1>1 DEF Continued
<1>3. ASSUME NEW y \in Handler, session[y].candidate = c, SameWork(session[y], session'[y])
      PROVE  ~Holds(session[y])
  <2>1. CASE y = s
    BY <1>1, <1>3, <2>1 DEF SameWork, Holds
  <2>2. CASE y # s
    BY <1>3, <2>2 DEF RecruitmentInv, Apart
  <2> QED
    BY <2>1, <2>2
<1> QED
  BY <1>1, <1>2, <1>3

LEMMA CommitCompleteKeeps ==
  ASSUME RecruitmentInv, NEW s \in Handler, CommitComplete(s)
  PROVE  RecruitmentInv'
<1>1. PICK c \in Candidate : c = session[s].candidate
  BY RecruitmentFields
<1>2. /\ session[s].op = "complete" /\ application[c] # "none"
      /\ application' = [application EXCEPT ![c] = "hired"]
      /\ vacancy' = [vacancy EXCEPT !.status = "filled"]
      /\ request' = [request EXCEPT !.status = "completed"]
      /\ session' = [Outdated(c) EXCEPT ![s] = NoTransaction]
      /\ UNCHANGED <<process, decision, offer, task, checklist, anonymized>>
  BY <1>1 DEF CommitComplete, Becomes
<1>3. PICK row : row = [[hiring[c] EXCEPT !.status = "completed", !.employee = TRUE] EXCEPT !.process = "completed"]
  OBVIOUS
<1>4. row \in CaseRow /\ row.status = "completed" /\ row.employee = TRUE /\ row.process = "completed"
  BY <1>3, OneOfThem DEF CaseRow, CaseStatus
<1>5. hiring' = [hiring EXCEPT ![c] = row]
  BY <1>1, <1>3 DEF CommitComplete, ProcessCompleted
<1>6. hiring' \in [Candidate -> CaseRow] /\ hiring'[c] = row /\ \A d \in Candidate : d # c => hiring'[d] = hiring[d]
  BY <1>4, <1>5, RecruitmentFields
<1>7. /\ application' \in [Candidate -> ApplicationStatus] /\ application'[c] = "hired"
      /\ \A d \in Candidate : d # c => application'[d] = application[d]
  BY <1>2, RecruitmentFields DEF ApplicationStatus
<1>8. /\ request' \in RequestRow /\ request'.status = "completed" /\ request'.review = request.review
      /\ vacancy' \in VacancyRow
  BY <1>2, RecruitmentFields DEF RequestRow, VacancyRow
<1>9. /\ session' \in [Handler -> Transaction] /\ Continued(session')
      /\ \A y \in Handler : session[y].candidate = c /\ SameWork(session[y], session'[y]) => ~Holds(session[y])
  BY <1>1, <1>2, Ends DEF Holds
<1>10. /\ hiring[c].status # "none" /\ request.review = "approved"
       /\ \A t \in Task : task[c][t] \in {"none", "completed"}
  BY <1>1, <1>2, OneOfThem DEF RecruitmentInv, HandlerInv, CandidateInv
<1>11. RecruitmentTypeOK'
  BY <1>2, <1>6, <1>7, <1>8, <1>9, RecruitmentFields DEF RecruitmentTypeOK
<1>12. RequestInv'
  BY <1>2, <1>8, <1>10, RecruitmentFields DEF RequestInv
<1>13. CandidateInv(c)'
  BY <1>2, <1>4, <1>6, <1>7, <1>8, <1>10, OneOfThem DEF CandidateInv, Recommended
<1>14. ASSUME NEW y \in Handler, session[y].candidate = c, SameWork(session[y], session'[y])
       PROVE  HandlerInv(session[y])'
  BY <1>8, <1>9, <1>10, <1>14 DEF HandlerInv, SameWork, Holds
<1> QED
  BY <1>2, <1>6, <1>7, <1>8, <1>9, <1>11, <1>12, <1>13, <1>14, OneCandidate

LEMMA CommitCancelKeeps ==
  ASSUME RecruitmentInv, NEW s \in Handler, CommitCancel(s)
  PROVE  RecruitmentInv'
<1>1. PICK c \in Candidate : c = session[s].candidate
  BY RecruitmentFields
<1>2. PICK pending \in SUBSET Task : pending = session[s].pending
  BY RecruitmentFields
<1>3. /\ session[s].op = "cancel" /\ application[c] # "none"
      /\ application' = [application EXCEPT ![c] = "hiring_cancelled"]
      /\ request' = [request EXCEPT !.status = "vacancy_created"]
      /\ session' = [Outdated(c) EXCEPT ![s] = NoTransaction]
      /\ UNCHANGED <<process, decision, offer, checklist, anonymized>>
      /\ hiring' = [hiring EXCEPT ![c].status = "cancelled", ![c].process = "cancelled"]
  BY <1>1 DEF CommitCancel, Becomes
<1>4. PICK v \in Published : vacancy' = [vacancy EXCEPT !.status = v]
  BY DEF CommitCancel, Published
<1>5. PICK row : row = [hiring[c] EXCEPT !.status = "cancelled", !.process = "cancelled"]
  OBVIOUS
<1>6. row \in CaseRow /\ row.status = "cancelled" /\ row.employee = hiring[c].employee /\ row.process = "cancelled"
  BY <1>5, OneOfThem DEF CaseRow, CaseStatus
<1>7. hiring' = [hiring EXCEPT ![c] = row]
  BY <1>3, <1>5
<1>8. hiring' \in [Candidate -> CaseRow] /\ hiring'[c] = row /\ \A d \in Candidate : d # c => hiring'[d] = hiring[d]
  BY <1>6, <1>7, RecruitmentFields
<1>9. PICK tasks : tasks = [t \in Task |-> IF t \in pending THEN "cancelled" ELSE task[c][t]]
  OBVIOUS
<1>10. tasks \in [Task -> TaskStatus] /\ \A t \in Task : tasks[t] = IF t \in pending THEN "cancelled" ELSE task[c][t]
  BY <1>9, OneOfThem DEF TaskStatus
<1>11. task' = [task EXCEPT ![c] = tasks]
  BY <1>1, <1>2, <1>9 DEF CommitCancel
<1>12. task' \in [Candidate -> [Task -> TaskStatus]] /\ task'[c] = tasks /\ \A d \in Candidate : d # c => task'[d] = task[d]
  BY <1>10, <1>11, RecruitmentFields
<1>13. /\ application' \in [Candidate -> ApplicationStatus] /\ application'[c] = "hiring_cancelled"
       /\ \A d \in Candidate : d # c => application'[d] = application[d]
  BY <1>3, RecruitmentFields DEF ApplicationStatus
<1>14. /\ request' \in RequestRow /\ request'.status = "vacancy_created" /\ request'.review = request.review
       /\ vacancy' \in VacancyRow
  BY <1>3, <1>4, RecruitmentFields DEF RequestRow, VacancyRow
<1>15. /\ session' \in [Handler -> Transaction] /\ Continued(session')
       /\ \A y \in Handler : session[y].candidate = c /\ SameWork(session[y], session'[y]) => ~Holds(session[y])
  BY <1>1, <1>3, Ends DEF Holds
<1>16. /\ hiring[c].status \notin {"none", "completed"} /\ request.review = "approved"
       /\ \A t \in Task : task[c][t] = "pending" => t \in pending
  BY <1>1, <1>2, <1>3, OneOfThem DEF RecruitmentInv, HandlerInv, CandidateInv
<1>17. RecruitmentTypeOK'
  BY <1>3, <1>8, <1>12, <1>13, <1>14, <1>15, RecruitmentFields DEF RecruitmentTypeOK
<1>18. RequestInv'
  BY <1>3, <1>14, <1>16, RecruitmentFields DEF RequestInv
<1>19. CandidateInv(c)'
  BY <1>3, <1>6, <1>8, <1>10, <1>12, <1>13, <1>14, <1>16, OneOfThem DEF CandidateInv, Recommended
<1>20. ASSUME NEW y \in Handler, session[y].candidate = c, SameWork(session[y], session'[y])
       PROVE  HandlerInv(session[y])'
  BY <1>14, <1>15, <1>16, <1>20 DEF HandlerInv, SameWork, Holds
<1> QED
  BY <1>3, <1>8, <1>12, <1>13, <1>14, <1>15, <1>17, <1>18, <1>19, <1>20, OneCandidate

LEMMA RollbackKeeps ==
  ASSUME RecruitmentInv, NEW s \in Handler, Rollback(s)
  PROVE  RecruitmentInv'
<1>1. /\ session' = [session EXCEPT ![s] = NoTransaction]
      /\ UNCHANGED <<request, process, vacancy, application, decision, offer, hiring, task, checklist, anonymized>>
  BY DEF Rollback, people
<1>2. /\ session' \in [Handler -> Transaction] /\ session'[s].op = "none"
      /\ \A y \in Handler : y # s => session'[y] = session[y]
  BY <1>1, RecruitmentFields, NoTransactionIs
<1>3. RecruitmentTypeOK' /\ RequestInv'
  BY <1>1, <1>2, RecruitmentFields DEF RecruitmentTypeOK, RequestInv
<1>4. ASSUME NEW c \in Candidate PROVE CandidateInv(c)'
  BY <1>1, OneOfThem DEF CandidateInv, Recommended
<1>5. ASSUME NEW y \in Handler PROVE HandlerInv(session[y])'
  <2>1. HandlerInv(session[y])
    BY DEF RecruitmentInv
  <2> QED
    BY <1>1, <1>2, <2>1 DEF HandlerInv
<1>6. Apart(session')
  BY <1>2 DEF RecruitmentInv, Apart, Holds
<1> QED
  BY <1>3, <1>4, <1>5, <1>6 DEF RecruitmentInv

---------------------------------------------------------------------------

LEMMA RecruitmentStepKeeps == RecruitmentInv /\ [RecruitmentNext]_recruitmentVars => RecruitmentInv'
<1> SUFFICES ASSUME RecruitmentInv, [RecruitmentNext]_recruitmentVars PROVE RecruitmentInv'
  OBVIOUS
<1>1. CASE UNCHANGED recruitmentVars
  <2>1. RecruitmentTypeOK' /\ RequestInv'
    BY <1>1, RecruitmentFields DEF recruitmentVars, RecruitmentTypeOK, RequestInv
  <2> QED
    BY <1>1, <2>1, AroundTheCandidates DEF recruitmentVars
<1>2. CASE \E action \in {"approve", "return", "reject"} :
             ReviewByHR(action) \/ \E confirmed \in BOOLEAN : ReviewByStaffing(action, confirmed)
  BY <1>2, ReviewByHRKeeps, ReviewByStaffingKeeps
<1>3. CASE \/ \E stage \in ReviewStage, action \in Workflow!Action : ActOnReview(stage, action)
           \/ CorrectRequest \/ CreateVacancy
           \/ \E channel \in Channel : PublishVacancy(channel)
  BY <1>3, ActOnReviewKeeps, CorrectRequestKeeps, CreateVacancyKeeps, PublishVacancyKeeps
<1>4. ASSUME NEW c \in Candidate,
        \/ Screen(c) \/ ScheduleInterview(c) \/ CreateOffer(c) \/ Anonymize(c)
        \/ \E commission \in Commission, outcome \in Outcome : Decide(c, commission, outcome)
        \/ \E accepted \in BOOLEAN : RespondOffer(c, accepted)
      PROVE  RecruitmentInv'
  BY <1>4, ScreenKeeps, OfferKeeps, AnonymizeKeeps, DecideKeeps
<1>5. ASSUME NEW c \in Candidate,
        \/ StartHiring(c) \/ CreateTask(c) \/ ActOnTask(c)
        \/ \E d \in Document, status \in {"missing", "validated"} : AskForDocument(c, d, status)
        \/ \E t \in Task : CompleteTask(c, t)
        \/ \E s \in Handler : BeginApply(s, c) \/ BeginComplete(s, c) \/ BeginCancel(s, c)
      PROVE  RecruitmentInv'
  BY <1>5, StartHiringKeeps, CreateTaskKeeps, ActOnTaskKeeps, AskForDocumentKeeps, CompleteTaskKeeps, BeginsKeep
<1>6. CASE \E s \in Handler : CommitApply(s) \/ CommitComplete(s) \/ CommitCancel(s) \/ Rollback(s)
  BY <1>6, CommitApplyKeeps, CommitCompleteKeeps, CommitCancelKeeps, RollbackKeeps
<1> QED
  BY <1>1, <1>2, <1>3, <1>4, <1>5, <1>6 DEF RecruitmentNext

\* The inductive invariant: a review that is passed stays passed in the linked process, each
\* step of a hire stands on the one before it, and a transaction that completes or cancels a
\* case has it to itself.
THEOREM RecruitmentInvariant == RecruitmentSpec => []RecruitmentInv
<1> QED
  BY RecruitmentInitHolds, RecruitmentStepKeeps, PTL DEF RecruitmentSpec

\* Nobody becomes an employee but by the whole protocol, whatever happened in between to the
\* request, the vacancy, the application and the case (review_request to complete_hiring).
THEOREM HiresByTheProtocol == RecruitmentSpec => []HiredByProtocol
<1>1. ASSUME RecruitmentInv PROVE HiredByProtocol
  <2>1. ASSUME NEW c \in Candidate, hiring[c].employee
        PROVE  /\ request.review = "approved" /\ Recommended(c) /\ offer[c] = "accepted"
               /\ \A t \in Task : task[c][t] \in {"none", "completed"}
    BY <1>1, <2>1, OneOfThem DEF CandidateInv
  <2>2. request.review = "approved" =>
          \A s \in {"hr_review", "staffing_review"} : process.task[<<s, 1>>] = "completed"
    BY <1>1, RecruitmentFields DEF RequestInv, Passed
  <2> QED
    BY <2>1, <2>2 DEF HiredByProtocol, Recommended, Quorate
<1> QED
  BY <1>1, RecruitmentInvariant, PTL

\* A hiring case that is over leaves nothing to do, although tasks are added, completed and acted on
\* beside the transaction that ends it (complete_hiring and cancel_hiring against act_task,
\* create_onboarding_task and complete_onboarding_task).
THEOREM HiringCaseIsSettled == RecruitmentSpec => []ClosedCaseIsSettled
<1>1. ASSUME RecruitmentInv PROVE ClosedCaseIsSettled
  BY <1>1, OneOfThem DEF CandidateInv, ClosedCaseIsSettled
<1> QED
  BY <1>1, RecruitmentInvariant, PTL
===========================================================================
