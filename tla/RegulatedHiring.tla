------------------------- MODULE RegulatedHiring -------------------------
(***************************************************************************)
(* One case of regulated hiring: its numbered stages, one execution per      *)
(* visit of a stage, and the versions of one of its forms.                   *)
(*                                                                         *)
(* act_on_stage locks the case row, compares the revision and inserts under  *)
(* a unique key, so it is one step and a repeated call changes nothing.      *)
(* record_form reads the newest version before it waits for that row's lock: *)
(* query and insert are two steps.  Evidence, roles, the staffing slot and   *)
(* its authority only decide whether somebody can act, so they are left to   *)
(* the users, who need not act.                                              *)
(***************************************************************************)
EXTENDS Integers, Sequences

CONSTANTS Stages,      \* len(STAGE_POLICIES), 23 in the code
          Session,     \* concurrent record_form requests
          MaxCycle,    \* bound: visits of one stage
          MaxVersion   \* bound: versions of the form

ASSUME StagesAssumption == Stages \in Nat \ {0}
ASSUME BoundsAssumption == MaxCycle \in Nat \ {0} /\ MaxVersion \in Nat \ {0}

VARIABLES case,        \* its status and current_stage_sequence
          executions,  \* of each stage, in the order of their cycles
          form,        \* record versions, in their order
          query        \* the newest version a request has read, or Idle

vars == <<case, executions, form, query>>

Stage == 0..(Stages - 1)
Idle == -1

Open == {"active", "returned"}
StageStatus == {"active", "completed", "returned", "rejected", "cancelled"}
Record == [status : {"draft", "signed", "superseded"}, reason : {"given", "none"}]

TypeOK ==
  /\ case \in [status : StageStatus, stage : Stage]
  /\ executions \in [Stage -> Seq(StageStatus)]
  /\ form \in Seq(Record)
  /\ query \in [Session -> Nat \cup {Idle}]

\* start_case.
Init ==
  /\ case = [status |-> "active", stage |-> 0]
  /\ executions = [s \in Stage |-> IF s = 0 THEN <<"active">> ELSE << >>]
  /\ form = << >>
  /\ query = [x \in Session |-> Idle]

---------------------------------------------------------------------------
(* act_on_stage *)

Newest(q) == q[Len(q)]

\* The active execution of the case, which the handler looks for.
Current == case.stage

Decided(action) ==
  CASE action = "approve" -> "completed" [] action = "return" -> "returned"
    [] action = "reject" -> "rejected" [] action = "cancel" -> "cancelled"

\* The executions once the active one is decided.
Closed(action) == [executions EXCEPT ![Current] = [@ EXCEPT ![Len(executions[Current])] = Decided(action)]]

CanAct == case.status \in Open /\ executions[Current] # << >> /\ Newest(executions[Current]) = "active"

\* approve and complete: the next stage gets an execution of cycle 1, which the unique
\* (case_id, stage_code, cycle) admits only on the first visit.
Approve ==
  /\ CanAct /\ Current < Stages - 1
  /\ executions[Current + 1] = << >>
  /\ executions' = [Closed("approve") EXCEPT ![Current + 1] = <<"active">>]
  /\ case' = [status |-> "active", stage |-> Current + 1]
  /\ UNCHANGED <<form, query>>

ApproveLast ==
  /\ CanAct /\ Current = Stages - 1
  /\ executions' = Closed("approve")
  /\ case' = [case EXCEPT !.status = "completed"]
  /\ UNCHANGED <<form, query>>

\* Slip: also to a later stage.
ReturnAnywhere(to) ==
  /\ CanAct /\ to # Current
  /\ Len(executions[to]) < MaxCycle
  /\ executions' = [Closed("return") EXCEPT ![to] = Append(@, "active")]
  /\ case' = [status |-> "returned", stage |-> to]
  /\ UNCHANGED <<form, query>>

\* The stage returned to gets its next cycle.
Return(to) ==
  /\ CanAct /\ to < Current
  /\ Len(executions[to]) < MaxCycle
  /\ executions' = [Closed("return") EXCEPT ![to] = Append(@, "active")]
  /\ case' = [status |-> "returned", stage |-> to]
  /\ UNCHANGED <<form, query>>

\* Slip: the execution stays active.
TerminateCaseOnly(action) ==
  /\ CanAct
  /\ case' = [case EXCEPT !.status = Decided(action)]
  /\ UNCHANGED <<executions, form, query>>

\* reject and cancel.
Terminate(action) ==
  /\ CanAct
  /\ executions' = Closed(action)
  /\ case' = [case EXCEPT !.status = Decided(action)]
  /\ UNCHANGED <<form, query>>

---------------------------------------------------------------------------
(* record_form *)

Query(x) ==
  /\ query[x] = Idle
  /\ query' = [query EXCEPT ![x] = Len(form)]
  /\ UNCHANGED <<case, executions, form>>

\* Slip: only a signed version replaces a signed one.
ReplacedBySigned(signed) ==
  [n \in 1..Len(form) |->
     IF n = Len(form) /\ form[n].status = "signed" /\ signed
     THEN [form[n] EXCEPT !.status = "superseded"] ELSE form[n]]

\* The previous version once the new one is there.
Replaced(signed) ==
  [n \in 1..Len(form) |->
     IF n = Len(form) /\ form[n].status = "signed"
     THEN [form[n] EXCEPT !.status = "superseded"] ELSE form[n]]

NeedsReason(signed) == form # << >> /\ Newest(form).status = "signed"

\* The row of the version read is locked and read again, then the next one is inserted:
\* the unique record_version fails unless the version read is still the newest.
RecordForm(x, signed, reason) ==
  /\ query[x] = Len(form) /\ Len(form) < MaxVersion
  /\ NeedsReason(signed) => reason = "given"
  /\ form' = Append(Replaced(signed), [status |-> IF signed THEN "signed" ELSE "draft", reason |-> reason])
  /\ query' = [query EXCEPT ![x] = Idle]
  /\ UNCHANGED <<case, executions>>

\* Refused or lost.
Fail(x) ==
  /\ query[x] # Idle
  /\ query' = [query EXCEPT ![x] = Idle]
  /\ UNCHANGED <<case, executions, form>>

Next ==
  \/ Approve \/ ApproveLast
  \/ \E to \in Stage : Return(to)
  \/ \E action \in {"reject", "cancel"} : Terminate(action)
  \/ \E x \in Session : Query(x) \/ Fail(x)
  \/ \E x \in Session, signed \in BOOLEAN, reason \in {"given", "none"} : RecordForm(x, signed, reason)

Spec == Init /\ [][Next]_vars

---------------------------------------------------------------------------
(* Properties *)

\* An open case waits for exactly one decision, at its current stage in the newest cycle of
\* it, and a closed case for none: act_on_stage takes the active execution it finds.
OneActiveExecution ==
  \A s \in Stage : \A n \in 1..Len(executions[s]) :
    executions[s][n] = "active" <=> case.status \in Open /\ s = Current /\ n = Len(executions[s])

\* A completed case was approved at each of its stages, and at each of them last:
\* nothing that was returned stays unapproved.
CompletedCasePassedEveryStage ==
  case.status = "completed" =>
    \A s \in Stage : executions[s] # << >> /\ Newest(executions[s]) = "completed"

\* A signed form is in force until the next version exists, and never beside it: there are
\* never two signed versions, whoever records at the same time.
SignedFormIsNewest ==
  \A n \in 1..Len(form) : form[n].status = "signed" => n = Len(form)

\* Whatever took the place of a signed version says why, also when it is a draft.
CorrectionsHaveReasons ==
  \A n \in 1..Len(form) :
    form[n].status = "superseded" => n < Len(form) /\ form[n + 1].reason = "given"

\* A case that is not terminal can be approved onwards: nothing refuses the execution of the
\* stage that comes next.
OpenCaseCanGoOn ==
  case.status \in Open /\ Current < Stages - 1 => executions[Current + 1] = << >>
---------------------------------------------------------------------------
(* The inductive invariants behind the properties *)

\* What makes the last approval enough: an open case has approved every earlier stage.
PassedStages ==
  case.status \in Open =>
    \A s \in Stage : s < Current => executions[s] # << >> /\ Newest(executions[s]) = "completed"

CaseInv == TypeOK /\ OneActiveExecution /\ PassedStages /\ CompletedCasePassedEveryStage

FormInv == TypeOK /\ SignedFormIsNewest /\ CorrectionsHaveReasons
===========================================================================
