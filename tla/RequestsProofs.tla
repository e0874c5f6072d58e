-------------------------- MODULE RequestsProofs --------------------------
(***************************************************************************)
(* Proofs about the requests that go through a review: HiringRequests, for   *)
(* any number of clients, stages and cycles, and Absence, for any number of  *)
(* requests, reviewers, days, years and open transactions.                   *)
(*                                                                         *)
(* Hiring requests.  Inv follows a request through its life: what a client   *)
(* has read is current or refused; the decisions of the present cycle are of *)
(* the stages before the one under review, and all approve what the request  *)
(* shows now, since nothing of it changes under review; the final PDF is     *)
(* asked for only after the final approval, and rendered from the same; and  *)
(* the dispatches exist exactly from the dispatch on.                        *)
(*                                                                         *)
(* Absence.  Each transaction between its check and its commit holds its     *)
(* request at the status it was begun at (TransactionsFit); so every step    *)
(* is Still, acts on a task, or moves the one request it holds.  On that     *)
(* rest four invariants, one for each thing a request is tied to: its        *)
(* process (ProcessesFollow), its calendar row (CalendarFits), the dates of  *)
(* the other requests (StaysApart), the balance of its year (BalanceFits).   *)
(* Each but the second has a history variable for what the code lets happen: *)
(* act_task bypassed a request (Strays says where its process can be then),  *)
(* an open transaction missed the dates of another, a leave moved to         *)
(* another year.                                                            *)
(***************************************************************************)
EXTENDS HiringRequests, Absence, FiniteSetTheorems, WellFoundedInduction, TLAPS

---------------------------------------------------------------------------
(* Hiring requests *)

\* Who has the revision of the row has seen the stage it is at.
CurrentIsHere == \A c \in current : view[c] = Here

\* Decisions are of past cycles, or of past stages of this one, once it is under review.
DecisionsAreBehind ==
  \A d \in decisions :
    /\ d.cycle <= row.cycle
    /\ row.status = "under_review" /\ d.cycle = row.cycle => d.stage < row.stage

ApprovedAsShown(stage) ==
  \E d \in decisions :
     d.cycle = row.cycle /\ d.stage = stage /\ d.decision = "approve" /\ d.content = Shown

\* The stages passed have approved the present form and files.
PassedStagesApproved ==
  /\ row.status = "under_review" => \A stage \in 0..(Stages - 1) : stage < row.stage => ApprovedAsShown(stage)
  /\ row.status \in Approved => \A stage \in 0..(Stages - 1) : ApprovedAsShown(stage)

\* There is a final PDF, or one on its way, only of an approved request, and it shows it.
FinalPdfIsShown ==
  /\ pdf.final # None => row.status \in Approved /\ pdf.final = Shown
  /\ \A c \in Client :
       /\ handling[c].op \in {"final", "final_pdf"} => row.status \in Approved
       /\ handling[c].op = "final_pdf" => handling[c].content = Shown

\* The dispatches say how far a dispatched request is, and nobody is hired before.
DispatchFollowsStatus ==
  /\ row.status \notin {"dispatched", "partially_acknowledged", "completed"}
       => \A r \in Recipient : dispatch[r] = "none"
  /\ row.status \in {"dispatched", "partially_acknowledged"}
       => \E r \in Recipient : dispatch[r] # "acknowledged"
  /\ row.status = "completed" => \A r \in Recipient : dispatch[r] = "acknowledged"
  /\ row.hired = 1 <=> row.status = "completed"

Inv ==
  /\ TypeOK
  /\ CurrentIsHere /\ DecisionsAreBehind /\ PassedStagesApproved /\ FinalPdfIsShown
  /\ DispatchFollowsStatus
  /\ \A d \in decisions : d.seen = <<d.cycle, d.stage>>

LEMMA InitInv == Init => Inv
<1> SUFFICES ASSUME Init PROVE Inv
  OBVIOUS
<1>1. TypeOK
  <2>1. 0 \in 0..(Stages - 1) /\ 1 \in 1..MaxCycle /\ <<1, 0>> \in Position
    BY StagesAssumption DEF Position
  <2> QED
    BY <2>1 DEF Init, TypeOK, Status, Editable, Handling, Idle
<1>2. CurrentIsHere /\ DecisionsAreBehind /\ \A d \in decisions : d.seen = <<d.cycle, d.stage>>
  BY DEF Init, CurrentIsHere, DecisionsAreBehind
<1>3. PassedStagesApproved
  BY DEF Init, PassedStagesApproved, Approved
<1>4. FinalPdfIsShown
  BY DEF Init, FinalPdfIsShown, Idle
<1>5. DispatchFollowsStatus
  BY DEF Init, DispatchFollowsStatus
<1> QED
  BY <1>1, <1>2, <1>3, <1>4, <1>5 DEF Inv

\* What the request shows is content of a PDF, and where it is a position of the route.
LEMMA ShownType ==
  ASSUME TypeOK
  PROVE  Shown \in Content /\ Here \in Position
<1>1. Shown \in Content
  BY DEF TypeOK, Shown, Content
<1>2. 0..(Stages - 1) \subseteq 0..Stages
  BY StagesAssumption
<1> QED
  BY <1>1, <1>2 DEF TypeOK, Here, Position

\* What a decision makes of the row.
LEMMA OutcomeIs ==
  ASSUME TypeOK, NEW decision \in {"approve", "return", "reject"}
  PROVE  LET next == Outcome(decision) IN
         /\ next.cycle = row.cycle /\ next.form = row.form /\ next.hired = row.hired
         /\ \/ decision = "return" /\ next.status = "returned" /\ next.stage = 0
            \/ decision = "reject" /\ next.status = "rejected" /\ next.stage = row.stage
            \/ /\ decision = "approve" /\ row.stage = Stages - 1
               /\ next.status = "final_approved" /\ next.stage = row.stage
            \/ /\ decision = "approve" /\ row.stage # Stages - 1
               /\ next.status = row.status /\ next.stage = row.stage + 1
         /\ next \in [form : Form, status : Status, stage : 0..(Stages - 1), cycle : 1..MaxCycle,
                      hired : 0..1]
<1>1. row \in [form : Form, status : Status, stage : 0..(Stages - 1), cycle : 1..MaxCycle, hired : 0..1]
  BY DEF TypeOK
<1>2. {"returned", "rejected", "final_approved"} \subseteq Status
  BY DEF Status, Editable, Approved
<1>3. CASE decision = "return"
  <2>1. 0 \in 0..(Stages - 1)
    BY StagesAssumption
  <2>2. Outcome(decision) = [row EXCEPT !.status = "returned", !.stage = 0]
    BY <1>3 DEF Outcome
  <2> QED
    BY <1>1, <1>2, <1>3, <2>1, <2>2
<1>4. CASE decision = "reject"
  BY <1>1, <1>2, <1>4 DEF Outcome
<1>5. CASE decision = "approve" /\ row.stage = Stages - 1
  BY <1>1, <1>2, <1>5 DEF Outcome
<1>6. CASE decision = "approve" /\ row.stage # Stages - 1
  <2>1. row.stage + 1 \in 0..(Stages - 1)
    BY <1>1, <1>6, StagesAssumption
  <2>2. Outcome(decision) = [row EXCEPT !.stage = @ + 1]
    BY <1>6 DEF Outcome
  <2> QED
    BY <1>1, <1>6, <2>1, <2>2
<1> QED
  BY <1>3, <1>4, <1>5, <1>6

LEMMA StepType == TypeOK /\ [Next]_vars => TypeOK'
<1> SUFFICES ASSUME TypeOK, [Next]_vars PROVE TypeOK'
  OBVIOUS
<1> USE DEF TypeOK, Written
<1>1. ASSUME NEW c \in Client, Get(c) PROVE TypeOK'
  BY <1>1, ShownType DEF Get
<1>2. ASSUME NEW c \in Client, Update(c) PROVE TypeOK'
  BY <1>2 DEF Update
<1>3. ASSUME NEW c \in Client, BeginUpload(c) PROVE TypeOK'
  BY <1>3 DEF BeginUpload, Handling
<1>4. ASSUME NEW c \in Client, CommitUpload(c) PROVE TypeOK'
  <2>1. handling[c].category \in Category /\ handling[c].file \in File
    BY <1>4 DEF CommitUpload, Handling, Idle, Died
  <2> QED
    BY <1>4, <2>1 DEF CommitUpload, Handling
<1>5. ASSUME NEW c \in Client, BeginPdf(c) \/ BeginFinalPdf(c) PROVE TypeOK'
  BY <1>5, ShownType DEF BeginPdf, BeginFinalPdf, Handling
<1>6. ASSUME NEW c \in Client, CommitPdf(c) \/ CommitFinalPdf(c) PROVE TypeOK'
  <2>1. handling[c].content \in Content
    BY <1>6 DEF CommitPdf, CommitFinalPdf, Handling, Idle, Died
  <2>2. pdf' \in [working : Content \cup {None}, final : Content \cup {None}]
    BY <1>6, <2>1 DEF CommitPdf, CommitFinalPdf
  <2> QED
    BY <1>6, <2>2 DEF CommitPdf, CommitFinalPdf, Handling, Status
<1>7. ASSUME NEW c \in Client, Abandon(c) PROVE TypeOK'
  BY <1>7 DEF Abandon, Handling
<1>8. ASSUME NEW c \in Client, Submit(c) PROVE TypeOK'
  <2>1. NextCycle \in 1..MaxCycle
    BY <1>8, StagesAssumption DEF Submit, NextCycle
  <2>2. 0 \in 0..(Stages - 1) /\ "under_review" \in Status
    BY StagesAssumption DEF Status
  <2> QED
    BY <1>8, <2>1, <2>2 DEF Submit
<1>9. ASSUME NEW c \in Client, Decide(c) PROVE TypeOK'
  <2>1. PICK decision \in {"approve", "return", "reject"} :
          /\ decisions' = decisions \cup
               {[cycle |-> row.cycle, stage |-> row.stage, seen |-> view[c],
                 decision |-> decision, content |-> Shown]}
          /\ row' = Outcome(decision)
    BY <1>9 DEF Decide
  <2>2. row' \in [form : Form, status : Status, stage : 0..(Stages - 1), cycle : 1..MaxCycle,
                  hired : 0..1]
    BY <2>1, OutcomeIs
  <2>3. decisions' \subseteq [cycle : 1..MaxCycle, stage : 0..(Stages - 1), seen : Position,
                              decision : {"approve", "return", "reject"}, content : Content]
    BY <2>1, ShownType
  <2>4. handling' \in [Client -> Handling]
    BY <1>9 DEF Decide, Handling
  <2> QED
    BY <1>9, <2>2, <2>3, <2>4 DEF Decide
<1>10. ASSUME NEW c \in Client, Dispatch(c) PROVE TypeOK'
  BY <1>10 DEF Dispatch, Status, Approved
<1>11. ASSUME NEW c \in Client, Acknowledge(c) PROVE TypeOK'
  <2>1. dispatch' \in [Recipient -> {"none", "assigned", "acknowledged"}]
    BY <1>11 DEF Acknowledge
  <2>2. row' \in [form : Form, status : Status, stage : 0..(Stages - 1), cycle : 1..MaxCycle,
                  hired : 0..1]
    <3>1. {"completed", "partially_acknowledged"} \subseteq Status
      BY DEF Status, Approved
    <3>2. CASE row' = [row EXCEPT !.status = "completed", !.hired = 1]
      <4> HIDE DEF TypeOK
      <4>1. row \in [form : Form, status : Status, stage : 0..(Stages - 1), cycle : 1..MaxCycle,
                     hired : 0..1] /\ 1 \in 0..1
        BY DEF TypeOK
      <4> QED
        BY <3>1, <3>2, <4>1
    <3>3. CASE row' = [row EXCEPT !.status = "partially_acknowledged"]
      BY <3>1, <3>3
    <3>4. \/ row' = [row EXCEPT !.status = "completed", !.hired = 1]
          \/ row' = [row EXCEPT !.status = "partially_acknowledged"]
      BY <1>11 DEF Acknowledge
    <3> QED
      BY <3>2, <3>3, <3>4
  <2> QED
    BY <1>11, <2>1, <2>2 DEF Acknowledge
<1>12. CASE UNCHANGED vars
  BY <1>12 DEF vars
<1> QED
  BY <1>1, <1>2, <1>3, <1>4, <1>5, <1>6, <1>7, <1>8, <1>9, <1>10, <1>11, <1>12 DEF Next

\* Steps that leave the request alone: clients read it, and uploads and PDFs begin or fail.
Quiet == UNCHANGED <<row, files, pdf, decisions, dispatch>>

LEMMA QuietSteps ==
  ASSUME NEW c \in Client,
         Get(c) \/ BeginUpload(c) \/ BeginPdf(c) \/ BeginFinalPdf(c) \/ Abandon(c) \/ UNCHANGED vars
  PROVE  Quiet /\ Shown' = Shown /\ Here' = Here
BY DEF Get, BeginUpload, BeginPdf, BeginFinalPdf, Abandon, vars, Quiet, Shown, Here

\* The decision that Decide adds, and the row it leaves.
LEMMA DecideAdds ==
  ASSUME TypeOK, NEW c \in Client, Decide(c)
  PROVE  \E decision \in {"approve", "return", "reject"} :
           /\ decisions' = decisions \cup
                {[cycle |-> row.cycle, stage |-> row.stage, seen |-> view[c],
                  decision |-> decision, content |-> Shown]}
           /\ row' = Outcome(decision)
           /\ row'.cycle = row.cycle /\ row'.hired = row.hired /\ Shown' = Shown
<1>1. PICK decision \in {"approve", "return", "reject"} :
        /\ decisions' = decisions \cup
             {[cycle |-> row.cycle, stage |-> row.stage, seen |-> view[c],
               decision |-> decision, content |-> Shown]}
        /\ row' = Outcome(decision)
  BY DEF Decide
<1>2. row'.cycle = row.cycle /\ row'.hired = row.hired /\ row'.form = row.form
  BY <1>1, OutcomeIs
<1>3. files' = files
  BY DEF Decide
<1> QED
  BY <1>1, <1>2, <1>3 DEF Shown

\* Every write makes the pages of all clients stale.
LEMMA StepCurrent == CurrentIsHere /\ TypeOK /\ [Next]_vars => CurrentIsHere'
<1> SUFFICES ASSUME CurrentIsHere, TypeOK, [Next]_vars PROVE CurrentIsHere'
  OBVIOUS
<1>1. ASSUME NEW c \in Client, Get(c) PROVE CurrentIsHere'
  <2>1. Here' = Here
    BY <1>1, QuietSteps
  <2> QED
    BY <1>1, <2>1 DEF Get, CurrentIsHere, TypeOK
<1>2. ASSUME NEW c \in Client,
             BeginUpload(c) \/ BeginPdf(c) \/ BeginFinalPdf(c) \/ Abandon(c) \/ UNCHANGED vars
      PROVE  CurrentIsHere'
  <2>1. Here' = Here /\ current' = current /\ view' = view
    BY <1>2, QuietSteps DEF BeginUpload, BeginPdf, BeginFinalPdf, Abandon, vars
  <2> QED
    BY <2>1 DEF CurrentIsHere
<1>3. ASSUME NEW c \in Client,
             \/ Update(c) \/ CommitUpload(c) \/ CommitPdf(c) \/ CommitFinalPdf(c)
             \/ Submit(c) \/ Decide(c) \/ Dispatch(c) \/ Acknowledge(c)
      PROVE  CurrentIsHere'
  <2>1. current' = {}
    BY <1>3 DEF Update, CommitUpload, CommitPdf, CommitFinalPdf, Submit, Decide, Dispatch,
                Acknowledge, Written
  <2> QED
    BY <2>1 DEF CurrentIsHere
<1>4. CASE UNCHANGED vars
  BY <1>4 DEF vars, CurrentIsHere, Here
<1> QED
  BY <1>1, <1>2, <1>3, <1>4 DEF Next

\* A stage is decided on what the approver saw, since his revision is the row's.
LEMMA StepSeen ==
  ASSUME CurrentIsHere, TypeOK, \A d \in decisions : d.seen = <<d.cycle, d.stage>>, [Next]_vars
  PROVE  \A d \in decisions' : d.seen = <<d.cycle, d.stage>>
<1>1. ASSUME NEW c \in Client, Decide(c)
      PROVE  \A d \in decisions' : d.seen = <<d.cycle, d.stage>>
  <2>1. view[c] = <<row.cycle, row.stage>>
    BY <1>1 DEF Decide, CurrentIsHere, Here
  <2> QED
    BY <1>1, <2>1, DecideAdds
<1>2. CASE decisions' = decisions
  BY <1>2
<1> QED
  BY <1>1, <1>2 DEF Next, vars, Get, Update, BeginUpload, CommitUpload, BeginPdf, CommitPdf,
     BeginFinalPdf, CommitFinalPdf, Abandon, Submit, Dispatch, Acknowledge

\* A new cycle begins where the present one has decisions, and a stage is passed
\* with its decision.
LEMMA StepBehind == DecisionsAreBehind /\ TypeOK /\ [Next]_vars => DecisionsAreBehind'
<1> SUFFICES ASSUME DecisionsAreBehind, TypeOK, [Next]_vars PROVE DecisionsAreBehind'
  OBVIOUS
<1>0. /\ row.cycle \in Nat /\ row.stage \in 0..(Stages - 1)
      /\ \A d \in decisions : d.cycle \in Nat /\ d.stage \in Nat
  BY StagesAssumption DEF TypeOK
<1>1. CASE /\ decisions' = decisions /\ row'.cycle = row.cycle
           /\ row'.status # "under_review" \/ (row'.status = row.status /\ row'.stage = row.stage)
  BY <1>1 DEF DecisionsAreBehind
<1>2. ASSUME NEW c \in Client, Submit(c) PROVE DecisionsAreBehind'
  <2>1. row'.cycle = NextCycle /\ decisions' = decisions
    BY <1>2 DEF Submit, TypeOK
  <2>2. \A d \in decisions : d.cycle < NextCycle
    BY <1>0 DEF DecisionsAreBehind, NextCycle
  <2>3. NextCycle \in Nat
    BY <1>0 DEF NextCycle
  <2> QED
    BY <1>0, <2>1, <2>2, <2>3 DEF DecisionsAreBehind
<1>3. ASSUME NEW c \in Client, Decide(c) PROVE DecisionsAreBehind'
  <2>1. PICK decision \in {"approve", "return", "reject"} :
          /\ decisions' = decisions \cup
               {[cycle |-> row.cycle, stage |-> row.stage, seen |-> view[c],
                 decision |-> decision, content |-> Shown]}
          /\ row' = Outcome(decision) /\ row'.cycle = row.cycle
    BY <1>3, DecideAdds
  <2>2. row'.status = "under_review" => row'.stage = row.stage + 1
    BY <2>1, OutcomeIs
  <2>3. row.status = "under_review"
    BY <1>3 DEF Decide
  <2> QED
    BY <1>0, <2>1, <2>2, <2>3 DEF DecisionsAreBehind
<1>4. ASSUME NEW c \in Client, Update(c) \/ CommitUpload(c) \/ CommitPdf(c) \/ CommitFinalPdf(c)
                               \/ Dispatch(c) \/ Acknowledge(c)
      PROVE  /\ decisions' = decisions /\ row'.cycle = row.cycle
             /\ row'.status # "under_review" \/ (row'.status = row.status /\ row'.stage = row.stage)
  BY <1>4 DEF TypeOK, Update, CommitUpload, CommitPdf, CommitFinalPdf, Dispatch, Acknowledge
<1>5. ASSUME NEW c \in Client,
             Get(c) \/ BeginUpload(c) \/ BeginPdf(c) \/ BeginFinalPdf(c) \/ Abandon(c) \/ UNCHANGED vars
      PROVE  DecisionsAreBehind'
  BY <1>1, <1>5, QuietSteps DEF Quiet
<1>6. CASE UNCHANGED vars
  BY <1>1, <1>6 DEF vars
<1> QED
  BY <1>1, <1>2, <1>3, <1>4, <1>5, <1>6 DEF Next

\* Nothing that is shown changes under review or later: form and files are written only
\* while the request is editable.
LEMMA StepApproved ==
  ASSUME TypeOK, DecisionsAreBehind, PassedStagesApproved, DispatchFollowsStatus, [Next]_vars
  PROVE  PassedStagesApproved'
<1>0. /\ row.stage \in 0..(Stages - 1) /\ Stages \in Nat
      /\ \A stage \in 0..(Stages - 1) : stage \in Nat
  BY StagesAssumption DEF TypeOK
<1>1. CASE /\ decisions' = decisions /\ row'.cycle = row.cycle /\ Shown' = Shown
           /\ row'.status = "under_review" => row.status = "under_review" /\ row'.stage = row.stage
           /\ row'.status \in Approved => row.status \in Approved
  BY <1>1 DEF PassedStagesApproved, ApprovedAsShown
<1>2. CASE row'.status \in Editable \cup {"pdf_generated"}
  BY <1>2 DEF PassedStagesApproved, Approved, Editable
<1>3. ASSUME NEW c \in Client, Update(c) \/ CommitUpload(c) \/ CommitPdf(c)
      PROVE  row'.status \in Editable \cup {"pdf_generated"}
  BY <1>3 DEF TypeOK, Update, CommitUpload, CommitPdf
<1>4. ASSUME NEW c \in Client, Submit(c) PROVE PassedStagesApproved'
  <2>1. row'.status = "under_review" /\ row'.stage = 0
    BY <1>4 DEF Submit, TypeOK
  <2> QED
    BY <1>0, <2>1 DEF PassedStagesApproved, Approved
<1>5. ASSUME NEW c \in Client, Decide(c) PROVE PassedStagesApproved'
  <2>1. PICK decision \in {"approve", "return", "reject"} :
          /\ decisions' = decisions \cup
               {[cycle |-> row.cycle, stage |-> row.stage, seen |-> view[c],
                 decision |-> decision, content |-> Shown]}
          /\ row' = Outcome(decision) /\ row'.cycle = row.cycle /\ Shown' = Shown
    BY <1>5, DecideAdds
  <2>2. row.status = "under_review"
    BY <1>5 DEF Decide
  <2>3. CASE decision # "approve"
    <3>1. row'.status \in {"returned", "rejected"}
      BY <2>1, <2>3, OutcomeIs
    <3> QED
      BY <3>1 DEF PassedStagesApproved, Approved
  <2>4. CASE decision = "approve"
    <3>1. \A stage \in 0..(Stages - 1) : stage = row.stage => ApprovedAsShown(stage)'
      <4> DEFINE given == [cycle |-> row.cycle, stage |-> row.stage, seen |-> view[c],
                           decision |-> decision, content |-> Shown]
      <4>1. given \in decisions' /\ given.cycle = row'.cycle /\ given.content = Shown'
        BY <2>1
      <4>2. given.stage = row.stage /\ given.decision = "approve"
        BY <2>4
      <4> HIDE DEF given
      <4> QED
        BY <4>1, <4>2 DEF ApprovedAsShown
    <3>2. \A stage \in 0..(Stages - 1) : stage < row.stage => ApprovedAsShown(stage)'
      BY <2>1, <2>2 DEF ApprovedAsShown, PassedStagesApproved
    <3>3. \/ row'.stage = row.stage + 1 /\ row'.status = "under_review"
          \/ row.stage = Stages - 1 /\ row'.status = "final_approved"
      BY <2>1, <2>2, <2>4, OutcomeIs
    <3>4. \A stage \in 0..(Stages - 1) : stage <= row.stage => ApprovedAsShown(stage)'
      BY <1>0, <3>1, <3>2
    <3>5. CASE row'.stage = row.stage + 1 /\ row'.status = "under_review"
      BY <1>0, <3>4, <3>5 DEF PassedStagesApproved, Approved
    <3>6. CASE row.stage = Stages - 1 /\ row'.status = "final_approved"
      BY <1>0, <3>4, <3>6 DEF PassedStagesApproved
    <3> QED
      BY <3>3, <3>5, <3>6
  <2> QED
    BY <2>3, <2>4
<1>6. ASSUME NEW c \in Client, CommitFinalPdf(c) \/ Dispatch(c) PROVE PassedStagesApproved'
  <2>1. /\ decisions' = decisions /\ row'.cycle = row.cycle /\ Shown' = Shown
        /\ row'.status = "under_review" => row.status = "under_review" /\ row'.stage = row.stage
        /\ row'.status \in Approved => row.status \in Approved
    BY <1>6 DEF TypeOK, CommitFinalPdf, Dispatch, Approved, Shown
  <2> QED
    BY <1>1, <2>1
<1>7. ASSUME NEW c \in Client, Acknowledge(c) PROVE PassedStagesApproved'
  <2>1. /\ decisions' = decisions /\ row'.cycle = row.cycle /\ Shown' = Shown
        /\ row'.status # "under_review"
    BY <1>7 DEF TypeOK, Acknowledge, Shown
  <2>2. row.status \in Approved
    BY <1>7 DEF Acknowledge, DispatchFollowsStatus, Approved
  <2> QED
    BY <1>1, <2>1, <2>2
<1>8. ASSUME NEW c \in Client,
             Get(c) \/ BeginUpload(c) \/ BeginPdf(c) \/ BeginFinalPdf(c) \/ Abandon(c) \/ UNCHANGED vars
      PROVE  PassedStagesApproved'
  BY <1>1, <1>8, QuietSteps DEF Quiet
<1>9. CASE UNCHANGED vars
  BY <1>1, <1>9 DEF vars, Shown
<1> QED
  BY <1>2, <1>3, <1>4, <1>5, <1>6, <1>7, <1>8, <1>9 DEF Next

\* The final PDF is rendered from what was approved, and from nothing else.
LEMMA StepFinalPdf ==
  ASSUME TypeOK, FinalPdfIsShown, DispatchFollowsStatus, [Next]_vars
  PROVE  FinalPdfIsShown'
<1>0. handling \in [Client -> Handling] /\ pdf \in [working : Content \cup {None}, final : Content \cup {None}]
  BY DEF TypeOK
<1>1. CASE /\ pdf'.final = pdf.final
           /\ row.status \in Approved => row'.status \in Approved
           /\ row.status \in Approved => Shown' = Shown
           /\ \A c \in Client : handling'[c] = handling[c] \/ handling'[c].op \in {"idle", "died", "upload", "pdf"}
  <2>1. pdf'.final # None => row'.status \in Approved /\ pdf'.final = Shown'
    BY <1>1 DEF FinalPdfIsShown
  <2>2. ASSUME NEW c \in Client, handling'[c].op \in {"final", "final_pdf"}
        PROVE  /\ row'.status \in Approved
               /\ handling'[c].op = "final_pdf" => handling'[c].content = Shown'
    <3>1. handling'[c] = handling[c]
      BY <1>1, <2>2
    <3> QED
      BY <1>1, <2>2, <3>1 DEF FinalPdfIsShown
  <2> QED
    BY <2>1, <2>2 DEF FinalPdfIsShown
<1>2. ASSUME NEW c \in Client, Get(c) PROVE FinalPdfIsShown'
  BY <1>1, <1>2, QuietSteps DEF Get
<1>3. ASSUME NEW c \in Client, BeginUpload(c) PROVE FinalPdfIsShown'
  <2>1. \A x \in Client : handling'[x] = handling[x] \/ handling'[x].op = "upload"
    BY <1>0, <1>3 DEF BeginUpload
  <2> QED
    BY <1>1, <1>3, <2>1, QuietSteps DEF Quiet
<1>4. ASSUME NEW c \in Client, BeginPdf(c) PROVE FinalPdfIsShown'
  <2>1. \A x \in Client : handling'[x] = handling[x] \/ handling'[x].op = "pdf"
    BY <1>0, <1>4 DEF BeginPdf
  <2> QED
    BY <1>1, <1>4, <2>1, QuietSteps DEF Quiet
<1>5. ASSUME NEW c \in Client, Abandon(c) PROVE FinalPdfIsShown'
  <2>1. \A x \in Client : handling'[x] = handling[x] \/ handling'[x].op \in {"idle", "died"}
    BY <1>0, <1>5 DEF Abandon, Idle, Died
  <2> QED
    BY <1>1, <1>5, <2>1, QuietSteps DEF Quiet
<1>6. ASSUME NEW c \in Client, BeginFinalPdf(c) PROVE FinalPdfIsShown'
  <2>1. Quiet /\ Shown' = Shown
    BY <1>6, QuietSteps
  <2>2. row.status \in Approved
    BY <1>6 DEF BeginFinalPdf, FinalPdfIsShown
  <2>3. \A x \in Client : handling'[x] = IF x = c THEN [op |-> "final_pdf", content |-> Shown] ELSE handling[x]
    BY <1>0, <1>6 DEF BeginFinalPdf
  <2> QED
    BY <2>1, <2>2, <2>3 DEF Quiet, FinalPdfIsShown
<1>7. ASSUME NEW c \in Client, CommitFinalPdf(c) PROVE FinalPdfIsShown'
  <2>1. row' = row /\ Shown' = Shown
    BY <1>7 DEF CommitFinalPdf, Shown
  <2>2. row.status \in Approved /\ handling[c].content = Shown
    BY <1>7 DEF CommitFinalPdf, FinalPdfIsShown
  <2>3. pdf'.final = Shown
    BY <1>7, <2>2 DEF CommitFinalPdf
  <2>4. \A x \in Client : handling'[x] = IF x = c THEN Idle ELSE handling[x]
    BY <1>0, <1>7 DEF CommitFinalPdf
  <2> QED
    BY <2>1, <2>2, <2>3, <2>4 DEF FinalPdfIsShown, Idle
<1>8. ASSUME NEW c \in Client, Update(c) \/ Submit(c) \/ Dispatch(c) \/ Acknowledge(c)
      PROVE  FinalPdfIsShown'
  <2>1. pdf' = pdf /\ handling' = handling
    BY <1>8 DEF Update, Submit, Dispatch, Acknowledge
  <2>2. row.status \in Approved => row'.status \in Approved /\ Shown' = Shown
    BY <1>8 DEF Update, Submit, Dispatch, Acknowledge, Approved, Editable, Shown, TypeOK
  <2> QED
    BY <1>1, <2>1, <2>2
<1>9. ASSUME NEW c \in Client, CommitUpload(c) \/ CommitPdf(c) PROVE FinalPdfIsShown'
  <2>1. pdf'.final = pdf.final /\ row.status \notin Approved
    BY <1>9, <1>0 DEF CommitUpload, CommitPdf, Editable, Approved
  <2>2. \A x \in Client : handling'[x] = handling[x] \/ handling'[x].op = "idle"
    BY <1>9, <1>0 DEF CommitUpload, CommitPdf, Idle
  <2> QED
    BY <1>1, <2>1, <2>2
<1>10. ASSUME NEW c \in Client, Decide(c) PROVE FinalPdfIsShown'
  <2>1. row.status \notin Approved /\ pdf' = pdf
    BY <1>10 DEF Decide, Approved
  <2>2. pdf.final = None /\ \A x \in Client : handling[x].op \notin {"final", "final_pdf"}
    BY <2>1 DEF FinalPdfIsShown
  <2>3. \A x \in Client : \/ handling'[x] = handling[x]
                          \/ row'.status = "final_approved" /\ handling'[x] = [op |-> "final"]
    BY <1>0, <1>10 DEF Decide
  <2> QED
    BY <2>1, <2>2, <2>3 DEF FinalPdfIsShown, Approved
<1>11. CASE UNCHANGED vars
  BY <1>1, <1>11 DEF vars, Shown
<1> QED
  BY <1>2, <1>3, <1>4, <1>5, <1>6, <1>7, <1>8, <1>9, <1>10, <1>11 DEF Next

\* Dispatching and acknowledging are the only ways past the final approval.
LEMMA StepDispatch == TypeOK /\ DispatchFollowsStatus /\ [Next]_vars => DispatchFollowsStatus'
<1> SUFFICES ASSUME TypeOK, DispatchFollowsStatus, [Next]_vars PROVE DispatchFollowsStatus'
  OBVIOUS
<1> DEFINE Late == {"dispatched", "partially_acknowledged", "completed"}
<1>1. CASE /\ dispatch' = dispatch /\ row'.hired = row.hired
           /\ row'.status = row.status \/ (row.status \notin Late /\ row'.status \notin Late)
  BY <1>1 DEF DispatchFollowsStatus
<1>2. ASSUME NEW c \in Client, Dispatch(c) PROVE DispatchFollowsStatus'
  <2>1. row'.status = "dispatched" /\ row'.hired = row.hired /\ row.hired # 1
    BY <1>2 DEF Dispatch, TypeOK, DispatchFollowsStatus
  <2> QED
    BY <1>2, <2>1 DEF Dispatch, DispatchFollowsStatus, Recipient
<1>3. ASSUME NEW c \in Client, Acknowledge(c) PROVE DispatchFollowsStatus'
  <2>1. row.status \in Late \ {"completed"} /\ row.hired # 1
    BY <1>3 DEF Acknowledge, DispatchFollowsStatus
  <2>2. CASE Unanswered(dispatch') = {}
    <3>1. row'.status = "completed" /\ row'.hired = 1 /\ \A r \in Recipient : dispatch'[r] = "acknowledged"
      BY <1>3, <2>2 DEF Acknowledge, TypeOK, Unanswered
    <3> QED
      BY <3>1 DEF DispatchFollowsStatus
  <2>3. CASE Unanswered(dispatch') # {}
    <3>1. /\ row'.status = "partially_acknowledged" /\ row'.hired = row.hired
          /\ \E r \in Recipient : dispatch'[r] # "acknowledged"
      BY <1>3, <2>3 DEF Acknowledge, TypeOK, Unanswered
    <3> QED
      BY <2>1, <3>1 DEF DispatchFollowsStatus
  <2> QED
    BY <2>2, <2>3
<1>4. ASSUME NEW c \in Client, Decide(c) PROVE DispatchFollowsStatus'
  <2>1. row'.hired = row.hired /\ row'.status \in {"under_review", "returned", "rejected", "final_approved"}
    <3>1. PICK decision \in {"approve", "return", "reject"} : row' = Outcome(decision)
      BY <1>4, DecideAdds
    <3> QED
      BY <1>4, <3>1, OutcomeIs DEF Decide
  <2> QED
    BY <1>1, <1>4, <2>1 DEF Decide
<1>5. ASSUME NEW c \in Client,
             Update(c) \/ CommitUpload(c) \/ CommitPdf(c) \/ CommitFinalPdf(c) \/ Submit(c)
      PROVE  /\ dispatch' = dispatch /\ row'.hired = row.hired
             /\ row'.status = row.status \/ (row.status \notin Late /\ row'.status \notin Late)
  BY <1>5 DEF TypeOK, Update, CommitUpload, CommitPdf, CommitFinalPdf, Submit, Editable
<1>6. ASSUME NEW c \in Client,
             Get(c) \/ BeginUpload(c) \/ BeginPdf(c) \/ BeginFinalPdf(c) \/ Abandon(c) \/ UNCHANGED vars
      PROVE  DispatchFollowsStatus'
  BY <1>1, <1>6, QuietSteps DEF Quiet
<1>7. CASE UNCHANGED vars
  BY <1>1, <1>7 DEF vars
<1> QED
  BY <1>1, <1>2, <1>3, <1>4, <1>5, <1>6, <1>7 DEF Next

---------------------------------------------------------------------------

\* The inductive invariant holds in every reachable state, for any number of clients,
\* stages, cycles, forms and files.
THEOREM Invariant == Spec => []Inv
<1>1. Inv /\ [Next]_vars => Inv'
  BY StepType, StepCurrent, StepSeen, StepBehind, StepApproved, StepFinalPdf, StepDispatch DEF Inv
<1> QED
  BY InitInv, <1>1, PTL DEF Spec

\* What goes to accounting and IT was approved by every stage as it is, and its final PDF shows it.
THEOREM EveryStageApproved == Spec => []ApprovedByEveryStage
<1>1. Inv => ApprovedByEveryStage
  BY DEF Inv, PassedStagesApproved, ApprovedAsShown, FinalPdfIsShown, ApprovedByEveryStage
<1> QED
  BY Invariant, <1>1, PTL

\* Every decision was taken at the cycle and stage its client had read, and a request under
\* review is at a cycle and stage without a decision (decide, and the cycle in submit).  The
\* position is compared, not the content that was shown.
THEOREM DecidedAsSeen == Spec => []StagesAreDecidedAsSeen
<1>1. Inv => StagesAreDecidedAsSeen
  <2> SUFFICES ASSUME Inv, NEW d \in decisions, row.status = "under_review"
               PROVE  <<d.cycle, d.stage>> # Here
    BY DEF Inv, StagesAreDecidedAsSeen
  <2>1. row.stage \in Nat /\ (d.cycle = row.cycle => d.stage < row.stage)
    BY StagesAssumption DEF Inv, DecisionsAreBehind, TypeOK
  <2> QED
    BY <2>1 DEF Here
<1> QED
  BY Invariant, <1>1, PTL

\* The employee exists exactly when accounting and IT have both acknowledged.
THEOREM HiredOnBoth == Spec => []HiredWhenBothAcknowledged
<1>1. Inv => HiredWhenBothAcknowledged
  BY DEF Inv, TypeOK, DispatchFollowsStatus, HiredWhenBothAcknowledged, Recipient, Status, Editable, Approved
<1> QED
  BY Invariant, <1>1, PTL

---------------------------------------------------------------------------
(* Absences: the reviewer a stage asks *)

\* Of numbers one is the least.
LEMMA LeastNatural ==
  ASSUME NEW T \in SUBSET Nat, T # {}
  PROVE  \E x \in T : \A y \in T : x <= y
<1>1. IsWellFoundedOn({ss \in Nat \X Nat : ss[1] < ss[2]}, Nat)
  BY NatLessThanWellFounded DEF OpToRel
<1>2. PICK R : R = {ss \in Nat \X Nat : ss[1] < ss[2]}
  OBVIOUS
<1>3. PICK x \in T : \A y \in T : ~ (<<y, x>> \in R)
  BY <1>1, <1>2, WFMin
<1>4. ASSUME NEW y \in T PROVE x <= y
  <2>1. y \in Nat /\ x \in Nat /\ <<y, x>> \in Nat \X Nat
    OBVIOUS
  <2>2. ~(y < x)
    BY <1>2, <1>3, <2>1
  <2> QED
    BY <2>1, <2>2
<1> QED
  BY <1>3, <1>4

---------------------------------------------------------------------------
(* The processes of the requests: tasks one by one. *)

LEMMA RoutesOfRequests ==
  ASSUME NEW r, NEW s \in Stage
  PROVE  /\ NextStage(r, s) \in Stage \cup {"none"} /\ "none" \notin Stage
         /\ RouteOf(r).first = "manager_review" /\ RouteOf(r).parallel = {}
         /\ RouteOf(r).required[s] = 1 /\ RouteOf(r).mode[s] = "all"
         /\ \A action \in Action :
              RouteOf(r).goto[<<s, action>>] = IF action = "approve" THEN NextStage(r, s) ELSE "none"
<1>1. NextStage(r, s) \in Stage \cup {"none"} /\ "none" \notin Stage
  BY DEF NextStage, Stage
<1>2. ASSUME NEW action \in Action
      PROVE  RouteOf(r).goto[<<s, action>>] = IF action = "approve" THEN NextStage(r, s) ELSE "none"
  <2>1. <<s, action>> \in Stage \X Action
    OBVIOUS
  <2> QED
    BY <2>1 DEF RouteOf
<1> QED
  BY <1>1, <1>2 DEF RouteOf

LEMMA TasksOf ==
  ASSUME NEW p \in Process
  PROVE  /\ p.phase \in Stage /\ p.status \in {"active", "configuration_error"} \cup Terminal
         /\ p.task \in [Stage \X User -> {"none", "active"} \cup Decision]
         /\ \A s \in Stage, u \in User :
              <<s, u>> \in Stage \X User /\ p.task[<<s, u>>] \in {"none", "active"} \cup Decision
BY DEF Process

LEMMA FreshIs ==
  ASSUME NEW s \in Stage
  PROVE  /\ Fresh(s) \in Process /\ Fresh(s).status = "active" /\ Fresh(s).phase = s
         /\ \A k \in Stage \X User : Fresh(s).task[k] = "none"
BY DEF Fresh, Process

\* A process whose tasks are replaced.
LEMMA WithTasks ==
  ASSUME NEW p \in Process, NEW s \in Stage, NEW status \in {"active", "configuration_error"} \cup Terminal,
         NEW tasks \in [Stage \X User -> {"none", "active"} \cup Decision],
         NEW q, q = [p EXCEPT !.status = status, !.phase = s, !.task = tasks]
  PROVE  q \in Process /\ q.status = status /\ q.phase = s /\ q.task = tasks
BY DEF Process

LEMMA TasksAdded ==
  ASSUME NEW p \in Process, NEW s \in Stage, NEW users \in SUBSET User
  PROVE  \E q \in Process :
           /\ q = AddTasks(p, s, users) /\ q.phase = s /\ q.status = p.status
           /\ \A k \in Stage \X User :
                q.task[k] = IF k[1] = s /\ k[2] \in users THEN "active" ELSE p.task[k]
<1>1. PICK tasks : tasks = [k \in Stage \X User |->
                              IF k[1] = s /\ k[2] \in users THEN "active" ELSE p.task[k]]
  OBVIOUS
<1>2. tasks \in [Stage \X User -> {"none", "active"} \cup Decision]
  BY <1>1, TasksOf
<1>3. PICK q : q = [p EXCEPT !.phase = s, !.task = tasks]
  OBVIOUS
<1>4. q \in Process /\ q.phase = s /\ q.status = p.status /\ q.task = tasks
  BY <1>2, <1>3 DEF Process
<1>5. q = AddTasks(p, s, users)
  BY <1>1, <1>3 DEF AddTasks
<1> QED
  BY <1>1, <1>4, <1>5

LEMMA RecordedIs ==
  ASSUME NEW p \in Process, NEW s \in Stage, NEW u \in User, NEW action \in Action
  PROVE  \E q \in Process :
           /\ q = Recorded(p, s, u, action) /\ q.phase = p.phase /\ q.status = p.status
           /\ \A k \in Stage \X User :
                q.task[k] = IF k = <<s, u>> THEN Verdict(action) ELSE p.task[k]
<1>1. Verdict(action) \in Decision
  BY DEF Verdict, Decision
<1>2. PICK q : q = [p EXCEPT !.task[<<s, u>>] = Verdict(action)]
  OBVIOUS
<1>3. /\ q \in Process /\ q.phase = p.phase /\ q.status = p.status
      /\ q.task = [p.task EXCEPT ![<<s, u>>] = Verdict(action)]
  BY <1>1, <1>2 DEF Process
<1>4. q = Recorded(p, s, u, action)
  BY <1>2 DEF Recorded
<1> QED
  BY <1>3, <1>4, TasksOf

LEMMA ClosedIs ==
  ASSUME NEW p \in Process, NEW status \in Terminal
  PROVE  \E q \in Process :
           /\ q = Closed(p, status) /\ q.phase = p.phase /\ q.status = status
           /\ \A k \in Stage \X User :
                q.task[k] = IF p.task[k] = "active" THEN "cancelled" ELSE p.task[k]
<1>1. PICK tasks : tasks = [k \in Stage \X User |-> IF p.task[k] = "active" THEN "cancelled" ELSE p.task[k]]
  OBVIOUS
<1>2. tasks \in [Stage \X User -> {"none", "active"} \cup Decision]
  BY <1>1, TasksOf DEF Decision
<1>3. PICK q : q = [p EXCEPT !.status = status, !.task = tasks]
  OBVIOUS
<1>4. q \in Process /\ q.phase = p.phase /\ q.status = status /\ q.task = tasks
  BY <1>2, <1>3 DEF Process
<1>5. q = Closed(p, status)
  BY <1>1, <1>3 DEF Closed
<1> QED
  BY <1>1, <1>4, <1>5

LEMMA TakenIs ==
  ASSUME NEW p \in Process, NEW s \in Stage, NEW v \in User, NEW u \in User
  PROVE  \E q \in Process :
           /\ q = Taken(p, <<s, v>>, u) /\ q.phase = p.phase /\ q.status = p.status
           /\ \A x \in Stage \X User :
                q.task[x] = IF x = <<s, u>> THEN "active" ELSE IF x = <<s, v>> THEN "none" ELSE p.task[x]
<1>1. PICK tasks : tasks = [x \in Stage \X User |->
         IF x = <<s, u>> THEN "active" ELSE IF x = <<s, v>> THEN "none" ELSE p.task[x]]
  OBVIOUS
<1>2. tasks \in [Stage \X User -> {"none", "active"} \cup Decision]
  BY <1>1, TasksOf
<1>3. PICK q : q = [p EXCEPT !.task = tasks]
  OBVIOUS
<1>4. q \in Process /\ q.phase = p.phase /\ q.status = p.status /\ q.task = tasks
  BY <1>2, <1>3 DEF Process
<1>5. q = Taken(p, <<s, v>>, u)
  BY <1>1, <1>3 DEF Taken
<1> QED
  BY <1>1, <1>4, <1>5

LEMMA ResumedIs ==
  ASSUME NEW p \in Process, NEW s \in Stage, NEW u \in User
  PROVE  \E q \in Process :
           /\ q = Resumed(p, s, u) /\ q.phase = p.phase /\ q.status = "active"
           /\ \A k \in Stage \X User : q.task[k] = IF k = <<s, u>> THEN "active" ELSE p.task[k]
<1>1. PICK q : q = [p EXCEPT !.status = "active", !.task[<<s, u>>] = "active"]
  OBVIOUS
<1>2. /\ q \in Process /\ q.phase = p.phase /\ q.status = "active"
      /\ q.task = [p.task EXCEPT ![<<s, u>>] = "active"]
  BY <1>1 DEF Process
<1>3. q = Resumed(p, s, u)
  BY <1>1 DEF Resumed
<1> QED
  BY <1>2, <1>3, TasksOf

LEMMA SettledIs ==
  ASSUME NEW p, NEW r, NEW s \in Stage, NEW action
  PROVE  Settled(p, RouteOf(r), s, action) = p
BY RoutesOfRequests DEF Settled

\* Each stage asks one reviewer, the first of those its actor rule finds.
LEMMA OneIsChosen ==
  ASSUME NEW r, NEW s \in Stage
  PROVE  /\ Resolved(RouteOf(r), s, Holders[s])
         /\ \E v \in User : Chosen(RouteOf(r), s, Holders[s]) = {v}
<1>1. PICK users : users = Holders[s]
  OBVIOUS
<1>2. users \in SUBSET User /\ users # {} /\ users \in SUBSET Nat /\ IsFiniteSet(users)
  <2>1. users \in SUBSET User /\ users # {}
    BY <1>1, StaffAssumption
  <2> QED
    BY <2>1, StaffAssumption, FS_Subset
<1>3. Cardinality(users) \in Nat /\ Cardinality(users) >= 1
  <2>1. Cardinality(users) \in Nat /\ Cardinality(users) # 0
    BY <1>2, FS_CardinalityType, FS_EmptySet
  <2> QED
    BY <2>1
<1>4. Resolved(RouteOf(r), s, Holders[s])
  BY <1>1, <1>3, RoutesOfRequests DEF Resolved
<1>5. PICK v \in users : \A w \in users : v <= w
  BY <1>2, LeastNatural
<1>6. ASSUME NEW u \in users
      PROVE  Cardinality({w \in users : w < u}) < 1 <=> u = v
  <2>1. PICK below : below = {w \in users : w < u}
    OBVIOUS
  <2>2. IsFiniteSet(below) /\ Cardinality(below) \in Nat
    BY <1>2, <2>1, FS_Subset, FS_CardinalityType
  <2>3. below = {} <=> u = v
    <3>1. u \in Nat /\ v \in Nat /\ v <= u
      BY <1>2, <1>5
    <3>2. u # v => v \in below
      BY <2>1, <3>1
    <3>3. u = v => below = {}
      <4>1. ASSUME u = v, NEW w \in below PROVE FALSE
        <5>1. w \in users /\ w < u /\ u <= w /\ w \in Nat
          BY <1>2, <1>5, <2>1, <4>1
        <5> QED
          BY <3>1, <5>1
      <4> QED
        BY <4>1
    <3> QED
      BY <3>2, <3>3
  <2>4. Cardinality(below) = 0 <=> below = {}
    BY <2>2, FS_EmptySet
  <2>5. Cardinality(below) < 1 <=> Cardinality(below) = 0
    BY <2>2
  <2> QED
    BY <2>1, <2>3, <2>4, <2>5
<1>7. Chosen(RouteOf(r), s, users) = {u \in users : Cardinality({w \in users : w < u}) < 1}
  BY RoutesOfRequests DEF Chosen
<1>8. Chosen(RouteOf(r), s, users) = {v}
  BY <1>5, <1>6, <1>7
<1> QED
  BY <1>1, <1>2, <1>4, <1>8

LEMMA StartedIs ==
  ASSUME NEW r
  PROVE  \E q \in Process, v \in User :
           /\ q = Started(RouteOf(r), Holders) /\ q.phase = "manager_review" /\ q.status = "active"
           /\ \A k \in Stage \X User :
                q.task[k] = IF k = <<"manager_review", v>> THEN "active" ELSE "none"
<1>1. PICK s \in Stage : s = "manager_review"
  BY DEF Stage
<1>2. PICK v \in User : Chosen(RouteOf(r), s, Holders[s]) = {v}
  BY OneIsChosen
<1>3. PICK p \in Process : p = Fresh(s) /\ p.status = "active" /\ \A k \in Stage \X User : p.task[k] = "none"
  BY FreshIs
<1>4. PICK q \in Process :
        /\ q = AddTasks(p, s, {v}) /\ q.phase = s /\ q.status = "active"
        /\ \A k \in Stage \X User : q.task[k] = IF k[1] = s /\ k[2] \in {v} THEN "active" ELSE p.task[k]
  BY <1>3, TasksAdded
<1>5. q = Started(RouteOf(r), Holders)
  <2>1. RouteOf(r).first = s /\ Resolved(RouteOf(r), s, Holders[s])
    BY <1>1, OneIsChosen, RoutesOfRequests
  <2> QED
    BY <1>2, <1>3, <1>4, <2>1 DEF Started
<1>6. ASSUME NEW k \in Stage \X User PROVE k[1] = s /\ k[2] = v <=> k = <<s, v>>
  OBVIOUS
<1>7. \A k \in Stage \X User : q.task[k] = IF k = <<s, v>> THEN "active" ELSE "none"
  BY <1>3, <1>4, <1>6
<1> QED
  BY <1>1, <1>4, <1>5, <1>7

\* Whoever acts, by whichever entry point, what he leaves is a process.
LEMMA ActedIsProcess ==
  ASSUME NEW p \in Process, NEW r, NEW s \in Stage, NEW u \in User, NEW action \in Action
  PROVE  /\ ActedLinked(p, RouteOf(r), Holders, s, u, action) \in Process
         /\ Acted(p, RouteOf(r), Holders, s, u, action) \in Process
<1>1. PICK t : t = RouteOf(r).goto[<<s, action>>]
  OBVIOUS
<1>2. t \in Stage \cup {"none"}
  <2>1. t = IF action = "approve" THEN NextStage(r, s) ELSE "none"
    BY <1>1, RoutesOfRequests
  <2>2. NextStage(r, s) \in Stage \cup {"none"}
    BY RoutesOfRequests
  <2> QED
    BY <2>1, <2>2
<1>3. PICK q \in Process : q = Recorded(p, s, u, action)
  BY RecordedIs
<1>4. Settled(q, RouteOf(r), s, action) = q
  BY SettledIs
<1>5. ASSUME t # "none" PROVE AddTasks(q, t, Chosen(RouteOf(r), t, Holders[t])) \in Process
  <2>1. t \in Stage
    BY <1>2, <1>5
  <2>2. PICK v \in User : Chosen(RouteOf(r), t, Holders[t]) = {v}
    BY <2>1, OneIsChosen
  <2> QED
    BY <2>1, <2>2, TasksAdded
<1>6. ASSUME t # "none" PROVE Resolved(RouteOf(r), t, Holders[t])
  BY <1>2, <1>6, OneIsChosen
<1>7. [q EXCEPT !.status = "active"] \in Process
  BY DEF Process
<1>8. Closed(p, FinalStatus(action)) \in Process
  BY ClosedIs DEF FinalStatus, Terminal
<1>9. [q EXCEPT !.status = IF action = "cancel" THEN "cancelled" ELSE "completed"] \in Process
  BY DEF Process, Terminal
<1>10. ActedLinked(p, RouteOf(r), Holders, s, u, action) \in Process
  BY <1>1, <1>3, <1>4, <1>5, <1>7, <1>8 DEF ActedLinked
<1>11. Acted(p, RouteOf(r), Holders, s, u, action) \in Process
  BY <1>1, <1>3, <1>4, <1>5, <1>6, <1>9 DEF Acted
<1> QED
  BY <1>10, <1>11

Asked(p) == {k \in Stage \X User : p.task[k] = "active"}
Returned(p) == {k \in Stage \X User : p.task[k] = "returned"}

\* A decision of the one reviewer asked is never one that waits for others.
LEMMA DecisionIsEnough ==
  ASSUME NEW p \in Process, NEW r, NEW s \in Stage, NEW u \in User, NEW action \in Action,
         Asked(p) = {<<s, u>>}
  PROVE  ~Waits(p, RouteOf(r), s, u, action)
<1>1. SUFFICES ASSUME action = "approve" PROVE Ready(Recorded(p, s, u, action), RouteOf(r), s)
  BY DEF Waits
<1>2. PICK q \in Process : q = Recorded(p, s, u, action) /\ \A k \in Stage \X User :
                                q.task[k] = IF k = <<s, u>> THEN Verdict(action) ELSE p.task[k]
  BY RecordedIs
<1>3. Verdict(action) = "completed"
  BY <1>1 DEF Verdict
<1>4. PICK done : done = With(q, s, "completed")
  OBVIOUS
<1>5. u \in done /\ done \in SUBSET User
  BY <1>2, <1>3, <1>4 DEF With
<1>6. Cardinality(done) >= 1
  <2>1. IsFiniteSet(done)
    BY <1>5, StaffAssumption, FS_Subset
  <2>2. Cardinality(done) \in Nat /\ Cardinality(done) # 0
    BY <1>5, <2>1, FS_CardinalityType, FS_EmptySet
  <2> QED
    BY <2>2
<1>7. With(q, s, "active") = {}
  <2>1. ASSUME NEW v \in User, q.task[<<s, v>>] = "active" PROVE FALSE
    <3>1. <<s, v>> \in Stage \X User
      OBVIOUS
    <3>2. <<s, v>> # <<s, u>> => <<s, v>> \notin Asked(p)
      BY <1>2
    <3>3. q.task[<<s, v>>] = IF <<s, v>> = <<s, u>> THEN Verdict(action) ELSE p.task[<<s, v>>]
      BY <1>2, <3>1
    <3> QED
      BY <1>3, <2>1, <3>1, <3>2, <3>3 DEF Asked
  <2> QED
    BY <2>1 DEF With
<1> QED
  BY <1>2, <1>4, <1>6, <1>7, RoutesOfRequests DEF Ready

\* The task a decision is linked to is the one open task; it is then the decider's.
LEMMA LinkedIsAsked ==
  ASSUME NEW p \in Process, NEW s \in Stage, NEW v \in User, Asked(p) = {<<s, v>>},
         NEW u \in User, NEW k \in LinkedTasks(p, Holders, u)
  PROVE  /\ k = <<s, v>>
         /\ \E q \in Process :
              /\ q = Taken(p, k, u) /\ q.phase = p.phase /\ q.status = p.status
              /\ Asked(q) = {<<s, u>>} /\ Returned(q) \subseteq Returned(p)
<1>1. k \in Stage \X User /\ p.task[k] = "active"
  <2>1. \/ k \in {<<x, u>> : x \in {y \in Stage : p.task[<<y, u>>] = "active"}}
        \/ k \in {x \in Stage \X User : /\ p.task[x] = "active" /\ u \in Holders[x[1]]
                                      /\ p.task[<<x[1], u>>] = "none"}
    BY DEF LinkedTasks
  <2>2. CASE k \in {<<x, u>> : x \in {y \in Stage : p.task[<<y, u>>] = "active"}}
    <3>1. PICK x \in Stage : k = <<x, u>> /\ p.task[<<x, u>>] = "active"
      BY <2>2
    <3> QED
      BY <3>1
  <2> QED
    BY <2>1, <2>2
<1>2. k = <<s, v>>
  BY <1>1 DEF Asked
<1>3. PICK q \in Process :
        /\ q = Taken(p, <<s, v>>, u) /\ q.phase = p.phase /\ q.status = p.status
        /\ \A x \in Stage \X User :
             q.task[x] = IF x = <<s, u>> THEN "active" ELSE IF x = <<s, v>> THEN "none" ELSE p.task[x]
  BY TakenIs
<1>4. q = Taken(p, k, u)
  BY <1>2, <1>3
<1>5. Asked(q) = {<<s, u>>}
  BY <1>2, <1>3 DEF Asked
<1>6. Returned(q) \subseteq Returned(p)
  BY <1>3 DEF Returned
<1> QED
  BY <1>2, <1>3, <1>4, <1>5, <1>6

\* What a decision at stage s leaves of the process: the next stage's reviewer is asked,
\* or nobody is.
Result(q, r, s, u, action) ==
  /\ action = "approve" /\ NextStage(r, s) # "none" =>
       /\ q.status = "active" /\ q.phase = NextStage(r, s) /\ Returned(q) = {}
       /\ \E w \in User : Asked(q) = {<<NextStage(r, s), w>>}
  /\ action = "approve" /\ NextStage(r, s) = "none" => q.status = "completed" /\ Asked(q) = {}
  /\ action = "return" =>
       q.status = "active" /\ q.phase = s /\ Asked(q) = {} /\ Returned(q) = {<<s, u>>}
  /\ action = "reject" => q.status = "rejected" /\ Asked(q) = {}

LEMMA LinkedDecision ==
  ASSUME NEW p \in Process, NEW r, NEW s \in Stage, NEW v \in User,
         Asked(p) = {<<s, v>>}, Returned(p) = {}, p.status = "active", p.phase = s,
         NEW u \in User, NEW k \in LinkedTasks(p, Holders, u),
         NEW action \in {"approve", "return", "reject"}
  PROVE  Result(ActedLinked(Taken(p, k, u), RouteOf(r), Holders, k[1], u, action), r, s, u, action)
<1>1. PICK m \in Process : /\ m = Taken(p, k, u) /\ m.phase = s /\ m.status = "active"
                           /\ Asked(m) = {<<s, u>>} /\ Returned(m) = {}
  BY LinkedIsAsked
<1>2. k[1] = s
  BY LinkedIsAsked
<1>3. action \in Action
  BY DEF Action
<1>4. PICK q \in Process : q = ActedLinked(m, RouteOf(r), Holders, s, u, action)
  BY <1>3, ActedIsProcess
<1>5. ~Waits(m, RouteOf(r), s, u, action)
  BY <1>1, <1>3, DecisionIsEnough
<1>6. PICK t : t = RouteOf(r).goto[<<s, action>>]
  OBVIOUS
<1>7. t = IF action = "approve" THEN NextStage(r, s) ELSE "none"
  BY <1>3, <1>6, RoutesOfRequests
<1>8. PICK d \in Process :
        /\ d = Recorded(m, s, u, action) /\ d.phase = m.phase /\ d.status = m.status
        /\ \A x \in Stage \X User : d.task[x] = IF x = <<s, u>> THEN Verdict(action) ELSE m.task[x]
  BY <1>3, RecordedIs
<1>9. /\ \A x \in Stage \X User : x # <<s, u>> => m.task[x] # "active"
      /\ \A x \in Stage \X User : m.task[x] # "returned"
  BY <1>1 DEF Asked, Returned
<1>10. ASSUME action = "approve" /\ NextStage(r, s) # "none" PROVE Result(q, r, s, u, action)
  <2>1. t \in Stage /\ t = NextStage(r, s)
    BY <1>7, <1>10, RoutesOfRequests
  <2>2. PICK w \in User : Chosen(RouteOf(r), t, Holders[t]) = {w}
    BY <2>1, OneIsChosen
  <2>3. q = AddTasks(d, t, {w})
    BY <1>4, <1>5, <1>6, <1>8, <2>1, <2>2, SettledIs, RoutesOfRequests DEF ActedLinked
  <2>4. /\ q.phase = t /\ q.status = "active"
        /\ \A x \in Stage \X User : q.task[x] = IF x[1] = t /\ x[2] \in {w} THEN "active" ELSE d.task[x]
    BY <1>1, <1>8, <2>1, <2>3, TasksAdded
  <2>5. Verdict(action) = "completed"
    BY <1>10 DEF Verdict
  <2>6. Asked(q) = {<<t, w>>}
    <3>1. <<t, w>> \in Stage \X User
      BY <2>1
    <3>2. \A x \in Stage \X User : x[1] = t /\ x[2] \in {w} <=> x = <<t, w>>
      BY <2>1
    <3>3. \A x \in Stage \X User : d.task[x] # "active"
      BY <1>8, <1>9, <2>5
    <3> QED
      BY <2>4, <3>1, <3>2, <3>3 DEF Asked
  <2>7. Returned(q) = {}
    <3>1. \A x \in Stage \X User : d.task[x] # "returned"
      BY <1>8, <1>9, <2>5
    <3> QED
      BY <2>4, <3>1 DEF Returned
  <2> QED
    BY <1>10, <2>1, <2>4, <2>6, <2>7 DEF Result
<1>11. ASSUME t = "none", action # "return"
       PROVE  q.status = FinalStatus(action) /\ Asked(q) = {}
  <2>1. q = Closed(m, FinalStatus(action))
    BY <1>4, <1>5, <1>6, <1>11 DEF ActedLinked
  <2>2. FinalStatus(action) \in Terminal
    BY DEF FinalStatus, Terminal
  <2>3. /\ q.status = FinalStatus(action)
        /\ \A x \in Stage \X User : q.task[x] = IF m.task[x] = "active" THEN "cancelled" ELSE m.task[x]
    BY <2>1, <2>2, ClosedIs
  <2> QED
    BY <2>3 DEF Asked
<1>12. ASSUME action = "approve" /\ NextStage(r, s) = "none" PROVE Result(q, r, s, u, action)
  BY <1>7, <1>11, <1>12 DEF FinalStatus, Result
<1>13. ASSUME action = "reject" PROVE Result(q, r, s, u, action)
  BY <1>7, <1>11, <1>13 DEF FinalStatus, Result
<1>14. ASSUME action = "return" PROVE Result(q, r, s, u, action)
  <2>1. q = [d EXCEPT !.status = "active"]
    BY <1>4, <1>5, <1>6, <1>7, <1>8, <1>14 DEF ActedLinked
  <2>2. q.status = "active" /\ q.phase = s /\ q.task = d.task
    BY <1>1, <1>8, <2>1 DEF Process
  <2>3. Verdict(action) = "returned"
    BY <1>14 DEF Verdict
  <2>4. Asked(q) = {}
    BY <1>8, <1>9, <2>2, <2>3 DEF Asked
  <2>5. Returned(q) = {<<s, u>>}
    BY <1>8, <1>9, <2>2, <2>3 DEF Returned
  <2> QED
    BY <1>14, <2>2, <2>4, <2>5 DEF Result
<1> QED
  BY <1>1, <1>2, <1>4, <1>10, <1>12, <1>13, <1>14

---------------------------------------------------------------------------
(* Requests and the transactions on them *)

\* A transaction holds its request, at the status it was begun at.
Fits(t) ==
  /\ t.op = "record" <=> t.owner = Personnel
  /\ t.op = "create" => request[t.owner].status = "none"
  /\ t.op = "resubmit" => request[t.owner].status = "returned"
  /\ t.op = "register" =>
       /\ request[t.owner].status \in Stage
       /\ NextStage(t.owner, request[t.owner].status) = "none"
       /\ t.period = request[t.owner].period

TransactionsFit ==
  /\ IsFiniteSet(open)
  /\ \A t \in open : Fits(t)
  /\ \A t, u \in open : t.owner = u.owner /\ t.owner # Personnel => t = u

RequestsTyped ==
  /\ request \in [Request -> RequestRow]
  /\ process \in [Request -> Process]
  /\ calendar \in [Request -> {"none", "scheduled", "cancelled", "corrected"}]
  /\ personnel \subseteq Period
  /\ open \subseteq Transaction /\ Cardinality(open) <= Concurrent
  /\ today \in Day

LEMMA RowFields ==
  ASSUME RequestsTyped, NEW r \in Request
  PROVE  /\ request[r] \in RequestRow /\ process[r] \in Process
         /\ request[r].status \in AbsenceStatus /\ request[r].period \in Period
         /\ request[r].returned \in Stage \cup {"none"}
         /\ calendar[r] \in {"none", "scheduled", "cancelled", "corrected"}
BY DEF RequestsTyped, RequestRow

LEMMA OwnerOf ==
  ASSUME RequestsTyped, TransactionsFit, NEW t \in open
  PROVE  /\ t.period \in Period /\ t.owner \in Request \cup {Personnel} /\ Fits(t)
         /\ t.op # "record" => t.owner \in Request
<1>1. t \in Transaction
  BY DEF RequestsTyped
<1> QED
  BY <1>1 DEF TransactionsFit, Fits, Transaction

\* Transactions that end, and others that go on with requests as they were.
LEMMA FewerTransactions ==
  ASSUME RequestsTyped, TransactionsFit, open' \subseteq open,
         \A t \in open' : t.owner \in Request => request'[t.owner] = request[t.owner]
  PROVE  TransactionsFit' /\ open' \subseteq Transaction /\ Cardinality(open') <= Concurrent
<1>1. IsFiniteSet(open') /\ Cardinality(open') <= Cardinality(open)
  BY FS_Subset DEF TransactionsFit
<1>2. PICK m, n \in Nat : m = Cardinality(open') /\ n = Cardinality(open)
  BY <1>1, FS_CardinalityType DEF TransactionsFit
<1>3. Cardinality(open') <= Concurrent
  BY <1>1, <1>2, BoundsAssumption DEF RequestsTyped
<1>4. ASSUME NEW t \in open' PROVE Fits(t)'
  <2>1. Fits(t) /\ t.owner \in Request \cup {Personnel} /\ (t.op # "record" => t.owner \in Request)
    BY OwnerOf
  <2> QED
    BY <2>1 DEF Fits
<1>5. \A t, u \in open' : t.owner = u.owner /\ t.owner # Personnel => t = u
  BY DEF TransactionsFit
<1> QED
  BY <1>1, <1>3, <1>4, <1>5 DEF TransactionsFit, RequestsTyped

\* One request moves, and its process.
OnlyRow(r) ==
  \A q \in Request : q # r => request'[q] = request[q] /\ process'[q] = process[q]

LEMMA RowMoves ==
  ASSUME RequestsTyped, NEW r \in Request, NEW entry \in RequestRow, NEW p \in Process,
         request' = [request EXCEPT ![r] = entry], process' = [process EXCEPT ![r] = p]
  PROVE  /\ request' \in [Request -> RequestRow] /\ process' \in [Request -> Process]
         /\ request'[r] = entry /\ process'[r] = p /\ OnlyRow(r)
BY DEF RequestsTyped, OnlyRow

\* Other transactions are on other requests.
LEMMA OthersElsewhere ==
  ASSUME RequestsTyped, TransactionsFit, NEW r \in Request, OnlyRow(r), open' \subseteq open,
         \A t \in open' : t.owner # r
  PROVE  TransactionsFit' /\ open' \subseteq Transaction /\ Cardinality(open') <= Concurrent
<1>1. \A t \in open' : t.owner \in Request => request'[t.owner] = request[t.owner]
  BY DEF OnlyRow
<1> QED
  BY <1>1, FewerTransactions

LEMMA SubmittedIs ==
  ASSUME RequestsTyped, TransactionsFit, NEW t \in open, t.op = "create", Submitted(t)
  PROVE  /\ t.owner \in Request /\ request[t.owner].status = "none" /\ OnlyRow(t.owner)
         /\ request'[t.owner] = [status |-> "manager_review", period |-> t.period, returned |-> "none"]
         /\ process'[t.owner] = Started(RouteOf(t.owner), Holders)
         /\ open' = open \ {t} /\ calendar' = calendar
         /\ RequestsTyped' /\ TransactionsFit'
<1>1. PICK r \in Request : r = t.owner /\ request[r].status = "none"
  BY OwnerOf DEF Fits
<1>2. PICK entry : entry = [status |-> "manager_review", period |-> t.period, returned |-> "none"]
  OBVIOUS
<1>3. entry \in RequestRow
  BY <1>2, OwnerOf DEF RequestRow, AbsenceStatus, Stage
<1>4. PICK p \in Process : p = Started(RouteOf(r), Holders)
  BY StartedIs
<1>5. request' = [request EXCEPT ![r] = entry] /\ process' = [process EXCEPT ![r] = p]
  BY <1>1, <1>2, <1>4 DEF Submitted
<1>6. /\ request' \in [Request -> RequestRow] /\ process' \in [Request -> Process]
      /\ request'[r] = entry /\ process'[r] = p /\ OnlyRow(r)
  BY <1>3, <1>5, RowMoves
<1>7. open' = open \ {t} /\ calendar' = calendar /\ personnel' = personnel /\ today' = today
  BY DEF Submitted
<1>8. \A u \in open' : u.owner # r
  BY <1>1, <1>7, RequestAssumption DEF TransactionsFit
<1>9. TransactionsFit' /\ open' \subseteq Transaction /\ Cardinality(open') <= Concurrent
  BY <1>6, <1>7, <1>8, OthersElsewhere
<1>10. RequestsTyped'
  BY <1>6, <1>7, <1>9 DEF RequestsTyped
<1> QED
  BY <1>1, <1>2, <1>4, <1>6, <1>7, <1>9, <1>10

LEMMA ContinuedIs ==
  ASSUME RequestsTyped, TransactionsFit, NEW t \in open, t.op = "resubmit", Continued(t)
  PROVE  /\ t.owner \in Request /\ request[t.owner].status = "returned" /\ OnlyRow(t.owner)
         /\ request'[t.owner] =
              [status |-> request[t.owner].returned, period |-> t.period, returned |-> "none"]
         /\ \E k \in Stage \X User :
              k \in Returned(process[t.owner]) /\ process'[t.owner] = Resumed(process[t.owner], k[1], k[2])
         /\ open' = open \ {t} /\ calendar' = calendar
         /\ RequestsTyped' /\ TransactionsFit'
<1>1. PICK r \in Request : r = t.owner /\ request[r].status = "returned"
  BY OwnerOf DEF Fits
<1>2. PICK entry : entry = [status |-> request[r].returned, period |-> t.period, returned |-> "none"]
  OBVIOUS
<1>3. entry \in RequestRow
  BY <1>2, OwnerOf, RowFields DEF RequestRow, AbsenceStatus
<1>4. PICK k \in Stage \X User :
        process[r].task[k] = "returned" /\ process' = [process EXCEPT ![r] = Resumed(process[r], k[1], k[2])]
  BY <1>1 DEF Continued
<1>5. PICK p \in Process : p = Resumed(process[r], k[1], k[2])
  BY ResumedIs, RowFields
<1>6. request' = [request EXCEPT ![r] = entry] /\ process' = [process EXCEPT ![r] = p]
  BY <1>1, <1>2, <1>4, <1>5 DEF Continued, Reopened
<1>7. /\ request' \in [Request -> RequestRow] /\ process' \in [Request -> Process]
      /\ request'[r] = entry /\ process'[r] = p /\ OnlyRow(r)
  BY <1>3, <1>6, RowMoves
<1>8. open' = open \ {t} /\ calendar' = calendar /\ personnel' = personnel /\ today' = today
  BY DEF Continued
<1>9. \A u \in open' : u.owner # r
  BY <1>1, <1>8, RequestAssumption DEF TransactionsFit
<1>10. TransactionsFit' /\ open' \subseteq Transaction /\ Cardinality(open') <= Concurrent
  BY <1>7, <1>8, <1>9, OthersElsewhere
<1>11. RequestsTyped'
  BY <1>7, <1>8, <1>10 DEF RequestsTyped
<1>12. k \in Returned(process[r])
  BY <1>4 DEF Returned
<1> QED
  BY <1>1, <1>2, <1>5, <1>7, <1>8, <1>10, <1>11, <1>12

LEMMA LinkedIsTask ==
  ASSUME NEW r, NEW u \in User, NEW k \in Linked(r, u)
  PROVE  k \in Stage \X User /\ k \in LinkedTasks(process[r], Holders, u) /\ process[r].phase = request[r].status
<1>1. k \in LinkedTasks(process[r], Holders, u) /\ process[r].phase = request[r].status
  BY DEF Linked
<1>2. \/ k \in {<<x, u>> : x \in {y \in Stage : process[r].task[<<y, u>>] = "active"}}
      \/ k \in {x \in Stage \X User : /\ process[r].task[x] = "active" /\ u \in Holders[x[1]]
                                    /\ process[r].task[<<x[1], u>>] = "none"}
  BY <1>1 DEF LinkedTasks
<1>3. k \in Stage \X User
  <2>1. CASE k \in {<<x, u>> : x \in {y \in Stage : process[r].task[<<y, u>>] = "active"}}
    <3>1. PICK x \in Stage : k = <<x, u>>
      BY <2>1
    <3> QED
      BY <3>1
  <2> QED
    BY <1>2, <2>1
<1> QED
  BY <1>1, <1>3

LEMMA RegisteredIs ==
  ASSUME RequestsTyped, TransactionsFit, NEW t \in open, NEW u \in User, t.op = "register",
         Registered(t, u)
  PROVE  /\ t.owner \in Request /\ request[t.owner].status \in Stage
         /\ NextStage(t.owner, request[t.owner].status) = "none" /\ t.period = request[t.owner].period
         /\ OnlyRow(t.owner)
         /\ request'[t.owner] = [request[t.owner] EXCEPT !.status = "approved"]
         /\ \E k \in Linked(t.owner, u) :
              process'[t.owner] =
                ActedLinked(Taken(process[t.owner], k, u), RouteOf(t.owner), Holders, k[1], u, "approve")
         /\ open' = open \ {t}
         /\ calendar' = [calendar EXCEPT ![t.owner] =
                           IF calendar[t.owner] = "none" THEN "scheduled" ELSE calendar[t.owner]]
         /\ RequestsTyped' /\ TransactionsFit'
<1>1. PICK r \in Request : r = t.owner /\ Fits(t)
  BY OwnerOf
<1>2. PICK entry : entry = [request[r] EXCEPT !.status = "approved"]
  OBVIOUS
<1>3. entry \in RequestRow
  BY <1>2, RowFields DEF RequestRow, AbsenceStatus
<1>4. PICK k \in Linked(r, u) :
        process' = [process EXCEPT ![r] =
          ActedLinked(Taken(process[r], k, u), RouteOf(r), Holders, k[1], u, "approve")]
  BY <1>1 DEF Registered
<1>5. PICK p \in Process : p = ActedLinked(Taken(process[r], k, u), RouteOf(r), Holders, k[1], u, "approve")
  <2>1. PICK s \in Stage, v \in User : k = <<s, v>>
    BY LinkedIsTask
  <2>2. Taken(process[r], <<s, v>>, u) \in Process
    BY RowFields, TakenIs
  <2>3. "approve" \in Action
    BY DEF Action
  <2>4. ActedLinked(Taken(process[r], <<s, v>>, u), RouteOf(r), Holders, s, u, "approve") \in Process
    BY <2>2, <2>3, ActedIsProcess
  <2> QED
    BY <2>1, <2>4
<1>6. request' = [request EXCEPT ![r] = entry] /\ process' = [process EXCEPT ![r] = p]
  BY <1>1, <1>2, <1>4, <1>5 DEF Registered
<1>7. /\ request' \in [Request -> RequestRow] /\ process' \in [Request -> Process]
      /\ request'[r] = entry /\ process'[r] = p /\ OnlyRow(r)
  BY <1>3, <1>6, RowMoves
<1>8. /\ open' = open \ {t} /\ personnel' = personnel /\ today' = today
      /\ calendar' = [calendar EXCEPT ![r] = IF calendar[r] = "none" THEN "scheduled" ELSE calendar[r]]
  BY <1>1 DEF Registered
<1>9. \A w \in open' : w.owner # r
  BY <1>1, <1>8, RequestAssumption DEF TransactionsFit
<1>10. TransactionsFit' /\ open' \subseteq Transaction /\ Cardinality(open') <= Concurrent
  BY <1>7, <1>8, <1>9, OthersElsewhere
<1>11. calendar' \in [Request -> {"none", "scheduled", "cancelled", "corrected"}]
  BY <1>8 DEF RequestsTyped
<1>12. RequestsTyped'
  BY <1>7, <1>8, <1>10, <1>11 DEF RequestsTyped
<1>13. /\ request[r].status \in Stage /\ NextStage(r, request[r].status) = "none"
       /\ t.period = request[r].period
  BY <1>1 DEF Fits
<1> QED
  BY <1>1, <1>2, <1>4, <1>5, <1>7, <1>8, <1>10, <1>12, <1>13

LEMMA ReviewedIs ==
  ASSUME RequestsTyped, TransactionsFit, NEW r \in Request, NEW u \in User,
         NEW decision \in {"approve", "return", "reject"}, Reviewed(r, u, decision)
  PROVE  /\ request[r].status \in Stage /\ OnlyRow(r)
         /\ decision = "approve" => NextStage(r, request[r].status) \in Stage
         /\ request'[r] =
              [status |-> Decided(r, decision), period |-> request[r].period,
               returned |-> IF decision = "return" THEN request[r].status ELSE request[r].returned]
         /\ \E k \in Linked(r, u) :
              process'[r] =
                ActedLinked(Taken(process[r], k, u), RouteOf(r), Holders, k[1], u, decision)
         /\ open' = open /\ calendar' = calendar
         /\ RequestsTyped' /\ TransactionsFit'
<1>1. request[r].status \in Stage /\ ~Busy(r)
  BY DEF Reviewed
<1>2. decision = "approve" => NextStage(r, request[r].status) \in Stage
  BY <1>1, RoutesOfRequests DEF Reviewed
<1>3. PICK entry : entry = [status |-> Decided(r, decision), period |-> request[r].period,
               returned |-> IF decision = "return" THEN request[r].status ELSE request[r].returned]
  OBVIOUS
<1>4. Decided(r, decision) \in AbsenceStatus
  BY <1>2 DEF Decided, AbsenceStatus
<1>5. entry \in RequestRow
  BY <1>1, <1>3, <1>4, RowFields DEF RequestRow
<1>6. PICK k \in Linked(r, u) :
        process' = [process EXCEPT ![r] =
          ActedLinked(Taken(process[r], k, u), RouteOf(r), Holders, k[1], u, decision)]
  BY DEF Reviewed
<1>7. PICK p \in Process : p = ActedLinked(Taken(process[r], k, u), RouteOf(r), Holders, k[1], u, decision)
  <2>1. PICK s \in Stage, v \in User : k = <<s, v>>
    BY LinkedIsTask
  <2>2. Taken(process[r], <<s, v>>, u) \in Process
    BY RowFields, TakenIs
  <2>3. decision \in Action
    BY DEF Action
  <2>4. ActedLinked(Taken(process[r], <<s, v>>, u), RouteOf(r), Holders, s, u, decision) \in Process
    BY <2>2, <2>3, ActedIsProcess
  <2> QED
    BY <2>1, <2>4
<1>8. request' = [request EXCEPT ![r] = entry] /\ process' = [process EXCEPT ![r] = p]
  <2>1. request[r] \in RequestRow /\ request \in [Request -> RequestRow]
    BY RowFields DEF RequestsTyped
  <2>2. request' = [request EXCEPT ![r].status = Decided(r, decision),
                       ![r].returned = IF decision = "return" THEN request[r].status ELSE request[r].returned]
    BY <2>1 DEF Reviewed
  <2>3. PICK status, returned :
          /\ status = Decided(r, decision)
          /\ returned = IF decision = "return" THEN request[r].status ELSE request[r].returned
    OBVIOUS
  <2>4. entry = [request[r] EXCEPT !.status = status, !.returned = returned]
    <3>1. PICK new : new = [request[r] EXCEPT !.status = status, !.returned = returned]
      OBVIOUS
    <3>2. status \in AbsenceStatus /\ returned \in Stage \cup {"none"}
      BY <1>1, <1>4, <2>3, RowFields
    <3>3. /\ new \in RequestRow /\ new.status = status /\ new.period = request[r].period
          /\ new.returned = returned
      BY <2>1, <3>1, <3>2 DEF RequestRow
    <3>4. entry.status = status /\ entry.period = request[r].period /\ entry.returned = returned
      BY <1>3, <2>3
    <3>5. new = entry
      BY <1>5, <3>3, <3>4 DEF RequestRow
    <3> QED
      BY <3>1, <3>5
  <2>5. request' = [request EXCEPT ![r] = [request[r] EXCEPT !.status = status, !.returned = returned]]
    BY <2>1, <2>2, <2>3
  <2>6. request' = [request EXCEPT ![r] = entry]
    BY <2>4, <2>5
  <2> QED
    BY <1>6, <1>7, <2>6
<1>9. /\ request' \in [Request -> RequestRow] /\ process' \in [Request -> Process]
      /\ request'[r] = entry /\ process'[r] = p /\ OnlyRow(r)
  BY <1>5, <1>8, RowMoves
<1>10. open' = open /\ calendar' = calendar /\ personnel' = personnel /\ today' = today
  BY DEF Reviewed
<1>11. \A t \in open' : t.owner # r
  BY <1>1, <1>10 DEF Busy
<1>12. TransactionsFit' /\ open' \subseteq Transaction /\ Cardinality(open') <= Concurrent
  BY <1>9, <1>10, <1>11, OthersElsewhere
<1>13. RequestsTyped'
  BY <1>9, <1>10, <1>12 DEF RequestsTyped
<1> QED
  BY <1>1, <1>2, <1>3, <1>6, <1>7, <1>9, <1>10, <1>12, <1>13

LEMMA CancelledIs ==
  ASSUME RequestsTyped, TransactionsFit, NEW r \in Request, Cancelled(r)
  PROVE  /\ request[r].status \notin {"none", "cancelled", "rejected"} /\ OnlyRow(r)
         /\ request'[r] = [request[r] EXCEPT !.status = "cancelled"]
         /\ process'[r] = Withdrawn(process[r])
         /\ open' = open /\ calendar' = Unlisted(r)
         /\ RequestsTyped' /\ TransactionsFit'
<1>1. request[r].status \notin {"none", "cancelled", "rejected"} /\ ~Busy(r)
  BY DEF Cancelled
<1>2. PICK entry : entry = [request[r] EXCEPT !.status = "cancelled"]
  OBVIOUS
<1>3. entry \in RequestRow
  BY <1>2, RowFields DEF RequestRow, AbsenceStatus
<1>4. PICK p \in Process : p = Withdrawn(process[r])
  BY RowFields, ClosedIs DEF Withdrawn, Terminal
<1>5. request' = [request EXCEPT ![r] = entry] /\ process' = [process EXCEPT ![r] = p]
  BY <1>2, <1>4 DEF Cancelled
<1>6. /\ request' \in [Request -> RequestRow] /\ process' \in [Request -> Process]
      /\ request'[r] = entry /\ process'[r] = p /\ OnlyRow(r)
  BY <1>3, <1>5, RowMoves
<1>7. open' = open /\ calendar' = Unlisted(r) /\ personnel' = personnel /\ today' = today
  BY DEF Cancelled
<1>8. \A t \in open' : t.owner # r
  BY <1>1, <1>7 DEF Busy
<1>9. TransactionsFit' /\ open' \subseteq Transaction /\ Cardinality(open') <= Concurrent
  BY <1>6, <1>7, <1>8, OthersElsewhere
<1>10. calendar' \in [Request -> {"none", "scheduled", "cancelled", "corrected"}]
  BY <1>7 DEF RequestsTyped, Unlisted
<1>11. RequestsTyped'
  BY <1>6, <1>7, <1>9, <1>10 DEF RequestsTyped
<1> QED
  BY <1>1, <1>2, <1>4, <1>6, <1>7, <1>9, <1>11

LEMMA BegunIs ==
  ASSUME RequestsTyped, TransactionsFit, NEW op \in {"create", "resubmit", "register", "record"},
         NEW owner \in Request \cup {Personnel}, NEW p \in Period, Begin(op, owner, p),
         owner \in Request => ~Busy(owner), Fits([op |-> op, owner |-> owner, period |-> p])
  PROVE  RequestsTyped' /\ TransactionsFit'
<1>1. PICK t : t = [op |-> op, owner |-> owner, period |-> p]
  OBVIOUS
<1>2. /\ Cardinality(open) < Concurrent /\ open' = open \cup {t}
      /\ request' = request /\ process' = process /\ balance' = balance /\ calendar' = calendar
      /\ personnel' = personnel /\ today' = today
  BY <1>1 DEF Begin
<1>3. t \in Transaction /\ t.owner = owner
  BY <1>1 DEF Transaction
<1>4. IsFiniteSet(open')
  BY <1>2, FS_AddElement DEF TransactionsFit
<1>5. Cardinality(open') <= Concurrent
  <2>1. PICK n \in Nat : n = Cardinality(open)
    BY FS_CardinalityType DEF TransactionsFit
  <2>2. Cardinality(open') = n \/ Cardinality(open') = n + 1
    BY <1>2, <2>1, FS_AddElement DEF TransactionsFit
  <2> QED
    BY <1>2, <2>1, <2>2, BoundsAssumption
<1>6. RequestsTyped'
  BY <1>2, <1>3, <1>5 DEF RequestsTyped
<1>7. ASSUME NEW x \in open' PROVE Fits(x)'
  <2>1. Fits(x)
    BY <1>1, <1>2 DEF TransactionsFit
  <2> QED
    BY <1>2, <2>1 DEF Fits
<1>8. ASSUME NEW x \in open', NEW y \in open', x.owner = y.owner, x.owner # Personnel PROVE x = y
  <2>1. \A z \in open : z.owner \in Request => z.owner # owner
    BY DEF Busy
  <2>2. \A z \in open : z.owner \in Request \cup {Personnel}
    BY OwnerOf
  <2> QED
    BY <1>2, <1>3, <1>8, <2>1, <2>2 DEF TransactionsFit
<1>9. TransactionsFit'
  BY <1>4, <1>7, <1>8 DEF TransactionsFit
<1> QED
  BY <1>6, <1>9

\* Steps that leave requests, processes and balances alone, and what is noted of them.
Still ==
  /\ request' = request /\ process' = process /\ balance' = balance
  /\ moved' = moved /\ bypassed' = bypassed

\* An aborted transaction has missed nothing.
Forgets ==
  \/ missed' = missed
  \/ \E t \in open : missed' = [r \in Request |-> IF r = t.owner THEN {} ELSE missed[r]]

\* Only the personnel department touches the calendar.
Unmoved == Still /\ Forgets /\ (calendar' = calendar \/ \E r \in Request : CorrectRequested(r))

LEMMA StillSteps ==
  ASSUME RequestsTyped, TransactionsFit,
         \/ \E r \in Request, p \in Period : BeginCreate(r, p) \/ BeginResubmit(r, p)
         \/ \E r \in Request : BeginRegister(r) \/ CorrectRequested(r)
         \/ \E p \in Period : BeginRecord(p) \/ CorrectRecorded(p)
         \/ \E t \in open : CommitRecord(t) \/ Abort(t)
         \/ NextDay
         \/ UNCHANGED absenceVars
  PROVE  Unmoved /\ RequestsTyped' /\ TransactionsFit'
<1> DEFINE Done == Unmoved /\ RequestsTyped' /\ TransactionsFit'
<1>1. ASSUME NEW op \in {"create", "resubmit", "register", "record"},
             NEW owner \in Request \cup {Personnel}, NEW p \in Period, Begin(op, owner, p),
             owner \in Request => ~Busy(owner), Fits([op |-> op, owner |-> owner, period |-> p])
      PROVE  Done
  <2>1. RequestsTyped' /\ TransactionsFit'
    BY <1>1, BegunIs
  <2>2. Unmoved
    BY <1>1 DEF Begin, Still, Forgets, Unmoved, history
  <2> QED
    BY <2>1, <2>2
<1>2. ASSUME NEW r \in Request, NEW p \in Period, BeginCreate(r, p) PROVE Done
  <2>1. Begin("create", r, p) /\ ~Busy(r) /\ request[r].status = "none"
    BY <1>2 DEF BeginCreate
  <2>2. Fits([op |-> "create", owner |-> r, period |-> p])
    BY <2>1, RequestAssumption DEF Fits
  <2> QED
    BY <1>1, <2>1, <2>2
<1>3. ASSUME NEW r \in Request, NEW p \in Period, BeginResubmit(r, p) PROVE Done
  <2>1. Begin("resubmit", r, p) /\ ~Busy(r) /\ request[r].status = "returned"
    BY <1>3 DEF BeginResubmit
  <2>2. Fits([op |-> "resubmit", owner |-> r, period |-> p])
    BY <2>1, RequestAssumption DEF Fits
  <2> QED
    BY <1>1, <2>1, <2>2
<1>4. ASSUME NEW r \in Request, BeginRegister(r) PROVE Done
  <2>1. PICK p \in Period : p = request[r].period
    BY RowFields
  <2>2. /\ Begin("register", r, p) /\ ~Busy(r) /\ request[r].status \in Stage
        /\ NextStage(r, request[r].status) = "none"
    BY <1>4, <2>1 DEF BeginRegister
  <2>3. Fits([op |-> "register", owner |-> r, period |-> p])
    BY <2>1, <2>2, RequestAssumption DEF Fits
  <2> QED
    BY <1>1, <2>2, <2>3
<1>5. ASSUME NEW p \in Period, BeginRecord(p) PROVE Done
  <2>1. Begin("record", Personnel, p)
    BY <1>5 DEF BeginRecord
  <2>2. Fits([op |-> "record", owner |-> Personnel, period |-> p])
    BY DEF Fits
  <2>3. Personnel \notin Request
    BY RequestAssumption
  <2> QED
    BY <1>1, <2>1, <2>2, <2>3
<1>6. ASSUME Unmoved, open' \subseteq open, calendar' \in [Request -> {"none", "scheduled", "cancelled", "corrected"}],
             personnel' \subseteq Period, today' \in Day
      PROVE  Done
  <2>1. TransactionsFit' /\ open' \subseteq Transaction /\ Cardinality(open') <= Concurrent
    BY <1>6, FewerTransactions DEF Unmoved, Still
  <2> QED
    BY <1>6, <2>1 DEF Unmoved, Still, RequestsTyped
<1>7. /\ calendar \in [Request -> {"none", "scheduled", "cancelled", "corrected"}]
      /\ personnel \subseteq Period /\ today \in Day
  BY DEF RequestsTyped
<1>8. ASSUME NEW r \in Request, CorrectRequested(r) PROVE Done
  <2>1. /\ Unmoved /\ open' = open /\ personnel' = personnel /\ today' = today
        /\ calendar' = [calendar EXCEPT ![r] = "corrected"]
    BY <1>8 DEF CorrectRequested, Unmoved, Still, Forgets, history
  <2>2. calendar' \in [Request -> {"none", "scheduled", "cancelled", "corrected"}]
    BY <1>7, <2>1
  <2> QED
    BY <1>6, <1>7, <2>1, <2>2
<1>9. ASSUME NEW p \in Period, CorrectRecorded(p) PROVE Done
  <2>1. /\ Unmoved /\ open' = open /\ calendar' = calendar /\ personnel' \subseteq personnel
        /\ today' = today
    BY <1>9 DEF CorrectRecorded, Unmoved, Still, Forgets, history
  <2> QED
    BY <1>6, <1>7, <2>1
<1>10. ASSUME NEW t \in open, CommitRecord(t) PROVE Done
  <2>1. /\ Unmoved /\ open' \subseteq open /\ calendar' = calendar /\ today' = today
        /\ personnel' = personnel \cup {t.period}
    BY <1>10 DEF CommitRecord, Unmoved, Still, Forgets, history
  <2>2. personnel' \subseteq Period
    BY <1>7, <2>1, OwnerOf
  <2> QED
    BY <1>6, <1>7, <2>1, <2>2
<1>11. ASSUME NEW t \in open, Abort(t) PROVE Done
  <2>1. Forgets
    BY <1>11 DEF Abort, Forgets
  <2>2. /\ Unmoved /\ open' \subseteq open /\ calendar' = calendar /\ personnel' = personnel
        /\ today' = today
    BY <1>11, <2>1 DEF Abort, Unmoved, Still
  <2> QED
    BY <1>6, <1>7, <2>2
<1>12. ASSUME NextDay PROVE Done
  <2>1. /\ Unmoved /\ open' = open /\ calendar' = calendar /\ personnel' = personnel
        /\ today < LastDay /\ today' = today + 1
    BY <1>12 DEF NextDay, Unmoved, Still, Forgets, history
  <2>2. today' \in Day
    BY <1>7, <2>1, CalendarAssumption DEF Day
  <2> QED
    BY <1>6, <1>7, <2>1, <2>2
<1>13. ASSUME UNCHANGED absenceVars PROVE Done
  <2>1. /\ Unmoved /\ open' = open /\ calendar' = calendar /\ personnel' = personnel
        /\ today' = today
    BY <1>13 DEF absenceVars, Unmoved, Still, Forgets, history
  <2> QED
    BY <1>6, <1>7, <2>1
<1> QED
  BY <1>2, <1>3, <1>4, <1>5, <1>8, <1>9, <1>10, <1>11, <1>12, <1>13

\* A transaction that is to give a request new dates has compared them with all others, or
\* is one of before with what it had missed.
Compared ==
  \A t \in open' : t.op \in {"create", "resubmit"} =>
    (t \in open /\ missed'[t.owner] = missed[t.owner]) \/ NoOverlap(t.period, t.owner)

LEMMA StillCompares ==
  ASSUME RequestsTyped, TransactionsFit,
         \/ \E r \in Request, p \in Period : BeginCreate(r, p) \/ BeginResubmit(r, p)
         \/ \E r \in Request : BeginRegister(r) \/ CorrectRequested(r)
         \/ \E p \in Period : BeginRecord(p) \/ CorrectRecorded(p)
         \/ \E t \in open : CommitRecord(t) \/ Abort(t)
         \/ NextDay
         \/ UNCHANGED absenceVars
  PROVE  Compared
<1>1. ASSUME NEW op, NEW owner, NEW p, Begin(op, owner, p), op \in {"register", "record"} \/ NoOverlap(p, owner)
      PROVE  Compared
  <2>1. open' = open \cup {[op |-> op, owner |-> owner, period |-> p]} /\ missed' = missed
    BY <1>1 DEF Begin, history
  <2> QED
    BY <1>1, <2>1 DEF Compared
<1>2. ASSUME NEW r \in Request, NEW p \in Period, BeginCreate(r, p) \/ BeginResubmit(r, p) PROVE Compared
  BY <1>1, <1>2 DEF BeginCreate, BeginResubmit
<1>3. ASSUME NEW r \in Request, BeginRegister(r) PROVE Compared
  BY <1>1, <1>3 DEF BeginRegister
<1>4. ASSUME NEW p \in Period, BeginRecord(p) PROVE Compared
  BY <1>1, <1>4 DEF BeginRecord
<1>5. ASSUME NEW r \in Request, CorrectRequested(r) PROVE Compared
  BY <1>5 DEF CorrectRequested, Compared, history
<1>6. ASSUME NEW p \in Period, CorrectRecorded(p) PROVE Compared
  BY <1>6 DEF CorrectRecorded, Compared, history
<1>7. ASSUME NEW t \in open, CommitRecord(t) PROVE Compared
  BY <1>7 DEF CommitRecord, Compared, history
<1>8. ASSUME NEW t \in open, Abort(t) PROVE Compared
  <2>1. open' = open \ {t} /\ missed' = [r \in Request |-> IF r = t.owner THEN {} ELSE missed[r]]
    BY <1>8 DEF Abort
  <2>2. ASSUME NEW x \in open', x.op \in {"create", "resubmit"} PROVE missed'[x.owner] = missed[x.owner]
    <3>1. x \in open /\ x # t /\ x.owner \in Request
      BY <2>1, <2>2, OwnerOf
    <3>2. x.owner # t.owner
      BY <3>1, RequestAssumption DEF TransactionsFit
    <3> QED
      BY <2>1, <3>1, <3>2
  <2> QED
    BY <2>1, <2>2 DEF Compared
<1>9. ASSUME NextDay \/ UNCHANGED absenceVars PROVE Compared
  BY <1>9 DEF NextDay, absenceVars, Compared, history
<1> QED
  BY <1>2, <1>3, <1>4, <1>5, <1>6, <1>7, <1>8, <1>9

LEMMA ActedOnIs ==
  ASSUME RequestsTyped, TransactionsFit, NEW r \in Request, NEW s \in Stage, NEW u \in User,
         NEW action \in Action, ActOnTask(r, s, u, action)
  PROVE  /\ request' = request /\ calendar' = calendar /\ open' = open /\ balance' = balance
         /\ missed' = missed /\ moved' = moved /\ bypassed' = bypassed \cup {r}
         /\ request[r].status # "none" /\ process[r].task[<<s, u>>] = "active"
         /\ action \in {"approve", "return", "reject"}
         /\ process'[r] = Acted(process[r], RouteOf(r), Holders, s, u, action)
         /\ \A q \in Request : q # r => process'[q] = process[q]
         /\ RequestsTyped' /\ TransactionsFit'
<1>1. PICK p \in Process : p = Acted(process[r], RouteOf(r), Holders, s, u, action)
  BY RowFields, ActedIsProcess
<1>2. /\ process' = [process EXCEPT ![r] = p]
      /\ request' = request /\ balance' = balance /\ calendar' = calendar /\ personnel' = personnel
      /\ open' = open /\ today' = today
      /\ missed' = missed /\ moved' = moved /\ bypassed' = bypassed \cup {r}
      /\ request[r].status # "none" /\ process[r].task[<<s, u>>] = "active"
      /\ action \in RouteOf(r).allowed[s]
  BY <1>1 DEF ActOnTask
<1>3. process' \in [Request -> Process] /\ process'[r] = p /\ \A q \in Request : q # r => process'[q] = process[q]
  BY <1>2 DEF RequestsTyped
<1>4. TransactionsFit'
  BY <1>2, FewerTransactions
<1>5. RouteOf(r).allowed[s] = {"approve", "return", "reject"}
  BY DEF RouteOf
<1>6. RequestsTyped'
  BY <1>2, <1>3, <1>4 DEF RequestsTyped
<1> QED
  BY <1>1, <1>2, <1>3, <1>4, <1>5, <1>6

\* Every step is quiet, acts on a task, or moves one request.
LEMMA StepMoves ==
  ASSUME RequestsTyped, TransactionsFit, [AbsenceNext]_absenceVars
  PROVE  \/ Unmoved /\ Compared
         \/ \E r \in Request, s \in Stage, u \in User, action \in Action : ActOnTask(r, s, u, action)
         \/ \E t \in open :
              \/ CreateLeave(t) \/ CreateTrip(t) \/ ResubmitLeave(t) \/ ResubmitTrip(t)
              \/ \E u \in User : ApproveLeave(t, u) \/ RegisterTrip(t, u)
         \/ \E r \in Request :
              \/ CancelLeave(r) \/ CancelTrip(r)
              \/ \E u \in User, decision \in {"approve", "return", "reject"} :
                   DecideLeave(r, u, decision) \/ DecideTrip(r, u, decision)
BY StillSteps, StillCompares DEF AbsenceNext

LEMMA StepFits ==
  ASSUME RequestsTyped, TransactionsFit, [AbsenceNext]_absenceVars
  PROVE  RequestsTyped' /\ TransactionsFit'
<1>1. ASSUME NEW t \in open, CreateLeave(t) \/ CreateTrip(t)
      PROVE  RequestsTyped' /\ TransactionsFit'
  BY <1>1, SubmittedIs DEF CreateLeave, CreateTrip
<1>2. ASSUME NEW t \in open, ResubmitLeave(t) \/ ResubmitTrip(t)
      PROVE  RequestsTyped' /\ TransactionsFit'
  BY <1>2, ContinuedIs DEF ResubmitLeave, ResubmitTrip
<1>3. ASSUME NEW t \in open, NEW u \in User, ApproveLeave(t, u) \/ RegisterTrip(t, u)
      PROVE  RequestsTyped' /\ TransactionsFit'
  BY <1>3, RegisteredIs DEF ApproveLeave, RegisterTrip
<1>4. ASSUME NEW r \in Request, NEW u \in User, NEW decision \in {"approve", "return", "reject"},
             DecideLeave(r, u, decision) \/ DecideTrip(r, u, decision)
      PROVE  RequestsTyped' /\ TransactionsFit'
  BY <1>4, ReviewedIs DEF DecideLeave, DecideTrip
<1>5. ASSUME NEW r \in Request, CancelLeave(r) \/ CancelTrip(r)
      PROVE  RequestsTyped' /\ TransactionsFit'
  BY <1>5, CancelledIs DEF CancelLeave, CancelTrip
<1>6. ASSUME NEW r \in Request, NEW s \in Stage, NEW u \in User, NEW action \in Action,
             ActOnTask(r, s, u, action)
      PROVE  RequestsTyped' /\ TransactionsFit'
  BY <1>6, ActedOnIs
<1> QED
  BY <1>1, <1>2, <1>3, <1>4, <1>5, <1>6, StillSteps DEF AbsenceNext

---------------------------------------------------------------------------
(* What a step makes of the request it moves *)

LEMMA SubmitStep ==
  ASSUME RequestsTyped, TransactionsFit, NEW t \in open, CreateLeave(t) \/ CreateTrip(t)
  PROVE  /\ t.owner \in Request /\ t.op = "create" /\ Submitted(t) /\ OnlyRow(t.owner)
         /\ open' = open \ {t} /\ calendar' = calendar
         /\ request[t.owner].status = "none"
         /\ request'[t.owner].status = "manager_review" /\ request'[t.owner].period = t.period
         /\ missed' = Unseen(t.owner) /\ moved' = moved /\ bypassed' = bypassed
<1>1. t.op = "create" /\ Submitted(t)
  BY DEF CreateLeave, CreateTrip
<1>4. missed' = Unseen(t.owner) /\ moved' = moved /\ bypassed' = bypassed
  BY <1>1 DEF Submitted
<1>2. /\ t.owner \in Request /\ request[t.owner].status = "none" /\ OnlyRow(t.owner)
      /\ request'[t.owner] = [status |-> "manager_review", period |-> t.period, returned |-> "none"]
      /\ open' = open \ {t} /\ calendar' = calendar
  BY <1>1, SubmittedIs
<1>3. request'[t.owner].status = "manager_review" /\ request'[t.owner].period = t.period
  BY <1>2
<1> QED
  BY <1>1, <1>2, <1>3, <1>4

LEMMA ContinueStep ==
  ASSUME RequestsTyped, TransactionsFit, NEW t \in open, ResubmitLeave(t) \/ ResubmitTrip(t)
  PROVE  /\ t.owner \in Request /\ t.op = "resubmit" /\ Continued(t) /\ OnlyRow(t.owner)
         /\ open' = open \ {t} /\ calendar' = calendar
         /\ request[t.owner].status = "returned"
         /\ request'[t.owner].status = request[t.owner].returned
         /\ request'[t.owner].period = t.period
         /\ missed' = Unseen(t.owner) /\ bypassed' = bypassed
<1>1. t.op = "resubmit" /\ Continued(t)
  BY DEF ResubmitLeave, ResubmitTrip
<1>4. missed' = Unseen(t.owner) /\ bypassed' = bypassed
  BY <1>1 DEF Continued
<1>2. /\ t.owner \in Request /\ request[t.owner].status = "returned" /\ OnlyRow(t.owner)
      /\ request'[t.owner] =
           [status |-> request[t.owner].returned, period |-> t.period, returned |-> "none"]
      /\ open' = open \ {t} /\ calendar' = calendar
  BY <1>1, ContinuedIs
<1>3. request'[t.owner].status = request[t.owner].returned /\ request'[t.owner].period = t.period
  BY <1>2
<1> QED
  BY <1>1, <1>2, <1>3, <1>4

LEMMA ApproveStep ==
  ASSUME RequestsTyped, TransactionsFit, NEW t \in open, NEW u \in User,
         ApproveLeave(t, u) \/ RegisterTrip(t, u)
  PROVE  /\ t.owner \in Request /\ t.op = "register" /\ Registered(t, u) /\ OnlyRow(t.owner)
         /\ open' = open \ {t}
         /\ calendar' = [calendar EXCEPT ![t.owner] =
                           IF calendar[t.owner] = "none" THEN "scheduled" ELSE calendar[t.owner]]
         /\ request[t.owner].status \in Stage /\ t.period = request[t.owner].period
         /\ request'[t.owner].status = "approved" /\ request'[t.owner].period = request[t.owner].period
         /\ missed' = missed /\ moved' = moved /\ bypassed' = bypassed
<1>1. t.op = "register" /\ Registered(t, u)
  BY DEF ApproveLeave, RegisterTrip
<1>5. missed' = missed /\ moved' = moved /\ bypassed' = bypassed
  BY <1>1 DEF Registered, history
<1>2. /\ t.owner \in Request /\ request[t.owner].status \in Stage /\ OnlyRow(t.owner)
      /\ t.period = request[t.owner].period
      /\ request'[t.owner] = [request[t.owner] EXCEPT !.status = "approved"]
      /\ open' = open \ {t}
      /\ calendar' = [calendar EXCEPT ![t.owner] =
                        IF calendar[t.owner] = "none" THEN "scheduled" ELSE calendar[t.owner]]
  BY <1>1, RegisteredIs
<1>3. request[t.owner] \in RequestRow
  BY <1>2, RowFields
<1>4. request'[t.owner].status = "approved" /\ request'[t.owner].period = request[t.owner].period
  BY <1>2, <1>3 DEF RequestRow
<1> QED
  BY <1>1, <1>2, <1>4, <1>5

LEMMA CancelStep ==
  ASSUME RequestsTyped, TransactionsFit, NEW r \in Request, CancelLeave(r) \/ CancelTrip(r)
  PROVE  /\ Cancelled(r) /\ OnlyRow(r) /\ open' = open /\ calendar' = Unlisted(r)
         /\ request[r].status \in Stage \cup {"returned", "approved"}
         /\ request'[r].status = "cancelled" /\ request'[r].period = request[r].period
         /\ missed' = missed /\ moved' = moved /\ bypassed' = bypassed
<1>1. Cancelled(r)
  BY DEF CancelLeave, CancelTrip
<1>6. missed' = missed /\ moved' = moved /\ bypassed' = bypassed
  BY <1>1 DEF Cancelled, history
<1>2. /\ request[r].status \notin {"none", "cancelled", "rejected"} /\ OnlyRow(r)
      /\ request'[r] = [request[r] EXCEPT !.status = "cancelled"]
      /\ open' = open /\ calendar' = Unlisted(r)
  BY <1>1, CancelledIs
<1>3. request[r] \in RequestRow /\ request[r].status \in AbsenceStatus
  BY RowFields
<1>4. request'[r].status = "cancelled" /\ request'[r].period = request[r].period
  BY <1>2, <1>3 DEF RequestRow
<1>5. request[r].status \in Stage \cup {"returned", "approved"}
  BY <1>2, <1>3 DEF AbsenceStatus
<1> QED
  BY <1>1, <1>2, <1>4, <1>5, <1>6

LEMMA DecideStep ==
  ASSUME RequestsTyped, TransactionsFit, NEW r \in Request, NEW u \in User,
         NEW decision \in {"approve", "return", "reject"},
         DecideLeave(r, u, decision) \/ DecideTrip(r, u, decision)
  PROVE  /\ Reviewed(r, u, decision) /\ OnlyRow(r) /\ open' = open /\ calendar' = calendar
         /\ request[r].status \in Stage
         /\ decision = "approve" => request'[r].status \in Stage
         /\ decision = "return" =>
              request'[r].status = "returned" /\ request'[r].returned = request[r].status
         /\ decision = "reject" => request'[r].status = "rejected"
         /\ request'[r].status = Decided(r, decision)
         /\ request'[r].period = request[r].period
         /\ missed' = missed /\ moved' = moved /\ bypassed' = bypassed
<1>1. Reviewed(r, u, decision)
  BY DEF DecideLeave, DecideTrip
<1>5. missed' = missed /\ moved' = moved /\ bypassed' = bypassed
  BY <1>1 DEF Reviewed, history
<1>2. /\ request[r].status \in Stage /\ OnlyRow(r)
      /\ decision = "approve" => NextStage(r, request[r].status) \in Stage
      /\ request'[r] =
           [status |-> Decided(r, decision), period |-> request[r].period,
            returned |-> IF decision = "return" THEN request[r].status ELSE request[r].returned]
      /\ open' = open /\ calendar' = calendar
  BY <1>1, ReviewedIs
<1>3. /\ request'[r].status = Decided(r, decision) /\ request'[r].period = request[r].period
      /\ decision = "return" => request'[r].returned = request[r].status
  BY <1>2
<1>4. /\ decision = "approve" => Decided(r, decision) = NextStage(r, request[r].status)
      /\ decision = "return" => Decided(r, decision) = "returned"
      /\ decision = "reject" => Decided(r, decision) = "rejected"
  BY DEF Decided
<1> QED
  BY <1>1, <1>2, <1>3, <1>4, <1>5

---------------------------------------------------------------------------
(* Processes follow their requests *)

Follows(p, entry) ==
  /\ entry.status \in Stage =>
       /\ p.status = "active" /\ p.phase = entry.status /\ Returned(p) = {}
       /\ \E v \in User : Asked(p) = {<<entry.status, v>>}
  /\ entry.status \in {"returned", "approved", "rejected", "cancelled"} => Asked(p) = {}
  /\ entry.status = "returned" =>
       /\ p.status = "active" /\ p.phase = entry.returned /\ entry.returned \in Stage
       /\ \E v \in User : Returned(p) = {<<entry.returned, v>>}
  /\ entry.status = "approved" => p.status = "completed"
  /\ entry.status \in {"rejected", "cancelled"} => p.status = entry.status

\* The stages behind one.
Behind(r, s) == {x \in Stage : x = NextStage(r, s) \/ x = NextStage(r, NextStage(r, s))}

\* The process of a request that act_task has moved on: it has left the request's stage for
\* good, or nobody is asked, until the request is cancelled.
Strays(r, p, entry) ==
  /\ entry.status \in Stage \cup {"cancelled"}
  /\ entry.status \in Stage =>
       /\ p.status # "cancelled"
       /\ Asked(p) = {} \/ (p.phase \in Behind(r, entry.status) /\ \E v \in User : Asked(p) = {<<p.phase, v>>})
  /\ entry.status = "cancelled" => p.status = "cancelled" /\ Asked(p) = {}

ProcessesFollow ==
  /\ bypassed \subseteq Request
  /\ \A r \in Request \ bypassed : Follows(process[r], request[r])
  /\ \A r \in bypassed : Strays(r, process[r], request[r])

LEMMA BehindIs ==
  ASSUME NEW r, NEW s \in Stage
  PROVE  /\ s \notin Behind(r, s)
         /\ NextStage(r, s) \in Stage => NextStage(r, s) \in Behind(r, s)
         /\ \A x \in Behind(r, s) : NextStage(r, x) \in Stage => NextStage(r, x) \in Behind(r, s)
BY DEF Behind, NextStage, Stage

\* A decision of the business operation finds no task in a process that has strayed.
LEMMA StrayIsNotDecided ==
  ASSUME RequestsTyped, ProcessesFollow, NEW r \in Request, request[r].status \in Stage,
         NEW u \in User, NEW k \in Linked(r, u)
  PROVE  r \notin bypassed
<1>1. SUFFICES ASSUME r \in bypassed PROVE FALSE
  OBVIOUS
<1>2. PICK p : p = process[r]
  OBVIOUS
<1>3. k \in LinkedTasks(p, Holders, u) /\ p.phase = request[r].status
  BY <1>2, LinkedIsTask
<1>4. k \in Asked(p)
  <2>1. k \in Stage \X User
    BY LinkedIsTask
  <2>2. p.task[k] = "active"
    <3>1. \/ k \in {<<x, u>> : x \in {y \in Stage : p.task[<<y, u>>] = "active"}}
          \/ k \in {x \in Stage \X User : /\ p.task[x] = "active" /\ u \in Holders[x[1]]
                                        /\ p.task[<<x[1], u>>] = "none"}
      BY <1>3 DEF LinkedTasks
    <3>2. CASE k \in {<<x, u>> : x \in {y \in Stage : p.task[<<y, u>>] = "active"}}
      <4>1. PICK x \in Stage : k = <<x, u>> /\ p.task[<<x, u>>] = "active"
        BY <3>2
      <4> QED
        BY <4>1
    <3> QED
      BY <3>1, <3>2
  <2> QED
    BY <2>1, <2>2 DEF Asked
<1>5. Strays(r, p, request[r])
  BY <1>1, <1>2 DEF ProcessesFollow
<1>6. p.phase \in Behind(r, request[r].status)
  BY <1>4, <1>5 DEF Strays
<1> QED
  BY <1>3, <1>6, BehindIs

\* One request moves, and its process with it.
LEMMA OneFollows ==
  ASSUME ProcessesFollow, NEW r \in Request, OnlyRow(r), bypassed' = bypassed,
         r \notin bypassed => Follows(process'[r], request'[r]),
         r \in bypassed => Strays(r, process'[r], request'[r])
  PROVE  ProcessesFollow'
<1>1. ASSUME NEW q \in Request \ bypassed PROVE Follows(process'[q], request'[q])
  BY <1>1 DEF OnlyRow, ProcessesFollow
<1>2. ASSUME NEW q \in bypassed PROVE Strays(q, process'[q], request'[q])
  <2>1. q \in Request
    BY <1>2 DEF ProcessesFollow
  <2> QED
    BY <1>2, <2>1 DEF OnlyRow, ProcessesFollow
<1>3. /\ \A q \in Request \ bypassed' : Follows(process'[q], request'[q])
      /\ \A q \in bypassed' : Strays(q, process'[q], request'[q])
  BY <1>1, <1>2
<1>4. bypassed' \subseteq Request
  BY DEF ProcessesFollow
<1> QED
  BY <1>3, <1>4 DEF ProcessesFollow, Follows, Strays, Asked, Returned

LEMMA SubmittedFollows ==
  ASSUME RequestsTyped, TransactionsFit, ProcessesFollow, NEW t \in open, t.op = "create", Submitted(t)
  PROVE  ProcessesFollow'
<1>0. bypassed' = bypassed
  BY DEF Submitted
<1>1. PICK r \in Request :
        /\ r = t.owner /\ OnlyRow(r) /\ process'[r] = Started(RouteOf(r), Holders)
        /\ request[r].status = "none"
        /\ request'[r] = [status |-> "manager_review", period |-> t.period, returned |-> "none"]
  BY SubmittedIs
<1>2. PICK q \in Process, v \in User :
        /\ q = Started(RouteOf(r), Holders) /\ q.phase = "manager_review" /\ q.status = "active"
        /\ \A k \in Stage \X User : q.task[k] = IF k = <<"manager_review", v>> THEN "active" ELSE "none"
  BY StartedIs
<1>3. Asked(q) = {<<"manager_review", v>>} /\ Returned(q) = {}
  <2>1. <<"manager_review", v>> \in Stage \X User
    BY DEF Stage
  <2> QED
    BY <1>2, <2>1 DEF Asked, Returned
<1>4. Follows(process'[r], request'[r])
  BY <1>1, <1>2, <1>3 DEF Follows
<1>5. r \notin bypassed
  BY <1>1 DEF ProcessesFollow, Strays, Stage
<1> QED
  BY <1>0, <1>1, <1>4, <1>5, OneFollows

LEMMA ContinuedFollows ==
  ASSUME RequestsTyped, TransactionsFit, ProcessesFollow, NEW t \in open, t.op = "resubmit", Continued(t)
  PROVE  ProcessesFollow'
<1>0. bypassed' = bypassed
  BY DEF Continued
<1>1. PICK r \in Request :
        /\ r = t.owner /\ OnlyRow(r) /\ request[r].status = "returned"
        /\ request'[r] = [status |-> request[r].returned, period |-> t.period, returned |-> "none"]
        /\ \E k \in Stage \X User :
             k \in Returned(process[r]) /\ process'[r] = Resumed(process[r], k[1], k[2])
  BY ContinuedIs
<1>2. PICK p \in Process, s \in Stage :
        p = process[r] /\ s = request[r].returned /\ p.phase = s /\ Asked(p) = {}
        /\ \E v \in User : Returned(p) = {<<s, v>>}
  <2>1. r \notin bypassed
    BY <1>1 DEF ProcessesFollow, Strays, Stage
  <2>2. Follows(process[r], request[r])
    BY <2>1 DEF ProcessesFollow
  <2> QED
    BY <1>1, <2>2, RowFields DEF Follows
<1>3. PICK v \in User : Returned(p) = {<<s, v>>}
  BY <1>2
<1>4. PICK k \in Stage \X User : k \in Returned(p) /\ process'[r] = Resumed(p, k[1], k[2])
  BY <1>1, <1>2
<1>5. k[1] = s /\ k[2] = v
  BY <1>3, <1>4
<1>6. PICK q \in Process :
        /\ q = Resumed(p, s, v) /\ q.phase = p.phase /\ q.status = "active"
        /\ \A x \in Stage \X User : q.task[x] = IF x = <<s, v>> THEN "active" ELSE p.task[x]
  BY ResumedIs
<1>7. Asked(q) = {<<s, v>>} /\ Returned(q) = {}
  BY <1>2, <1>3, <1>6 DEF Asked, Returned
<1>8. process'[r] = q /\ request'[r].status = s
  BY <1>1, <1>2, <1>4, <1>5, <1>6
<1>9. s \notin {"returned", "approved", "rejected", "cancelled"}
  BY DEF Stage
<1>10. Follows(process'[r], request'[r])
  BY <1>2, <1>6, <1>7, <1>8, <1>9 DEF Follows
<1>11. r \notin bypassed
  BY <1>1 DEF ProcessesFollow, Strays, Stage
<1> QED
  BY <1>0, <1>1, <1>10, <1>11, OneFollows

\* The process of a request under review, and what a linked decision makes of it.
LEMMA DecisionFollows ==
  ASSUME RequestsTyped, ProcessesFollow, NEW r \in Request, request[r].status \in Stage,
         NEW u \in User, NEW k \in Linked(r, u), NEW decision \in {"approve", "return", "reject"}
  PROVE  Result(ActedLinked(Taken(process[r], k, u), RouteOf(r), Holders, k[1], u, decision),
                 r, request[r].status, u, decision)
<1>0. PICK s \in Stage : s = request[r].status
  OBVIOUS
<1>1. PICK p \in Process : p = process[r] /\ Follows(p, request[r])
  BY RowFields, StrayIsNotDecided DEF ProcessesFollow
<1>2. p.status = "active" /\ p.phase = s /\ Returned(p) = {} /\ \E v \in User : Asked(p) = {<<s, v>>}
  BY <1>0, <1>1 DEF Follows
<1>3. PICK v \in User : Asked(p) = {<<s, v>>}
  BY <1>2
<1>4. k \in LinkedTasks(p, Holders, u)
  BY <1>1, LinkedIsTask
<1>5. Result(ActedLinked(Taken(p, k, u), RouteOf(r), Holders, k[1], u, decision), r, s, u, decision)
  BY <1>2, <1>3, <1>4, LinkedDecision
<1> QED
  BY <1>0, <1>1, <1>5

LEMMA RegisteredFollows ==
  ASSUME RequestsTyped, TransactionsFit, ProcessesFollow, NEW t \in open, NEW u \in User,
         ApproveLeave(t, u) \/ RegisterTrip(t, u)
  PROVE  ProcessesFollow'
<1>1. /\ t.owner \in Request /\ t.op = "register" /\ Registered(t, u) /\ OnlyRow(t.owner)
      /\ request'[t.owner].status = "approved" /\ bypassed' = bypassed
  BY ApproveStep
<1>2. PICK r \in Request : r = t.owner
  BY <1>1
<1>3. /\ request[t.owner].status \in Stage /\ NextStage(t.owner, request[t.owner].status) = "none"
      /\ \E k \in Linked(t.owner, u) :
           process'[t.owner] =
             ActedLinked(Taken(process[t.owner], k, u), RouteOf(t.owner), Holders, k[1], u, "approve")
  BY <1>1, RegisteredIs
<1>4. PICK s \in Stage : s = request[r].status /\ NextStage(r, s) = "none"
  BY <1>2, <1>3
<1>5. PICK k \in Linked(r, u) :
        process'[r] = ActedLinked(Taken(process[r], k, u), RouteOf(r), Holders, k[1], u, "approve")
  BY <1>2, <1>3
<1>6. PICK q : q = ActedLinked(Taken(process[r], k, u), RouteOf(r), Holders, k[1], u, "approve")
  OBVIOUS
<1>7. Result(q, r, s, u, "approve")
  BY <1>4, <1>6, DecisionFollows
<1>8. q.status = "completed" /\ Asked(q) = {}
  BY <1>4, <1>7 DEF Result
<1>9. Follows(process'[r], request'[r])
  BY <1>1, <1>2, <1>5, <1>6, <1>8 DEF Follows, Stage
<1>10. r \notin bypassed
  BY <1>4, StrayIsNotDecided
<1> QED
  BY <1>1, <1>2, <1>9, <1>10, OneFollows

LEMMA ReviewedFollows ==
  ASSUME RequestsTyped, TransactionsFit, ProcessesFollow, NEW r \in Request, NEW u \in User,
         NEW decision \in {"approve", "return", "reject"},
         DecideLeave(r, u, decision) \/ DecideTrip(r, u, decision)
  PROVE  ProcessesFollow'
<1>1. /\ Reviewed(r, u, decision) /\ OnlyRow(r) /\ request[r].status \in Stage
      /\ decision = "approve" => request'[r].status \in Stage
      /\ decision = "return" =>
           request'[r].status = "returned" /\ request'[r].returned = request[r].status
      /\ decision = "reject" => request'[r].status = "rejected"
      /\ request'[r].status = Decided(r, decision) /\ bypassed' = bypassed
  BY DecideStep
<1>2. PICK s \in Stage : s = request[r].status
  BY <1>1
<1>3. PICK k \in Linked(r, u) :
        process'[r] = ActedLinked(Taken(process[r], k, u), RouteOf(r), Holders, k[1], u, decision)
  BY <1>1, ReviewedIs
<1>4. PICK q : q = ActedLinked(Taken(process[r], k, u), RouteOf(r), Holders, k[1], u, decision)
  OBVIOUS
<1>5. Result(q, r, s, u, decision)
  BY <1>2, <1>4, DecisionFollows
<1>6. process'[r] = q /\ r \notin bypassed
  BY <1>1, <1>3, <1>4, StrayIsNotDecided
<1>7. CASE decision = "approve"
  <2>1. PICK n \in Stage : n = request'[r].status
    BY <1>1, <1>7
  <2>2. n = NextStage(r, s)
    BY <1>1, <1>2, <1>7, <2>1 DEF Decided
  <2>3. n \notin {"none", "returned", "approved", "rejected", "cancelled"}
    BY DEF Stage
  <2>4. q.status = "active" /\ q.phase = n /\ Returned(q) = {} /\ \E w \in User : Asked(q) = {<<n, w>>}
    BY <1>5, <1>7, <2>2, <2>3 DEF Result
  <2>5. Follows(q, request'[r])
    BY <2>1, <2>3, <2>4 DEF Follows
  <2> QED
    BY <1>1, <1>6, <2>5, OneFollows
<1>8. CASE decision = "return"
  <2>1. request'[r].status = "returned" /\ request'[r].returned = s
    BY <1>1, <1>2, <1>8
  <2>2. Follows(q, request'[r])
    BY <1>5, <1>8, <2>1 DEF Follows, Result, Stage
  <2> QED
    BY <1>1, <1>6, <2>2, OneFollows
<1>9. CASE decision = "reject"
  <2>1. request'[r].status = "rejected"
    BY <1>1, <1>9
  <2>2. Follows(q, request'[r])
    BY <1>5, <1>9, <2>1 DEF Follows, Result, Stage
  <2> QED
    BY <1>1, <1>6, <2>2, OneFollows
<1> QED
  BY <1>7, <1>8, <1>9

LEMMA CancelledFollows ==
  ASSUME RequestsTyped, TransactionsFit, ProcessesFollow, NEW r \in Request,
         CancelLeave(r) \/ CancelTrip(r)
  PROVE  ProcessesFollow'
<1>1. /\ Cancelled(r) /\ OnlyRow(r) /\ request[r].status \in Stage \cup {"returned", "approved"}
      /\ request'[r].status = "cancelled" /\ bypassed' = bypassed
  BY CancelStep
<1>2. process'[r] = Withdrawn(process[r])
  BY <1>1, CancelledIs
<1>3. PICK p \in Process : p = process[r]
  BY RowFields
<1>4. p.status # "cancelled"
  <2>1. CASE r \in bypassed
    BY <1>1, <1>3, <2>1 DEF ProcessesFollow, Strays, Stage
  <2>2. CASE r \notin bypassed
    BY <1>1, <1>3, <2>2 DEF ProcessesFollow, Follows
  <2> QED
    BY <2>1, <2>2
<1>5. PICK q \in Process :
        /\ q = Closed(p, "cancelled") /\ q.phase = p.phase /\ q.status = "cancelled"
        /\ \A k \in Stage \X User : q.task[k] = IF p.task[k] = "active" THEN "cancelled" ELSE p.task[k]
  BY ClosedIs DEF Terminal
<1>6. process'[r] = q /\ Asked(q) = {}
  BY <1>2, <1>3, <1>4, <1>5 DEF Withdrawn, Asked
<1>7. Follows(process'[r], request'[r]) /\ Strays(r, process'[r], request'[r])
  BY <1>1, <1>5, <1>6 DEF Follows, Strays, Stage
<1> QED
  BY <1>1, <1>7, OneFollows

\* What act_task leaves of a process in which one reviewer is asked.
LEMMA ActedAt ==
  ASSUME NEW p \in Process, NEW r, NEW s \in Stage, NEW u \in User, Asked(p) = {<<s, u>>},
         NEW action \in {"approve", "return", "reject"}
  PROVE  \E q \in Process :
           /\ q = Acted(p, RouteOf(r), Holders, s, u, action)
           /\ \/ q.status = "completed" /\ Asked(q) = {}
              \/ /\ q.status = p.status /\ NextStage(r, s) \in Stage /\ q.phase = NextStage(r, s)
                 /\ \E w \in User : Asked(q) = {<<q.phase, w>>}
<1>1. action \in Action
  BY DEF Action
<1>2. PICK q \in Process : q = Acted(p, RouteOf(r), Holders, s, u, action)
  BY <1>1, ActedIsProcess
<1>3. ~Waits(p, RouteOf(r), s, u, action)
  BY <1>1, DecisionIsEnough
<1>4. PICK t : t = RouteOf(r).goto[<<s, action>>]
  OBVIOUS
<1>5. t = IF action = "approve" THEN NextStage(r, s) ELSE "none"
  BY <1>1, <1>4, RoutesOfRequests
<1>6. PICK d \in Process :
        /\ d = Recorded(p, s, u, action) /\ d.phase = p.phase /\ d.status = p.status
        /\ \A x \in Stage \X User : d.task[x] = IF x = <<s, u>> THEN Verdict(action) ELSE p.task[x]
  BY <1>1, RecordedIs
<1>7. Settled(d, RouteOf(r), s, action) = d
  BY SettledIs
<1>8. \A x \in Stage \X User : d.task[x] # "active"
  BY <1>6 DEF Asked, Verdict
<1>9. CASE t = "none"
  <2>1. q = [d EXCEPT !.status = "completed"]
    BY <1>2, <1>3, <1>4, <1>6, <1>7, <1>9 DEF Acted
  <2>2. q.status = "completed" /\ q.task = d.task
    BY <2>1 DEF Process
  <2> QED
    BY <1>2, <1>8, <2>2 DEF Asked
<1>10. CASE t # "none"
  <2>1. t \in Stage /\ t = NextStage(r, s)
    BY <1>5, <1>10, RoutesOfRequests
  <2>2. PICK w \in User : Chosen(RouteOf(r), t, Holders[t]) = {w} /\ Resolved(RouteOf(r), t, Holders[t])
    BY <2>1, OneIsChosen
  <2>3. q = AddTasks(d, t, {w})
    BY <1>2, <1>3, <1>4, <1>6, <1>7, <1>10, <2>2 DEF Acted
  <2>4. /\ q.phase = t /\ q.status = p.status
        /\ \A x \in Stage \X User : q.task[x] = IF x[1] = t /\ x[2] \in {w} THEN "active" ELSE d.task[x]
    BY <1>6, <2>1, <2>3, TasksAdded
  <2>5. Asked(q) = {<<t, w>>}
    <3>1. <<t, w>> \in Stage \X User
      BY <2>1
    <3>2. \A x \in Stage \X User : x[1] = t /\ x[2] \in {w} <=> x = <<t, w>>
      BY <2>1
    <3> QED
      BY <1>8, <2>4, <3>1, <3>2 DEF Asked
  <2> QED
    BY <1>2, <2>1, <2>4, <2>5
<1> QED
  BY <1>9, <1>10

LEMMA ActedFollows ==
  ASSUME RequestsTyped, TransactionsFit, ProcessesFollow, NEW r \in Request, NEW s \in Stage,
         NEW u \in User, NEW action \in Action, ActOnTask(r, s, u, action)
  PROVE  ProcessesFollow'
<1>1. /\ request' = request /\ bypassed' = bypassed \cup {r}
      /\ request[r].status # "none" /\ process[r].task[<<s, u>>] = "active"
      /\ action \in {"approve", "return", "reject"}
      /\ process'[r] = Acted(process[r], RouteOf(r), Holders, s, u, action)
      /\ \A q \in Request : q # r => process'[q] = process[q]
  BY ActedOnIs
<1>2. PICK p \in Process, entry \in RequestRow : p = process[r] /\ entry = request[r]
  BY RowFields
<1>3. <<s, u>> \in Asked(p)
  BY <1>1, <1>2 DEF Asked
<1>4. /\ entry.status \in Stage /\ p.status # "cancelled" /\ Asked(p) = {<<s, u>>}
      /\ s = entry.status \/ s \in Behind(r, entry.status)
  <2>1. CASE r \in bypassed
    <3>1. Strays(r, p, entry)
      BY <1>2, <2>1 DEF ProcessesFollow
    <3>2. entry.status \in Stage /\ p.status # "cancelled" /\ p.phase \in Behind(r, entry.status)
      BY <1>3, <3>1 DEF Strays
    <3>3. PICK v \in User : Asked(p) = {<<p.phase, v>>}
      BY <1>3, <3>1 DEF Strays
    <3> QED
      BY <1>3, <3>2, <3>3
  <2>2. CASE r \notin bypassed
    <3>1. Follows(p, entry)
      BY <1>2, <2>2 DEF ProcessesFollow
    <3>2. entry.status \in Stage
      BY <1>1, <1>2, <1>3, <3>1 DEF Follows, RequestRow, AbsenceStatus
    <3>3. p.status = "active" /\ \E v \in User : Asked(p) = {<<entry.status, v>>}
      BY <3>1, <3>2 DEF Follows
    <3> QED
      BY <1>3, <3>2, <3>3
  <2> QED
    BY <2>1, <2>2
<1>5. PICK q \in Process :
        /\ q = Acted(p, RouteOf(r), Holders, s, u, action)
        /\ \/ q.status = "completed" /\ Asked(q) = {}
           \/ /\ q.status = p.status /\ NextStage(r, s) \in Stage /\ q.phase = NextStage(r, s)
              /\ \E w \in User : Asked(q) = {<<q.phase, w>>}
  <2>1. Asked(p) = {<<s, u>>} /\ action \in {"approve", "return", "reject"}
    BY <1>1, <1>4
  <2> QED
    BY <2>1, ActedAt
<1>6. NextStage(r, s) \in Stage => NextStage(r, s) \in Behind(r, entry.status)
  BY <1>4, BehindIs
<1>7. Strays(r, q, entry)
  <2>1. entry.status # "cancelled"
    BY <1>4 DEF Stage
  <2>2. CASE q.status = "completed" /\ Asked(q) = {}
    BY <1>4, <2>1, <2>2 DEF Strays
  <2>3. CASE /\ q.status = p.status /\ NextStage(r, s) \in Stage /\ q.phase = NextStage(r, s)
             /\ \E w \in User : Asked(q) = {<<q.phase, w>>}
    <3>1. q.status # "cancelled" /\ q.phase \in Behind(r, entry.status)
      BY <1>4, <1>6, <2>3
    <3> QED
      BY <1>4, <2>1, <2>3, <3>1 DEF Strays
  <2> QED
    BY <1>5, <2>2, <2>3
<1>8. ASSUME NEW x \in Request \ bypassed' PROVE Follows(process'[x], request'[x])
  BY <1>1, <1>8 DEF ProcessesFollow
<1>9. ASSUME NEW x \in bypassed' PROVE Strays(x, process'[x], request'[x])
  <2>1. x \in Request
    BY <1>1, <1>9 DEF ProcessesFollow
  <2>2. CASE x = r
    BY <1>1, <1>2, <1>5, <1>7, <2>2
  <2>3. CASE x # r
    BY <1>1, <1>9, <2>1, <2>3 DEF ProcessesFollow
  <2> QED
    BY <2>2, <2>3
<1>10. bypassed' \subseteq Request
  BY <1>1 DEF ProcessesFollow
<1> QED
  BY <1>8, <1>9, <1>10 DEF ProcessesFollow, Follows, Strays, Asked, Returned

LEMMA StepFollows ==
  ASSUME RequestsTyped, TransactionsFit, ProcessesFollow, [AbsenceNext]_absenceVars
  PROVE  ProcessesFollow'
<1>1. CASE Still
  BY <1>1 DEF Still, ProcessesFollow, Follows, Strays, Asked, Returned
<1>2. ASSUME NEW t \in open, CreateLeave(t) \/ CreateTrip(t) PROVE ProcessesFollow'
  BY <1>2, SubmitStep, SubmittedFollows
<1>3. ASSUME NEW t \in open, ResubmitLeave(t) \/ ResubmitTrip(t) PROVE ProcessesFollow'
  BY <1>3, ContinueStep, ContinuedFollows
<1>4. ASSUME NEW t \in open, NEW u \in User, ApproveLeave(t, u) \/ RegisterTrip(t, u) PROVE ProcessesFollow'
  BY <1>4, RegisteredFollows
<1>5. ASSUME NEW r \in Request, CancelLeave(r) \/ CancelTrip(r) PROVE ProcessesFollow'
  BY <1>5, CancelledFollows
<1>6. ASSUME NEW r \in Request, NEW u \in User, NEW decision \in {"approve", "return", "reject"},
             DecideLeave(r, u, decision) \/ DecideTrip(r, u, decision)
      PROVE  ProcessesFollow'
  BY <1>6, ReviewedFollows
<1>7. ASSUME NEW r \in Request, NEW s \in Stage, NEW u \in User, NEW action \in Action,
             ActOnTask(r, s, u, action)
      PROVE  ProcessesFollow'
  BY <1>7, ActedFollows
<1> QED
  BY <1>1, <1>2, <1>3, <1>4, <1>5, <1>6, <1>7, StepMoves DEF Unmoved

---------------------------------------------------------------------------
(* The calendar *)

CalendarFits ==
  \A r \in Request :
    /\ calendar[r] = "scheduled" => request[r].status = "approved"
    /\ request[r].status = "approved" => calendar[r] \in {"scheduled", "corrected"}
    /\ calendar[r] = "corrected" => request[r].status \in {"approved", "cancelled"}
    /\ calendar[r] = "cancelled" => request[r].status = "cancelled"

LEMMA StepCalendar ==
  ASSUME RequestsTyped, TransactionsFit, CalendarFits, [AbsenceNext]_absenceVars
  PROVE  CalendarFits'
<1>1. CASE request' = request /\ calendar' = calendar
  BY <1>1 DEF CalendarFits
<1>2. ASSUME NEW r \in Request, OnlyRow(r), request[r].status \notin {"approved", "cancelled"},
             request'[r].status # "approved", calendar' = calendar
      PROVE  CalendarFits'
  <2>1. calendar[r] = "none"
    BY <1>2, RowFields DEF CalendarFits
  <2> QED
    BY <1>2, <2>1 DEF CalendarFits, OnlyRow
<1>3. ASSUME NEW t \in open, CreateLeave(t) \/ CreateTrip(t) PROVE CalendarFits'
  <2>1. /\ t.owner \in Request /\ OnlyRow(t.owner) /\ calendar' = calendar
        /\ request[t.owner].status = "none" /\ request'[t.owner].status = "manager_review"
    BY <1>3, SubmitStep
  <2> QED
    BY <1>2, <2>1
<1>4. ASSUME NEW t \in open, ResubmitLeave(t) \/ ResubmitTrip(t) PROVE CalendarFits'
  <2>1. /\ t.owner \in Request /\ OnlyRow(t.owner) /\ calendar' = calendar
        /\ request[t.owner].status = "returned"
        /\ request'[t.owner].status = request[t.owner].returned
    BY <1>4, ContinueStep
  <2>2. request[t.owner].returned \in Stage \cup {"none"}
    BY <2>1, RowFields
  <2>3. request[t.owner].returned # "approved"
    BY <2>2 DEF Stage
  <2> QED
    BY <1>2, <2>1, <2>3
<1>5. ASSUME NEW t \in open, NEW u \in User, ApproveLeave(t, u) \/ RegisterTrip(t, u) PROVE CalendarFits'
  <2>1. /\ t.owner \in Request /\ OnlyRow(t.owner) /\ request[t.owner].status \in Stage
        /\ request'[t.owner].status = "approved"
        /\ calendar' = [calendar EXCEPT ![t.owner] =
                          IF calendar[t.owner] = "none" THEN "scheduled" ELSE calendar[t.owner]]
    BY <1>5, ApproveStep
  <2>2. PICK r \in Request : r = t.owner
    BY <2>1
  <2>3. request[r].status \notin {"approved", "cancelled"}
    BY <2>1, <2>2 DEF Stage
  <2>4. calendar[r] = "none"
    BY <2>3, RowFields DEF CalendarFits
  <2>5. calendar'[r] = "scheduled" /\ \A q \in Request : q # r => calendar'[q] = calendar[q]
    BY <2>1, <2>2, <2>4 DEF RequestsTyped
  <2>6. request'[r].status = "approved" /\ \A q \in Request : q # r => request'[q] = request[q]
    BY <2>1, <2>2 DEF OnlyRow
  <2> QED
    BY <2>5, <2>6 DEF CalendarFits
<1>6. ASSUME NEW r \in Request, CancelLeave(r) \/ CancelTrip(r) PROVE CalendarFits'
  <2>1. OnlyRow(r) /\ calendar' = Unlisted(r) /\ request'[r].status = "cancelled"
    BY <1>6, CancelStep
  <2>2. calendar'[r] # "scheduled" /\ \A q \in Request : q # r => calendar'[q] = calendar[q]
    BY <2>1 DEF RequestsTyped, Unlisted
  <2>3. \A q \in Request : q # r => request'[q] = request[q]
    BY <2>1 DEF OnlyRow
  <2> QED
    BY <2>1, <2>2, <2>3 DEF CalendarFits
<1>7. ASSUME NEW r \in Request, NEW u \in User, NEW decision \in {"approve", "return", "reject"},
             DecideLeave(r, u, decision) \/ DecideTrip(r, u, decision)
      PROVE  CalendarFits'
  <2>1. /\ OnlyRow(r) /\ request[r].status \in Stage /\ calendar' = calendar
        /\ decision = "approve" => request'[r].status \in Stage
        /\ decision = "return" => request'[r].status = "returned"
        /\ decision = "reject" => request'[r].status = "rejected"
    BY <1>7, DecideStep
  <2>2. request[r].status \notin {"approved", "cancelled"} /\ request'[r].status # "approved"
    BY <2>1 DEF Stage
  <2> QED
    BY <1>2, <2>1, <2>2
<1>8. ASSUME NEW r \in Request, CorrectRequested(r), request' = request PROVE CalendarFits'
  <2>1. calendar[r] = "scheduled" /\ calendar' = [calendar EXCEPT ![r] = "corrected"]
    BY <1>8 DEF CorrectRequested
  <2>2. calendar'[r] = "corrected" /\ \A q \in Request : q # r => calendar'[q] = calendar[q]
    BY <2>1 DEF RequestsTyped
  <2> QED
    BY <1>8, <2>1, <2>2 DEF CalendarFits
<1>9. ASSUME NEW r \in Request, NEW s \in Stage, NEW u \in User, NEW action \in Action,
             ActOnTask(r, s, u, action)
      PROVE  CalendarFits'
  BY <1>1, <1>9, ActedOnIs
<1> QED
  BY <1>1, <1>3, <1>4, <1>5, <1>6, <1>7, <1>8, <1>9, StepMoves DEF Unmoved, Still

---------------------------------------------------------------------------
(* Overlaps *)

HistoryTyped ==
  missed \in [Request -> SUBSET Request] /\ moved \subseteq Year /\ bypassed \subseteq Request

LEMMA UnseenIs ==
  ASSUME HistoryTyped, NEW r \in Request, missed' = Unseen(r)
  PROVE  /\ missed' \in [Request -> SUBSET Request]
         /\ \A q \in Request :
              q # r /\ Dating(q) # {} => missed'[q] = missed[q] \cup {r}
BY DEF HistoryTyped, Unseen

LEMMA StepHistory ==
  ASSUME RequestsTyped, TransactionsFit, HistoryTyped, [AbsenceNext]_absenceVars
  PROVE  HistoryTyped'
<1>1. ASSUME Unmoved PROVE HistoryTyped'
  BY <1>1 DEF Unmoved, Still, Forgets, HistoryTyped
<1>2. ASSUME NEW r \in Request, NEW s \in Stage, NEW u \in User, NEW action \in Action,
             ActOnTask(r, s, u, action)
      PROVE  HistoryTyped'
  <2>1. missed' = missed /\ moved' = moved /\ bypassed' = bypassed \cup {r}
    BY <1>2, ActedOnIs
  <2> QED
    BY <2>1 DEF HistoryTyped
<1>3. ASSUME NEW t \in open, CreateLeave(t) \/ CreateTrip(t) PROVE HistoryTyped'
  BY <1>3, SubmitStep, UnseenIs DEF HistoryTyped
<1>4. ASSUME NEW t \in open, ResubmitLeave(t) \/ ResubmitTrip(t) PROVE HistoryTyped'
  <2>1. t.owner \in Request /\ missed' = Unseen(t.owner) /\ bypassed' = bypassed
    BY <1>4, ContinueStep
  <2>2. moved' \subseteq Year
    <3>1. CASE ResubmitTrip(t)
      BY <3>1 DEF ResubmitTrip, HistoryTyped
    <3>2. CASE ResubmitLeave(t)
      <4>1. PICK p, q \in Period : p = t.period /\ q = request[t.owner].period
        BY <2>1, OwnerOf, RowFields
      <4>2. moved' = moved \/ moved' = moved \cup {YearOf[q[1]], YearOf[p[1]]}
        BY <3>2, <4>1 DEF ResubmitLeave
      <4>3. YearOf[p[1]] \in Year /\ YearOf[q[1]] \in Year
        BY DEF Period, Year
      <4> QED
        BY <4>2, <4>3 DEF HistoryTyped
    <3> QED
      BY <1>4, <3>1, <3>2
  <2> QED
    BY <2>1, <2>2, UnseenIs DEF HistoryTyped
<1>5. ASSUME NEW t \in open, NEW u \in User, ApproveLeave(t, u) \/ RegisterTrip(t, u) PROVE HistoryTyped'
  BY <1>5, ApproveStep DEF HistoryTyped
<1>6. ASSUME NEW r \in Request, CancelLeave(r) \/ CancelTrip(r) PROVE HistoryTyped'
  BY <1>6, CancelStep DEF HistoryTyped
<1>7. ASSUME NEW r \in Request, NEW u \in User, NEW decision \in {"approve", "return", "reject"},
             DecideLeave(r, u, decision) \/ DecideTrip(r, u, decision)
      PROVE  HistoryTyped'
  BY <1>7, DecideStep DEF HistoryTyped
<1> QED
  BY <1>1, <1>2, <1>3, <1>4, <1>5, <1>6, <1>7, StepMoves

\* The dates a transaction is to give its request are apart from those of all others but
\* the ones set since it compared them.
StaysApart ==
  \A t \in open : t.op \in {"create", "resubmit"} =>
    \A q \in Request : q # t.owner /\ Pending(q) /\ q \notin missed[t.owner] =>
      ~Overlap(t.period, request[q].period)

\* A step brings two requests together only if one transaction missed the other's dates.
MeetsUnseen ==
  \A q, r \in Request : ~Clash(q, r) /\ Clash(q, r)' => q \in missed[r] \/ r \in missed[q]

LEMMA FewerPending ==
  ASSUME StaysApart, open' \subseteq open, missed' = missed,
         \A q \in Request : Pending(q)' => Pending(q) /\ request'[q].period = request[q].period
  PROVE  MeetsUnseen /\ StaysApart'
<1>1. MeetsUnseen
  BY DEF MeetsUnseen, Clash, Overlap
<1>2. StaysApart'
  BY DEF StaysApart, Overlap
<1> QED
  BY <1>1, <1>2

LEMMA NewDates ==
  ASSUME RequestsTyped, TransactionsFit, HistoryTyped, StaysApart,
         NEW t \in open, t.op \in {"create", "resubmit"}, open' = open \ {t},
         NEW r \in Request, r = t.owner, OnlyRow(r), request'[r].period = t.period,
         missed' = Unseen(r)
  PROVE  MeetsUnseen /\ StaysApart'
<1>1. \A q \in Request : q # r /\ Pending(q) /\ q \notin missed[r] => ~Overlap(t.period, request[q].period)
  BY DEF StaysApart
<1>2. \A q \in Request : q # r => request'[q] = request[q] /\ (Pending(q)' <=> Pending(q))
  BY DEF OnlyRow, Pending
<1>3. ASSUME NEW p, NEW q PROVE Overlap(p, q) <=> Overlap(q, p)
  BY DEF Overlap
<1>4. ASSUME NEW q \in Request, NEW x \in Request, ~Clash(q, x), Clash(q, x)'
      PROVE  q \in missed[x] \/ x \in missed[q]
  <2>1. /\ q # x /\ Pending(q)' /\ Pending(x)'
        /\ request'[q].period[1] <= request'[x].period[2] /\ request'[x].period[1] <= request'[q].period[2]
    BY <1>4 DEF Clash, Overlap
  <2>2. CASE q = r
    <3>1. Pending(x) /\ request'[x] = request[x]
      BY <1>2, <2>1, <2>2
    <3>2. Overlap(t.period, request[x].period)
      BY <2>1, <2>2, <3>1 DEF Overlap
    <3> QED
      BY <1>1, <2>1, <2>2, <3>1, <3>2
  <2>3. CASE x = r
    <3>1. Pending(q) /\ request'[q] = request[q]
      BY <1>2, <2>1, <2>3
    <3>2. Overlap(t.period, request[q].period)
      BY <2>1, <2>3, <3>1 DEF Overlap
    <3> QED
      BY <1>1, <2>1, <2>3, <3>1, <3>2
  <2>4. CASE q # r /\ x # r
    BY <1>2, <1>4, <2>1, <2>4 DEF Clash, Overlap
  <2> QED
    BY <2>2, <2>3, <2>4
<1>5. MeetsUnseen
  BY <1>4 DEF MeetsUnseen
<1>6. ASSUME NEW x \in open', x.op \in {"create", "resubmit"}, NEW q \in Request, q # x.owner,
             Pending(q)', q \notin missed'[x.owner]
      PROVE  ~Overlap(x.period, request'[q].period)
  <2>1. x \in open /\ x # t /\ x.owner \in Request
    BY <1>6, OwnerOf
  <2>2. x.owner # r
    BY <2>1, RequestAssumption DEF TransactionsFit
  <2>3. x \in Dating(x.owner)
    BY <1>6, <2>1 DEF Dating
  <2>4. missed'[x.owner] = missed[x.owner] \cup {r}
    BY <2>1, <2>2, <2>3, UnseenIs
  <2>5. q # r /\ q \notin missed[x.owner]
    BY <1>6, <2>4
  <2>6. Pending(q) /\ request'[q] = request[q]
    BY <1>2, <1>6, <2>5
  <2> QED
    BY <1>6, <2>1, <2>5, <2>6 DEF StaysApart
<1>7. StaysApart'
  BY <1>6 DEF StaysApart, Overlap
<1> QED
  BY <1>5, <1>7

LEMMA StepApart ==
  ASSUME RequestsTyped, TransactionsFit, HistoryTyped, StaysApart, [AbsenceNext]_absenceVars
  PROVE  MeetsUnseen /\ StaysApart'
<1>1. CASE Still /\ Compared
  <2>1. \A q \in Request : request'[q] = request[q] /\ (Pending(q)' <=> Pending(q))
    BY <1>1 DEF Still, Pending
  <2>2. MeetsUnseen
    BY <2>1 DEF MeetsUnseen, Clash, Overlap
  <2>3. ASSUME NEW t \in open', t.op \in {"create", "resubmit"}, NEW q \in Request, q # t.owner,
               Pending(q), q \notin missed'[t.owner]
        PROVE  ~Overlap(t.period, request[q].period)
    BY <1>1, <2>3 DEF Compared, NoOverlap, StaysApart
  <2>4. StaysApart'
    BY <2>1, <2>3 DEF StaysApart, Overlap
  <2> QED
    BY <2>2, <2>4
<1>2. ASSUME NEW r \in Request, NEW s \in Stage, NEW u \in User, NEW action \in Action,
             ActOnTask(r, s, u, action)
      PROVE  MeetsUnseen /\ StaysApart'
  <2>1. request' = request /\ open' = open /\ missed' = missed
    BY <1>2, ActedOnIs
  <2>2. \A q \in Request : Pending(q)' => Pending(q) /\ request'[q].period = request[q].period
    BY <2>1 DEF Pending
  <2> QED
    BY <2>1, <2>2, FewerPending
<1>3. ASSUME NEW t \in open, CreateLeave(t) \/ CreateTrip(t) PROVE MeetsUnseen /\ StaysApart'
  <2>1. /\ t.owner \in Request /\ OnlyRow(t.owner) /\ request'[t.owner].period = t.period
        /\ open' = open \ {t} /\ t.op = "create" /\ missed' = Unseen(t.owner)
    BY <1>3, SubmitStep
  <2> QED
    BY <2>1, NewDates
<1>4. ASSUME NEW t \in open, ResubmitLeave(t) \/ ResubmitTrip(t) PROVE MeetsUnseen /\ StaysApart'
  <2>1. /\ t.owner \in Request /\ OnlyRow(t.owner) /\ request'[t.owner].period = t.period
        /\ open' = open \ {t} /\ t.op = "resubmit" /\ missed' = Unseen(t.owner)
    BY <1>4, ContinueStep
  <2> QED
    BY <2>1, NewDates
<1>5. ASSUME NEW r \in Request, OnlyRow(r), open' \subseteq open, missed' = missed,
             request'[r].period = request[r].period,
             request[r].status \in Stage \cup {"returned", "approved"}
      PROVE  MeetsUnseen /\ StaysApart'
  <2>1. Pending(r)
    BY <1>5 DEF Pending, Stage
  <2>2. \A q \in Request : Pending(q)' => Pending(q) /\ request'[q].period = request[q].period
    BY <1>5, <2>1 DEF OnlyRow, Pending
  <2> QED
    BY <1>5, <2>2, FewerPending
<1>6. ASSUME NEW t \in open, NEW u \in User, ApproveLeave(t, u) \/ RegisterTrip(t, u)
      PROVE  MeetsUnseen /\ StaysApart'
  <2>1. /\ t.owner \in Request /\ OnlyRow(t.owner) /\ request[t.owner].status \in Stage
        /\ open' = open \ {t} /\ request'[t.owner].period = request[t.owner].period
        /\ missed' = missed
    BY <1>6, ApproveStep
  <2> QED
    BY <1>5, <2>1
<1>7. ASSUME NEW r \in Request, CancelLeave(r) \/ CancelTrip(r) PROVE MeetsUnseen /\ StaysApart'
  <2>1. /\ OnlyRow(r) /\ request'[r].period = request[r].period /\ open' = open
        /\ request[r].status \in Stage \cup {"returned", "approved"} /\ missed' = missed
    BY <1>7, CancelStep
  <2> QED
    BY <1>5, <2>1
<1>8. ASSUME NEW r \in Request, NEW u \in User, NEW decision \in {"approve", "return", "reject"},
             DecideLeave(r, u, decision) \/ DecideTrip(r, u, decision)
      PROVE  MeetsUnseen /\ StaysApart'
  <2>1. /\ OnlyRow(r) /\ request[r].status \in Stage /\ open' = open /\ missed' = missed
        /\ request'[r].period = request[r].period
    BY <1>8, DecideStep
  <2> QED
    BY <1>5, <2>1
<1> QED
  BY <1>1, <1>2, <1>3, <1>4, <1>6, <1>7, <1>8, StepMoves DEF Unmoved

---------------------------------------------------------------------------
(* Sums of days *)

\* The operators of the properties, for any table of requests.
Counted(f, y, statuses) == {r \in Leave : f[r].status \in statuses /\ YearOf[f[r].period[1]] = y}

Spans(f, requests) ==
  {k \in requests \X Day : f[k[1]].period[1] <= k[2] /\ k[2] <= f[k[1]].period[2]}

DaysIn(f, y, statuses) == Cardinality(Spans(f, Counted(f, y, statuses)))

\* What one request adds.
ShareOf(p, y) == IF YearOf[p[1]] = y THEN Days(p) ELSE 0

Share(entry, y, statuses) == IF entry.status \in statuses THEN ShareOf(entry.period, y) ELSE 0

LEMMA PeriodIs ==
  ASSUME NEW p \in Period, NEW y
  PROVE  /\ p[1] \in Day /\ p[2] \in Day /\ p[1] \in Int /\ p[2] \in Int /\ p[1] <= p[2]
         /\ YearOf[p[1]] \in Year /\ Days(p) \in Nat /\ ShareOf(p, y) \in Nat
<1>1. /\ p[1] \in Day /\ p[2] \in Day /\ p[1] \in Int /\ p[2] \in Int /\ p[1] <= p[2]
  BY CalendarAssumption DEF Period, Day
<1>2. Days(p) \in Nat
  BY <1>1 DEF Days
<1>3. YearOf[p[1]] \in Year
  BY <1>1 DEF Year
<1>4. ShareOf(p, y) \in Nat
  BY <1>2 DEF ShareOf
<1> QED
  BY <1>1, <1>2, <1>3, <1>4

LEMMA SpansFinite ==
  ASSUME NEW f, NEW requests \in SUBSET Leave
  PROVE  IsFiniteSet(Spans(f, requests)) /\ Cardinality(Spans(f, requests)) \in Nat
<1>1. IsFiniteSet(Day)
  BY CalendarAssumption, FS_Interval DEF Day
<1>2. IsFiniteSet(requests)
  BY RequestAssumption, FS_Subset
<1>3. IsFiniteSet(requests \X Day)
  BY <1>1, <1>2, FS_Product
<1>4. Spans(f, requests) \subseteq requests \X Day
  BY DEF Spans
<1> QED
  BY <1>3, <1>4, FS_Subset, FS_CardinalityType

LEMMA SpanOfOne ==
  ASSUME NEW f \in [Request -> RequestRow], NEW r \in Leave
  PROVE  Cardinality(Spans(f, {r})) = Days(f[r].period)
<1>1. PICK p \in Period : p = f[r].period
  BY DEF Request, RequestRow
<1>2. PICK a, b \in Int : a = p[1] /\ b = p[2] /\ a <= b /\ a \in Day /\ b \in Day
  BY PeriodIs
<1>3. Spans(f, {r}) = {r} \X (a..b)
  <2>1. a..b \subseteq Day
    BY <1>2, CalendarAssumption DEF Day
  <2>2. \A d \in Day : d \in a..b <=> a <= d /\ d <= b
    BY <1>2, CalendarAssumption DEF Day
  <2> QED
    BY <1>1, <1>2, <2>1, <2>2 DEF Spans
<1>4. PICK n \in Nat : n = Cardinality(a..b) /\ n = b - a + 1
  <2>1. Cardinality(a..b) = IF a > b THEN 0 ELSE b - a + 1
    BY FS_Interval
  <2>2. ~(a > b) /\ b - a + 1 \in Nat
    BY <1>2
  <2> QED
    BY <2>1, <2>2
<1>5. IsFiniteSet(a..b) /\ IsFiniteSet({r}) /\ Cardinality({r}) = 1
  BY <1>2, FS_Interval, FS_Singleton
<1>6. Cardinality({r} \X (a..b)) = Cardinality({r}) * Cardinality(a..b)
  BY <1>5, FS_Product
<1>7. Cardinality({r} \X (a..b)) = n
  BY <1>4, <1>5, <1>6
<1> QED
  BY <1>1, <1>2, <1>3, <1>4, <1>7 DEF Days

LEMMA SpansAdd ==
  ASSUME NEW f, NEW left \in SUBSET Leave, NEW right \in SUBSET Leave, left \cap right = {}
  PROVE  Cardinality(Spans(f, left \cup right)) = Cardinality(Spans(f, left)) + Cardinality(Spans(f, right))
<1>1. PICK S, T : S = Spans(f, left) /\ T = Spans(f, right)
  OBVIOUS
<1>2. Spans(f, left \cup right) = S \cup T
  BY <1>1 DEF Spans
<1>3. S \cap T = {}
  BY <1>1 DEF Spans
<1>4. IsFiniteSet(S) /\ IsFiniteSet(T) /\ Cardinality(S) \in Nat /\ Cardinality(T) \in Nat
  BY <1>1, SpansFinite
<1>5. Cardinality(S \cup T) = Cardinality(S) + Cardinality(T) - Cardinality(S \cap T)
  BY <1>4, FS_Union
<1>6. Cardinality(S \cap T) = 0
  BY <1>3, FS_EmptySet
<1>7. PICK m, n \in Nat : m = Cardinality(S) /\ n = Cardinality(T)
  BY <1>4
<1>8. Cardinality(S \cup T) = m + n
  BY <1>5, <1>6, <1>7
<1> QED
  BY <1>1, <1>2, <1>7, <1>8

\* A table's sum is that of the other requests and the share of one.
LEMMA ShareTakenOut ==
  ASSUME NEW f \in [Request -> RequestRow], NEW r \in Leave, NEW y, NEW statuses
  PROVE  DaysIn(f, y, statuses) =
           Cardinality(Spans(f, Counted(f, y, statuses) \ {r})) + Share(f[r], y, statuses)
<1>1. PICK S : S = Counted(f, y, statuses)
  OBVIOUS
<1>2. S \in SUBSET Leave /\ S \ {r} \in SUBSET Leave
  BY <1>1 DEF Counted
<1>3. Cardinality(Spans(f, S \ {r})) \in Nat
  BY <1>2, SpansFinite
<1>4. CASE r \in S
  <2>1. Cardinality(Spans(f, (S \ {r}) \cup {r})) =
          Cardinality(Spans(f, S \ {r})) + Cardinality(Spans(f, {r}))
    BY <1>2, SpansAdd
  <2>2. (S \ {r}) \cup {r} = S
    BY <1>4
  <2>3. Cardinality(Spans(f, {r})) = Days(f[r].period)
    BY SpanOfOne
  <2>4. Share(f[r], y, statuses) = Days(f[r].period)
    BY <1>1, <1>4 DEF Counted, Share, ShareOf
  <2> QED
    BY <1>1, <2>1, <2>2, <2>3, <2>4 DEF DaysIn
<1>5. CASE r \notin S
  <2>1. Share(f[r], y, statuses) = 0
    BY <1>1, <1>5 DEF Counted, Share, ShareOf
  <2>2. S \ {r} = S
    BY <1>5
  <2> QED
    BY <1>1, <1>3, <2>1, <2>2 DEF DaysIn
<1> QED
  BY <1>4, <1>5

LEMMA SpansSame ==
  ASSUME NEW f, NEW g, NEW requests, \A r \in requests : g[r] = f[r]
  PROVE  Spans(g, requests) = Spans(f, requests)
<1>1. ASSUME NEW r \in requests, NEW d \in Day
      PROVE  <<r, d>> \in Spans(g, requests) <=> <<r, d>> \in Spans(f, requests)
  BY <1>1 DEF Spans
<1>2. Spans(g, requests) \subseteq requests \X Day /\ Spans(f, requests) \subseteq requests \X Day
  BY DEF Spans
<1> QED
  BY <1>1, <1>2

\* One request moves: the sum moves by its share.
LEMMA SumMoves ==
  ASSUME NEW f \in [Request -> RequestRow], NEW g \in [Request -> RequestRow], NEW r \in Leave,
         \A q \in Leave : q # r => g[q] = f[q], NEW y, NEW statuses
  PROVE  /\ DaysIn(f, y, statuses) \in Nat /\ DaysIn(g, y, statuses) \in Nat
         /\ DaysIn(g, y, statuses) =
              DaysIn(f, y, statuses) + Share(g[r], y, statuses) - Share(f[r], y, statuses)
<1>1. PICK S : S = Counted(f, y, statuses) \ {r}
  OBVIOUS
<1>2. S = Counted(g, y, statuses) \ {r} /\ S \in SUBSET Leave /\ \A q \in S : g[q] = f[q]
  BY <1>1 DEF Counted
<1>3. PICK n \in Nat : n = Cardinality(Spans(f, S))
  BY <1>2, SpansFinite
<1>4. Spans(g, S) = Spans(f, S)
  BY <1>2, SpansSame
<1>5. DaysIn(f, y, statuses) = n + Share(f[r], y, statuses)
  BY <1>1, <1>3, ShareTakenOut
<1>6. DaysIn(g, y, statuses) = n + Share(g[r], y, statuses)
  BY <1>2, <1>3, <1>4, ShareTakenOut
<1>7. f[r].period \in Period /\ g[r].period \in Period
  BY DEF Request, RequestRow
<1>8. Share(f[r], y, statuses) \in Nat /\ Share(g[r], y, statuses) \in Nat
  BY <1>7, PeriodIs DEF Share
<1> QED
  BY <1>5, <1>6, <1>8

LEMMA SumStays ==
  ASSUME NEW f, NEW g, \A q \in Leave : g[q] = f[q], NEW y, NEW statuses
  PROVE  DaysIn(g, y, statuses) = DaysIn(f, y, statuses)
<1>1. PICK S : S = Counted(f, y, statuses)
  OBVIOUS
<1>2. S = Counted(g, y, statuses) /\ \A q \in S : g[q] = f[q]
  BY <1>1 DEF Counted
<1>3. Spans(g, S) = Spans(f, S)
  BY <1>2, SpansSame
<1> QED
  BY <1>1, <1>2, <1>3 DEF DaysIn

---------------------------------------------------------------------------
(* Balances *)

Reserving == Stage \cup {"returned"}

BalanceRows == [Year -> [reserved : Int, used : Int]]

BalanceFits ==
  \A y \in Year \ moved :
    /\ balance[y].reserved = DaysIn(request, y, Reserving)
    /\ balance[y].used = DaysIn(request, y, {"approved"})
    /\ balance[y].reserved + balance[y].used <= Entitled[y]

LEMMA BalanceIs ==
  ASSUME balance \in BalanceRows, NEW y \in Year
  PROVE  /\ balance[y] \in [reserved : Int, used : Int]
         /\ balance[y].reserved \in Int /\ balance[y].used \in Int /\ Entitled[y] \in Nat
BY CalendarAssumption DEF BalanceRows

LEMMA ChargedIs ==
  ASSUME balance \in BalanceRows, NEW p \in Period, NEW a \in Int, NEW b \in Int,
         balance' = Charged(p, a, b)
  PROVE  /\ balance' \in BalanceRows
         /\ \A y \in Year :
              /\ YearOf[p[1]] = y =>
                   /\ balance'[y].reserved = balance[y].reserved + a
                   /\ balance'[y].used = balance[y].used + b
              /\ YearOf[p[1]] # y => balance'[y] = balance[y]
<1>1. PICK x \in Year : x = YearOf[p[1]]
  BY PeriodIs
<1>2. PICK new : new = [reserved |-> balance[x].reserved + a, used |-> balance[x].used + b]
  OBVIOUS
<1>3. new \in [reserved : Int, used : Int]
  BY <1>2, BalanceIs
<1>4. new.reserved = balance[x].reserved + a /\ new.used = balance[x].used + b
  BY <1>2
<1>5. balance' = [balance EXCEPT ![x] = new]
  BY <1>1, <1>2 DEF Charged, BalanceRows
<1>6. balance' \in BalanceRows /\ balance'[x] = new /\ \A y \in Year : y # x => balance'[y] = balance[y]
  BY <1>3, <1>5 DEF BalanceRows
<1> QED
  BY <1>1, <1>4, <1>6

\* A leave moves: the balance must move by its share.
LEMMA BalanceMoves ==
  ASSUME RequestsTyped, RequestsTyped', BalanceFits, balance \in BalanceRows, balance' \in BalanceRows,
         NEW r \in Leave, OnlyRow(r), moved \subseteq moved',
         \A y \in Year \ moved' :
           /\ balance'[y].reserved =
                balance[y].reserved + Share(request'[r], y, Reserving) - Share(request[r], y, Reserving)
           /\ balance'[y].used =
                balance[y].used + Share(request'[r], y, {"approved"}) - Share(request[r], y, {"approved"})
           /\ balance'[y].reserved + balance'[y].used <= Entitled[y]
  PROVE  BalanceFits'
<1>1. PICK f, g \in [Request -> RequestRow] : f = request /\ g = request'
  BY DEF RequestsTyped
<1>2. \A q \in Leave : q # r => g[q] = f[q]
  BY <1>1 DEF OnlyRow, Request
<1>3. ASSUME NEW y \in Year \ moved'
      PROVE  /\ balance'[y].reserved = DaysIn(g, y, Reserving)
             /\ balance'[y].used = DaysIn(g, y, {"approved"})
  <2>1. DaysIn(g, y, Reserving) =
          DaysIn(f, y, Reserving) + Share(g[r], y, Reserving) - Share(f[r], y, Reserving)
    BY <1>2, SumMoves
  <2>2. DaysIn(g, y, {"approved"}) =
          DaysIn(f, y, {"approved"}) + Share(g[r], y, {"approved"}) - Share(f[r], y, {"approved"})
    BY <1>2, SumMoves
  <2>3. balance[y].reserved = DaysIn(f, y, Reserving) /\ balance[y].used = DaysIn(f, y, {"approved"})
    BY <1>1 DEF BalanceFits
  <2>4. balance'[y].reserved = balance[y].reserved + Share(g[r], y, Reserving) - Share(f[r], y, Reserving)
    BY <1>1
  <2>5. balance'[y].used =
          balance[y].used + Share(g[r], y, {"approved"}) - Share(f[r], y, {"approved"})
    BY <1>1
  <2> QED
    BY <2>1, <2>2, <2>3, <2>4, <2>5
<1> QED
  BY <1>1, <1>3 DEF BalanceFits

LEMMA BalanceStays ==
  ASSUME BalanceFits, balance' = balance, moved' = moved, \A q \in Leave : request'[q] = request[q]
  PROVE  BalanceFits'
<1>1. PICK f, g : f = request /\ g = request'
  OBVIOUS
<1>2. ASSUME NEW y \in Year \ moved
      PROVE  /\ balance'[y].reserved = DaysIn(g, y, Reserving)
             /\ balance'[y].used = DaysIn(g, y, {"approved"})
             /\ balance'[y].reserved + balance'[y].used <= Entitled[y]
  <2>1. DaysIn(g, y, Reserving) = DaysIn(f, y, Reserving)
    BY <1>1, SumStays
  <2>2. DaysIn(g, y, {"approved"}) = DaysIn(f, y, {"approved"})
    BY <1>1, SumStays
  <2> QED
    BY <1>1, <2>1, <2>2 DEF BalanceFits
<1> QED
  BY <1>1, <1>2 DEF BalanceFits

LEMMA ShareIs ==
  ASSUME RequestsTyped, NEW r \in Request, NEW y
  PROVE  /\ ShareOf(request[r].period, y) \in Nat
         /\ request[r].status \in Reserving =>
              /\ Share(request[r], y, Reserving) = ShareOf(request[r].period, y)
              /\ Share(request[r], y, {"approved"}) = 0
         /\ request[r].status = "approved" =>
              /\ Share(request[r], y, {"approved"}) = ShareOf(request[r].period, y)
              /\ Share(request[r], y, Reserving) = 0
         /\ request[r].status \in {"none", "rejected", "cancelled"} =>
              Share(request[r], y, {"approved"}) = 0 /\ Share(request[r], y, Reserving) = 0
<1>1. request[r].period \in Period
  BY RowFields
<1>2. ShareOf(request[r].period, y) \in Nat
  BY <1>1, PeriodIs
<1> QED
  BY <1>2 DEF Share, Reserving, Stage

---------------------------------------------------------------------------
(* Balances, step by step *)

\* A returned request keeps the stage it came from.
ReturnsKept == \A r \in Request : request[r].status = "returned" => request[r].returned \in Stage

LEMMA StepReturns ==
  ASSUME RequestsTyped, TransactionsFit, ReturnsKept, [AbsenceNext]_absenceVars
  PROVE  ReturnsKept'
<1>1. CASE request' = request
  BY <1>1 DEF ReturnsKept
<1>2. ASSUME NEW r \in Request, OnlyRow(r),
             request'[r].status = "returned" => request'[r].returned \in Stage
      PROVE  ReturnsKept'
  BY <1>2 DEF ReturnsKept, OnlyRow
<1>3. ASSUME NEW t \in open, CreateLeave(t) \/ CreateTrip(t) PROVE ReturnsKept'
  <2>1. t.owner \in Request /\ OnlyRow(t.owner) /\ request'[t.owner].status = "manager_review"
    BY <1>3, SubmitStep
  <2> QED
    BY <1>2, <2>1
<1>4. ASSUME NEW t \in open, ResubmitLeave(t) \/ ResubmitTrip(t) PROVE ReturnsKept'
  <2>1. /\ t.owner \in Request /\ OnlyRow(t.owner)
        /\ request'[t.owner].status = request[t.owner].returned
    BY <1>4, ContinueStep
  <2>2. request[t.owner].returned \in Stage \cup {"none"}
    BY <2>1, RowFields
  <2>3. request'[t.owner].status # "returned"
    BY <2>1, <2>2 DEF Stage
  <2> QED
    BY <1>2, <2>1, <2>3
<1>5. ASSUME NEW t \in open, NEW u \in User, ApproveLeave(t, u) \/ RegisterTrip(t, u) PROVE ReturnsKept'
  <2>1. t.owner \in Request /\ OnlyRow(t.owner) /\ request'[t.owner].status = "approved"
    BY <1>5, ApproveStep
  <2> QED
    BY <1>2, <2>1
<1>6. ASSUME NEW r \in Request, CancelLeave(r) \/ CancelTrip(r) PROVE ReturnsKept'
  <2>1. OnlyRow(r) /\ request'[r].status = "cancelled"
    BY <1>6, CancelStep
  <2> QED
    BY <1>2, <2>1
<1>7. ASSUME NEW r \in Request, NEW u \in User, NEW decision \in {"approve", "return", "reject"},
             DecideLeave(r, u, decision) \/ DecideTrip(r, u, decision)
      PROVE  ReturnsKept'
  <2>1. /\ OnlyRow(r) /\ request[r].status \in Stage
        /\ decision = "approve" => request'[r].status \in Stage
        /\ decision = "return" =>
             request'[r].status = "returned" /\ request'[r].returned = request[r].status
        /\ decision = "reject" => request'[r].status = "rejected"
    BY <1>7, DecideStep
  <2>2. request'[r].status = "returned" => request'[r].returned \in Stage
    BY <2>1 DEF Stage
  <2> QED
    BY <1>2, <2>1, <2>2
<1>8. ASSUME NEW r \in Request, NEW s \in Stage, NEW u \in User, NEW action \in Action,
             ActOnTask(r, s, u, action)
      PROVE  ReturnsKept'
  BY <1>1, <1>8, ActedOnIs
<1> QED
  BY <1>1, <1>3, <1>4, <1>5, <1>6, <1>7, <1>8, StepMoves DEF Unmoved, Still

LEMMA SubmittedBalance ==
  ASSUME RequestsTyped, RequestsTyped', TransactionsFit, BalanceFits, balance \in BalanceRows,
         NEW t \in open, CreateLeave(t)
  PROVE  balance' \in BalanceRows /\ BalanceFits'
<1>1. PICK r \in Leave : r = t.owner
  BY DEF CreateLeave
<1>2. r \in Request
  BY DEF Request
<1>3. /\ OnlyRow(r) /\ request[r].status = "none" /\ moved' = moved
      /\ request'[r].status = "manager_review" /\ request'[r].period = t.period
  BY <1>1, SubmitStep
<1>4. PICK p \in Period : p = t.period
  BY OwnerOf
<1>5. Available(YearOf[p[1]]) >= Days(p) /\ balance' = Charged(p, Days(p), 0)
  BY <1>4 DEF CreateLeave
<1>6. PICK d \in Nat : d = Days(p)
  BY PeriodIs
<1>7. /\ balance' \in BalanceRows
      /\ \A y \in Year :
           /\ YearOf[p[1]] = y =>
                balance'[y].reserved = balance[y].reserved + d /\ balance'[y].used = balance[y].used + 0
           /\ YearOf[p[1]] # y => balance'[y] = balance[y]
  BY <1>5, <1>6, ChargedIs
<1>8. ASSUME NEW y \in Year \ moved
      PROVE  /\ balance'[y].reserved =
                  balance[y].reserved + Share(request'[r], y, Reserving) - Share(request[r], y, Reserving)
             /\ balance'[y].used = balance[y].used + Share(request'[r], y, {"approved"})
                                     - Share(request[r], y, {"approved"})
             /\ balance'[y].reserved + balance'[y].used <= Entitled[y]
  <2>1. PICK new \in Nat : new = ShareOf(p, y)
    BY PeriodIs
  <2>2. /\ Share(request'[r], y, Reserving) = new /\ Share(request'[r], y, {"approved"}) = 0
        /\ Share(request[r], y, Reserving) = 0 /\ Share(request[r], y, {"approved"}) = 0
    BY <1>3, <1>4, <2>1 DEF Share, Reserving, Stage
  <2>3. balance[y].reserved \in Int /\ balance[y].used \in Int /\ Entitled[y] \in Nat
    BY BalanceIs
  <2>4. balance[y].reserved + balance[y].used <= Entitled[y]
    BY <1>8 DEF BalanceFits
  <2>5. CASE YearOf[p[1]] = y
    <3>1. new = d /\ Entitled[y] - balance[y].reserved - balance[y].used >= d
      BY <1>5, <1>6, <2>1, <2>5 DEF ShareOf, Available
    <3>2. balance'[y].reserved = balance[y].reserved + d /\ balance'[y].used = balance[y].used
      BY <1>7, <2>3, <2>5
    <3> QED
      BY <2>2, <2>3, <3>1, <3>2
  <2>6. CASE YearOf[p[1]] # y
    <3>1. new = 0 /\ balance'[y] = balance[y]
      BY <1>7, <2>1, <2>6 DEF ShareOf
    <3> QED
      BY <2>2, <2>3, <2>4, <3>1
  <2> QED
    BY <2>5, <2>6
<1> QED
  BY <1>3, <1>7, <1>8, BalanceMoves

LEMMA ContinuedBalance ==
  ASSUME RequestsTyped, RequestsTyped', TransactionsFit, BalanceFits, balance \in BalanceRows,
         ReturnsKept, NEW t \in open, ResubmitLeave(t)
  PROVE  balance' \in BalanceRows /\ BalanceFits'
<1>1. PICK r \in Leave : r = t.owner
  BY DEF ResubmitLeave
<1>2. r \in Request
  BY DEF Request
<1>3. /\ OnlyRow(r) /\ request[r].status = "returned" /\ t.op = "resubmit"
      /\ request'[r].status = request[r].returned /\ request'[r].period = t.period
  BY <1>1, ContinueStep
<1>4. PICK p, q \in Period : p = t.period /\ q = request[r].period
  BY <1>2, OwnerOf, RowFields
<1>5. /\ Available(YearOf[q[1]]) + Days(q) >= Days(p)
      /\ balance' = Charged(q, Days(p) - Days(q), 0)
  BY <1>1, <1>4 DEF ResubmitLeave, Resized
<1>6. PICK d, e \in Nat : d = Days(p) /\ e = Days(q)
  BY PeriodIs
<1>7. /\ balance' \in BalanceRows
      /\ \A y \in Year :
           /\ YearOf[q[1]] = y => /\ balance'[y].reserved = balance[y].reserved + (d - e)
                                  /\ balance'[y].used = balance[y].used + 0
           /\ YearOf[q[1]] # y => balance'[y] = balance[y]
  <2>1. d - e \in Int /\ balance' = Charged(q, d - e, 0)
    BY <1>5, <1>6
  <2> QED
    BY <2>1, ChargedIs
<1>8. moved' = IF YearOf[p[1]] = YearOf[q[1]] THEN moved ELSE moved \cup {YearOf[q[1]], YearOf[p[1]]}
  BY <1>1, <1>4 DEF ResubmitLeave
<1>9. ASSUME NEW y \in Year \ moved'
      PROVE  /\ balance'[y].reserved =
                  balance[y].reserved + Share(request'[r], y, Reserving) - Share(request[r], y, Reserving)
             /\ balance'[y].used = balance[y].used + Share(request'[r], y, {"approved"})
                                     - Share(request[r], y, {"approved"})
             /\ balance'[y].reserved + balance'[y].used <= Entitled[y]
  <2>1. PICK new, old \in Nat : new = ShareOf(p, y) /\ old = ShareOf(q, y)
    BY PeriodIs
  <2>2. request[r].returned \in Stage
    BY <1>2, <1>3 DEF ReturnsKept
  <2>3. /\ Share(request'[r], y, Reserving) = new /\ Share(request'[r], y, {"approved"}) = 0
        /\ Share(request[r], y, Reserving) = old /\ Share(request[r], y, {"approved"}) = 0
    BY <1>3, <1>4, <2>1, <2>2 DEF Share, Reserving, Stage
  <2>4. balance[y].reserved \in Int /\ balance[y].used \in Int /\ Entitled[y] \in Nat
    BY BalanceIs
  <2>5. balance[y].reserved + balance[y].used <= Entitled[y]
    BY <1>8, <1>9 DEF BalanceFits
  <2>6. CASE YearOf[p[1]] = y
    <3>0. YearOf[q[1]] = y
      BY <1>8, <1>9, <2>6
    <3>1. /\ new = d /\ old = e
          /\ (Entitled[y] - balance[y].reserved - balance[y].used) + e >= d
      BY <1>5, <1>6, <2>1, <2>6, <3>0 DEF ShareOf, Available
    <3>2. balance'[y].reserved = balance[y].reserved + (d - e) /\ balance'[y].used = balance[y].used
      BY <1>7, <2>4, <3>0
    <3> QED
      BY <2>3, <2>4, <3>1, <3>2
  <2>7. CASE YearOf[p[1]] # y
    <3>0. YearOf[q[1]] # y
      BY <1>8, <1>9, <2>7
    <3>1. new = 0 /\ old = 0 /\ balance'[y] = balance[y]
      BY <1>7, <2>1, <2>7, <3>0 DEF ShareOf
    <3> QED
      BY <2>3, <2>4, <2>5, <3>1
  <2> QED
    BY <2>6, <2>7
<1>10. moved \subseteq moved'
  BY <1>8
<1> QED
  BY <1>3, <1>7, <1>9, <1>10, BalanceMoves

\* A leave changes its status and keeps its dates: its days go from one sum to the other.
LEMMA StatusMoves ==
  ASSUME RequestsTyped, RequestsTyped', BalanceFits, balance \in BalanceRows, NEW r \in Leave,
         OnlyRow(r), moved' = moved, request'[r].period = request[r].period, NEW a \in Int, NEW b \in Int,
         balance' = Charged(request[r].period, a, b), a + b <= 0,
         LET d == Days(request[r].period)
             was == request[r].status
             is == request'[r].status
         IN  \/ was \in Reserving /\ is = "approved" /\ a = -d /\ b = d
             \/ was \in Reserving /\ is \in {"rejected", "cancelled"} /\ a = -d /\ b = 0
             \/ was = "approved" /\ is = "cancelled" /\ a = 0 /\ b = -d
  PROVE  balance' \in BalanceRows /\ BalanceFits'
<1>1. r \in Request
  BY DEF Request
<1>2. PICK p \in Period : p = request[r].period
  BY <1>1, RowFields
<1>3. PICK d \in Nat : d = Days(p)
  BY PeriodIs
<1>4. /\ balance' \in BalanceRows
      /\ \A y \in Year :
           /\ YearOf[p[1]] = y =>
                balance'[y].reserved = balance[y].reserved + a /\ balance'[y].used = balance[y].used + b
           /\ YearOf[p[1]] # y => balance'[y] = balance[y]
  BY <1>2, ChargedIs
<1>5. ASSUME NEW y \in Year \ moved
      PROVE  /\ balance'[y].reserved =
                  balance[y].reserved + Share(request'[r], y, Reserving) - Share(request[r], y, Reserving)
             /\ balance'[y].used = balance[y].used + Share(request'[r], y, {"approved"})
                                     - Share(request[r], y, {"approved"})
             /\ balance'[y].reserved + balance'[y].used <= Entitled[y]
  <2>1. PICK m \in Nat : m = ShareOf(p, y)
    BY PeriodIs
  <2>2. PICK x1, x2, y1, y2 :
          /\ x1 = Share(request[r], y, Reserving) /\ x2 = Share(request'[r], y, Reserving)
          /\ y1 = Share(request[r], y, {"approved"}) /\ y2 = Share(request'[r], y, {"approved"})
    OBVIOUS
  <2>3. \/ x1 = m /\ x2 = 0 /\ y1 = 0 /\ y2 = m /\ a = -d /\ b = d
        \/ x1 = m /\ x2 = 0 /\ y1 = 0 /\ y2 = 0 /\ a = -d /\ b = 0
        \/ x1 = 0 /\ x2 = 0 /\ y1 = m /\ y2 = 0 /\ a = 0 /\ b = -d
    BY <1>2, <1>3, <2>1, <2>2 DEF Share, Reserving, Stage
  <2>4. PICK s, v \in Int, n \in Nat : s = balance[y].reserved /\ v = balance[y].used /\ n = Entitled[y]
    BY BalanceIs
  <2>5. s + v <= n
    BY <1>5, <2>4 DEF BalanceFits
  <2>6. CASE YearOf[p[1]] = y
    <3>1. m = d
      BY <1>3, <2>1, <2>6 DEF ShareOf
    <3>2. balance'[y].reserved = s + a /\ balance'[y].used = v + b
      BY <1>4, <2>4, <2>6
    <3>3. s + a = s + x2 - x1 /\ v + b = v + y2 - y1 /\ (s + a) + (v + b) <= n
      BY <2>3, <2>4, <2>5, <3>1
    <3> QED
      BY <2>2, <2>4, <3>2, <3>3
  <2>7. CASE YearOf[p[1]] # y
    <3>1. m = 0
      BY <2>1, <2>7 DEF ShareOf
    <3>2. balance'[y].reserved = s /\ balance'[y].used = v
      BY <1>4, <2>4, <2>7
    <3>3. s = s + x2 - x1 /\ v = v + y2 - y1
      BY <2>3, <2>4, <3>1
    <3> QED
      BY <2>2, <2>4, <2>5, <3>2, <3>3
  <2> QED
    BY <2>6, <2>7
<1> QED
  BY <1>4, <1>5, BalanceMoves

LEMMA ApprovedBalance ==
  ASSUME RequestsTyped, RequestsTyped', TransactionsFit, BalanceFits, balance \in BalanceRows,
         NEW t \in open, NEW u \in User, ApproveLeave(t, u)
  PROVE  balance' \in BalanceRows /\ BalanceFits'
<1>1. PICK r \in Leave : r = t.owner
  BY DEF ApproveLeave
<1>2. /\ OnlyRow(r) /\ request[r].status \in Stage /\ t.period = request[r].period
      /\ request'[r].status = "approved" /\ request'[r].period = request[r].period /\ moved' = moved
  BY <1>1, ApproveStep
<1>3. request[r].period \in Period
  BY RowFields DEF Request
<1>4. PICK d \in Nat : d = Days(request[r].period)
  BY <1>3, PeriodIs
<1>5. PICK a \in Int : a = -d
  BY <1>4
<1>6. balance' = Charged(request[r].period, a, d)
  BY <1>2, <1>4, <1>5 DEF ApproveLeave
<1>7. a + d <= 0 /\ d \in Int /\ request[r].status \in Reserving
  BY <1>2, <1>4, <1>5 DEF Reserving
<1> QED
  BY <1>2, <1>4, <1>5, <1>6, <1>7, StatusMoves

LEMMA CancelledBalance ==
  ASSUME RequestsTyped, RequestsTyped', TransactionsFit, BalanceFits, balance \in BalanceRows,
         NEW r \in Leave, CancelLeave(r)
  PROVE  balance' \in BalanceRows /\ BalanceFits'
<1>1. r \in Request
  BY DEF Request
<1>2. /\ OnlyRow(r) /\ request[r].status \in Stage \cup {"returned", "approved"}
      /\ request'[r].status = "cancelled" /\ request'[r].period = request[r].period /\ moved' = moved
  BY <1>1, CancelStep
<1>3. request[r].period \in Period
  BY <1>1, RowFields
<1>4. PICK d \in Nat : d = Days(request[r].period)
  BY <1>3, PeriodIs
<1>5. PICK a \in Int : a = -d
  BY <1>4
<1>6. a + 0 <= 0 /\ 0 + a <= 0
  BY <1>4, <1>5
<1>7. balance' = Released(r)
  BY DEF CancelLeave
<1>8. CASE request[r].status = "approved"
  <2>1. balance' = Charged(request[r].period, 0, a)
    BY <1>4, <1>5, <1>7, <1>8 DEF Released
  <2> QED
    BY <1>2, <1>4, <1>5, <1>6, <1>8, <2>1, StatusMoves
<1>9. CASE request[r].status # "approved"
  <2>1. balance' = Charged(request[r].period, a, 0)
    BY <1>4, <1>5, <1>7, <1>9 DEF Released
  <2>2. request[r].status \in Reserving
    BY <1>2, <1>9 DEF Reserving
  <2> QED
    BY <1>2, <1>4, <1>5, <1>6, <2>1, <2>2, StatusMoves
<1> QED
  BY <1>8, <1>9

LEMMA DecidedBalance ==
  ASSUME RequestsTyped, RequestsTyped', TransactionsFit, BalanceFits, balance \in BalanceRows,
         NEW r \in Leave, NEW u \in User, NEW decision \in {"approve", "return", "reject"},
         DecideLeave(r, u, decision)
  PROVE  balance' \in BalanceRows /\ BalanceFits'
<1>1. r \in Request
  BY DEF Request
<1>2. /\ OnlyRow(r) /\ request[r].status \in Stage /\ request'[r].period = request[r].period
      /\ moved' = moved
      /\ decision = "approve" => request'[r].status \in Stage
      /\ decision = "return" => request'[r].status = "returned"
      /\ decision = "reject" => request'[r].status = "rejected"
  BY <1>1, DecideStep
<1>3. request[r].period \in Period /\ request[r].status \in Reserving
  BY <1>1, <1>2, RowFields DEF Reserving
<1>4. CASE decision = "reject"
  <2>1. PICK d \in Nat : d = Days(request[r].period)
    BY <1>3, PeriodIs
  <2>2. PICK a \in Int : a = -d
    BY <2>1
  <2>3. balance' = Charged(request[r].period, a, 0)
    BY <1>4, <2>1, <2>2 DEF DecideLeave
  <2>4. a + 0 <= 0
    BY <2>1, <2>2
  <2> QED
    BY <1>2, <1>3, <1>4, <2>1, <2>2, <2>3, <2>4, StatusMoves
<1>5. CASE decision # "reject"
  <2>1. balance' = balance
    BY <1>5 DEF DecideLeave
  <2>2. request'[r].status \in Reserving
    BY <1>2, <1>5 DEF Reserving
  <2>3. ASSUME NEW y \in Year \ moved
        PROVE  /\ balance'[y].reserved =
                    balance[y].reserved + Share(request'[r], y, Reserving) - Share(request[r], y, Reserving)
               /\ balance'[y].used = balance[y].used + Share(request'[r], y, {"approved"})
                                       - Share(request[r], y, {"approved"})
               /\ balance'[y].reserved + balance'[y].used <= Entitled[y]
    <3>1. PICK m \in Nat : m = ShareOf(request[r].period, y)
      BY <1>3, PeriodIs
    <3>2. /\ Share(request'[r], y, Reserving) = m /\ Share(request'[r], y, {"approved"}) = 0
          /\ Share(request[r], y, Reserving) = m /\ Share(request[r], y, {"approved"}) = 0
      BY <1>2, <1>3, <2>2, <3>1 DEF Share, Reserving, Stage
    <3>3. balance[y].reserved \in Int /\ balance[y].used \in Int
      BY BalanceIs
    <3>4. balance[y].reserved + balance[y].used <= Entitled[y]
      BY <2>3 DEF BalanceFits
    <3> QED
      BY <2>1, <3>1, <3>2, <3>3, <3>4
  <2> QED
    BY <1>2, <2>1, <2>3, BalanceMoves
<1> QED
  BY <1>4, <1>5

LEMMA StepBalance ==
  ASSUME RequestsTyped, TransactionsFit, ReturnsKept, BalanceFits, balance \in BalanceRows,
         [AbsenceNext]_absenceVars
  PROVE  balance' \in BalanceRows /\ BalanceFits'
<1>1. RequestsTyped'
  BY StepFits
<1>2. ASSUME request' = request, balance' = balance, moved' = moved PROVE balance' \in BalanceRows /\ BalanceFits'
  BY <1>2, BalanceStays
<1>3. ASSUME NEW r \in Trip, OnlyRow(r), balance' = balance, moved' = moved
      PROVE  balance' \in BalanceRows /\ BalanceFits'
  <2>1. \A q \in Leave : request'[q] = request[q]
    BY <1>3, RequestAssumption DEF OnlyRow, Request
  <2> QED
    BY <1>3, <2>1, BalanceStays
<1>4. ASSUME NEW t \in open, CreateTrip(t) \/ ResubmitTrip(t)
      PROVE  balance' \in BalanceRows /\ BalanceFits'
  <2>1. t.owner \in Trip /\ balance' = balance
    BY <1>4 DEF CreateTrip, ResubmitTrip
  <2>2. OnlyRow(t.owner) /\ moved' = moved
    BY <1>4, SubmitStep, ContinueStep DEF ResubmitTrip
  <2> QED
    BY <1>3, <2>1, <2>2
<1>5. ASSUME NEW t \in open, NEW u \in User, RegisterTrip(t, u)
      PROVE  balance' \in BalanceRows /\ BalanceFits'
  <2>1. t.owner \in Trip /\ balance' = balance
    BY <1>5 DEF RegisterTrip
  <2>2. OnlyRow(t.owner) /\ moved' = moved
    BY <1>5, ApproveStep
  <2> QED
    BY <1>3, <2>1, <2>2
<1>6. ASSUME NEW r \in Request, CancelTrip(r) PROVE balance' \in BalanceRows /\ BalanceFits'
  <2>1. r \in Trip /\ balance' = balance
    BY <1>6 DEF CancelTrip
  <2>2. OnlyRow(r) /\ moved' = moved
    BY <1>6, CancelStep
  <2> QED
    BY <1>3, <2>1, <2>2
<1>7. ASSUME NEW r \in Request, NEW u \in User, NEW decision \in {"approve", "return", "reject"},
             DecideTrip(r, u, decision)
      PROVE  balance' \in BalanceRows /\ BalanceFits'
  <2>1. r \in Trip /\ balance' = balance
    BY <1>7 DEF DecideTrip
  <2>2. OnlyRow(r) /\ moved' = moved
    BY <1>7, DecideStep
  <2> QED
    BY <1>3, <2>1, <2>2
<1>8. ASSUME NEW r \in Request, CancelLeave(r) PROVE balance' \in BalanceRows /\ BalanceFits'
  BY <1>1, <1>8, CancelledBalance DEF CancelLeave
<1>9. ASSUME NEW r \in Request, NEW u \in User, NEW decision \in {"approve", "return", "reject"},
             DecideLeave(r, u, decision)
      PROVE  balance' \in BalanceRows /\ BalanceFits'
  BY <1>1, <1>9, DecidedBalance DEF DecideLeave
<1>10. ASSUME NEW t \in open, NEW u \in User, ApproveLeave(t, u)
       PROVE  balance' \in BalanceRows /\ BalanceFits'
  BY <1>1, <1>10, ApprovedBalance
<1>11. ASSUME NEW t \in open, CreateLeave(t) \/ ResubmitLeave(t)
       PROVE  balance' \in BalanceRows /\ BalanceFits'
  BY <1>1, <1>11, SubmittedBalance, ContinuedBalance
<1>12. ASSUME NEW r \in Request, NEW s \in Stage, NEW u \in User, NEW action \in Action,
              ActOnTask(r, s, u, action)
       PROVE  balance' \in BalanceRows /\ BalanceFits'
  BY <1>2, <1>12, ActedOnIs
<1> QED
  BY <1>2, <1>4, <1>5, <1>6, <1>7, <1>8, <1>9, <1>10, <1>11, <1>12, StepMoves DEF Unmoved, Still

\* What the sums say of the properties.
LEMMA SumsAreProperties ==
  ASSUME RequestsTyped, BalanceFits, balance \in BalanceRows
  PROVE  BalanceMatchesRequests /\ WithinEntitlement
<1>1. ASSUME NEW y, NEW statuses
      PROVE  DaysOf(LeavesOf(y, statuses)) = DaysIn(request, y, statuses)
  BY DEF DaysOf, LeavesOf, DaysIn, Counted, Spans
<1>2. BalanceMatchesRequests
  BY <1>1 DEF BalanceMatchesRequests, BalanceFits, Reserving
<1>3. ASSUME NEW y \in Year \ moved PROVE DaysIn(request, y, Stage \cup {"returned", "approved"}) <= Entitled[y]
  <2>1. PICK S, T \in SUBSET Leave :
          S = Counted(request, y, Reserving) /\ T = Counted(request, y, {"approved"})
    BY DEF Counted
  <2>2. Counted(request, y, Stage \cup {"returned", "approved"}) = S \cup T
    BY <2>1 DEF Counted, Reserving
  <2>3. S \cap T = {}
    BY <2>1 DEF Counted, Reserving, Stage
  <2>4. Cardinality(Spans(request, S \cup T)) =
          Cardinality(Spans(request, S)) + Cardinality(Spans(request, T))
    BY <2>3, SpansAdd
  <2>5. DaysIn(request, y, Stage \cup {"returned", "approved"}) = balance[y].reserved + balance[y].used
    BY <1>3, <2>1, <2>2, <2>4 DEF DaysIn, BalanceFits
  <2> QED
    BY <1>3, <2>5 DEF BalanceFits
<1> QED
  BY <1>1, <1>2, <1>3 DEF WithinEntitlement


---------------------------------------------------------------------------
(* The beginning, and the theorems *)

LEMMA AbsenceBegins ==
  ASSUME AbsenceInit
  PROVE  /\ RequestsTyped /\ TransactionsFit /\ HistoryTyped /\ ProcessesFollow /\ CalendarFits
         /\ ReturnsKept /\ StaysApart /\ balance \in BalanceRows /\ BalanceFits
<1>1. 1 \in Day /\ <<1, 1>> \in Period
  BY CalendarAssumption DEF Day, Period
<1>2. PICK entry : entry = [status |-> "none", period |-> <<1, 1>>, returned |-> "none"]
  OBVIOUS
<1>3. entry \in RequestRow /\ entry.status = "none"
  BY <1>1, <1>2 DEF RequestRow, AbsenceStatus
<1>4. request = [r \in Request |-> entry] /\ \A r \in Request : request[r].status = "none"
  BY <1>2, <1>3 DEF AbsenceInit
<1>5. PICK p \in Process : p = Fresh("manager_review")
  BY FreshIs DEF Stage
<1>6. process = [r \in Request |-> p]
  BY <1>5 DEF AbsenceInit
<1>7. IsFiniteSet(open) /\ open = {} /\ Cardinality(open) <= Concurrent
  BY FS_EmptySet, BoundsAssumption DEF AbsenceInit
<1>8. /\ calendar = [r \in Request |-> "none"] /\ personnel = {} /\ today = 1
      /\ balance = [y \in Year |-> [reserved |-> 0, used |-> 0]]
      /\ missed = [r \in Request |-> {}] /\ moved = {} /\ bypassed = {}
  BY DEF AbsenceInit
<1>9. RequestsTyped
  BY <1>1, <1>3, <1>4, <1>6, <1>7, <1>8 DEF RequestsTyped
<1>10. TransactionsFit /\ StaysApart
  BY <1>7 DEF TransactionsFit, StaysApart
<1>11. ProcessesFollow /\ ReturnsKept
  BY <1>4, <1>8 DEF ProcessesFollow, Follows, ReturnsKept, Stage
<1>12. CalendarFits
  BY <1>4, <1>8 DEF CalendarFits
<1>13. HistoryTyped
  BY <1>8 DEF HistoryTyped
<1>14. balance \in BalanceRows /\ \A y \in Year : balance[y].reserved = 0 /\ balance[y].used = 0
  BY <1>8 DEF BalanceRows
<1>15. ASSUME NEW y \in Year, NEW statuses, "none" \notin statuses PROVE DaysIn(request, y, statuses) = 0
  <2>1. Counted(request, y, statuses) = {}
    BY <1>4, <1>15 DEF Counted, Request
  <2>2. Spans(request, {}) = {}
    BY DEF Spans
  <2> QED
    BY <2>1, <2>2, FS_EmptySet DEF DaysIn
<1>16. BalanceFits
  <2>1. "none" \notin Reserving /\ "none" \notin {"approved"}
    BY DEF Reserving, Stage
  <2>2. \A y \in Year : Entitled[y] \in Nat
    BY CalendarAssumption
  <2> QED
    BY <1>14, <1>15, <2>1, <2>2 DEF BalanceFits
<1> QED
  BY <1>9, <1>10, <1>11, <1>12, <1>13, <1>14, <1>16

\* Whatever the step, balances stay rows.
LEMMA StepRows ==
  ASSUME RequestsTyped, TransactionsFit, balance \in BalanceRows, [AbsenceNext]_absenceVars
  PROVE  balance' \in BalanceRows
<1>1. ASSUME NEW p \in Period, NEW a \in Int, NEW b \in Int, balance' = Charged(p, a, b)
      PROVE  balance' \in BalanceRows
  BY <1>1, ChargedIs
<1>2. ASSUME NEW t \in open, CreateLeave(t) PROVE balance' \in BalanceRows
  <2>1. PICK p \in Period : p = t.period
    BY OwnerOf
  <2>2. Days(p) \in Int /\ balance' = Charged(p, Days(p), 0)
    BY <1>2, <2>1, PeriodIs DEF CreateLeave
  <2> QED
    BY <1>1, <2>2
<1>3. ASSUME NEW t \in open, ResubmitLeave(t) PROVE balance' \in BalanceRows
  <2>1. PICK p, q \in Period : p = t.period /\ q = request[t.owner].period
    BY <1>3, OwnerOf, RowFields DEF ResubmitLeave, Request
  <2>2. Days(p) - Days(q) \in Int /\ balance' = Charged(q, Days(p) - Days(q), 0)
    BY <1>3, <2>1, PeriodIs DEF ResubmitLeave, Resized
  <2> QED
    BY <1>1, <2>2
<1>4. ASSUME NEW t \in open, NEW u \in User, ApproveLeave(t, u) PROVE balance' \in BalanceRows
  <2>1. PICK p \in Period : p = t.period
    BY OwnerOf
  <2>2. -Days(p) \in Int /\ Days(p) \in Int /\ balance' = Charged(p, -Days(p), Days(p))
    BY <1>4, <2>1, PeriodIs DEF ApproveLeave
  <2> QED
    BY <1>1, <2>2
<1>5. ASSUME NEW r \in Request, CancelLeave(r) PROVE balance' \in BalanceRows
  <2>1. PICK p \in Period : p = request[r].period
    BY RowFields
  <2>2. /\ -Days(p) \in Int
        /\ balance' = Charged(p, 0, -Days(p)) \/ balance' = Charged(p, -Days(p), 0)
    BY <1>5, <2>1, PeriodIs DEF CancelLeave, Released
  <2> QED
    BY <1>1, <2>2
<1>6. ASSUME NEW r \in Request, NEW u \in User, NEW decision \in {"approve", "return", "reject"},
             DecideLeave(r, u, decision)
      PROVE  balance' \in BalanceRows
  <2>1. PICK p \in Period : p = request[r].period
    BY RowFields
  <2>2. -Days(p) \in Int /\ (balance' = Charged(p, -Days(p), 0) \/ balance' = balance)
    BY <1>6, <2>1, PeriodIs DEF DecideLeave
  <2> QED
    BY <1>1, <2>2
<1>7. ASSUME NEW t \in open, NEW u \in User, CreateTrip(t) \/ ResubmitTrip(t) \/ RegisterTrip(t, u)
      PROVE  balance' \in BalanceRows
  BY <1>7 DEF CreateTrip, ResubmitTrip, RegisterTrip
<1>8. ASSUME NEW t \in open, CreateTrip(t) \/ ResubmitTrip(t) PROVE balance' \in BalanceRows
  BY <1>8 DEF CreateTrip, ResubmitTrip
<1>9. ASSUME NEW r \in Request, NEW u \in User, NEW decision \in {"approve", "return", "reject"},
             CancelTrip(r) \/ DecideTrip(r, u, decision)
      PROVE  balance' \in BalanceRows
  BY <1>9 DEF CancelTrip, DecideTrip
<1>10. ASSUME NEW r \in Request, CancelTrip(r) PROVE balance' \in BalanceRows
  BY <1>10 DEF CancelTrip
<1>11. CASE balance' = balance
  BY <1>11
<1>12. ASSUME NEW r \in Request, NEW s \in Stage, NEW u \in User, NEW action \in Action,
              ActOnTask(r, s, u, action)
       PROVE  balance' \in BalanceRows
  BY <1>12, ActedOnIs
<1> QED
  BY <1>2, <1>3, <1>4, <1>5, <1>6, <1>7, <1>8, <1>9, <1>10, <1>11, <1>12, StepMoves DEF Unmoved, Still

\* Whatever the clients and the concurrency, the state has its types, and the transactions
\* between their overlap check and their commit are on different requests, each at the
\* status it was begun at (the row locks of create, resubmit and the last approval).
THEOREM AbsenceInvariant == AbsenceSpec => [](AbsenceTypeOK /\ TransactionsFit)
<1> DEFINE I == RequestsTyped /\ TransactionsFit /\ HistoryTyped /\ balance \in BalanceRows
<1>1. AbsenceInit => I
  BY AbsenceBegins
<1>2. I /\ [AbsenceNext]_absenceVars => I'
  <2>1. ASSUME I, [AbsenceNext]_absenceVars PROVE RequestsTyped' /\ TransactionsFit'
    BY <2>1, StepFits
  <2>2. ASSUME I, [AbsenceNext]_absenceVars PROVE HistoryTyped' /\ (balance \in BalanceRows)'
    BY <2>2, StepHistory, StepRows
  <2> QED
    BY <2>1, <2>2
<1>3. I => AbsenceTypeOK /\ TransactionsFit
  BY DEF RequestsTyped, HistoryTyped, BalanceRows, AbsenceTypeOK
<1> QED
  BY <1>1, <1>2, <1>3, PTL DEF AbsenceSpec

\* Whatever is done at once, two requests come to share a day only when the dates of one
\* were set between the overlap check and the commit of the other: the race
\* _ensure_no_overlap leaves open is the only way, and decisions, returns, corrections and
\* cancellations open no other.
THEOREM OverlapsAreRaces == AbsenceSpec => OverlapsWereUnseen
<1> DEFINE I == RequestsTyped /\ TransactionsFit /\ HistoryTyped /\ StaysApart
<1>1. AbsenceInit => I
  BY AbsenceBegins
<1>2. I /\ [AbsenceNext]_absenceVars => I'
  <2>1. ASSUME I, [AbsenceNext]_absenceVars PROVE RequestsTyped' /\ TransactionsFit' /\ HistoryTyped'
    BY <2>1, StepFits, StepHistory
  <2>2. ASSUME I, [AbsenceNext]_absenceVars PROVE StaysApart'
    BY <2>2, StepApart
  <2> QED
    BY <2>1, <2>2
<1>3. I /\ [AbsenceNext]_absenceVars =>
        [\A q, r \in Request :
           ~Clash(q, r) /\ Clash(q, r)' => q \in missed[r] \/ r \in missed[q]]_absenceVars
  BY StepApart DEF MeetsUnseen
<1> QED
  BY <1>1, <1>2, <1>3, PTL DEF AbsenceSpec, OverlapsWereUnseen

\* Whatever else is done at once, the calendar shows the approved requests and no other,
\* but for the rows of approved requests that cancel_absence of the employees module took
\* back: neither the last approval nor _cancel_calendar_absence adds to these.
THEOREM CalendarIsOurs == AbsenceSpec => []CalendarShowsApproved
<1> DEFINE I == RequestsTyped /\ TransactionsFit /\ CalendarFits
<1>1. AbsenceInit => I
  BY AbsenceBegins
<1>2. I /\ [AbsenceNext]_absenceVars => I'
  <2>1. ASSUME I, [AbsenceNext]_absenceVars PROVE RequestsTyped' /\ TransactionsFit'
    BY <2>1, StepFits
  <2>2. ASSUME I, [AbsenceNext]_absenceVars PROVE CalendarFits'
    BY <2>2, StepCalendar
  <2> QED
    BY <2>1, <2>2
<1>3. I => CalendarShowsApproved
  BY DEF CalendarFits, CalendarShowsApproved
<1> QED
  BY <1>1, <1>2, <1>3, PTL DEF AbsenceSpec

LEMMA FollowingIsProperty ==
  ASSUME RequestsTyped, ProcessesFollow
  PROVE  RequestFollowsProcess
<1>1. SUFFICES ASSUME NEW r \in Request
      PROVE  LET p == process[r]
                 entry == request[r]
                 asked == {k \in Stage \X User : p.task[k] = "active"}
             IN  /\ entry.status \in Stage /\ r \notin bypassed =>
                      /\ p.status = "active" /\ p.phase = entry.status
                      /\ \E u \in User : asked = {<<entry.status, u>>}
                 /\ entry.status \in {"returned", "approved", "rejected", "cancelled"} => asked = {}
                 /\ entry.status = "returned" =>
                      p.status = "active" /\ \E u \in User : p.task[<<entry.returned, u>>] = "returned"
                 /\ entry.status = "approved" => p.status = "completed"
                 /\ entry.status \in {"rejected", "cancelled"} => p.status = entry.status
  BY DEF RequestFollowsProcess
<1>2. PICK p, entry : p = process[r] /\ entry = request[r]
  OBVIOUS
<1>3. CASE r \in bypassed
  <2>1. Strays(r, p, entry)
    BY <1>2, <1>3 DEF ProcessesFollow
  <2>2. entry.status \notin {"returned", "approved", "rejected"}
    BY <2>1 DEF Strays, Stage
  <2>3. entry.status = "cancelled" => p.status = "cancelled" /\ Asked(p) = {}
    BY <2>1 DEF Strays
  <2> QED
    BY <1>2, <1>3, <2>2, <2>3 DEF Asked
<1>4. CASE r \notin bypassed
  <2>1. Follows(p, entry)
    BY <1>2, <1>4 DEF ProcessesFollow
  <2>2. entry.status \in Stage =>
          p.status = "active" /\ p.phase = entry.status /\ \E u \in User : Asked(p) = {<<entry.status, u>>}
    BY <2>1 DEF Follows
  <2>3. entry.status \in {"returned", "approved", "rejected", "cancelled"} => Asked(p) = {}
    BY <2>1 DEF Follows
  <2>4. ASSUME entry.status = "returned"
        PROVE  p.status = "active" /\ \E u \in User : p.task[<<entry.returned, u>>] = "returned"
    <3>1. p.status = "active" /\ \E v \in User : Returned(p) = {<<entry.returned, v>>}
      BY <2>1, <2>4 DEF Follows
    <3>2. PICK v \in User : Returned(p) = {<<entry.returned, v>>}
      BY <3>1
    <3>3. p.task[<<entry.returned, v>>] = "returned"
      BY <3>2 DEF Returned
    <3> QED
      BY <3>1, <3>3
  <2>5. /\ entry.status = "approved" => p.status = "completed"
        /\ entry.status \in {"rejected", "cancelled"} => p.status = entry.status
    BY <2>1 DEF Follows
  <2> QED
    BY <1>2, <2>2, <2>3, <2>4, <2>5 DEF Asked
<1> QED
  BY <1>3, <1>4

\* A request and its process agree, whoever acts through whatever interface: one reviewer
\* is asked at the stage the request is at, unless act_task has moved the process on; a
\* request that is returned or over has a process in which nobody is asked, and that is
\* over the same way (decide_leave, decide_trip, resubmit and cancel, act_task).
THEOREM ProcessIsOurs == AbsenceSpec => []RequestFollowsProcess
<1> DEFINE I == RequestsTyped /\ TransactionsFit /\ ProcessesFollow
<1>1. AbsenceInit => I
  BY AbsenceBegins
<1>2. I /\ [AbsenceNext]_absenceVars => I'
  <2>1. ASSUME I, [AbsenceNext]_absenceVars PROVE RequestsTyped' /\ TransactionsFit'
    BY <2>1, StepFits
  <2>2. ASSUME I, [AbsenceNext]_absenceVars PROVE ProcessesFollow'
    BY <2>2, StepFollows
  <2> QED
    BY <2>1, <2>2
<1>3. I => RequestFollowsProcess
  BY FollowingIsProperty
<1> QED
  BY <1>1, <1>2, <1>3, PTL DEF AbsenceSpec

LEMMA BalanceInvariant ==
  AbsenceSpec =>
    [](RequestsTyped /\ TransactionsFit /\ ReturnsKept /\ balance \in BalanceRows /\ BalanceFits)
<1> DEFINE I == RequestsTyped /\ TransactionsFit /\ ReturnsKept /\ balance \in BalanceRows /\ BalanceFits
<1>1. AbsenceInit => I
  BY AbsenceBegins
<1>2. I /\ [AbsenceNext]_absenceVars => I'
  <2>1. ASSUME I, [AbsenceNext]_absenceVars PROVE RequestsTyped' /\ TransactionsFit'
    BY <2>1, StepFits
  <2>2. ASSUME I, [AbsenceNext]_absenceVars PROVE ReturnsKept'
    BY <2>2, StepReturns
  <2>3. ASSUME I, [AbsenceNext]_absenceVars
        PROVE  balance' \in BalanceRows /\ BalanceFits'
    BY <2>3, StepBalance
  <2> QED
    BY <2>1, <2>2, <2>3
<1> QED
  BY <1>1, <1>2, PTL DEF AbsenceSpec

\* The balance of every year that no resubmission has taken a leave into or out of is the
\* days of its leaves: those under review or returned are reserved, those approved are
\* used, whoever decides, returns, rejects or cancels and in whatever order
\* (_resize_reservation, _consume_balance and _release_balance).  The years between which
\* a leave was moved are left to the run that shows what becomes of them.
THEOREM BalanceIsExact == AbsenceSpec => []BalanceMatchesRequests
<1>1. RequestsTyped /\ balance \in BalanceRows /\ BalanceFits => BalanceMatchesRequests
  BY SumsAreProperties
<1> QED
  BY <1>1, BalanceInvariant, PTL

\* And in such a year no employee is granted or asks for more days than the entitlement,
\* however many transactions check it at once and whatever happens in other years.
THEOREM EntitlementHolds == AbsenceSpec => []WithinEntitlement
<1>1. RequestsTyped /\ balance \in BalanceRows /\ BalanceFits => WithinEntitlement
  BY SumsAreProperties
<1> QED
  BY <1>1, BalanceInvariant, PTL
===========================================================================
