------------------------- MODULE HiringRequests -------------------------
(***************************************************************************)
(* One request to hire a new employee (HiringRequestService): its form and  *)
(* files, the PDF made of them, the sequential approval route, the dispatch *)
(* to accounting and IT, the employee created at the end.  A handler that    *)
(* locks the row (_locked) is one step; upload_attachment and generate_pdf  *)
(* read in one transaction and write in a later one, so they are two steps, *)
(* and the final PDF is made after the commit of the final approval.         *)
(***************************************************************************)
EXTENDS Naturals, FiniteSets

CONSTANTS Client,      \* browser tabs of the initiator, the approvers, the recipients
          Form,        \* values of the personal, employment and education data
          Incomplete,  \* forms _validate_complete rejects
          Secondary,   \* forms with secondary education: no diploma needed
          File,        \* uploaded document versions
          None,        \* NULL: no file, no PDF
          Stages,      \* len(APPROVAL_STAGES), 5 in the code
          MaxCycle     \* bound: approval cycles

ASSUME StagesAssumption == Stages \in Nat \ {0} /\ MaxCycle \in Nat \ {0}
ASSUME FormAssumption == Incomplete \subseteq Form /\ Secondary \subseteq Form
ASSUME NoneAssumption == None \notin File

VARIABLES row,        \* the hiring request
          files,      \* its attachment of each category
          pdf,        \* content of pdf_version_id and of final_pdf_version_id
          decisions,  \* approval decisions
          dispatch,   \* status of the dispatch to each recipient
          current,    \* clients whose last read has the revision of the row
          view,       \* cycle and stage each client last read
          handling    \* what an unfinished upload or PDF generation holds

vars == <<row, files, pdf, decisions, dispatch, current, view, handling>>

Category == {"identity", "diploma"}
Recipient == {"accounting", "it"}
Editable == {"draft", "returned"}
Approved == {"final_approved", "dispatched", "partially_acknowledged", "completed"}
Status == Editable \cup Approved \cup {"pdf_generated", "under_review", "rejected"}

\* What a PDF shows.
Content == [form : Form, files : [Category -> File \cup {None}]]

Shown == [form |-> row.form, files |-> files]

Position == (1..MaxCycle) \X (0..Stages)

Here == <<row.cycle, row.stage>>

Idle == [op |-> "idle"]
Died == [op |-> "died"]   \* after the final approval, before its PDF

Handling ==
  {Idle, Died, [op |-> "final"]}
  \cup [op : {"upload"}, category : Category, file : File]
  \cup [op : {"pdf", "final_pdf"}, content : Content]

TypeOK ==
  /\ row \in [form : Form, status : Status, stage : 0..(Stages - 1), cycle : 1..MaxCycle,
              hired : 0..1]
  /\ files \in [Category -> File \cup {None}]
  /\ pdf \in [working : Content \cup {None}, final : Content \cup {None}]
  /\ decisions \subseteq [cycle : 1..MaxCycle, stage : 0..(Stages - 1), seen : Position,
                          decision : {"approve", "return", "reject"}, content : Content]
  /\ dispatch \in [Recipient -> {"none", "assigned", "acknowledged"}]
  /\ current \subseteq Client
  /\ view \in [Client -> Position]
  /\ handling \in [Client -> Handling]

\* create: a draft with whatever form the initiator filled in.
Init ==
  /\ \E f \in Form : row = [form |-> f, status |-> "draft", stage |-> 0, cycle |-> 1, hired |-> 0]
  /\ files = [k \in Category |-> None]
  /\ pdf = [working |-> None, final |-> None]
  /\ decisions = {}
  /\ dispatch = [r \in Recipient |-> "none"]
  /\ current = {}
  /\ view = [c \in Client |-> <<1, 0>>]
  /\ handling = [c \in Client |-> Idle]

\* The client waits for no response.
Free(c) == handling[c] \in {Idle, Died}

---------------------------------------------------------------------------
(* get and update *)

\* The response of a write is read the same way.
Get(c) ==
  /\ Free(c)
  /\ current' = current \cup {c}
  /\ view' = [view EXCEPT ![c] = Here]
  /\ UNCHANGED <<row, files, pdf, decisions, dispatch, handling>>

\* Every write increments row.revision: the revision a client sends matches only
\* when it has read the row since.
Written == current' = {} /\ UNCHANGED view

Update(c) ==
  /\ Free(c) /\ c \in current /\ row.status \in Editable
  /\ \E f \in Form : row' = [row EXCEPT !.form = f]
  /\ Written
  /\ UNCHANGED <<files, pdf, decisions, dispatch, handling>>

---------------------------------------------------------------------------
(* upload_attachment *)

BeginUpload(c) ==
  /\ Free(c) /\ row.status \in Editable
  /\ \E k \in Category, x \in File :
       handling' = [handling EXCEPT ![c] = [op |-> "upload", category |-> k, file |-> x]]
  /\ UNCHANGED <<row, files, pdf, decisions, dispatch, current, view>>

\* Slip: the second transaction trusts the status the first one read.
CommitUploadUnchecked(c) ==
  /\ handling[c].op = "upload"
  /\ files' = [files EXCEPT ![handling[c].category] = handling[c].file]
  /\ Written
  /\ handling' = [handling EXCEPT ![c] = Idle]
  /\ UNCHANGED <<row, pdf, decisions, dispatch>>

CommitUpload(c) ==
  /\ handling[c].op = "upload" /\ row.status \in Editable
  /\ files' = [files EXCEPT ![handling[c].category] = handling[c].file]
  /\ Written
  /\ handling' = [handling EXCEPT ![c] = Idle]
  /\ UNCHANGED <<row, pdf, decisions, dispatch>>

---------------------------------------------------------------------------
(* generate_pdf *)

\* _validate_complete; what Incomplete lacks is a field, or the form of one.
Complete(form) == form \notin Incomplete

\* The data is read and rendered, and stored as a new document version ...
BeginPdf(c) ==
  /\ Free(c) /\ row.status \in Editable \cup {"pdf_generated"}
  /\ Complete(row.form)
  /\ handling' = [handling EXCEPT ![c] = [op |-> "pdf", content |-> Shown]]
  /\ UNCHANGED <<row, files, pdf, decisions, dispatch, current, view>>

\* ... and a later transaction makes it the PDF of the request: the status is
\* checked again, the revision is not.
CommitPdf(c) ==
  /\ handling[c].op = "pdf" /\ row.status \in Editable \cup {"pdf_generated"}
  /\ pdf' = [pdf EXCEPT !.working = handling[c].content]
  /\ row' = [row EXCEPT !.status = "pdf_generated"]
  /\ Written
  /\ handling' = [handling EXCEPT ![c] = Idle]
  /\ UNCHANGED <<files, decisions, dispatch>>

BeginFinalPdf(c) ==
  /\ handling[c].op = "final"
  /\ handling' = [handling EXCEPT ![c] = [op |-> "final_pdf", content |-> Shown]]
  /\ UNCHANGED <<row, files, pdf, decisions, dispatch, current, view>>

\* Slip: the branch for the final PDF is not taken.
CommitFinalPdfAsWorking(c) ==
  /\ handling[c].op = "final_pdf"
  /\ pdf' = [pdf EXCEPT !.working = handling[c].content]
  /\ Written
  /\ handling' = [handling EXCEPT ![c] = Idle]
  /\ UNCHANGED <<row, files, decisions, dispatch>>

CommitFinalPdf(c) ==
  /\ handling[c].op = "final_pdf"
  /\ pdf' = [working |-> handling[c].content, final |-> handling[c].content]
  /\ Written
  /\ handling' = [handling EXCEPT ![c] = Idle]
  /\ UNCHANGED <<row, files, decisions, dispatch>>

\* An upload or a PDF that is not written: refused by the second check of the
\* status, or the process or a connection died in between.
Abandon(c) ==
  /\ ~Free(c)
  /\ handling' = [handling EXCEPT ![c] = IF @.op \in {"final", "final_pdf"} THEN Died ELSE Idle]
  /\ UNCHANGED <<row, files, pdf, decisions, dispatch, current, view>>

---------------------------------------------------------------------------
(* submit and decide *)

RequiredFiles == IF row.form \in Secondary THEN {"identity"} ELSE Category

\* Slip: resubmission stays in the cycle of the return.
SameCycle == row.cycle

NextCycle == IF \E d \in decisions : d.cycle = row.cycle THEN row.cycle + 1 ELSE row.cycle

Submit(c) ==
  /\ Free(c) /\ c \in current /\ row.status = "pdf_generated"
  /\ \A k \in RequiredFiles : files[k] # None
  /\ pdf.working # None
  /\ NextCycle <= MaxCycle
  /\ row' = [row EXCEPT !.cycle = NextCycle, !.status = "under_review", !.stage = 0]
  /\ Written
  /\ UNCHANGED <<files, pdf, decisions, dispatch, handling>>

Outcome(decision) ==
  CASE decision = "return" -> [row EXCEPT !.status = "returned", !.stage = 0]
    [] decision = "reject" -> [row EXCEPT !.status = "rejected"]
    [] decision = "approve" /\ row.stage = Stages - 1 -> [row EXCEPT !.status = "final_approved"]
    [] OTHER -> [row EXCEPT !.stage = @ + 1]

\* Slip: the revision the approver read is not compared.
DecideUnseen(c) ==
  /\ Free(c) /\ row.status = "under_review"
  /\ \A d \in decisions : <<d.cycle, d.stage>> # Here
  /\ \E decision \in {"approve", "return", "reject"} :
       /\ decisions' = decisions \cup
            {[cycle |-> row.cycle, stage |-> row.stage, seen |-> view[c],
              decision |-> decision, content |-> Shown]}
       /\ row' = Outcome(decision)
  /\ handling' = IF row'.status = "final_approved"
                THEN [handling EXCEPT ![c] = [op |-> "final"]] ELSE handling
  /\ Written
  /\ UNCHANGED <<files, pdf, dispatch>>

\* The decision is inserted under the unique (request, cycle, stage).  After the
\* final approval commits, the same HTTP request goes on to make the final PDF.
Decide(c) ==
  /\ Free(c) /\ c \in current /\ row.status = "under_review"
  /\ \A d \in decisions : <<d.cycle, d.stage>> # Here
  /\ \E decision \in {"approve", "return", "reject"} :
       /\ decisions' = decisions \cup
            {[cycle |-> row.cycle, stage |-> row.stage, seen |-> view[c],
              decision |-> decision, content |-> Shown]}
       /\ row' = Outcome(decision)
  /\ handling' = IF row'.status = "final_approved"
                THEN [handling EXCEPT ![c] = [op |-> "final"]] ELSE handling
  /\ Written
  /\ UNCHANGED <<files, pdf, dispatch>>

---------------------------------------------------------------------------
(* dispatch, acknowledge and _auto_hire *)

Dispatch(c) ==
  /\ Free(c) /\ c \in current /\ row.status = "final_approved" /\ pdf.final # None
  /\ dispatch' = [r \in Recipient |-> "assigned"]
  /\ row' = [row EXCEPT !.status = "dispatched"]
  /\ Written
  /\ UNCHANGED <<files, pdf, decisions, handling>>

\* Slip: pending is counted before the flush (the sessions have autoflush off).
UnansweredBeforeFlush(d) == {r \in Recipient : dispatch[r] # "acknowledged"}

\* pending, counted after the flush of the acknowledged dispatch.
Unanswered(d) == {r \in Recipient : d[r] # "acknowledged"}

Acknowledge(c) ==
  /\ Free(c) /\ c \in current
  /\ \E r \in Recipient :
       /\ dispatch[r] = "assigned"
       /\ dispatch' = [dispatch EXCEPT ![r] = "acknowledged"]
  /\ row' = IF Unanswered(dispatch') = {}
            THEN [row EXCEPT !.status = "completed", !.hired = 1]
            ELSE [row EXCEPT !.status = "partially_acknowledged"]
  /\ Written
  /\ UNCHANGED <<files, pdf, decisions, handling>>

Next ==
  \E c \in Client :
    \/ Get(c) \/ Update(c) \/ BeginUpload(c) \/ CommitUpload(c)
    \/ BeginPdf(c) \/ CommitPdf(c) \/ BeginFinalPdf(c) \/ CommitFinalPdf(c) \/ Abandon(c)
    \/ Submit(c) \/ Decide(c) \/ Dispatch(c) \/ Acknowledge(c)

Spec == Init /\ [][Next]_vars

\* The handler of the final approval runs on unless it dies; users need not act.
FairSpec == Spec /\ \A c \in Client : WF_vars(BeginFinalPdf(c)) /\ WF_vars(CommitFinalPdf(c))

---------------------------------------------------------------------------
(* Properties *)

\* What is sent to accounting and IT, and what the employee is created from, is
\* what every stage approved: each stage has approved the present form and files in the
\* present cycle, and the final PDF shows them.  update, upload_attachment and
\* generate_pdf overlap with submit, decide and a return.
ApprovedByEveryStage ==
  row.status \in Approved =>
    /\ \A stage \in 0..(Stages - 1) :
         \E d \in decisions : /\ d.cycle = row.cycle /\ d.stage = stage
                              /\ d.decision = "approve" /\ d.content = Shown
    /\ pdf.final \in {None, Shown}

\* A stage is decided once, by an approver who was looking at it: a repeated click or an
\* answer to a page of an earlier stage or cycle decides nothing, and a request that comes
\* back is under review in a cycle without decisions, which the unique constraint would
\* refuse for ever (the revision in decide, the cycle in submit).
StagesAreDecidedAsSeen ==
  /\ \A d \in decisions : d.seen = <<d.cycle, d.stage>>
  /\ row.status = "under_review" => \A d \in decisions : <<d.cycle, d.stage>> # Here

\* The employee exists exactly when both recipients have acknowledged, and
\* exactly then is the request completed (_auto_hire).
HiredWhenBothAcknowledged ==
  /\ row.hired = 1 <=> \A r \in Recipient : dispatch[r] = "acknowledged"
  /\ row.hired = 1 <=> row.status = "completed"

\* After the final approval there comes a final PDF, which dispatch asks for, unless the
\* handler that was to make it died.
FinalApprovalGivesFinalPdf ==
  row.status = "final_approved" ~> pdf.final # None \/ \E c \in Client : handling[c] = Died
===========================================================================
