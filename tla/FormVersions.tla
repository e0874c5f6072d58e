--------------------------- MODULE FormVersions ---------------------------
(***************************************************************************)
(* The versions of one form: drafts copied from another version, fields     *)
(* added to a draft, publication, and what users submit.  A request first   *)
(* reads the version and writes later; nothing is locked, and the revision  *)
(* of the version row decides whether a write still goes through.  A field   *)
(* is its code; what a submission holds is left out, because whether it fits *)
(* is decided by the fields it was validated against.                        *)
(***************************************************************************)
EXTENDS Naturals, Sequences, SequencesExt

CONSTANTS Session, Field,
          MaxVersion,  \* bound: versions of the form
          MaxRevision  \* bound: revisions of a version

ASSUME FormBoundsAssumption == MaxVersion \in Nat /\ MaxRevision \in Nat \ {0}

VARIABLES form,        \* the versions by number: status, fields and revision
          submission,  \* the versions submitted, each with the fields it was validated against
          request      \* what a request has read

formVars == <<form, submission, request>>

FormRow == [status : {"draft", "published"}, fields : SUBSET Field, revision : 1..MaxRevision]
Idle == [op |-> "idle", version |-> 0, revision |-> 0, fields |-> {}]

FormTypeOK ==
  /\ form \in BoundedSeq(FormRow, MaxVersion)
  /\ submission \subseteq (1..MaxVersion) \X SUBSET Field
  /\ request \in [Session -> [op : {"idle", "save", "publish", "submit", "submitted"},
       version : 0..MaxVersion, revision : 0..MaxRevision, fields : SUBSET Field]]

\* create_form_definition.
FormInit == form = <<>> /\ submission = {} /\ request = [x \in Session |-> Idle]

Loaded(op, v) == [op |-> op, version |-> v, revision |-> form[v].revision, fields |-> {}]

\* RevisionMixin: the UPDATE finds the row as it was read.
Current(x) == form[request[x].version].revision = request[x].revision

\* create_form_draft: of two drafts at once one violates the unique version
\* number, so the numbering and the copy are one step.  The base may be a draft.
CreateFormDraft(base) ==
  /\ Len(form) < MaxVersion
  /\ form' = Append(form, [status |-> "draft", revision |-> 1,
                           fields |-> IF base = 0 THEN {} ELSE form[base].fields])
  /\ UNCHANGED <<submission, request>>

BeginSaveField(x, v) ==
  /\ request[x] = Idle /\ form[v].status = "draft"
  /\ request' = [request EXCEPT ![x] = Loaded("save", v)]
  /\ UNCHANGED <<form, submission>>

\* Slip: only the row of the field is written, and the version's revision stays.
CommitSaveFieldOnly(x, f) ==
  /\ request[x].op = "save" /\ f \notin form[request[x].version].fields
  /\ form' = [form EXCEPT ![request[x].version].fields = @ \cup {f}]
  /\ request' = [request EXCEPT ![x] = Idle]
  /\ UNCHANGED submission

\* The field's code is unique in the version.
CommitSaveField(x, f) ==
  /\ request[x].op = "save" /\ Current(x) /\ f \notin form[request[x].version].fields
  /\ request[x].revision < MaxRevision
  /\ form' = [form EXCEPT ![request[x].version].fields = @ \cup {f},
                          ![request[x].version].revision = @ + 1]
  /\ request' = [request EXCEPT ![x] = Idle]
  /\ UNCHANGED submission

\* The client names the revision it has seen, which is the one loaded.
BeginPublishForm(x, v) ==
  /\ request[x] = Idle /\ form[v].status = "draft"
  /\ request' = [request EXCEPT ![x] = Loaded("publish", v)]
  /\ UNCHANGED <<form, submission>>

CommitPublishForm(x) ==
  /\ request[x].op = "publish" /\ Current(x) /\ form[request[x].version].fields # {}
  /\ request[x].revision < MaxRevision
  /\ form' = [form EXCEPT ![request[x].version].status = "published",
                          ![request[x].version].revision = @ + 1]
  /\ request' = [request EXCEPT ![x] = Idle]
  /\ UNCHANGED submission

\* submit_form reads the version, then its fields, then adds the submission.
BeginSubmitForm(x, v) ==
  /\ request[x] = Idle /\ form[v].status = "published"
  /\ request' = [request EXCEPT ![x] = Loaded("submit", v)]
  /\ UNCHANGED <<form, submission>>

ValidateSubmission(x) ==
  /\ request[x].op = "submit"
  /\ request' = [request EXCEPT ![x].op = "submitted", ![x].fields = form[request[x].version].fields]
  /\ UNCHANGED <<form, submission>>

CommitSubmitForm(x) ==
  /\ request[x].op = "submitted"
  /\ submission' = submission \cup {<<request[x].version, request[x].fields>>}
  /\ request' = [request EXCEPT ![x] = Idle]
  /\ UNCHANGED form

\* A stale revision, an invalid submission or a duplicate field.
FailForm(x) ==
  /\ request[x] # Idle
  /\ request' = [request EXCEPT ![x] = Idle]
  /\ UNCHANGED <<form, submission>>

FormNext ==
  \/ \E base \in 0..Len(form) : CreateFormDraft(base)
  \/ \E x \in Session :
       \/ \E v \in DOMAIN form : BeginSaveField(x, v) \/ BeginPublishForm(x, v) \/ BeginSubmitForm(x, v)
       \/ \E f \in Field : CommitSaveField(x, f)
       \/ CommitPublishForm(x) \/ ValidateSubmission(x) \/ CommitSubmitForm(x) \/ FailForm(x)

FormSpec == FormInit /\ [][FormNext]_formVars

---------------------------------------------------------------------------
(* Properties *)

FormLibrary == INSTANCE PublishedVersions WITH
  Version <- 1..MaxVersion, Contents <- SUBSET Field, Exclusive <- FALSE,
  status <- [v \in 1..MaxVersion |-> IF v \in DOMAIN form THEN form[v].status ELSE "absent"],
  contents <- [v \in 1..MaxVersion |-> IF v \in DOMAIN form THEN form[v].fields ELSE {}],
  uses <- submission

\* A published form keeps its fields and every submission was validated against
\* exactly these, although fields are saved, versions published and forms
\* submitted at once (save_form_field, publish_form_version, submit_form).
PublishedFormsStand == FormLibrary!Spec
===========================================================================
