----------------------- MODULE AdministrationProofs -----------------------
(***************************************************************************)
(* Proofs about the parts of the administration, each on its own: forms and *)
(* document templates implement a library of published versions, and         *)
(* authority is earned.  The argument for each part stands before it; that   *)
(* for forms:                                                                *)
(*                                                                         *)
(* Forms.  FormInv: a request that will write finds its version a draft, or  *)
(* finds another revision than the one it read; one that will submit has a   *)
(* published version, and once it has read the fields they are the          *)
(* published ones.  So a write that goes through is an edit or publication   *)
(* of a draft, and a submission a use of what was published.                 *)
(***************************************************************************)
EXTENDS FormVersions, DocumentTemplates, Authority, SequenceTheorems, TLAPS

---------------------------------------------------------------------------
(* Forms *)

\* What an open request knows of the version it has read.
RequestKnows(x) ==
  LET r == request[x] IN
  r.op # "idle" =>
    /\ r.version \in DOMAIN form
    /\ r.op \in {"save", "publish"} =>
         /\ r.revision <= form[r.version].revision
         /\ r.revision = form[r.version].revision => form[r.version].status = "draft"
    /\ r.op \in {"submit", "submitted"} => form[r.version].status = "published"
    /\ r.op = "submitted" => r.fields = form[r.version].fields

FormRequest == [op : {"idle", "save", "publish", "submit", "submitted"},
                version : Nat, revision : Nat, fields : SUBSET Field]

FormInv ==
  /\ form \in Seq(FormRow) /\ Len(form) <= MaxVersion
  /\ request \in [Session -> FormRequest]
  /\ \A x \in Session : RequestKnows(x)

\* The sequences of limited length are those that are not longer.
LEMMA BoundedSeqIs ==
  ASSUME NEW S, NEW n \in Nat, NEW q
  PROVE  q \in BoundedSeq(S, n) <=> q \in Seq(S) /\ Len(q) <= n
<1>1. BoundedSeq(S, n) = UNION {[1..m -> S] : m \in 0..n}
  BY DEF BoundedSeq, SeqOf
<1>2. ASSUME q \in BoundedSeq(S, n) PROVE q \in Seq(S) /\ Len(q) <= n
  <2>1. PICK m \in 0..n : q \in [1..m -> S]
    BY <1>1, <1>2
  <2>2. q \in Seq(S)
    BY <2>1, SeqDef
  <2>3. Len(q) = m
    BY <2>1, <2>2, LenProperties
  <2> QED
    BY <2>2, <2>3
<1>3. ASSUME q \in Seq(S), Len(q) <= n PROVE q \in BoundedSeq(S, n)
  <2>1. Len(q) \in 0..n /\ q \in [1..Len(q) -> S]
    BY <1>3, LenProperties
  <2> QED
    BY <1>1, <2>1
<1> QED
  BY <1>2, <1>3

\* The numbers of the versions there are.
LEMMA FormDomain ==
  ASSUME FormInv
  PROVE  /\ Len(form) \in Nat /\ DOMAIN form = 1..Len(form)
         /\ \A v \in DOMAIN form : form[v] \in FormRow /\ v \in 1..MaxVersion
<1>1. Len(form) \in Nat /\ DOMAIN form = 1..Len(form)
  BY LenProperties DEF FormInv
<1>2. \A v \in DOMAIN form : form[v] \in FormRow
  BY <1>1, ElementOfSeq DEF FormInv
<1> QED
  BY <1>1, <1>2, FormBoundsAssumption DEF FormInv

\* A new version is added behind the others, and a write changes one of them.
LEMMA FormSteps ==
  ASSUME FormInv
  PROVE  /\ \A base \in 0..Len(form) : CreateFormDraft(base) =>
              /\ form' \in Seq(FormRow) /\ Len(form') = Len(form) + 1 /\ DOMAIN form' = 1..(Len(form) + 1)
              /\ \A v \in DOMAIN form : form'[v] = form[v]
              /\ form'[Len(form) + 1].status = "draft"
              /\ form'[Len(form) + 1].fields \in SUBSET Field
         /\ \A v \in DOMAIN form, row \in FormRow : form' = [form EXCEPT ![v] = row] =>
              /\ form' \in Seq(FormRow) /\ Len(form') = Len(form) /\ DOMAIN form' = DOMAIN form
              /\ \A w \in DOMAIN form : form'[w] = IF w = v THEN row ELSE form[w]
<1>1. ASSUME NEW base \in 0..Len(form), CreateFormDraft(base)
      PROVE  /\ form' \in Seq(FormRow) /\ Len(form') = Len(form) + 1 /\ DOMAIN form' = 1..(Len(form) + 1)
             /\ \A v \in DOMAIN form : form'[v] = form[v]
             /\ form'[Len(form) + 1].status = "draft"
             /\ form'[Len(form) + 1].fields \in SUBSET Field
  <2> DEFINE new == [status |-> "draft", revision |-> 1,
                     fields |-> IF base = 0 THEN {} ELSE form[base].fields]
  <2>1. new \in FormRow
    <3>1. base # 0 => form[base].fields \in SUBSET Field
      BY FormDomain DEF FormRow
    <3> QED
      BY <3>1, FormBoundsAssumption DEF FormRow
  <2>2. form' = Append(form, new)
    BY <1>1 DEF CreateFormDraft
  <2>3. new.status = "draft" /\ new.fields \in SUBSET Field
    BY <2>1 DEF FormRow
  <2> HIDE DEF new
  <2> QED
    BY <2>1, <2>2, <2>3, FormDomain, AppendProperties DEF FormInv
<1>2. ASSUME NEW v \in DOMAIN form, NEW row \in FormRow, form' = [form EXCEPT ![v] = row]
      PROVE  /\ form' \in Seq(FormRow) /\ Len(form') = Len(form) /\ DOMAIN form' = DOMAIN form
             /\ \A w \in DOMAIN form : form'[w] = IF w = v THEN row ELSE form[w]
  BY <1>2, FormDomain, ExceptSeq, LenProperties DEF FormInv
<1> QED
  BY <1>1, <1>2

LEMMA IdleFormRequest == Idle \in FormRequest /\ Idle.op = "idle"
BY DEF Idle, FormRequest

LEMMA FormInitInv == FormInit => FormInv
BY EmptySeq, FormBoundsAssumption, IdleFormRequest DEF FormInit, FormInv, RequestKnows

\* A draft copied, beside requests that have read other versions.
LEMMA CreateKeeps ==
  ASSUME FormInv, NEW base \in 0..Len(form), CreateFormDraft(base)
  PROVE  FormInv'
<1>1. /\ form' \in Seq(FormRow) /\ Len(form') = Len(form) + 1 /\ DOMAIN form' = 1..(Len(form) + 1)
      /\ \A v \in DOMAIN form : form'[v] = form[v]
  BY FormSteps
<1>2. request' = request /\ Len(form) < MaxVersion
  BY DEF CreateFormDraft
<1>3. \A x \in Session : RequestKnows(x)'
  BY <1>1, <1>2, FormDomain DEF FormInv, RequestKnows
<1> QED
  BY <1>1, <1>2, <1>3, FormDomain, FormBoundsAssumption DEF FormInv

\* A request that only reads, or ends without a write.
LEMMA ReadKeeps ==
  ASSUME FormInv, NEW x \in Session,
         \/ \E v \in DOMAIN form : BeginSaveField(x, v) \/ BeginPublishForm(x, v) \/ BeginSubmitForm(x, v)
         \/ ValidateSubmission(x) \/ CommitSubmitForm(x) \/ FailForm(x)
  PROVE  FormInv'
<1>1. form' = form /\ \A y \in Session \ {x} : request'[y] = request[y]
  BY DEF FormInv, BeginSaveField, BeginPublishForm, BeginSubmitForm, ValidateSubmission, CommitSubmitForm,
         FailForm
<1>2. ASSUME NEW v \in DOMAIN form, BeginSaveField(x, v) \/ BeginPublishForm(x, v) \/ BeginSubmitForm(x, v)
      PROVE  /\ request' \in [Session -> FormRequest]
             /\ RequestKnows(x)'
  <2>1. v \in Nat /\ form[v].revision \in Nat
    BY FormDomain, FormBoundsAssumption DEF FormRow
  <2>2. PICK op \in {"save", "publish", "submit"} :
          /\ request' = [request EXCEPT ![x] = Loaded(op, v)]
          /\ op \in {"save", "publish"} => form[v].status = "draft"
          /\ op = "submit" => form[v].status = "published"
    BY <1>2 DEF BeginSaveField, BeginPublishForm, BeginSubmitForm
  <2>3. /\ Loaded(op, v) \in FormRequest
        /\ Loaded(op, v).op = op /\ Loaded(op, v).version = v
        /\ Loaded(op, v).revision = form[v].revision
    BY <2>1 DEF Loaded, FormRequest
  <2>4. request'[x] = Loaded(op, v)
    BY <2>2 DEF FormInv
  <2> QED
    BY <1>1, <2>1, <2>2, <2>3, <2>4 DEF FormInv, RequestKnows
<1>3. ASSUME ValidateSubmission(x)
      PROVE  /\ request' \in [Session -> FormRequest]
             /\ RequestKnows(x)'
  <2>1. form[request[x].version].fields \in SUBSET Field /\ RequestKnows(x) /\ request[x].op = "submit"
    BY <1>3, FormDomain DEF FormInv, RequestKnows, FormRow, ValidateSubmission
  <2>2. request'[x] = [request[x] EXCEPT !.op = "submitted", !.fields = form[request[x].version].fields]
    BY <1>3 DEF ValidateSubmission, FormInv
  <2>3. /\ request'[x].op = "submitted" /\ request'[x].version = request[x].version
        /\ request'[x].fields = form[request[x].version].fields /\ request'[x] \in FormRequest
    BY <2>1, <2>2 DEF FormInv, FormRequest
  <2>4. request' \in [Session -> FormRequest]
    BY <1>3, <2>2, <2>3 DEF FormInv, ValidateSubmission
  <2> QED
    BY <1>1, <2>1, <2>3, <2>4 DEF RequestKnows
<1>4. ASSUME CommitSubmitForm(x) \/ FailForm(x)
      PROVE  /\ request' \in [Session -> FormRequest]
             /\ RequestKnows(x)'
  <2>1. request' = [request EXCEPT ![x] = Idle]
    BY <1>4 DEF CommitSubmitForm, FailForm
  <2> QED
    BY <2>1, IdleFormRequest DEF FormInv, RequestKnows
<1>5. \A y \in Session \ {x} : RequestKnows(y)'
  BY <1>1 DEF FormInv, RequestKnows
<1> QED
  BY <1>1, <1>2, <1>3, <1>4, <1>5 DEF FormInv

\* What a write finds, and what it makes of the version.
LEMMA FormWrites ==
  ASSUME FormInv, NEW x \in Session
  PROVE  LET v == request[x].version IN
         /\ \A f \in Field : CommitSaveField(x, f) =>
              LET row == [form[v] EXCEPT !.fields = @ \cup {f}, !.revision = @ + 1] IN
              v \in DOMAIN form /\ form[v].status = "draft" /\ form' = [form EXCEPT ![v] = row] /\ row \in FormRow
         /\ CommitPublishForm(x) =>
              LET row == [form[v] EXCEPT !.status = "published", !.revision = @ + 1] IN
              v \in DOMAIN form /\ form[v].status = "draft" /\ form' = [form EXCEPT ![v] = row] /\ row \in FormRow
<1> DEFINE v == request[x].version
<1>1. RequestKnows(x)
  BY DEF FormInv
<1>2. ASSUME CommitPublishForm(x) \/ \E f \in Field : CommitSaveField(x, f)
      PROVE  /\ v \in DOMAIN form /\ form[v].status = "draft" /\ form[v] \in FormRow
             /\ form[v].revision + 1 \in 1..MaxRevision
  <2>1. request[x].op \in {"save", "publish"} /\ form[v].revision = request[x].revision
        /\ request[x].revision < MaxRevision
    BY <1>2 DEF CommitPublishForm, CommitSaveField, Current
  <2>2. v \in DOMAIN form /\ form[v].status = "draft"
    BY <1>1, <2>1 DEF RequestKnows
  <2>3. form[v] \in FormRow
    BY <2>2, FormDomain
  <2> QED
    BY <2>1, <2>2, <2>3, FormBoundsAssumption DEF FormRow
<1>3. ASSUME NEW f \in Field, CommitSaveField(x, f)
      PROVE  LET row == [form[v] EXCEPT !.fields = @ \cup {f}, !.revision = @ + 1] IN
             form' = [form EXCEPT ![v] = row] /\ row \in FormRow
  <2>1. form' = [form EXCEPT ![v] = [form[v] EXCEPT !.fields = @ \cup {f}, !.revision = @ + 1]]
    BY <1>2, <1>3, FormDomain DEF CommitSaveField, FormInv
  <2>2. [form[v] EXCEPT !.fields = @ \cup {f}, !.revision = @ + 1] \in FormRow
    BY <1>2, <1>3 DEF FormRow
  <2> QED
    BY <2>1, <2>2
<1>4. ASSUME CommitPublishForm(x)
      PROVE  LET row == [form[v] EXCEPT !.status = "published", !.revision = @ + 1] IN
             form' = [form EXCEPT ![v] = row] /\ row \in FormRow
  <2>1. form' = [form EXCEPT ![v] = [form[v] EXCEPT !.status = "published", !.revision = @ + 1]]
    BY <1>2, <1>4, FormDomain DEF CommitPublishForm, FormInv
  <2>2. [form[v] EXCEPT !.status = "published", !.revision = @ + 1] \in FormRow
    BY <1>2, <1>4 DEF FormRow
  <2> QED
    BY <2>1, <2>2
<1> QED
  BY <1>2, <1>3, <1>4

\* A write makes the revisions others have read old ones.
LEMMA WriteKeeps ==
  ASSUME FormInv, NEW x \in Session,
         CommitPublishForm(x) \/ \E f \in Field : CommitSaveField(x, f)
  PROVE  FormInv'
<1> DEFINE v == request[x].version
<1>1. PICK row \in FormRow :
        v \in DOMAIN form /\ form[v].status = "draft" /\ form' = [form EXCEPT ![v] = row]
        /\ row.revision = form[v].revision + 1
  <2>1. ASSUME NEW f \in Field, CommitSaveField(x, f)
        PROVE  [form[v] EXCEPT !.fields = @ \cup {f}, !.revision = @ + 1].revision = form[v].revision + 1
    BY <2>1, FormWrites, FormDomain DEF FormRow
  <2>2. ASSUME CommitPublishForm(x)
        PROVE  [form[v] EXCEPT !.status = "published", !.revision = @ + 1].revision = form[v].revision + 1
    BY <2>2, FormWrites, FormDomain DEF FormRow
  <2> QED
    BY <2>1, <2>2, FormWrites
<1>2. /\ form' \in Seq(FormRow) /\ Len(form') = Len(form) /\ DOMAIN form' = DOMAIN form
      /\ \A w \in DOMAIN form : form'[w] = IF w = v THEN row ELSE form[w]
  BY <1>1, FormSteps
<1>3. request' = [request EXCEPT ![x] = Idle]
  <2>1. ASSUME NEW f \in Field, CommitSaveField(x, f) PROVE request' = [request EXCEPT ![x] = Idle]
    BY <2>1 DEF CommitSaveField
  <2>2. ASSUME CommitPublishForm(x) PROVE request' = [request EXCEPT ![x] = Idle]
    BY <2>2 DEF CommitPublishForm
  <2> QED
    BY <2>1, <2>2
<1>4. ASSUME NEW y \in Session, y # x PROVE RequestKnows(y)'
  <2>1. request'[y] = request[y] /\ RequestKnows(y) /\ request[y].revision \in Nat
    BY <1>3, <1>4 DEF FormInv, FormRequest
  <2>2. form[v].revision \in Nat
    BY <1>1, FormDomain, FormBoundsAssumption DEF FormRow
  <2> QED
    BY <1>1, <1>2, <2>1, <2>2 DEF RequestKnows
<1>5. RequestKnows(x)'
  BY <1>3, IdleFormRequest DEF FormInv, RequestKnows
<1> QED
  BY <1>2, <1>3, <1>4, <1>5, IdleFormRequest DEF FormInv

LEMMA FormStepInv == FormInv /\ [FormNext]_formVars => FormInv'
<1>1. FormInv /\ UNCHANGED formVars => FormInv'
  BY DEF formVars, FormInv, RequestKnows
<1> QED
  BY <1>1, CreateKeeps, ReadKeeps, WriteKeeps DEF FormNext

\* The inductive invariant of the forms holds in every reachable state.
THEOREM FormInvariant == FormSpec => []FormInv
BY FormInitInv, FormStepInv, PTL DEF FormSpec

\* The library as the forms make it up.
FormStatus == [v \in 1..MaxVersion |-> IF v \in DOMAIN form THEN form[v].status ELSE "absent"]
FormContents == [v \in 1..MaxVersion |-> IF v \in DOMAIN form THEN form[v].fields ELSE {}]

\* There are no versions at first.
LEMMA FormInitImplements == FormInit => FormLibrary!Init
<1> SUFFICES ASSUME FormInit PROVE FormLibrary!Init
  OBVIOUS
<1>1. DOMAIN form = {}
  BY DEF FormInit
<1>2. /\ FormStatus \in [1..MaxVersion -> {"absent", "published"}]
      /\ FormContents \in [1..MaxVersion -> SUBSET Field]
  BY <1>1 DEF FormStatus, FormContents
<1>3. submission = {}
  BY DEF FormInit
<1> QED
  BY <1>2, <1>3 DEF FormLibrary!Init, FormStatus, FormContents

\* A version edited or published in the library, from what becomes of the rows.
LEMMA FormLibrarySteps ==
  ASSUME FormInv, NEW v \in 1..MaxVersion, submission' = submission
  PROVE  /\ /\ FormStatus[v] \in {"absent", "draft"}
            /\ FormStatus' = [FormStatus EXCEPT ![v] = "draft"]
            /\ \E c \in SUBSET Field : FormContents' = [FormContents EXCEPT ![v] = c]
            => FormLibrary!Next
         /\ /\ FormStatus[v] = "draft"
            /\ FormStatus' = [FormStatus EXCEPT ![v] = "published"]
            /\ FormContents' = FormContents
            => FormLibrary!Next
<1>1. ASSUME FormStatus[v] \in {"absent", "draft"}, FormStatus' = [FormStatus EXCEPT ![v] = "draft"],
             NEW c \in SUBSET Field, FormContents' = [FormContents EXCEPT ![v] = c]
      PROVE  FormLibrary!Next
  <2>1. FormLibrary!Edit(v, c)
    BY <1>1 DEF FormLibrary!Edit, FormStatus, FormContents
  <2> QED
    BY <2>1 DEF FormLibrary!Next
<1>2. ASSUME FormStatus[v] = "draft", FormStatus' = [FormStatus EXCEPT ![v] = "published"],
             FormContents' = FormContents
      PROVE  FormLibrary!Next
  <2>1. FormStatus' = [w \in 1..MaxVersion |->
          IF w = v THEN "published"
          ELSE IF FALSE /\ w \in FormLibrary!Published THEN "archived" ELSE FormStatus[w]]
    BY <1>2 DEF FormStatus
  <2>2. FormLibrary!Publish(v)
    BY <1>2, <2>1 DEF FormLibrary!Publish, FormStatus, FormContents
  <2> QED
    BY <2>2 DEF FormLibrary!Next
<1> QED
  BY <1>1, <1>2

\* Writes are edits and publications of drafts, submissions are uses, and everything
\* else leaves the library as it is.
LEMMA FormStepImplements == FormInv /\ [FormNext]_formVars => [FormLibrary!Next]_(FormLibrary!vars)
<1> SUFFICES ASSUME FormInv, [FormNext]_formVars PROVE [FormLibrary!Next]_(FormLibrary!vars)
  OBVIOUS
<1>1. CASE form' = form /\ submission' = submission
  <2>1. UNCHANGED FormLibrary!vars
    BY <1>1 DEF FormLibrary!vars
  <2> QED
    BY <2>1
<1>2. ASSUME NEW base \in 0..Len(form), CreateFormDraft(base) PROVE FormLibrary!Next
  <2> DEFINE v == Len(form) + 1
  <2>1. v \in 1..MaxVersion /\ v \notin DOMAIN form /\ submission' = submission
    BY <1>2, FormDomain, FormBoundsAssumption DEF CreateFormDraft
  <2>2. /\ DOMAIN form' = 1..v /\ form'[v].status = "draft" /\ form'[v].fields \in SUBSET Field
        /\ \A w \in DOMAIN form : form'[w] = form[w]
    BY <1>2, FormSteps
  <2>3. FormStatus[v] = "absent"
    BY <2>1 DEF FormStatus
  <2>4. /\ \A w \in 1..MaxVersion : w \in DOMAIN form' <=> w = v \/ w \in DOMAIN form
        /\ \A w \in DOMAIN form : w # v
    BY <2>1, <2>2, FormDomain
  <2> HIDE DEF v
  <2>5. FormStatus' = [FormStatus EXCEPT ![v] = "draft"]
    BY <2>1, <2>2, <2>4 DEF FormStatus
  <2>6. FormContents' = [FormContents EXCEPT ![v] = form'[v].fields]
    BY <2>1, <2>2, <2>4 DEF FormContents
  <2> QED
    BY <2>1, <2>2, <2>3, <2>5, <2>6, FormLibrarySteps
<1>3. ASSUME NEW x \in Session, NEW f \in Field, CommitSaveField(x, f) PROVE FormLibrary!Next
  <2> DEFINE v == request[x].version
             row == [form[v] EXCEPT !.fields = @ \cup {f}, !.revision = @ + 1]
  <2>1. v \in DOMAIN form /\ form[v].status = "draft" /\ form' = [form EXCEPT ![v] = row] /\ row \in FormRow
    BY <1>3, FormWrites
  <2>2. row.status = "draft" /\ row.fields \in SUBSET Field
    BY <2>1, FormDomain DEF FormRow
  <2>3. submission' = submission
    BY <1>3 DEF CommitSaveField
  <2> HIDE DEF v, row
  <2>4. /\ v \in 1..MaxVersion /\ DOMAIN form' = DOMAIN form
        /\ \A w \in DOMAIN form : form'[w] = IF w = v THEN row ELSE form[w]
    BY <2>1, FormSteps, FormDomain
  <2>5. FormStatus[v] = "draft" /\ FormStatus' = [FormStatus EXCEPT ![v] = "draft"]
    BY <2>1, <2>2, <2>4 DEF FormStatus
  <2>6. FormContents' = [FormContents EXCEPT ![v] = row.fields]
    BY <2>1, <2>2, <2>4 DEF FormContents
  <2> QED
    BY <2>2, <2>3, <2>4, <2>5, <2>6, FormLibrarySteps
<1>4. ASSUME NEW x \in Session, CommitPublishForm(x) PROVE FormLibrary!Next
  <2> DEFINE v == request[x].version
             row == [form[v] EXCEPT !.status = "published", !.revision = @ + 1]
  <2>1. v \in DOMAIN form /\ form[v].status = "draft" /\ form' = [form EXCEPT ![v] = row] /\ row \in FormRow
    BY <1>4, FormWrites
  <2>2. row.status = "published" /\ row.fields = form[v].fields
    BY <2>1, FormDomain DEF FormRow
  <2>3. submission' = submission
    BY <1>4 DEF CommitPublishForm
  <2> HIDE DEF v, row
  <2>4. /\ v \in 1..MaxVersion /\ DOMAIN form' = DOMAIN form
        /\ \A w \in DOMAIN form : form'[w] = IF w = v THEN row ELSE form[w]
    BY <2>1, FormSteps, FormDomain
  <2>5. FormStatus[v] = "draft" /\ FormStatus' = [FormStatus EXCEPT ![v] = "published"]
    BY <2>1, <2>2, <2>4 DEF FormStatus
  <2>6. FormContents' = FormContents
    BY <2>1, <2>2, <2>4 DEF FormContents
  <2> QED
    BY <2>3, <2>4, <2>5, <2>6, FormLibrarySteps
<1>5. ASSUME NEW x \in Session, CommitSubmitForm(x) PROVE FormLibrary!Next
  <2> DEFINE v == request[x].version
  <2>1. /\ v \in DOMAIN form /\ v \in 1..MaxVersion
        /\ form[v].status = "published" /\ request[x].fields = form[v].fields
    BY <1>5, FormDomain DEF CommitSubmitForm, FormInv, RequestKnows
  <2>2. form' = form /\ submission' = submission \cup {<<v, FormContents[v]>>}
    BY <1>5, <2>1 DEF CommitSubmitForm, FormContents
  <2>3. FormStatus[v] \in {"published", "archived"}
    BY <2>1 DEF FormStatus
  <2> HIDE DEF v
  <2>4. FormLibrary!Use(v)
    BY <2>2, <2>3 DEF FormLibrary!Use, FormStatus, FormContents
  <2> QED
    BY <2>1, <2>4 DEF FormLibrary!Next
<1>6. ASSUME NEW x \in Session,
             \/ \E v \in DOMAIN form : BeginSaveField(x, v) \/ BeginPublishForm(x, v) \/ BeginSubmitForm(x, v)
             \/ ValidateSubmission(x) \/ FailForm(x)
      PROVE  form' = form /\ submission' = submission
  BY <1>6 DEF BeginSaveField, BeginPublishForm, BeginSubmitForm, ValidateSubmission, FailForm
<1>7. CASE UNCHANGED formVars
  BY <1>1, <1>7 DEF formVars
<1> QED
  BY <1>1, <1>2, <1>3, <1>4, <1>5, <1>6, <1>7 DEF FormNext

\* Forms implement the library: what is published stands, and every submission was
\* validated against what is published, for any number of requests and versions.
THEOREM FormsImplementLibrary == FormSpec => PublishedFormsStand
<1>1. FormSpec => FormLibrary!Spec
  BY FormInitImplements, FormInvariant, FormStepImplements, PTL DEF FormSpec, FormLibrary!Spec
<1> QED
  BY <1>1 DEF PublishedFormsStand

---------------------------------------------------------------------------
(* Document templates.  TemplateInv: the status of a version is its revision, there is one *)
(* published version, and a request that is about to publish has read the revision of its    *)
(* draft and, unless that was published meanwhile, of another version that was published.  If these revisions are found again *)
(* the versions are what they were, so the one archived is the one published.                *)

TemplateStatus == [v \in Template |-> IF v \in DOMAIN template THEN template[v].status ELSE "absent"]

TemplateRow == {[status |-> "draft", revision |-> 1], [status |-> "published", revision |-> 2],
                [status |-> "archived", revision |-> 3]}

OnlyPublished(w) == w \in DOMAIN template /\ \A v \in DOMAIN template : template[v].status = "published" <=> v = w

\* What an open request knows of the rows it has read.
PublisherKnows(x) ==
  LET p == publisher[x] IN
  /\ p.op \in {"publish", "archive"} =>
       p.version \in DOMAIN p.seen /\ p.seen[p.version] = 1 /\ DOMAIN p.seen \subseteq DOMAIN template
  /\ p.op = "publish" => DOMAIN p.seen = {p.version}
  /\ p.op = "archive" =>
       /\ \A v \in DOMAIN p.seen : v # p.version => p.seen[v] = 2
       /\ template[p.version].status = "draft" => \E v \in DOMAIN p.seen : v # p.version
  /\ p.op = "generate" => p.version \in DOMAIN template /\ template[p.version].status \in {"published", "archived"}

PublisherRequest == [op : {"idle", "publish", "archive", "generate"}, version : Nat,
                     seen : UNION {[S -> Nat] : S \in SUBSET Nat}]

TemplateInv ==
  /\ template \in Seq(TemplateRow) /\ Len(template) <= MaxTemplate
  /\ \E w \in DOMAIN template : OnlyPublished(w)
  /\ bound \in [Document -> {0} \cup DOMAIN template]
  /\ publisher \in [Publisher -> PublisherRequest]
  /\ \A x \in Publisher : PublisherKnows(x)

LEMMA TemplateDomain ==
  ASSUME TemplateInv
  PROVE  /\ Len(template) \in Nat /\ DOMAIN template = 1..Len(template)
         /\ \A v \in DOMAIN template : /\ template[v] \in TemplateRow /\ v \in Template /\ v \in Nat
                                       /\ template[v].revision \in {1, 2, 3}
                                       /\ template[v].status = "draft" <=> template[v].revision = 1
                                       /\ template[v].status = "published" <=> template[v].revision = 2
<1>1. Len(template) \in Nat /\ DOMAIN template = 1..Len(template)
  BY LenProperties DEF TemplateInv
<1>2. \A v \in DOMAIN template : template[v] \in TemplateRow
  BY <1>1, ElementOfSeq DEF TemplateInv
<1>3. \A row \in TemplateRow : /\ row.revision \in {1, 2, 3}
                               /\ row.status = "draft" <=> row.revision = 1
                               /\ row.status = "published" <=> row.revision = 2
  BY DEF TemplateRow
<1> QED
  BY <1>1, <1>2, <1>3, MaxTemplateAssumption DEF TemplateInv, Template

LEMMA RestingRequest == Resting \in PublisherRequest /\ Resting.op = "idle"
<1>1. << >> \in [{} -> Nat]
  OBVIOUS
<1> QED
  BY <1>1 DEF Resting, PublisherRequest

LEMMA TemplateInitInv == TemplateInit => TemplateInv
<1> SUFFICES ASSUME TemplateInit PROVE TemplateInv
  OBVIOUS
<1>1. template \in Seq(TemplateRow) /\ Len(template) = 1 /\ DOMAIN template = {1}
  BY DEF TemplateInit, TemplateRow
<1>2. OnlyPublished(1)
  BY <1>1 DEF TemplateInit, OnlyPublished
<1>3. publisher = [x \in Publisher |-> Resting]
  BY DEF TemplateInit
<1>4. \A x \in Publisher : PublisherKnows(x)
  BY <1>3, RestingRequest DEF PublisherKnows
<1> QED
  BY <1>1, <1>2, <1>3, <1>4, RestingRequest, MaxTemplateAssumption DEF TemplateInv, TemplateInit

\* A new version is a draft behind the others.
LEMMA AddTemplateIs ==
  ASSUME TemplateInv, AddTemplateVersion
  PROVE  /\ template' \in Seq(TemplateRow) /\ Len(template') = Len(template) + 1
         /\ DOMAIN template' = 1..(Len(template) + 1)
         /\ \A v \in DOMAIN template : template'[v] = template[v] /\ v \in DOMAIN template' /\ v # Len(template) + 1
         /\ template'[Len(template) + 1].status = "draft"
<1> DEFINE new == [status |-> "draft", revision |-> 1]
<1>1. new \in TemplateRow /\ new.status = "draft"
  BY DEF TemplateRow
<1>2. template' = Append(template, new)
  BY DEF AddTemplateVersion
<1> HIDE DEF new
<1>3. /\ template' \in Seq(TemplateRow) /\ Len(template') = Len(template) + 1
      /\ \A v \in 1..Len(template) : template'[v] = template[v]
      /\ template'[Len(template) + 1] = new
  BY <1>1, <1>2, AppendProperties DEF TemplateInv
<1> QED
  BY <1>1, <1>3, TemplateDomain, LenProperties

\* A publication that commits finds the versions it has read as they were: its draft and the
\* published one.
LEMMA PublishIs ==
  ASSUME TemplateInv, NEW x \in Publisher, CommitPublishTemplate(x), NEW w, OnlyPublished(w)
  PROVE  LET v == publisher[x].version IN
         /\ v \in DOMAIN template /\ template[v].status = "draft" /\ w \in DOMAIN template /\ v # w
         /\ template' \in Seq(TemplateRow) /\ Len(template') = Len(template) /\ DOMAIN template' = DOMAIN template
         /\ \A u \in DOMAIN template :
              template'[u] = IF u = v THEN [status |-> "published", revision |-> 2]
                             ELSE IF u = w THEN [status |-> "archived", revision |-> 3] ELSE template[u]
<1> DEFINE p == publisher[x]
           v == publisher[x].version
<1>1. /\ v \in DOMAIN p.seen /\ p.seen[v] = 1 /\ DOMAIN p.seen \subseteq DOMAIN template
      /\ \A u \in DOMAIN p.seen : u # v => p.seen[u] = 2
      /\ template[v].status = "draft" => \E u \in DOMAIN p.seen : u # v
      /\ \A u \in DOMAIN p.seen : template[u].revision = p.seen[u]
  BY DEF CommitPublishTemplate, TemplateInv, PublisherKnows
<1>2. v \in DOMAIN template /\ template[v].status = "draft"
  BY <1>1, TemplateDomain
<1>3. DOMAIN p.seen = {v, w} /\ v # w /\ p.seen[w] = 2 /\ w \in DOMAIN template
  <2>1. \A u \in DOMAIN p.seen : u # v => u = w
    BY <1>1, TemplateDomain DEF OnlyPublished
  <2> QED
    BY <1>1, <1>2, <2>1 DEF OnlyPublished
<1>4. template' = [u \in DOMAIN template |->
        IF u \in {v, w}
        THEN [status |-> IF u = v THEN "published" ELSE "archived", revision |-> p.seen[u] + 1]
        ELSE template[u]]
  BY <1>3 DEF CommitPublishTemplate
<1>5. \A u \in DOMAIN template :
        template'[u] = IF u = v THEN [status |-> "published", revision |-> 2]
                       ELSE IF u = w THEN [status |-> "archived", revision |-> 3] ELSE template[u]
  BY <1>1, <1>3, <1>4
<1>6. DOMAIN template' = DOMAIN template /\ \A u \in DOMAIN template : template'[u] \in TemplateRow
  BY <1>4, <1>5, TemplateDomain DEF TemplateRow
<1>7. template' \in [1..Len(template) -> TemplateRow]
  BY <1>4, <1>6, TemplateDomain
<1>8. template' \in Seq(TemplateRow) /\ Len(template') = Len(template)
  BY <1>7, TemplateDomain, SeqDef, LenProperties
<1> QED
  BY <1>2, <1>3, <1>5, <1>6, <1>8

\* No step makes a published version a draft or a draft's request know less.
LEMMA TemplateStepInv == TemplateInv /\ [TemplateNext]_templateVars => TemplateInv'
<1> SUFFICES ASSUME TemplateInv, [TemplateNext]_templateVars PROVE TemplateInv'
  OBVIOUS
<1>0. PICK w \in DOMAIN template : OnlyPublished(w)
  BY DEF TemplateInv
<1>1. CASE AddTemplateVersion
  <2>1. OnlyPublished(w)'
    BY <1>0, <1>1, AddTemplateIs, TemplateDomain DEF OnlyPublished
  <2>2. Len(template') <= MaxTemplate /\ bound' = bound /\ publisher' = publisher
    BY <1>1, AddTemplateIs, TemplateDomain, MaxTemplateAssumption DEF AddTemplateVersion
  <2>3. DOMAIN template \subseteq DOMAIN template'
    BY <1>1, AddTemplateIs
  <2>4. \A x \in Publisher : PublisherKnows(x)'
    BY <1>1, <2>2, <2>3, AddTemplateIs DEF TemplateInv, PublisherKnows
  <2>5. w \in DOMAIN template'
    BY <2>3
  <2> QED
    BY <1>1, <2>1, <2>2, <2>3, <2>4, <2>5, AddTemplateIs DEF TemplateInv
<1>2. ASSUME NEW x \in Publisher, CommitPublishTemplate(x) PROVE TemplateInv'
  <2>0. PICK v : v = publisher[x].version
    OBVIOUS
  <2>1. /\ v \in DOMAIN template /\ template[v].status = "draft" /\ v # w
        /\ template' \in Seq(TemplateRow) /\ Len(template') = Len(template) /\ DOMAIN template' = DOMAIN template
        /\ \A u \in DOMAIN template :
             template'[u] = IF u = v THEN [status |-> "published", revision |-> 2]
                            ELSE IF u = w THEN [status |-> "archived", revision |-> 3] ELSE template[u]
    BY <1>0, <1>2, <2>0, PublishIs
  <2>2. publisher' = [publisher EXCEPT ![x] = Resting] /\ bound' = bound
    BY <1>2 DEF CommitPublishTemplate
  <2>3. OnlyPublished(v)'
    BY <1>0, <2>1 DEF OnlyPublished
  <2>4. ASSUME NEW y \in Publisher PROVE PublisherKnows(y)'
    <3>1. CASE y = x
      BY <2>2, <3>1, RestingRequest DEF TemplateInv, PublisherKnows
    <3>2. CASE y # x
      <4>1. publisher'[y] = publisher[y] /\ PublisherKnows(y)
        BY <2>2, <3>2 DEF TemplateInv
      <4>2. \A u \in DOMAIN template : /\ template'[u].status = "draft" => template[u].status = "draft"
                                       /\ template[u].status \in {"published", "archived"}
                                            => template'[u].status \in {"published", "archived"}
        BY <1>0, <2>1
      <4> QED
        BY <2>1, <4>1, <4>2 DEF PublisherKnows
    <3> QED
      BY <3>1, <3>2
  <2>5. publisher' \in [Publisher -> PublisherRequest]
    BY <2>2, RestingRequest DEF TemplateInv
  <2> QED
    BY <2>1, <2>2, <2>3, <2>4, <2>5 DEF TemplateInv
<1>3. ASSUME template' = template, NEW x \in Publisher, \A y \in Publisher \ {x} : publisher'[y] = publisher[y],
             publisher' \in [Publisher -> PublisherRequest], PublisherKnows(x)', bound' = bound
      PROVE  TemplateInv'
  BY <1>3 DEF TemplateInv, PublisherKnows, OnlyPublished
<1>4. ASSUME NEW x \in Publisher, NEW v \in DOMAIN template, BeginPublishTemplate(x, v) PROVE TemplateInv'
  <2> DEFINE new == [op |-> "publish", version |-> v, seen |-> Seen({v})]
  <2>1. Seen({v}) \in [{v} -> Nat] /\ DOMAIN Seen({v}) = {v} /\ Seen({v})[v] = 1 /\ v \in Nat
    BY <1>4, TemplateDomain DEF Seen, BeginPublishTemplate
  <2>2. new \in PublisherRequest
    <3>1. {v} \in SUBSET Nat
      BY <2>1
    <3> QED
      BY <2>1, <3>1 DEF PublisherRequest
  <2>3. publisher' = [publisher EXCEPT ![x] = new]
    BY <1>4 DEF BeginPublishTemplate
  <2>4. publisher'[x] = new /\ publisher' \in [Publisher -> PublisherRequest]
    BY <2>2, <2>3 DEF TemplateInv
  <2>5. PublisherKnows(x)'
    BY <1>4, <2>1, <2>4 DEF PublisherKnows, BeginPublishTemplate
  <2> QED
    BY <1>3, <1>4, <2>3, <2>4, <2>5 DEF BeginPublishTemplate, TemplateInv
<1>5. ASSUME NEW x \in Publisher, CollectPublished(x) PROVE TemplateInv'
  <2> DEFINE p == publisher[x]
             own == p.seen
             old == {v \in DOMAIN template : template[v].status = "published"}
             all == [v \in old \cup DOMAIN own |-> IF v \in DOMAIN own THEN own[v] ELSE Seen(old)[v]]
  <2>1. /\ p \in PublisherRequest /\ p.op = "publish" /\ p.version \in DOMAIN template
        /\ DOMAIN own = {p.version} /\ own[p.version] = 1
    BY <1>5 DEF CollectPublished, TemplateInv, PublisherKnows
  <2>2. old = {w} /\ Seen(old)[w] = 2
    BY <1>0, TemplateDomain DEF OnlyPublished, Seen
  <2>3. publisher' = [publisher EXCEPT ![x].op = "archive", ![x].seen = all]
    BY <1>5 DEF CollectPublished
  <2>4. /\ DOMAIN all = {w, p.version} /\ all[p.version] = 1
        /\ w # p.version => all[w] = 2
    BY <2>1, <2>2
  <2>5. all \in UNION {[S -> Nat] : S \in SUBSET Nat}
    <3>1. {w, p.version} \in SUBSET Nat
      BY <1>0, <2>1, TemplateDomain
    <3>2. all \in [{w, p.version} -> Nat]
      BY <2>1, <2>2, <2>4
    <3> QED
      BY <3>1, <3>2
  <2> HIDE DEF own, all, old
  <2>6. /\ publisher'[x].op = "archive" /\ publisher'[x].version = p.version /\ publisher'[x].seen = all
        /\ publisher'[x] \in PublisherRequest /\ publisher' \in [Publisher -> PublisherRequest]
        /\ \A y \in Publisher \ {x} : publisher'[y] = publisher[y]
    BY <2>1, <2>3, <2>5 DEF TemplateInv, PublisherRequest
  <2>7. template[p.version].status = "draft" => w # p.version
    BY <1>0 DEF OnlyPublished
  <2>8. template' = template /\ bound' = bound
    BY <1>5 DEF CollectPublished
  <2>9. PublisherKnows(x)'
    <3>1. template'[p.version].status = "draft" => \E v \in DOMAIN all : v # p.version
      BY <2>4, <2>7, <2>8
    <3>2. DOMAIN all \subseteq DOMAIN template' /\ p.version \in DOMAIN all
      BY <1>0, <2>1, <2>4, <2>8
    <3>3. \A v \in DOMAIN all : v # p.version => all[v] = 2
      BY <2>4
    <3> HIDE DEF p
    <3> QED
      BY <2>4, <2>6, <3>1, <3>2, <3>3 DEF PublisherKnows
  <2> QED
    BY <1>3, <2>6, <2>8, <2>9
<1>6. ASSUME NEW x \in Publisher, NEW d \in Document, BeginGenerate(x, d) PROVE TemplateInv'
  <2>1. /\ bound[d] \in DOMAIN template /\ bound[d] \in Nat /\ template[bound[d]].status = "published"
    BY <1>6, TemplateDomain DEF BeginGenerate, TemplateInv
  <2> DEFINE new == [op |-> "generate", version |-> bound[d], seen |-> <<>>]
  <2>2. publisher' = [publisher EXCEPT ![x] = new]
    BY <1>6 DEF BeginGenerate
  <2>3. new \in PublisherRequest
    BY <2>1, RestingRequest DEF PublisherRequest, Resting
  <2>4. publisher'[x] = new /\ publisher' \in [Publisher -> PublisherRequest]
    BY <2>2, <2>3 DEF TemplateInv
  <2>5. PublisherKnows(x)'
    BY <1>6, <2>1, <2>4 DEF PublisherKnows, BeginGenerate
  <2> QED
    BY <1>3, <1>6, <2>2, <2>4, <2>5 DEF BeginGenerate, TemplateInv
<1>7. ASSUME NEW x \in Publisher, CommitGenerate(x) \/ FailTemplate(x) PROVE TemplateInv'
  <2>1. publisher' = [publisher EXCEPT ![x] = Resting] /\ template' = template /\ bound' = bound
    BY <1>7 DEF CommitGenerate, FailTemplate
  <2>2. publisher' \in [Publisher -> PublisherRequest] /\ PublisherKnows(x)'
    BY <2>1, RestingRequest DEF TemplateInv, PublisherKnows
  <2> QED
    BY <1>3, <2>1, <2>2 DEF TemplateInv
<1>8. ASSUME NEW d \in Document, NEW v \in DOMAIN template, CreateRecord(d, v) PROVE TemplateInv'
  BY <1>8 DEF CreateRecord, TemplateInv, PublisherKnows, OnlyPublished
<1>9. CASE UNCHANGED templateVars
  BY <1>9 DEF templateVars, TemplateInv, PublisherKnows, OnlyPublished
<1> QED
  BY <1>1, <1>2, <1>4, <1>5, <1>6, <1>7, <1>8, <1>9 DEF TemplateNext

\* The inductive invariant of the templates holds in every reachable state.
THEOREM TemplateInvariant == TemplateSpec => []TemplateInv
BY TemplateInitInv, TemplateStepInv, PTL DEF TemplateSpec

TemplateContents == [v \in Template |-> v]

TemplateUses == {<<v, v>> : v \in generated}

LEMMA TemplateInitImplements == TemplateInit => TemplateLibrary!Init
<1> SUFFICES ASSUME TemplateInit PROVE TemplateLibrary!Init
  OBVIOUS
<1>1. DOMAIN template = {1} /\ template[1].status = "published" /\ generated = {}
  BY DEF TemplateInit
<1>2. /\ TemplateStatus \in [Template -> {"absent", "published"}]
      /\ \A v, w \in {u \in Template : TemplateStatus[u] = "published"} : v = w
  BY <1>1 DEF TemplateStatus
<1>3. TemplateUses = {}
  BY <1>1 DEF TemplateUses
<1> QED
  BY <1>2, <1>3 DEF TemplateLibrary!Init, TemplateLibrary!Published, TemplateStatus, TemplateUses

\* A draft is added, a publication archives the version published before, a generated
\* document is a use; nothing else reaches the library.
LEMMA TemplateStepImplements ==
  TemplateInv /\ [TemplateNext]_templateVars => [TemplateLibrary!Next]_(TemplateLibrary!vars)
<1> SUFFICES ASSUME TemplateInv, [TemplateNext]_templateVars
             PROVE  [TemplateLibrary!Next]_(TemplateLibrary!vars)
  OBVIOUS
<1>1. CASE template' = template /\ generated' = generated
  <2>1. UNCHANGED TemplateLibrary!vars
    BY <1>1 DEF TemplateLibrary!vars
  <2> QED
    BY <2>1
<1>2. CASE AddTemplateVersion
  <2>1. PICK v : v = Len(template) + 1
    OBVIOUS
  <2>2. v \in Template /\ v \notin DOMAIN template /\ generated' = generated
    BY <1>2, <2>1, TemplateDomain, MaxTemplateAssumption DEF AddTemplateVersion, Template
  <2>3. /\ \A u \in Template : u \in DOMAIN template' <=> u = v \/ u \in DOMAIN template
        /\ \A u \in DOMAIN template : template'[u] = template[u] /\ u # v
        /\ template'[v].status = "draft"
    BY <1>2, <2>1, AddTemplateIs, TemplateDomain
  <2>4. TemplateStatus[v] = "absent" /\ TemplateStatus' = [TemplateStatus EXCEPT ![v] = "draft"]
    BY <2>2, <2>3 DEF TemplateStatus
  <2>5. TemplateContents' = [TemplateContents EXCEPT ![v] = v]
    BY <2>2 DEF TemplateContents
  <2>6. TemplateLibrary!Edit(v, v)
    BY <2>2, <2>4, <2>5 DEF TemplateLibrary!Edit, TemplateStatus, TemplateContents
  <2> QED
    BY <2>2, <2>6 DEF TemplateLibrary!Next
<1>3. ASSUME NEW x \in Publisher, CommitPublishTemplate(x) PROVE TemplateLibrary!Next
  <2>1. PICK w \in DOMAIN template : OnlyPublished(w)
    BY DEF TemplateInv
  <2>2. PICK v : v = publisher[x].version
    OBVIOUS
  <2>3. /\ v \in DOMAIN template /\ template[v].status = "draft" /\ v # w
        /\ DOMAIN template' = DOMAIN template
        /\ \A u \in DOMAIN template :
             template'[u].status = IF u = v THEN "published" ELSE IF u = w THEN "archived" ELSE template[u].status
    BY <1>3, <2>1, <2>2, PublishIs
  <2>4. generated' = generated
    BY <1>3 DEF CommitPublishTemplate
  <2>5. v \in Template /\ TemplateStatus[v] = "draft"
    BY <2>3, TemplateDomain DEF TemplateStatus
  <2>6. \A u \in Template : TemplateStatus[u] = "published" <=> u = w
    BY <2>1, TemplateDomain DEF TemplateStatus, OnlyPublished
  <2>7. TemplateStatus' = [u \in Template |->
          IF u = v THEN "published"
          ELSE IF TRUE /\ u \in {t \in Template : TemplateStatus[t] = "published"} THEN "archived"
          ELSE TemplateStatus[u]]
    BY <2>3, <2>5, <2>6 DEF TemplateStatus
  <2>8. TemplateLibrary!Publish(v)
    BY <2>4, <2>5, <2>7 DEF TemplateLibrary!Publish, TemplateLibrary!Published, TemplateStatus
  <2> QED
    BY <2>5, <2>8 DEF TemplateLibrary!Next
<1>4. ASSUME NEW x \in Publisher, CommitGenerate(x) PROVE TemplateLibrary!Next
  <2>1. PICK v : v = publisher[x].version
    OBVIOUS
  <2>2. v \in DOMAIN template /\ v \in Template /\ template[v].status \in {"published", "archived"}
    BY <1>4, <2>1, TemplateDomain DEF CommitGenerate, TemplateInv, PublisherKnows
  <2>3. template' = template /\ generated' = generated \cup {v}
    BY <1>4, <2>1 DEF CommitGenerate
  <2>4. TemplateStatus[v] \in {"published", "archived"} /\ TemplateContents[v] = v
    BY <2>2 DEF TemplateStatus, TemplateContents
  <2>5. TemplateUses' = TemplateUses \cup {<<v, TemplateContents[v]>>}
    BY <2>3, <2>4 DEF TemplateUses
  <2>6. TemplateLibrary!Use(v)
    BY <2>3, <2>4, <2>5 DEF TemplateLibrary!Use, TemplateStatus, TemplateContents, TemplateUses
  <2> QED
    BY <2>2, <2>6 DEF TemplateLibrary!Next
<1>5. ASSUME NEW x \in Publisher,
             \/ \E v \in DOMAIN template : BeginPublishTemplate(x, v)
             \/ \E d \in Document : BeginGenerate(x, d)
             \/ CollectPublished(x) \/ FailTemplate(x)
      PROVE  template' = template /\ generated' = generated
  BY <1>5 DEF BeginPublishTemplate, BeginGenerate, CollectPublished, FailTemplate
<1>6. ASSUME NEW d \in Document, NEW v \in DOMAIN template, CreateRecord(d, v)
      PROVE  template' = template /\ generated' = generated
  BY <1>6 DEF CreateRecord
<1>7. CASE UNCHANGED templateVars
  BY <1>1, <1>7 DEF templateVars
<1> QED
  BY <1>1, <1>2, <1>3, <1>4, <1>5, <1>6, <1>7 DEF TemplateNext

\* Document templates implement the exclusive library: concurrent publications leave one
\* published version and no document is generated from what never was published.
THEOREM TemplatesImplementLibrary == TemplateSpec => OneTemplateIsPublished
<1>1. TemplateSpec => TemplateLibrary!Spec
  BY TemplateInitImplements, TemplateInvariant, TemplateStepImplements, PTL DEF TemplateSpec, TemplateLibrary!Spec
<1> QED
  BY <1>1 DEF OneTemplateIsPublished

---------------------------------------------------------------------------
(* Authority.  Rows of roles, assignments and delegations are added behind the others and only *)
(* ever revoked, accounts are only ever disabled, each with the moment it happens: what was in *)
(* force at some moment of a call therefore stays so (HeldStays).  CallsAreEarned says what a  *)
(* call has found out so far.  Delegations of one pair are kept apart by the locks: a request   *)
(* that has checked for an overlap holds both rows, so no other can add one before it commits. *)

Bearer == {"manage", "managing", "use", "denied", "delegated", "granted"}

BearerCall == [op : Bearer, user : User, since : 1..LastMoment, open : SUBSET Nat]

Call ==
  {Quiet} \cup BearerCall
  \cup [op : {"assign"}, row : AssignmentRow] \cup [op : {"delegate"}, row : DelegationRow]

AuthorityTypes ==
  /\ AuthorityTypeOK
  /\ call \in [Request -> Call]
  /\ \A x \in Request : call[x].op = "assign" => call[x].row.role \in DOMAIN role

SamePair(d, e) == d.delegator = e.delegator /\ d.delegate = e.delegate

\* From now on two delegations are never in force together.
Apart(d, e) ==
  \A t \in now..LastMoment :
     ~(d.period.from <= t /\ t < d.period.to /\ e.period.from <= t /\ t < e.period.to)

\* The delegation a request will add, and the locks it holds meanwhile.
DelegatesAlone(x) ==
  call[x].op = "delegate" =>
    /\ \A i \in DOMAIN delegation :
         SamePair(delegation[i], call[x].row) /\ delegation[i].revoked = 0 => Apart(delegation[i], call[x].row)
    /\ \A y \in Request \ {x} : call[y].op = "delegate" =>
         {call[x].row.delegator, call[x].row.delegate} \cap {call[y].row.delegator, call[y].row.delegate} = {}

\* What a call has found out.
CallIsEarned(x) ==
  LET c == call[x] IN
  /\ c.op \in Bearer => c.since <= now /\ ActiveSince(c.user, c.since)
  /\ c.op = "managing" => Held(c.user, "roles.manage", c.since, DOMAIN assignment)
  /\ c.op = "delegated" =>
       \A i \in c.open : /\ i \in DOMAIN delegation /\ delegation[i].delegate = c.user
                         /\ HeldSince(delegation[i], c.since)
  /\ c.op = "assign" => Earned(c.row.by, DOMAIN assignment)

Past(by) == by.since <= now

\* Whoever made a change made it in a call that began before.
ChangesArePast ==
  /\ \A i \in DOMAIN role : Past(role[i].by)
  /\ \A i \in DOMAIN assignment : Past(assignment[i].by) /\ Past(assignment[i].revokedBy)
  /\ \A x \in Request : call[x].op = "assign" => Past(call[x].row.by) /\ call[x].row.revokedBy = Nobody

AuthorityInv ==
  /\ AuthorityTypes
  /\ OneDelegationAtATime /\ \A x \in Request : DelegatesAlone(x)
  /\ ChangesArePast
  /\ AccessIsEarned /\ \A x \in Request : CallIsEarned(x)

\* What becomes of the rows: they are added and revoked, and time passes.
Kept ==
  /\ now <= now' /\ now' \in Nat
  /\ \A u \in User : disabled'[u] = disabled[u] \/ (disabled[u] = 0 /\ disabled'[u] = now)
  /\ \A i \in DOMAIN role : i \in DOMAIN role' /\ role'[i] = role[i]
  /\ \A i \in DOMAIN assignment :
       /\ i \in DOMAIN assignment'
       /\ assignment'[i].user = assignment[i].user /\ assignment'[i].role = assignment[i].role
       /\ assignment'[i].period = assignment[i].period /\ assignment'[i].by = assignment[i].by
       /\ assignment'[i].revoked = assignment[i].revoked
            \/ (assignment[i].revoked = 0 /\ assignment'[i].revoked = now)
  /\ \A i \in DOMAIN delegation :
       /\ i \in DOMAIN delegation'
       /\ SamePair(delegation'[i], delegation[i]) /\ delegation'[i].period = delegation[i].period
       /\ delegation'[i].revoked = delegation[i].revoked
            \/ (delegation[i].revoked = 0 /\ delegation'[i].revoked = now)

\* An assignment by which a user had a permission at some moment since t.
Gives(i, u, permission, t) ==
  /\ assignment[i].user = u /\ HeldSince(assignment[i], t)
  /\ permission \in role[assignment[i].role].grants

LEMMA AuthorityRows ==
  ASSUME AuthorityTypes
  PROVE  /\ now \in Nat /\ now \in 1..LastMoment /\ LastMoment \in Nat
         /\ \A u \in User : disabled[u] \in Nat /\ disabled[u] <= now
         /\ Len(role) \in Nat /\ DOMAIN role = 1..Len(role)
         /\ \A i \in DOMAIN role : role[i] \in RoleRow /\ role[i].by \in Manager
         /\ Len(assignment) \in Nat /\ DOMAIN assignment = 1..Len(assignment)
         /\ \A i \in DOMAIN assignment : /\ assignment[i] \in AssignmentRow
                                         /\ assignment[i].role \in DOMAIN role
         /\ Len(delegation) \in Nat /\ DOMAIN delegation = 1..Len(delegation)
         /\ \A i \in DOMAIN delegation : delegation[i] \in DelegationRow
<1>1. /\ now \in Nat /\ now \in 1..LastMoment /\ LastMoment \in Nat
      /\ \A u \in User : disabled[u] \in Nat /\ disabled[u] <= now
  BY AuthorityAssumption DEF AuthorityTypes, AuthorityTypeOK
<1>2. role \in Seq(RoleRow) /\ assignment \in Seq(AssignmentRow) /\ delegation \in Seq(DelegationRow)
  BY DEF AuthorityTypes, AuthorityTypeOK
<1>3. /\ Len(role) \in Nat /\ DOMAIN role = 1..Len(role)
      /\ \A i \in DOMAIN role : role[i] \in RoleRow
  BY <1>2, LenProperties, ElementOfSeq
<1>4. /\ Len(assignment) \in Nat /\ DOMAIN assignment = 1..Len(assignment)
      /\ \A i \in DOMAIN assignment : assignment[i] \in AssignmentRow
  BY <1>2, LenProperties, ElementOfSeq
<1>5. /\ Len(delegation) \in Nat /\ DOMAIN delegation = 1..Len(delegation)
      /\ \A i \in DOMAIN delegation : delegation[i] \in DelegationRow
  BY <1>2, LenProperties, ElementOfSeq
<1>6. \A row \in RoleRow : row.by \in Manager
  BY DEF RoleRow
<1>7. \A i \in DOMAIN assignment : assignment[i].role \in DOMAIN role
  BY DEF AuthorityTypes, AuthorityTypeOK
<1> QED
  BY <1>1, <1>3, <1>4, <1>5, <1>6, <1>7

\* The fields of the rows.
LEMMA RowFields ==
  /\ \A row \in AssignmentRow : /\ row.user \in User /\ row.period.from \in Nat /\ row.period.to \in Nat
                                /\ row.revoked \in Nat /\ row.by \in Manager /\ row.revokedBy \in Manager
  /\ \A row \in DelegationRow : /\ row.delegator \in User /\ row.delegate \in User
                                /\ row.delegator # row.delegate
                                /\ row.period.from \in Nat /\ row.period.to \in Nat /\ row.revoked \in Nat
  /\ \A row \in RoleRow : row.grants \in SUBSET Permission
<1>1. \A p \in Period : p.from \in Nat /\ p.to \in Nat
  BY AuthorityAssumption
<1>2. LastMoment \in Nat
  BY AuthorityAssumption
<1> QED
  BY <1>1, <1>2 DEF AssignmentRow, DelegationRow, RoleRow

\* A call by its phase.
LEMMA CallIs ==
  ASSUME NEW c \in Call
  PROVE  /\ c.op \in Bearer => /\ c \in BearerCall
                               /\ c.user \in User /\ c.since \in 1..LastMoment
         /\ c.op = "assign" => c.row \in AssignmentRow
         /\ c.op = "delegate" => c.row \in DelegationRow
         /\ c.op \in Bearer \cup {"idle", "assign", "delegate"}
         /\ c.op = "idle" => c = Quiet
BY DEF Call, BearerCall, Bearer, Quiet

LEMMA GivesStays ==
  ASSUME AuthorityTypes, Kept, NEW i \in DOMAIN assignment, NEW u, NEW permission, NEW t \in Nat,
         t <= now, Gives(i, u, permission, t)
  PROVE  i \in DOMAIN assignment' /\ Gives(i, u, permission, t)'
<1>1. /\ assignment[i] \in AssignmentRow /\ assignment[i].role \in DOMAIN role /\ now \in Nat
  BY AuthorityRows
<1>2. assignment[i].period.from \in Nat /\ assignment[i].period.to \in Nat /\ assignment[i].revoked \in Nat
  BY <1>1, RowFields
<1>3. now <= now' /\ now' \in Nat /\ role'[assignment[i].role] = role[assignment[i].role]
  BY <1>1 DEF Kept
<1>4. /\ i \in DOMAIN assignment'
      /\ assignment'[i].user = assignment[i].user /\ assignment'[i].role = assignment[i].role
      /\ assignment'[i].period = assignment[i].period
      /\ assignment'[i].revoked = assignment[i].revoked
           \/ (assignment[i].revoked = 0 /\ assignment'[i].revoked = now)
  BY DEF Kept
<1>5. HeldSince(assignment[i], t)
  BY DEF Gives
<1>6. HeldSince(assignment[i], t)'
  BY <1>1, <1>2, <1>3, <1>4, <1>5 DEF HeldSince
<1> QED
  BY <1>3, <1>4, <1>6 DEF Gives

\* What a user held at some moment of a call was so held ever after.
LEMMA HeldStays ==
  ASSUME AuthorityTypes, Kept, NEW u \in User, NEW t \in Nat, t <= now
  PROVE  /\ ActiveSince(u, t) => ActiveSince(u, t)'
         /\ \A rows \in SUBSET DOMAIN assignment, permission \in Permission :
              Held(u, permission, t, rows) => Held(u, permission, t, rows)'
         /\ \A permission \in Permission :
              Held(u, permission, t, DOMAIN assignment) => Held(u, permission, t, DOMAIN assignment)'
<1>1. ActiveSince(u, t) => ActiveSince(u, t)'
  BY AuthorityRows DEF ActiveSince, Kept
<1>2. \A i \in DOMAIN assignment, permission \in Permission :
        Gives(i, u, permission, t) => i \in DOMAIN assignment' /\ Gives(i, u, permission, t)'
  BY GivesStays
<1>3. \A rows, permission :
        Held(u, permission, t, rows) <=> ActiveSince(u, t) /\ \E i \in rows : Gives(i, u, permission, t)
  BY DEF Held, Gives
<1>4. \A rows, permission :
        Held(u, permission, t, rows)' <=> ActiveSince(u, t)' /\ \E i \in rows : Gives(i, u, permission, t)'
  BY DEF Held, Gives
<1>5. \A permission :
        Held(u, permission, t, DOMAIN assignment)'
          <=> ActiveSince(u, t)' /\ \E i \in DOMAIN assignment' : Gives(i, u, permission, t)'
  BY DEF Held, Gives
<1> QED
  BY <1>1, <1>2, <1>3, <1>4, <1>5

\* So what was earned stays earned, and by older rows alone.
LEMMA EarnedStays ==
  ASSUME AuthorityTypes, Kept, NEW by \in Manager, Past(by)
  PROVE  /\ \A rows \in SUBSET DOMAIN assignment : Earned(by, rows) => Earned(by, rows)'
         /\ Earned(by, DOMAIN assignment) => Earned(by, DOMAIN assignment)'
<1>1. CASE by = Nobody
  BY <1>1 DEF Earned
<1>2. CASE by # Nobody
  <2>1. by.user \in User /\ by.since \in Nat /\ by.since <= now
    BY <1>2, AuthorityAssumption DEF Manager, Past
  <2>2. "roles.manage" \in Permission
    BY DEF Permission
  <2> QED
    BY <1>2, <2>1, <2>2, HeldStays DEF Earned
<1> QED
  BY <1>1, <1>2

\* What a request holds.
LEMMA CallOf ==
  ASSUME AuthorityTypes, NEW x \in Request
  PROVE  /\ call[x] \in Call
         /\ call[x].op \in Bearer => By(x) \in Manager /\ By(x) # Nobody
<1>1. call[x] \in Call
  BY DEF AuthorityTypes
<1>2. call[x].op \in Bearer => call[x].user \in User /\ call[x].since \in 1..LastMoment
  BY <1>1, CallIs
<1> QED
  BY <1>1, <1>2 DEF By, Manager, Nobody

\* A step in which only the calls move.
LEMMA CallsMove ==
  ASSUME AuthorityTypes, UNCHANGED <<now, disabled, role, assignment, delegation>>,
         call' \in [Request -> Call],
         \A x \in Request : call'[x].op = "assign" => call'[x].row.role \in DOMAIN role
  PROVE  AuthorityTypes' /\ Kept
<1>1. AuthorityTypes'
  <2>1. \A c \in Call : c.op \in Bearer \cup {"idle", "assign", "delegate"}
    BY CallIs
  <2>2. \A x \in Request : call'[x].op \in {"idle", "manage", "managing", "assign", "delegate",
                                      "use", "denied", "delegated", "granted"}
    BY <2>1 DEF Bearer
  <2> QED
    BY <2>2 DEF AuthorityTypes, AuthorityTypeOK
<1>2. Kept
  BY AuthorityRows DEF Kept, SamePair
<1> QED
  BY <1>1, <1>2

\* One call moves on.
LEMMA CallMoves ==
  ASSUME AuthorityTypes, UNCHANGED <<now, disabled, role, assignment, delegation>>,
         NEW x \in Request, NEW c \in Call, call' = [call EXCEPT ![x] = c],
         c.op = "assign" => c.row.role \in DOMAIN role
  PROVE  AuthorityTypes' /\ Kept
<1>1. call \in [Request -> Call]
  BY DEF AuthorityTypes
<1>2. call' \in [Request -> Call]
  BY <1>1
<1>3. \A y \in Request : call'[y].op = "assign" => call'[y].row.role \in DOMAIN role
  BY <1>1 DEF AuthorityTypes
<1> QED
  BY <1>2, <1>3, CallsMove

LEMMA QuietIsCall == Quiet \in Call /\ Quiet.op = "idle" /\ BearerCall \subseteq Call
BY DEF Quiet, Call

LEMMA BeginCallMoves ==
  ASSUME AuthorityTypes, NEW x \in Request, NEW u \in User, NEW op \in {"manage", "use"}, BeginCall(x, u, op)
  PROVE  AuthorityTypes' /\ Kept
<1> DEFINE c == [op |-> op, user |-> u, since |-> now, open |-> {}]
<1>1. c \in Call /\ c.op # "assign"
  BY AuthorityRows DEF Call, BearerCall, Bearer
<1>2. call' = [call EXCEPT ![x] = c] /\ UNCHANGED <<now, disabled, role, assignment, delegation>>
  BY DEF BeginCall
<1> HIDE DEF c
<1> QED
  BY <1>1, <1>2, CallMoves

\* What a manager enters.
LEMMA NewAssignment ==
  ASSUME AuthorityTypes, NEW x \in Request, call[x].op = "managing",
         NEW u \in User, NEW r \in DOMAIN role, NEW p \in Period
  PROVE  [user |-> u, role |-> r, period |-> p, revoked |-> 0, by |-> By(x), revokedBy |-> Nobody]
           \in AssignmentRow
<1>1. By(x) \in Manager /\ r \in Nat \ {0}
  BY CallOf, AuthorityRows DEF Bearer
<1>2. 0 \in 0..LastMoment /\ Nobody \in Manager
  BY AuthorityAssumption DEF Manager
<1> QED
  BY <1>1, <1>2 DEF AssignmentRow

LEMMA BeginAssignMoves ==
  ASSUME AuthorityTypes, NEW x \in Request, NEW u \in User, NEW r \in DOMAIN role, NEW p \in Period,
         BeginAssign(x, u, r, p)
  PROVE  AuthorityTypes' /\ Kept
<1> DEFINE row == [user |-> u, role |-> r, period |-> p, revoked |-> 0, by |-> By(x), revokedBy |-> Nobody]
           c == [op |-> "assign", row |-> row]
<1>1. row \in AssignmentRow /\ row.role \in DOMAIN role
  BY NewAssignment DEF BeginAssign
<1>2. call' = [call EXCEPT ![x] = c] /\ UNCHANGED <<now, disabled, role, assignment, delegation>>
  BY DEF BeginAssign
<1> HIDE DEF row
<1>3. c \in Call /\ c.row.role \in DOMAIN role
  BY <1>1 DEF Call
<1> HIDE DEF c
<1> QED
  BY <1>2, <1>3, CallMoves

LEMMA BeginDelegateMoves ==
  ASSUME AuthorityTypes, NEW x \in Request, NEW u \in User, NEW v \in User, NEW p \in Period,
         BeginDelegate(x, u, v, p)
  PROVE  AuthorityTypes' /\ Kept
<1> DEFINE row == [delegator |-> u, delegate |-> v, period |-> p, revoked |-> 0]
           c == [op |-> "delegate", row |-> row]
<1>1. row \in DelegationRow
  BY AuthorityAssumption DEF BeginDelegate, DelegationRow
<1>2. call' = [call EXCEPT ![x] = c] /\ UNCHANGED <<now, disabled, role, assignment, delegation>>
  BY DEF BeginDelegate
<1> HIDE DEF row
<1>3. c \in Call /\ c.op # "assign"
  BY <1>1 DEF Call
<1> HIDE DEF c
<1> QED
  BY <1>2, <1>3, CallMoves

\* The check of a protected call.
LEMMA CheckMoves ==
  ASSUME AuthorityTypes, NEW x \in Request,
         \/ RequireManage(x) \/ CheckOwn(x) \/ ReadDelegations(x) \/ End(x)
         \/ \E i \in DOMAIN delegation : CheckDelegator(x, i)
  PROVE  AuthorityTypes' /\ Kept
<1>1. \E c \in Call : c.op # "assign" /\ call' = [call EXCEPT ![x] = c]
  <2>1. Quiet \in Call /\ Quiet.op = "idle" /\ BearerCall \subseteq Call
    BY QuietIsCall
  <2>0. call[x].op \in Bearer => call[x] \in BearerCall /\ call[x].open \in SUBSET Nat
    BY CallOf, CallIs DEF BearerCall
  <2>2. CASE RequireManage(x)
    <3>1. call[x] \in BearerCall
      BY <2>0, <2>2 DEF RequireManage, Bearer
    <3>2. /\ [call[x] EXCEPT !.op = "managing"] \in BearerCall
          /\ [call[x] EXCEPT !.op = "managing"].op = "managing"
      BY <3>1 DEF BearerCall, Bearer
    <3> QED
      BY <2>1, <2>2, <3>2 DEF RequireManage
  <2>3. CASE CheckOwn(x)
    <3>1. call[x] \in BearerCall
      BY <2>0, <2>3 DEF CheckOwn, Bearer
    <3>2. PICK op \in {"granted", "denied"} : call' = [call EXCEPT ![x].op = op]
      BY <2>3 DEF CheckOwn
    <3>3. [call[x] EXCEPT !.op = op] \in BearerCall /\ [call[x] EXCEPT !.op = op].op = op
      BY <3>1 DEF BearerCall, Bearer
    <3> QED
      BY <2>1, <3>2, <3>3
  <2>4. CASE ReadDelegations(x)
    <3>1. call[x] \in BearerCall
      BY <2>0, <2>4 DEF ReadDelegations, Bearer
    <3>2. PICK open : open = DelegatedTo(call[x].user)
      OBVIOUS
    <3>3. open \in SUBSET Nat
      BY <3>2, AuthorityRows DEF DelegatedTo
    <3>4. /\ [call[x] EXCEPT !.op = "delegated", !.open = open] \in BearerCall
          /\ [call[x] EXCEPT !.op = "delegated", !.open = open].op = "delegated"
      BY <3>1, <3>3 DEF BearerCall, Bearer
    <3> QED
      BY <2>1, <2>4, <3>2, <3>4 DEF ReadDelegations
  <2>5. CASE End(x)
    BY <2>1, <2>5 DEF End
  <2>6. ASSUME NEW i \in DOMAIN delegation, CheckDelegator(x, i)
        PROVE  \E c \in Call : c.op # "assign" /\ call' = [call EXCEPT ![x] = c]
    <3>1. call[x].op = "delegated" /\ call[x] \in BearerCall
      BY <2>0, <2>6 DEF CheckDelegator, Bearer
    <3>2. PICK open : open = call[x].open \ {i}
      OBVIOUS
    <3>3. open \in SUBSET Nat
      BY <2>0, <3>1, <3>2 DEF Bearer
    <3>4. /\ [call[x] EXCEPT !.op = "granted"] \in BearerCall
          /\ [call[x] EXCEPT !.op = "granted"].op = "granted"
          /\ [call[x] EXCEPT !.open = open] \in BearerCall
          /\ [call[x] EXCEPT !.open = open].op = "delegated"
      BY <3>1, <3>3 DEF BearerCall, Bearer
    <3> QED
      BY <2>1, <2>6, <3>2, <3>4 DEF CheckDelegator
  <2> QED
    BY <2>2, <2>3, <2>4, <2>5, <2>6
<1>2. UNCHANGED <<now, disabled, role, assignment, delegation>>
  BY DEF RequireManage, CheckOwn, ReadDelegations, End, CheckDelegator
<1> QED
  BY <1>1, <1>2, CallMoves

\* A row more, behind the others.
LEMMA RowsAppend ==
  ASSUME NEW S, NEW rows \in Seq(S), NEW row \in S
  PROVE  /\ Append(rows, row) \in Seq(S) /\ Len(Append(rows, row)) = Len(rows) + 1
         /\ \A i \in DOMAIN rows : i \in DOMAIN Append(rows, row) /\ Append(rows, row)[i] = rows[i]
         /\ DOMAIN Append(rows, row) = DOMAIN rows \cup {Len(rows) + 1}
         /\ Append(rows, row)[Len(rows) + 1] = row
         /\ Len(rows) + 1 \notin DOMAIN rows
<1>1. Len(rows) \in Nat /\ DOMAIN rows = 1..Len(rows)
  BY LenProperties
<1> QED
  BY <1>1, AppendProperties

\* Time passes, and a delegation is revoked.
LEMMA TickKeeps ==
  ASSUME AuthorityTypes, Tick
  PROVE  AuthorityTypes' /\ Kept
<1>1. /\ now' = now + 1 /\ now' \in 1..LastMoment
      /\ UNCHANGED <<disabled, role, assignment, delegation, call>>
  BY AuthorityRows DEF Tick
<1>2. disabled' \in [User -> 0..now']
  BY <1>1, AuthorityRows DEF AuthorityTypes, AuthorityTypeOK
<1>3. AuthorityTypes'
  BY <1>1, <1>2 DEF AuthorityTypes, AuthorityTypeOK
<1>4. Kept
  BY <1>1, AuthorityRows DEF Kept, SamePair
<1> QED
  BY <1>3, <1>4

\* Revoking keeps the row.
LEMMA RevokedRow ==
  ASSUME AuthorityTypes, NEW i \in DOMAIN delegation, delegation[i].revoked = 0
  PROVE  /\ [delegation[i] EXCEPT !.revoked = now] \in DelegationRow
         /\ [delegation[i] EXCEPT !.revoked = now].revoked = now
         /\ SamePair([delegation[i] EXCEPT !.revoked = now], delegation[i])
         /\ [delegation[i] EXCEPT !.revoked = now].period = delegation[i].period
<1>1. PICK d : d = delegation[i]
  OBVIOUS
<1>2. d \in DelegationRow /\ now \in 0..LastMoment
  BY <1>1, AuthorityRows
<1>3. /\ [d EXCEPT !.revoked = now] \in DelegationRow /\ [d EXCEPT !.revoked = now].revoked = now
      /\ SamePair([d EXCEPT !.revoked = now], d) /\ [d EXCEPT !.revoked = now].period = d.period
  BY <1>2 DEF DelegationRow, SamePair
<1> QED
  BY <1>1, <1>3

LEMMA DelegationsRevoked ==
  ASSUME AuthorityTypes, UNCHANGED <<now, role, assignment, call>>,
         disabled' \in [User -> 0..now],
         \A u \in User : disabled'[u] = disabled[u] \/ (disabled[u] = 0 /\ disabled'[u] = now),
         DOMAIN delegation' = DOMAIN delegation,
         delegation' = [i \in DOMAIN delegation' |-> delegation'[i]],
         \A i \in DOMAIN delegation :
           \/ delegation'[i] = delegation[i]
           \/ delegation[i].revoked = 0 /\ delegation'[i] = [delegation[i] EXCEPT !.revoked = now]
  PROVE  AuthorityTypes' /\ Kept
<1>1. \A i \in DOMAIN delegation :
        /\ delegation'[i] \in DelegationRow
        /\ SamePair(delegation'[i], delegation[i]) /\ delegation'[i].period = delegation[i].period
        /\ delegation'[i].revoked = delegation[i].revoked
             \/ (delegation[i].revoked = 0 /\ delegation'[i].revoked = now)
  BY RevokedRow, AuthorityRows DEF SamePair
<1>2. DOMAIN delegation' = 1..Len(delegation) /\ Len(delegation) \in Nat
  BY AuthorityRows
<1>3. delegation' \in [1..Len(delegation) -> DelegationRow]
  BY <1>1, <1>2
<1>4. delegation' \in Seq(DelegationRow) /\ Len(delegation') = Len(delegation)
  <2>1. delegation' \in Seq(DelegationRow)
    BY <1>2, <1>3, SeqDef
  <2> QED
    BY <1>2, <2>1, LenProperties
<1>5. AuthorityTypes'
  BY <1>4 DEF AuthorityTypes, AuthorityTypeOK
<1>6. Kept
  BY <1>1, AuthorityRows DEF Kept
<1> QED
  BY <1>5, <1>6

LEMMA RevokeDelegationKeeps ==
  ASSUME AuthorityTypes, NEW i \in DOMAIN delegation, RevokeDelegation(i)
  PROVE  AuthorityTypes' /\ Kept
<1>1. /\ delegation[i].revoked = 0 /\ delegation' = [delegation EXCEPT ![i].revoked = now]
      /\ UNCHANGED <<now, disabled, role, assignment, call>>
  BY DEF RevokeDelegation
<1>2. disabled' \in [User -> 0..now]
  BY <1>1 DEF AuthorityTypes, AuthorityTypeOK
<1> QED
  BY <1>1, <1>2, DelegationsRevoked

LEMMA EndEmploymentKeeps ==
  ASSUME AuthorityTypes, NEW u \in User, EndEmployment(u)
  PROVE  AuthorityTypes' /\ Kept
<1>1. disabled \in [User -> 0..now] /\ now \in 0..now
  BY AuthorityRows DEF AuthorityTypes, AuthorityTypeOK
<1>2. /\ disabled' = [disabled EXCEPT ![u] = now] /\ disabled[u] = 0
      /\ UNCHANGED <<now, role, assignment, call>>
  BY DEF EndEmployment
<1>3. /\ DOMAIN delegation' = DOMAIN delegation /\ delegation' = [i \in DOMAIN delegation' |-> delegation'[i]]
      /\ \A i \in DOMAIN delegation :
           \/ delegation'[i] = delegation[i]
           \/ delegation[i].revoked = 0 /\ delegation'[i] = [delegation[i] EXCEPT !.revoked = now]
  BY DEF EndEmployment
<1>4. disabled' \in [User -> 0..now]
  BY <1>1, <1>2
<1>5. \A v \in User : disabled'[v] = disabled[v] \/ (disabled[v] = 0 /\ disabled'[v] = now)
  BY <1>1, <1>2
<1> QED
  BY <1>2, <1>3, <1>4, <1>5, DelegationsRevoked

\* A call that is over.
LEMMA CallOver ==
  ASSUME AuthorityTypes, NEW x \in Request, call' = [call EXCEPT ![x] = Quiet]
  PROVE  /\ call' \in [Request -> Call] /\ call'[x].op = "idle"
         /\ \A y \in Request \ {x} : call'[y] = call[y]
         /\ \A y \in Request : call'[y].op \in {"idle", "manage", "managing", "assign", "delegate",
                                               "use", "denied", "delegated", "granted"}
         /\ \A y \in Request : call'[y].op = "assign" => call'[y].row.role \in DOMAIN role
<1>1. call \in [Request -> Call] /\ Quiet \in Call /\ Quiet.op = "idle"
  BY QuietIsCall DEF AuthorityTypes
<1>2. call' \in [Request -> Call] /\ call'[x].op = "idle" /\ \A y \in Request \ {x} : call'[y] = call[y]
  BY <1>1
<1> QED
  BY <1>2 DEF AuthorityTypes, AuthorityTypeOK

LEMMA CreateRoleKeeps ==
  ASSUME AuthorityTypes, NEW x \in Request, NEW code \in Code, NEW grants \in SUBSET Permission,
         CreateRole(x, code, grants)
  PROVE  AuthorityTypes' /\ Kept
<1> DEFINE row == [code |-> code, grants |-> grants, by |-> By(x)]
<1>1. row \in RoleRow
  BY CallOf DEF CreateRole, RoleRow, Bearer
<1>2. /\ role' = Append(role, row) /\ call' = [call EXCEPT ![x] = Quiet]
      /\ UNCHANGED <<now, disabled, assignment, delegation>>
  BY DEF CreateRole
<1> HIDE DEF row
<1>3. role \in Seq(RoleRow)
  BY DEF AuthorityTypes, AuthorityTypeOK
<1>4. role' \in Seq(RoleRow) /\ \A i \in DOMAIN role : i \in DOMAIN role' /\ role'[i] = role[i]
  BY <1>1, <1>2, <1>3, RowsAppend
<1>5. AuthorityTypes'
  BY <1>2, <1>4, CallOver DEF AuthorityTypes, AuthorityTypeOK
<1>6. Kept
  BY <1>2, <1>4, AuthorityRows DEF Kept, SamePair
<1> QED
  BY <1>5, <1>6

LEMMA CommitAssignKeeps ==
  ASSUME AuthorityTypes, NEW x \in Request, CommitAssign(x)
  PROVE  AuthorityTypes' /\ Kept
<1>1. PICK row : row = call[x].row
  OBVIOUS
<1>2. row \in AssignmentRow /\ row.role \in DOMAIN role
  BY <1>1, CallOf, CallIs DEF CommitAssign, AuthorityTypes
<1>3. /\ assignment' = Append(assignment, row) /\ call' = [call EXCEPT ![x] = Quiet]
      /\ Len(assignment) < MaxAssignment /\ UNCHANGED <<now, disabled, role, delegation>>
  BY <1>1 DEF CommitAssign
<1>4. assignment \in Seq(AssignmentRow)
  BY DEF AuthorityTypes, AuthorityTypeOK
<1>5. /\ assignment' \in Seq(AssignmentRow) /\ Len(assignment') = Len(assignment) + 1
      /\ \A i \in DOMAIN assignment : i \in DOMAIN assignment' /\ assignment'[i] = assignment[i]
      /\ DOMAIN assignment' = DOMAIN assignment \cup {Len(assignment) + 1}
      /\ assignment'[Len(assignment) + 1] = row
  BY <1>2, <1>3, <1>4, RowsAppend
<1>6. Len(assignment') <= MaxAssignment
  BY <1>3, <1>5, AuthorityRows, AuthorityBoundsAssumption
<1>7. \A i \in DOMAIN assignment' : assignment'[i].role \in DOMAIN role
  BY <1>2, <1>5, AuthorityRows
<1>8. AuthorityTypes'
  BY <1>3, <1>5, <1>6, <1>7, CallOver DEF AuthorityTypes, AuthorityTypeOK
<1>9. Kept
  BY <1>3, <1>5, AuthorityRows DEF Kept, SamePair
<1> QED
  BY <1>8, <1>9

LEMMA CommitDelegateKeeps ==
  ASSUME AuthorityTypes, NEW x \in Request, CommitDelegate(x)
  PROVE  AuthorityTypes' /\ Kept
<1>1. PICK row : row = call[x].row
  OBVIOUS
<1>2. row \in DelegationRow
  BY <1>1, CallOf, CallIs DEF CommitDelegate
<1>3. /\ delegation' = Append(delegation, row) /\ call' = [call EXCEPT ![x] = Quiet]
      /\ Len(delegation) < MaxDelegation /\ UNCHANGED <<now, disabled, role, assignment>>
  BY <1>1 DEF CommitDelegate
<1>4. delegation \in Seq(DelegationRow)
  BY DEF AuthorityTypes, AuthorityTypeOK
<1>5. /\ delegation' \in Seq(DelegationRow) /\ Len(delegation') = Len(delegation) + 1
      /\ \A i \in DOMAIN delegation : i \in DOMAIN delegation' /\ delegation'[i] = delegation[i]
  BY <1>2, <1>3, <1>4, RowsAppend
<1>6. Len(delegation') <= MaxDelegation
  BY <1>3, <1>5, AuthorityRows, AuthorityBoundsAssumption
<1>7. AuthorityTypes'
  BY <1>3, <1>5, <1>6, CallOver DEF AuthorityTypes, AuthorityTypeOK
<1>8. Kept
  BY <1>3, <1>5, AuthorityRows DEF Kept, SamePair
<1> QED
  BY <1>7, <1>8

\* A revocation is the caller's.
LEMMA RevokeAssignmentIs ==
  ASSUME AuthorityTypes, NEW x \in Request, NEW i \in DOMAIN assignment, RevokeAssignment(x, i)
  PROVE  /\ assignment' \in Seq(AssignmentRow) /\ Len(assignment') = Len(assignment)
         /\ DOMAIN assignment' = DOMAIN assignment
         /\ \A j \in DOMAIN assignment \ {i} : assignment'[j] = assignment[j]
         /\ assignment'[i].user = assignment[i].user /\ assignment'[i].role = assignment[i].role
         /\ assignment'[i].period = assignment[i].period /\ assignment'[i].by = assignment[i].by
         /\ assignment[i].revoked = 0 /\ assignment'[i].revoked = now
         /\ assignment'[i].revokedBy = By(x)
<1>1. PICK a : a = assignment[i]
  OBVIOUS
<1>2. PICK by : by = By(x)
  OBVIOUS
<1>3. a \in AssignmentRow /\ now \in 0..LastMoment
  BY <1>1, AuthorityRows
<1>4. by \in Manager
  BY <1>2, CallOf DEF RevokeAssignment, Bearer
<1>5. PICK row : row = [a EXCEPT !.revoked = now, !.revokedBy = by]
  OBVIOUS
<1>6. /\ row \in AssignmentRow /\ row.user = a.user /\ row.role = a.role /\ row.period = a.period
      /\ row.by = a.by /\ row.revoked = now /\ row.revokedBy = by
  BY <1>3, <1>4, <1>5 DEF AssignmentRow
<1>7. /\ assignment \in Seq(AssignmentRow) /\ Len(assignment) \in Nat
      /\ DOMAIN assignment = 1..Len(assignment)
  BY AuthorityRows DEF AuthorityTypes, AuthorityTypeOK
<1>8. a.revoked = 0 /\ assignment' = [assignment EXCEPT ![i] = row]
  BY <1>1, <1>2, <1>5, <1>7 DEF RevokeAssignment
<1>9. assignment' \in Seq(AssignmentRow) /\ Len(assignment') = Len(assignment)
  BY <1>6, <1>7, <1>8, ExceptSeq, LenProperties
<1> QED
  BY <1>1, <1>2, <1>6, <1>7, <1>8, <1>9

LEMMA RevokeAssignmentKeeps ==
  ASSUME AuthorityTypes, NEW x \in Request, NEW i \in DOMAIN assignment, RevokeAssignment(x, i)
  PROVE  AuthorityTypes' /\ Kept
<1>1. call' = [call EXCEPT ![x] = Quiet] /\ UNCHANGED <<now, disabled, role, delegation>>
  BY DEF RevokeAssignment
<1>2. \A j \in DOMAIN assignment : assignment'[j].role \in DOMAIN role
  BY RevokeAssignmentIs, AuthorityRows
<1>3. AuthorityTypes'
  BY <1>1, <1>2, RevokeAssignmentIs, CallOver DEF AuthorityTypes, AuthorityTypeOK
<1>4. \A j \in DOMAIN assignment :
        /\ j \in DOMAIN assignment'
        /\ assignment'[j].user = assignment[j].user /\ assignment'[j].role = assignment[j].role
        /\ assignment'[j].period = assignment[j].period /\ assignment'[j].by = assignment[j].by
        /\ assignment'[j].revoked = assignment[j].revoked
             \/ (assignment[j].revoked = 0 /\ assignment'[j].revoked = now)
  BY RevokeAssignmentIs
<1>5. Kept
  BY <1>1, <1>4, AuthorityRows DEF Kept, SamePair
<1> QED
  BY <1>3, <1>5

\* Every step keeps the rows and their types.
LEMMA AuthorityStepKeeps ==
  ASSUME AuthorityTypes, AuthorityNext
  PROVE  AuthorityTypes' /\ Kept
BY TickKeeps, RevokeDelegationKeeps, EndEmploymentKeeps, BeginCallMoves, CheckMoves, CreateRoleKeeps,
   BeginAssignMoves, RevokeAssignmentKeeps, BeginDelegateMoves, CommitAssignKeeps, CommitDelegateKeeps
DEF AuthorityNext

\* Somebody who is let in.
Allowed(u, t) ==
  /\ ActiveSince(u, t)
  /\ \/ Held(u, "use", t, DOMAIN assignment)
     \/ \E i \in DOMAIN delegation :
          /\ delegation[i].delegate = u /\ HeldSince(delegation[i], t)
          /\ Held(delegation[i].delegator, "use", t, DOMAIN assignment)

\* All that AuthorityInv says of one call, the locks apart.
Knows(x) ==
  /\ CallIsEarned(x)
  /\ call[x].op = "granted" => Allowed(call[x].user, call[x].since)
  /\ call[x].op = "assign" => Past(call[x].row.by) /\ call[x].row.revokedBy = Nobody

LEMMA UseIsAllowed ==
  UseIsEarned <=> \A x \in Request : call[x].op = "granted" => Allowed(call[x].user, call[x].since)
BY DEF UseIsEarned, Allowed

\* What is held now is held at some moment of the call.
LEMMA HoldsIsHeld ==
  ASSUME AuthorityTypes, NEW u \in User, NEW permission, NEW t \in Nat, t <= now
  PROVE  /\ Holds(u, permission) => Held(u, permission, t, DOMAIN assignment)
         /\ \A i \in DelegatedTo(u) : i \in DOMAIN delegation /\ delegation[i].delegate = u
                                      /\ HeldSince(delegation[i], t)
<1>1. \A i \in DOMAIN assignment : InForce(assignment[i]) => HeldSince(assignment[i], t)
  BY AuthorityRows, RowFields DEF InForce, HeldSince
<1>2. \A i \in DOMAIN delegation : InForce(delegation[i]) => HeldSince(delegation[i], t)
  BY AuthorityRows, RowFields DEF InForce, HeldSince
<1> QED
  BY <1>1, <1>2 DEF Holds, Held, ActiveSince, DelegatedTo

\* A delegation that was in force stays one that was.
LEMMA DelegationStays ==
  ASSUME AuthorityTypes, Kept, NEW i \in DOMAIN delegation, NEW t \in Nat, t <= now,
         HeldSince(delegation[i], t)
  PROVE  i \in DOMAIN delegation' /\ HeldSince(delegation[i], t)' /\ SamePair(delegation'[i], delegation[i])
<1>1. /\ delegation[i] \in DelegationRow /\ now \in Nat
  BY AuthorityRows
<1>2. delegation[i].period.from \in Nat /\ delegation[i].period.to \in Nat /\ delegation[i].revoked \in Nat
  BY <1>1, RowFields
<1> QED
  BY <1>1, <1>2 DEF Kept, HeldSince

LEMMA AllowedStays ==
  ASSUME AuthorityTypes, Kept, NEW u \in User, NEW t \in Nat, t <= now, Allowed(u, t)
  PROVE  Allowed(u, t)'
<1>1. ActiveSince(u, t) /\ ActiveSince(u, t)'
  BY HeldStays DEF Allowed
<1>2. "use" \in Permission
  BY DEF Permission
<1>3. CASE Held(u, "use", t, DOMAIN assignment)
  BY <1>1, <1>2, <1>3, HeldStays DEF Allowed
<1>4. ASSUME NEW i \in DOMAIN delegation, delegation[i].delegate = u, HeldSince(delegation[i], t),
             Held(delegation[i].delegator, "use", t, DOMAIN assignment)
      PROVE  Allowed(u, t)'
  <2>1. PICK v \in User : v = delegation[i].delegator
    BY AuthorityRows, RowFields
  <2>2. Held(v, "use", t, DOMAIN assignment)
    BY <1>4, <2>1
  <2>3. Held(v, "use", t, DOMAIN assignment)'
    BY <1>2, <2>2, HeldStays
  <2>4. /\ i \in DOMAIN delegation' /\ HeldSince(delegation[i], t)'
        /\ delegation'[i].delegate = u /\ delegation'[i].delegator = v
    BY <1>4, <2>1, DelegationStays DEF SamePair
  <2> QED
    BY <1>1, <2>3, <2>4 DEF Allowed
<1> QED
  BY <1>3, <1>4 DEF Allowed

\* A call that does not move knows what it knew.
LEMMA KnowsStays ==
  ASSUME AuthorityTypes, Kept, NEW x \in Request, Knows(x), call'[x] = call[x]
  PROVE  Knows(x)'
<1>1. PICK c \in Call : c = call[x]
  BY CallOf
<1>2. c.op \in Bearer => c.user \in User /\ c.since \in Nat /\ c.since <= now
  BY <1>1, CallIs, AuthorityAssumption DEF Knows, CallIsEarned
<1>3. ASSUME c.op \in Bearer
      PROVE  c.since <= now' /\ ActiveSince(c.user, c.since)'
  <2>1. ActiveSince(c.user, c.since)
    BY <1>1, <1>3 DEF Knows, CallIsEarned
  <2>2. ActiveSince(c.user, c.since)'
    BY <1>2, <1>3, <2>1, HeldStays
  <2>3. c.since <= now'
    BY <1>2, <1>3, AuthorityRows DEF Kept
  <2> QED
    BY <2>2, <2>3
<1>4. ASSUME c.op = "managing" PROVE Held(c.user, "roles.manage", c.since, DOMAIN assignment)'
  <2>1. Held(c.user, "roles.manage", c.since, DOMAIN assignment)
    BY <1>1, <1>4 DEF Knows, CallIsEarned
  <2> QED
    BY <1>2, <1>4, <2>1, HeldStays DEF Bearer, Permission
<1>5. ASSUME c.op = "delegated", NEW i \in c.open
      PROVE  i \in DOMAIN delegation' /\ delegation'[i].delegate = c.user
             /\ HeldSince(delegation[i], c.since)'
  <2>1. i \in DOMAIN delegation /\ delegation[i].delegate = c.user /\ HeldSince(delegation[i], c.since)
    BY <1>1, <1>5 DEF Knows, CallIsEarned
  <2> QED
    BY <1>2, <1>5, <2>1, DelegationStays DEF SamePair, Bearer
<1>6. ASSUME c.op = "assign"
      PROVE  Earned(c.row.by, DOMAIN assignment)' /\ Past(c.row.by)' /\ c.row.revokedBy = Nobody
  <2>1. PICK by \in Manager : by = c.row.by
    BY <1>6, CallIs, RowFields
  <2>2. Earned(by, DOMAIN assignment) /\ Past(by) /\ c.row.revokedBy = Nobody
    BY <1>1, <1>6, <2>1 DEF Knows, CallIsEarned
  <2>3. Earned(by, DOMAIN assignment)'
    BY <2>2, EarnedStays
  <2>4. by.since \in Nat
    BY AuthorityAssumption DEF Manager, Nobody
  <2>5. Past(by)'
    BY <2>2, <2>4, AuthorityRows DEF Past, Kept
  <2> QED
    BY <2>1, <2>2, <2>3, <2>5
<1>7. ASSUME c.op = "granted" PROVE Allowed(c.user, c.since)'
  <2>1. Allowed(c.user, c.since)
    BY <1>1, <1>7 DEF Knows
  <2> QED
    BY <1>2, <1>7, <2>1, AllowedStays DEF Bearer
<1>8. call'[x] = c
  BY <1>1
<1> QED
  BY <1>3, <1>4, <1>5, <1>6, <1>7, <1>8 DEF Knows, CallIsEarned

\* A call that is over knows nothing.
LEMMA QuietKnows ==
  ASSUME NEW x \in Request, call'[x].op \in {"idle", "delegate"}
  PROVE  Knows(x)'
BY DEF Knows, CallIsEarned, Bearer

\* What a call finds out while the rows stand still.
LEMMA LearnsWhileStill ==
  ASSUME AuthorityTypes, UNCHANGED <<now, disabled, role, assignment, delegation>>,
         NEW x \in Request, NEW c, call'[x] = c,
         c.op \in Bearer => c.since <= now /\ ActiveSince(c.user, c.since),
         c.op = "managing" => Held(c.user, "roles.manage", c.since, DOMAIN assignment),
         c.op = "delegated" =>
           \A i \in c.open : i \in DOMAIN delegation /\ delegation[i].delegate = c.user
                             /\ HeldSince(delegation[i], c.since),
         c.op = "assign" => Earned(c.row.by, DOMAIN assignment) /\ Past(c.row.by) /\ c.row.revokedBy = Nobody,
         c.op = "granted" => Allowed(c.user, c.since)
  PROVE  Knows(x)'
<1>1. \A u, t : ActiveSince(u, t)' <=> ActiveSince(u, t)
  BY DEF ActiveSince
<1>2. \A i, t : HeldSince(delegation[i], t)' <=> HeldSince(delegation[i], t)
  BY DEF HeldSince
<1>3. \A u, permission, t : Held(u, permission, t, DOMAIN assignment)' <=> Held(u, permission, t, DOMAIN assignment)
  BY DEF Held, HeldSince, ActiveSince
<1>4. \A u, t : Allowed(u, t)' <=> Allowed(u, t)
  BY <1>1, <1>2, <1>3 DEF Allowed
<1>5. \A by : (Earned(by, DOMAIN assignment)' <=> Earned(by, DOMAIN assignment)) /\ (Past(by)' <=> Past(by))
  BY <1>3 DEF Earned, Past
<1> QED
  BY <1>1, <1>2, <1>3, <1>4, <1>5 DEF Knows, CallIsEarned

\* The own call, at every kind of step that does not move the rows.
LEMMA MoverLearns ==
  ASSUME AuthorityTypes, NEW x \in Request, Knows(x),
         \/ \E u \in User, op \in {"manage", "use"} : BeginCall(x, u, op)
         \/ RequireManage(x) \/ CheckOwn(x) \/ ReadDelegations(x) \/ End(x)
         \/ \E u \in User, r \in DOMAIN role, p \in Period : BeginAssign(x, u, r, p)
         \/ \E u, v \in User, p \in Period : BeginDelegate(x, u, v, p)
         \/ \E i \in DOMAIN delegation : CheckDelegator(x, i)
  PROVE  Knows(x)'
<1>1. UNCHANGED <<now, disabled, role, assignment, delegation>>
  BY DEF BeginCall, RequireManage, CheckOwn, ReadDelegations, End, BeginAssign, BeginDelegate, CheckDelegator
<1>2. PICK c \in Call : c = call[x]
  BY CallOf
<1>3. x \in DOMAIN call
  BY DEF AuthorityTypes
<1>4. c.op \in Bearer =>
        /\ c \in BearerCall /\ c.user \in User /\ c.since \in Nat /\ c.since <= now
        /\ ActiveSince(c.user, c.since)
  BY <1>2, CallIs, AuthorityAssumption DEF Knows, CallIsEarned
<1>5. ASSUME NEW u \in User, NEW op \in {"manage", "use"}, BeginCall(x, u, op) PROVE Knows(x)'
  <2>1. PICK d : d = [op |-> op, user |-> u, since |-> now, open |-> {}]
    OBVIOUS
  <2>2. call'[x] = d /\ d.op = op /\ d.user = u /\ d.since = now /\ now <= now
    BY <1>3, <1>5, <2>1, AuthorityRows DEF BeginCall
  <2>3. ActiveSince(u, now)
    BY <1>5 DEF BeginCall, ActiveSince
  <2> QED
    BY <1>1, <2>2, <2>3, LearnsWhileStill
<1>6. CASE RequireManage(x)
  <2>1. c.op = "manage" /\ c.op \in Bearer
    BY <1>2, <1>6 DEF RequireManage, Bearer
  <2>2. CASE ~Holds(c.user, "roles.manage")
    <3>1. call'[x].op = "idle"
      BY <1>2, <1>3, <1>6, <2>2, QuietIsCall DEF RequireManage
    <3> QED
      BY <3>1, QuietKnows
  <2>3. CASE Holds(c.user, "roles.manage")
    <3>1. PICK d : d = [c EXCEPT !.op = "managing"]
      OBVIOUS
    <3>2. d.op = "managing" /\ d.user = c.user /\ d.since = c.since
      BY <1>4, <2>1, <3>1 DEF BearerCall
    <3>3. call'[x] = d
      BY <1>2, <1>3, <1>6, <2>3, <3>1 DEF RequireManage
    <3>4. Held(c.user, "roles.manage", c.since, DOMAIN assignment)
      BY <1>4, <2>1, <2>3, HoldsIsHeld
    <3> QED
      BY <1>1, <1>4, <2>1, <3>2, <3>3, <3>4, LearnsWhileStill
  <2> QED
    BY <2>2, <2>3
<1>7. CASE CheckOwn(x)
  <2>1. c.op = "use" /\ c.op \in Bearer
    BY <1>2, <1>7 DEF CheckOwn, Bearer
  <2>2. PICK op : op = IF Holds(c.user, "use") THEN "granted" ELSE "denied"
    OBVIOUS
  <2>3. PICK d : d = [c EXCEPT !.op = op]
    OBVIOUS
  <2>4. d.op = op /\ d.user = c.user /\ d.since = c.since
    BY <1>4, <2>1, <2>3 DEF BearerCall
  <2>5. call'[x] = d
    BY <1>2, <1>3, <1>7, <2>2, <2>3 DEF CheckOwn
  <2>6. op = "granted" => Allowed(c.user, c.since)
    <3>1. ASSUME op = "granted" PROVE Holds(c.user, "use")
      BY <2>2, <3>1
    <3> QED
      BY <1>4, <2>1, <3>1, HoldsIsHeld DEF Allowed
  <2>7. op \in {"granted", "denied"}
    BY <2>2
  <2> QED
    BY <1>1, <1>4, <2>1, <2>4, <2>5, <2>6, <2>7, LearnsWhileStill
<1>8. CASE ReadDelegations(x)
  <2>1. c.op = "denied" /\ c.op \in Bearer
    BY <1>2, <1>8 DEF ReadDelegations, Bearer
  <2>2. PICK open : open = DelegatedTo(c.user)
    OBVIOUS
  <2>3. PICK d : d = [c EXCEPT !.op = "delegated", !.open = open]
    OBVIOUS
  <2>4. d.op = "delegated" /\ d.user = c.user /\ d.since = c.since /\ d.open = open
    BY <1>4, <2>1, <2>3 DEF BearerCall
  <2>5. call'[x] = d
    BY <1>2, <1>3, <1>8, <2>2, <2>3 DEF ReadDelegations
  <2>6. \A i \in open : i \in DOMAIN delegation /\ delegation[i].delegate = c.user
                        /\ HeldSince(delegation[i], c.since)
    BY <1>4, <2>1, <2>2, HoldsIsHeld
  <2> QED
    BY <1>1, <1>4, <2>1, <2>4, <2>5, <2>6, LearnsWhileStill
<1>9. CASE End(x)
  BY <1>3, <1>9, QuietIsCall, QuietKnows DEF End
<1>10. ASSUME NEW u \in User, NEW r \in DOMAIN role, NEW p \in Period, BeginAssign(x, u, r, p)
       PROVE  Knows(x)'
  <2>1. c.op = "managing" /\ c.op \in Bearer
    BY <1>2, <1>10 DEF BeginAssign, Bearer
  <2>2. PICK by : by = By(x)
    OBVIOUS
  <2>3. by.user = c.user /\ by.since = c.since
    BY <1>2, <2>2 DEF By
  <2>4. Held(c.user, "roles.manage", c.since, DOMAIN assignment)
    BY <1>2, <2>1 DEF Knows, CallIsEarned
  <2>5. Earned(by, DOMAIN assignment) /\ Past(by)
    BY <1>4, <2>1, <2>3, <2>4 DEF Earned, Past
  <2>6. PICK row : row = [user |-> u, role |-> r, period |-> p, revoked |-> 0,
                          by |-> by, revokedBy |-> Nobody]
    OBVIOUS
  <2>7. PICK d : d = [op |-> "assign", row |-> row]
    OBVIOUS
  <2>8. call'[x] = d /\ d.op = "assign" /\ d.row.by = by /\ d.row.revokedBy = Nobody
    BY <1>3, <1>10, <2>2, <2>6, <2>7 DEF BeginAssign
  <2>9. d.op \notin Bearer
    BY <2>8 DEF Bearer
  <2> QED
    BY <1>1, <2>5, <2>8, <2>9, LearnsWhileStill
<1>11. ASSUME NEW u \in User, NEW v \in User, NEW p \in Period, BeginDelegate(x, u, v, p)
       PROVE  Knows(x)'
  BY <1>3, <1>11, QuietKnows DEF BeginDelegate
<1>12. ASSUME NEW i \in DOMAIN delegation, CheckDelegator(x, i) PROVE Knows(x)'
  <2>1. c.op = "delegated" /\ c.op \in Bearer /\ i \in c.open
    BY <1>2, <1>12 DEF CheckDelegator, Bearer
  <2>2. \A j \in c.open : j \in DOMAIN delegation /\ delegation[j].delegate = c.user
                          /\ HeldSince(delegation[j], c.since)
    BY <1>2, <2>1 DEF Knows, CallIsEarned
  <2>3. PICK v \in User : v = delegation[i].delegator
    BY AuthorityRows, RowFields
  <2>4. CASE Holds(v, "use")
    <3>1. PICK d : d = [c EXCEPT !.op = "granted"]
      OBVIOUS
    <3>2. d.op = "granted" /\ d.user = c.user /\ d.since = c.since
      BY <1>4, <2>1, <3>1 DEF BearerCall
    <3>3. call'[x] = d
      BY <1>2, <1>3, <1>12, <2>3, <2>4, <3>1 DEF CheckDelegator, DelegatorHolds
    <3>4. Held(v, "use", c.since, DOMAIN assignment)
      BY <1>4, <2>1, <2>4, HoldsIsHeld
    <3>5. Allowed(c.user, c.since)
      BY <1>4, <2>1, <2>2, <2>3, <3>4 DEF Allowed
    <3> QED
      BY <1>1, <1>4, <2>1, <3>2, <3>3, <3>5, LearnsWhileStill
  <2>5. CASE ~Holds(v, "use")
    <3>1. PICK open : open = c.open \ {i}
      OBVIOUS
    <3>2. PICK d : d = [c EXCEPT !.open = open]
      OBVIOUS
    <3>3. d.op = "delegated" /\ d.user = c.user /\ d.since = c.since /\ d.open = open
      BY <1>4, <2>1, <3>2 DEF BearerCall
    <3>4. call'[x] = d
      BY <1>2, <1>3, <1>12, <2>3, <2>5, <3>1, <3>2 DEF CheckDelegator, DelegatorHolds
    <3>5. \A j \in open : j \in c.open
      BY <3>1
    <3> QED
      BY <1>1, <1>4, <2>1, <2>2, <3>3, <3>4, <3>5, LearnsWhileStill
  <2> QED
    BY <2>4, <2>5
<1> QED
  BY <1>5, <1>6, <1>7, <1>8, <1>9, <1>10, <1>11, <1>12

\* The changes that were made, and the calls that made them.
Changes ==
  /\ ChangesAreEarned
  /\ \A i \in DOMAIN role : Past(role[i].by)
  /\ \A i \in DOMAIN assignment : Past(assignment[i].by) /\ Past(assignment[i].revokedBy)

LEMMA EveryoneKnows ==
  ASSUME AuthorityTypes, AuthorityNext, \A x \in Request : Knows(x), NEW y \in Request
  PROVE  Knows(y)'
<1>1. AuthorityTypes' /\ Kept
  BY AuthorityStepKeeps
<1>2. call \in [Request -> Call]
  BY DEF AuthorityTypes
<1>3. ASSUME call'[y] = call[y] PROVE Knows(y)'
  BY <1>1, <1>3, KnowsStays
<1>4. ASSUME Tick \/ (\E i \in DOMAIN delegation : RevokeDelegation(i)) \/ (\E u \in User : EndEmployment(u))
      PROVE  call'[y] = call[y]
  BY <1>4 DEF Tick, RevokeDelegation, EndEmployment
<1>5. ASSUME NEW x \in Request,
             \/ \E code \in Code, grants \in SUBSET Permission : CreateRole(x, code, grants)
             \/ \E i \in DOMAIN assignment : RevokeAssignment(x, i)
             \/ CommitAssign(x) \/ CommitDelegate(x)
      PROVE  Knows(y)'
  <2>1. call' = [call EXCEPT ![x] = Quiet]
    BY <1>5 DEF CreateRole, RevokeAssignment, CommitAssign, CommitDelegate
  <2>2. call'[x].op = "idle" /\ (y # x => call'[y] = call[y])
    BY <1>2, <2>1, QuietIsCall
  <2> QED
    BY <1>3, <2>2, QuietKnows
<1>6. ASSUME NEW x \in Request,
             \/ \E u \in User, op \in {"manage", "use"} : BeginCall(x, u, op)
             \/ RequireManage(x) \/ CheckOwn(x) \/ ReadDelegations(x) \/ End(x)
             \/ \E u \in User, r \in DOMAIN role, p \in Period : BeginAssign(x, u, r, p)
             \/ \E u, v \in User, p \in Period : BeginDelegate(x, u, v, p)
             \/ \E i \in DOMAIN delegation : CheckDelegator(x, i)
      PROVE  Knows(y)'
  <2>1. CASE y = x
    BY <1>6, <2>1, MoverLearns
  <2>2. CASE y # x
    <3>1. \E c : call' = [call EXCEPT ![x] = c]
      BY <1>2, <1>6 DEF BeginCall, RequireManage, CheckOwn, ReadDelegations, End, BeginAssign,
                        BeginDelegate, CheckDelegator
    <3>2. call'[y] = call[y]
      BY <1>2, <2>2, <3>1
    <3> QED
      BY <1>3, <3>2
  <2> QED
    BY <2>1, <2>2
<1> QED
  BY <1>3, <1>4, <1>5, <1>6 DEF AuthorityNext

\* A manager's change is earned.
LEMMA ManagerEarns ==
  ASSUME AuthorityTypes, NEW x \in Request, Knows(x), call[x].op = "managing"
  PROVE  By(x) \in Manager /\ Past(By(x)) /\ Earned(By(x), DOMAIN assignment)
<1>1. call[x].op \in Bearer
  BY DEF Bearer
<1>2. Held(call[x].user, "roles.manage", call[x].since, DOMAIN assignment) /\ call[x].since <= now
  BY <1>1 DEF Knows, CallIsEarned
<1>3. By(x).user = call[x].user /\ By(x).since = call[x].since
  BY DEF By
<1> QED
  BY <1>1, <1>2, <1>3, CallOf DEF Past, Earned

\* Past stays past.
LEMMA PastStays ==
  ASSUME AuthorityTypes, Kept, NEW by \in Manager, Past(by)
  PROVE  Past(by)'
<1>1. by.since \in Nat
  BY AuthorityAssumption DEF Manager, Nobody
<1> QED
  BY <1>1, AuthorityRows DEF Past, Kept

\* A new role, a new assignment, a revocation; what was there is as earned as it was.
LEMMA ChangesStay ==
  ASSUME AuthorityTypes, AuthorityNext, Changes, \A x \in Request : Knows(x)
  PROVE  Changes'
<1>1. AuthorityTypes' /\ Kept
  BY AuthorityStepKeeps
<1>2. \A by \in Manager : Past(by) =>
        /\ Past(by)'
        /\ \A rows \in SUBSET DOMAIN assignment : Earned(by, rows) => Earned(by, rows)'
        /\ Earned(by, DOMAIN assignment) => Earned(by, DOMAIN assignment)'
  BY <1>1, PastStays, EarnedStays
<1>3. \A i \in DOMAIN role : role[i].by \in Manager /\ role'[i] = role[i]
  BY <1>1, AuthorityRows DEF Kept
<1>4. \A i \in DOMAIN role : Earned(role[i].by, DOMAIN assignment)' /\ Past(role[i].by)'
  <2> SUFFICES ASSUME NEW i \in DOMAIN role
               PROVE  Earned(role[i].by, DOMAIN assignment)' /\ Past(role[i].by)'
    OBVIOUS
  <2>1. PICK by \in Manager : by = role[i].by
    BY <1>3
  <2>2. Earned(by, DOMAIN assignment) /\ Past(by)
    BY <2>1 DEF Changes, ChangesAreEarned
  <2>3. Earned(by, DOMAIN assignment)' /\ Past(by)'
    BY <1>2, <2>2
  <2> QED
    BY <1>3, <2>1, <2>3
<1>5. \A i \in DOMAIN assignment :
        /\ assignment[i].by \in Manager /\ assignment[i].revokedBy \in Manager
        /\ 1..(i - 1) \in SUBSET DOMAIN assignment
  BY AuthorityRows, RowFields
<1>6. ASSUME NEW i \in DOMAIN assignment, assignment'[i].by = assignment[i].by
      PROVE  /\ Earned(assignment[i].by, 1..(i - 1))' /\ Past(assignment[i].by)'
             /\ assignment'[i].revokedBy = assignment[i].revokedBy =>
                  Earned(assignment[i].revokedBy, DOMAIN assignment)' /\ Past(assignment[i].revokedBy)'
  <2>1. PICK by \in Manager : by = assignment[i].by
    BY <1>5
  <2>2. PICK revokedBy \in Manager : revokedBy = assignment[i].revokedBy
    BY <1>5
  <2>3. PICK rows \in SUBSET DOMAIN assignment : rows = 1..(i - 1)
    BY <1>5
  <2>4. /\ Earned(by, rows) /\ Past(by)
        /\ Earned(revokedBy, DOMAIN assignment) /\ Past(revokedBy)
    <3>1. /\ Earned(assignment[i].by, 1..(i - 1)) /\ Past(assignment[i].by)
          /\ Earned(assignment[i].revokedBy, DOMAIN assignment) /\ Past(assignment[i].revokedBy)
      BY DEF Changes, ChangesAreEarned
    <3> QED
      BY <2>1, <2>2, <2>3, <3>1
  <2>5. /\ Earned(by, rows)' /\ Past(by)'
        /\ Earned(revokedBy, DOMAIN assignment)' /\ Past(revokedBy)'
    BY <1>2, <2>4
  <2> QED
    BY <1>6, <2>1, <2>2, <2>3, <2>5
<1>7. ASSUME UNCHANGED role PROVE \A i \in DOMAIN role' : Earned(role[i].by, DOMAIN assignment)' /\ Past(role[i].by)'
  BY <1>4, <1>7
<1>8. ASSUME UNCHANGED assignment
      PROVE  \A i \in DOMAIN assignment' :
               /\ Earned(assignment[i].by, 1..(i - 1))' /\ Past(assignment[i].by)'
               /\ Earned(assignment[i].revokedBy, DOMAIN assignment)' /\ Past(assignment[i].revokedBy)'
  BY <1>6, <1>8
<1>9. ASSUME NEW x \in Request, NEW code \in Code, NEW grants \in SUBSET Permission,
             CreateRole(x, code, grants)
      PROVE  Changes'
  <2>1. PICK by : by = By(x)
    OBVIOUS
  <2>2. by \in Manager /\ Past(by) /\ Earned(by, DOMAIN assignment)
    BY <1>9, <2>1, ManagerEarns DEF CreateRole
  <2>3. PICK row : row = [code |-> code, grants |-> grants, by |-> by]
    OBVIOUS
  <2>4. row \in RoleRow /\ row.by = by
    BY <2>2, <2>3 DEF RoleRow
  <2>5. role' = Append(role, row) /\ UNCHANGED assignment /\ role \in Seq(RoleRow)
    BY <1>9, <2>1, <2>3 DEF CreateRole, AuthorityTypes, AuthorityTypeOK
  <2>6. DOMAIN role' = DOMAIN role \cup {Len(role) + 1} /\ role'[Len(role) + 1] = row
    BY <2>4, <2>5, RowsAppend
  <2>7. Past(by)' /\ Earned(by, DOMAIN assignment)'
    BY <1>2, <2>2
  <2>8. \A i \in DOMAIN role' : Earned(role[i].by, DOMAIN assignment)' /\ Past(role[i].by)'
    BY <1>4, <2>4, <2>6, <2>7
  <2> QED
    BY <1>8, <2>5, <2>8 DEF Changes, ChangesAreEarned
<1>10. ASSUME NEW x \in Request, CommitAssign(x) PROVE Changes'
  <2>1. PICK row : row = call[x].row
    OBVIOUS
  <2>2. row \in AssignmentRow /\ row.by \in Manager
    BY <1>10, <2>1, CallOf, CallIs, RowFields DEF CommitAssign
  <2>3. PICK by \in Manager : by = row.by
    BY <2>2
  <2>4. Earned(by, DOMAIN assignment) /\ Past(by) /\ row.revokedBy = Nobody
    BY <1>10, <2>1, <2>3 DEF CommitAssign, Knows, CallIsEarned
  <2>5. /\ assignment' = Append(assignment, row) /\ UNCHANGED role
        /\ assignment \in Seq(AssignmentRow)
    BY <1>10, <2>1 DEF CommitAssign, AuthorityTypes, AuthorityTypeOK
  <2>6. /\ DOMAIN assignment' = DOMAIN assignment \cup {Len(assignment) + 1}
        /\ assignment'[Len(assignment) + 1] = row
        /\ \A i \in DOMAIN assignment : assignment'[i] = assignment[i]
    BY <2>2, <2>5, RowsAppend
  <2>7. PICK n : n = Len(assignment) + 1
    OBVIOUS
  <2>8. PICK rows \in SUBSET DOMAIN assignment : rows = DOMAIN assignment
    OBVIOUS
  <2>9. rows = 1..(n - 1)
    BY <2>7, <2>8, AuthorityRows
  <2>10. Earned(by, rows)' /\ Past(by)'
    BY <1>2, <2>4, <2>8
  <2>11. Earned(Nobody, DOMAIN assignment)' /\ Past(Nobody)'
    BY <1>1, AuthorityRows DEF Earned, Past, Nobody, Kept
  <2>12. \A i \in DOMAIN assignment' :
           /\ Earned(assignment[i].by, 1..(i - 1))' /\ Past(assignment[i].by)'
           /\ Earned(assignment[i].revokedBy, DOMAIN assignment)' /\ Past(assignment[i].revokedBy)'
    <3>1. /\ Earned(assignment[n].by, 1..(n - 1))' /\ Past(assignment[n].by)'
          /\ Earned(assignment[n].revokedBy, DOMAIN assignment)' /\ Past(assignment[n].revokedBy)'
      BY <2>3, <2>4, <2>6, <2>7, <2>9, <2>10, <2>11
    <3> QED
      BY <1>6, <2>6, <2>7, <3>1
  <2> QED
    BY <1>7, <2>5, <2>12 DEF Changes, ChangesAreEarned
<1>11. ASSUME NEW x \in Request, NEW i \in DOMAIN assignment, RevokeAssignment(x, i) PROVE Changes'
  <2>1. PICK by : by = By(x)
    OBVIOUS
  <2>2. by \in Manager /\ Past(by) /\ Earned(by, DOMAIN assignment)
    BY <1>11, <2>1, ManagerEarns DEF RevokeAssignment
  <2>3. Past(by)' /\ Earned(by, DOMAIN assignment)'
    BY <1>2, <2>2
  <2>4. /\ DOMAIN assignment' = DOMAIN assignment /\ UNCHANGED role
        /\ \A j \in DOMAIN assignment \ {i} : assignment'[j] = assignment[j]
        /\ assignment'[i].by = assignment[i].by /\ assignment'[i].revokedBy = by
    BY <1>11, <2>1, RevokeAssignmentIs DEF RevokeAssignment
  <2>5. \A j \in DOMAIN assignment' :
           /\ Earned(assignment[j].by, 1..(j - 1))' /\ Past(assignment[j].by)'
           /\ Earned(assignment[j].revokedBy, DOMAIN assignment)' /\ Past(assignment[j].revokedBy)'
    <3>1. \A j \in DOMAIN assignment : assignment'[j].by = assignment[j].by
      BY <2>4
    <3> QED
      BY <1>6, <2>3, <2>4, <3>1
  <2> QED
    BY <1>7, <2>4, <2>5 DEF Changes, ChangesAreEarned
<1>12. ASSUME UNCHANGED <<role, assignment>> PROVE Changes'
  BY <1>7, <1>8, <1>12 DEF Changes, ChangesAreEarned
<1> QED
  BY <1>9, <1>10, <1>11, <1>12 DEF AuthorityNext, Tick, RevokeDelegation, EndEmployment, BeginCall,
     RequireManage, BeginAssign, BeginDelegate, CommitDelegate, CheckOwn, ReadDelegations, End, CheckDelegator

LEMMA OneDelegationIs ==
  OneDelegationAtATime <=>
    \A i, j \in DOMAIN delegation :
       (i # j /\ SamePair(delegation[i], delegation[j]) /\ delegation[i].revoked = 0 /\ delegation[j].revoked = 0)
         => Apart(delegation[i], delegation[j])
BY DEF OneDelegationAtATime, SamePair, Apart

\* What is apart stays so: a delegation keeps its period, and there is less time to come.
LEMMA ApartStays ==
  ASSUME AuthorityTypes, Kept, NEW d, NEW e, Apart(d, e)
  PROVE  Apart(d, e)' /\ Apart(e, d)'
BY AuthorityRows DEF Apart, Kept

\* A delegation that is in force after a step was before, if it was there at all.
LEMMA StillOpen ==
  ASSUME AuthorityTypes, Kept, NEW i \in DOMAIN delegation, delegation'[i].revoked = 0
  PROVE  delegation[i].revoked = 0
BY AuthorityRows DEF Kept

\* The periods of the rows there were.
LEMMA RowsApartStay ==
  ASSUME AuthorityTypes, Kept, NEW i \in DOMAIN delegation, NEW e, Apart(delegation[i], e)
  PROVE  Apart(delegation[i], e)' /\ Apart(e, delegation[i])'
<1>1. PICK d : d = delegation[i]
  OBVIOUS
<1>2. Apart(d, e)' /\ Apart(e, d)'
  BY <1>1, ApartStays
<1>3. delegation'[i].period = d.period
  BY <1>1 DEF Kept
<1> QED
  BY <1>2, <1>3 DEF Apart

LEMMA PairsStayApart ==
  ASSUME AuthorityTypes, Kept, NEW i \in DOMAIN delegation, NEW j \in DOMAIN delegation,
         Apart(delegation[i], delegation[j])
  PROVE  Apart(delegation[i], delegation[j])'
<1>1. PICK e : e = delegation[j]
  OBVIOUS
<1>2. Apart(delegation[i], e)'
  BY <1>1, RowsApartStay
<1>3. delegation'[j].period = e.period
  BY <1>1 DEF Kept
<1> QED
  BY <1>2, <1>3 DEF Apart

\* What the overlap check has established.
LEMMA CheckedApart ==
  ASSUME AuthorityTypes, NEW u \in User, NEW v \in User, NEW p \in Period,
         ~HasOverlappingDelegation(u, v, p), NEW i \in DOMAIN delegation, NEW row, row.period = p,
         delegation[i].delegator = u, delegation[i].delegate = v, delegation[i].revoked = 0
  PROVE  Apart(delegation[i], row)
<1>1. delegation[i].period.from \in Nat /\ delegation[i].period.to \in Nat /\ p.from \in Nat /\ p.to \in Nat
  BY AuthorityRows, RowFields, AuthorityAssumption
<1>2. ~(now < delegation[i].period.to /\ p.from <= delegation[i].period.to /\ delegation[i].period.from <= p.to)
  BY DEF HasOverlappingDelegation
<1> QED
  BY <1>1, <1>2, AuthorityRows DEF Apart

\* No delegation is added, and no request begins to add one.
LEMMA DelegationsRest ==
  ASSUME AuthorityTypes, Kept, OneDelegationAtATime, \A x \in Request : DelegatesAlone(x),
         DOMAIN delegation' = DOMAIN delegation,
         \A x \in Request : call'[x].op = "delegate" => call'[x] = call[x]
  PROVE  OneDelegationAtATime' /\ \A x \in Request : DelegatesAlone(x)'
<1>1. \A i \in DOMAIN delegation :
        /\ SamePair(delegation'[i], delegation[i])
        /\ delegation'[i].revoked = 0 => delegation[i].revoked = 0
  BY StillOpen DEF Kept
<1>2. \A i, j \in DOMAIN delegation : Apart(delegation[i], delegation[j]) => Apart(delegation[i], delegation[j])'
  BY PairsStayApart
<1>3. \A i, j \in DOMAIN delegation :
        SamePair(delegation'[i], delegation'[j]) => SamePair(delegation[i], delegation[j])
  BY <1>1 DEF SamePair
<1>4. \A i, j \in DOMAIN delegation' :
        (i # j /\ SamePair(delegation[i], delegation[j])' /\ delegation'[i].revoked = 0 /\ delegation'[j].revoked = 0)
          => Apart(delegation[i], delegation[j])'
  BY <1>1, <1>2, <1>3, OneDelegationIs DEF SamePair
<1>5. OneDelegationAtATime'
  BY <1>4 DEF OneDelegationAtATime, SamePair, Apart
<1>6. ASSUME NEW x \in Request PROVE DelegatesAlone(x)'
  <2> SUFFICES ASSUME call'[x].op = "delegate" PROVE DelegatesAlone(x)'
    BY DEF DelegatesAlone
  <2>1. PICK row : row = call[x].row
    OBVIOUS
  <2>2. call'[x] = call[x] /\ call[x].op = "delegate" /\ call'[x].row = row
    BY <2>1
  <2>3. \A i \in DOMAIN delegation : (SamePair(delegation[i], row) /\ delegation[i].revoked = 0)
          => Apart(delegation[i], row)
    BY <2>1, <2>2 DEF DelegatesAlone
  <2>4. \A i \in DOMAIN delegation : Apart(delegation[i], row) => Apart(delegation[i], row)'
    BY RowsApartStay
  <2>5. \A i \in DOMAIN delegation' : (SamePair(delegation[i], row)' /\ delegation'[i].revoked = 0)
          => Apart(delegation[i], row)'
    BY <1>1, <2>3, <2>4 DEF SamePair
  <2>6. \A y \in Request \ {x} : call'[y].op = "delegate" =>
          {row.delegator, row.delegate} \cap {call'[y].row.delegator, call'[y].row.delegate} = {}
    BY <2>1, <2>2 DEF DelegatesAlone
  <2> QED
    BY <2>2, <2>5, <2>6 DEF DelegatesAlone, SamePair, Apart
<1> QED
  BY <1>5, <1>6

LEMMA BeginDelegateAlone ==
  ASSUME AuthorityTypes, OneDelegationAtATime, \A y \in Request : DelegatesAlone(y),
         NEW x \in Request, NEW u \in User, NEW v \in User, NEW p \in Period, BeginDelegate(x, u, v, p)
  PROVE  OneDelegationAtATime' /\ \A y \in Request : DelegatesAlone(y)'
<1>1. PICK row : row = [delegator |-> u, delegate |-> v, period |-> p, revoked |-> 0]
  OBVIOUS
<1>2. row.delegator = u /\ row.delegate = v /\ row.period = p
  BY <1>1
<1>3. PICK c : c = [op |-> "delegate", row |-> row]
  OBVIOUS
<1>4. c.op = "delegate" /\ c.row = row
  BY <1>3
<1>5. call \in [Request -> Call] /\ call' = [call EXCEPT ![x] = c] /\ UNCHANGED <<now, delegation>>
  BY <1>1, <1>3 DEF BeginDelegate, AuthorityTypes
<1>6. call'[x] = c /\ \A y \in Request \ {x} : call'[y] = call[y]
  BY <1>5
<1>7. OneDelegationAtATime'
  BY <1>5 DEF OneDelegationAtATime
<1>8. \A i \in DOMAIN delegation : (SamePair(delegation[i], row) /\ delegation[i].revoked = 0)
        => Apart(delegation[i], row)
  BY <1>2, CheckedApart DEF BeginDelegate, SamePair
<1>9. \A y \in Request : call[y].op = "delegate" => {u, v} \cap {call[y].row.delegator, call[y].row.delegate} = {}
  BY DEF BeginDelegate, Locked
<1>10. DelegatesAlone(x)'
  <2>1. \A i \in DOMAIN delegation' : (SamePair(delegation[i], row)' /\ delegation'[i].revoked = 0)
          => Apart(delegation[i], row)'
    BY <1>5, <1>8 DEF SamePair, Apart
  <2>2. \A y \in Request \ {x} : call'[y].op = "delegate" =>
          {row.delegator, row.delegate} \cap {call'[y].row.delegator, call'[y].row.delegate} = {}
    BY <1>2, <1>6, <1>9
  <2> QED
    BY <1>4, <1>6, <2>1, <2>2 DEF DelegatesAlone, SamePair, Apart
<1>11. ASSUME NEW y \in Request \ {x} PROVE DelegatesAlone(y)'
  <2> SUFFICES ASSUME call'[y].op = "delegate" PROVE DelegatesAlone(y)'
    BY DEF DelegatesAlone
  <2>1. PICK other : other = call[y].row
    OBVIOUS
  <2>2. call[y].op = "delegate" /\ call'[y].row = other
    BY <1>6, <2>1
  <2>3. \A i \in DOMAIN delegation' : (SamePair(delegation[i], other)' /\ delegation'[i].revoked = 0)
          => Apart(delegation[i], other)'
    BY <1>5, <2>1, <2>2 DEF DelegatesAlone, SamePair, Apart
  <2>4. \A z \in Request \ {x, y} : call'[z].op = "delegate" =>
          {other.delegator, other.delegate} \cap {call'[z].row.delegator, call'[z].row.delegate} = {}
    BY <1>6, <2>1, <2>2 DEF DelegatesAlone
  <2>5. {other.delegator, other.delegate} \cap {call'[x].row.delegator, call'[x].row.delegate} = {}
    BY <1>2, <1>4, <1>6, <1>9, <2>1, <2>2
  <2>6. \A z \in Request \ {y} : call'[z].op = "delegate" =>
          {other.delegator, other.delegate} \cap {call'[z].row.delegator, call'[z].row.delegate} = {}
    BY <2>4, <2>5
  <2> QED
    BY <2>2, <2>3, <2>6 DEF DelegatesAlone, SamePair, Apart
<1> QED
  BY <1>7, <1>10, <1>11

LEMMA CommitDelegateAlone ==
  ASSUME AuthorityTypes, OneDelegationAtATime, \A y \in Request : DelegatesAlone(y),
         NEW x \in Request, CommitDelegate(x)
  PROVE  OneDelegationAtATime' /\ \A y \in Request : DelegatesAlone(y)'
<1>1. PICK row : row = call[x].row
  OBVIOUS
<1>2. row \in DelegationRow /\ call[x].op = "delegate"
  BY <1>1, CallOf, CallIs DEF CommitDelegate
<1>3. /\ delegation' = Append(delegation, row) /\ call' = [call EXCEPT ![x] = Quiet] /\ UNCHANGED now
      /\ delegation \in Seq(DelegationRow)
  BY <1>1 DEF CommitDelegate, AuthorityTypes, AuthorityTypeOK
<1>4. PICK n : n = Len(delegation) + 1
  OBVIOUS
<1>5. /\ DOMAIN delegation' = DOMAIN delegation \cup {n} /\ n \notin DOMAIN delegation
      /\ delegation'[n] = row /\ \A i \in DOMAIN delegation : delegation'[i] = delegation[i]
  BY <1>2, <1>3, <1>4, RowsAppend
<1>6. call'[x].op = "idle" /\ \A y \in Request \ {x} : call'[y] = call[y]
  BY <1>3, CallOver
<1>7. \A d, e : (Apart(d, e)' <=> Apart(d, e)) /\ (Apart(d, e) => Apart(e, d))
  BY <1>3 DEF Apart
<1>8. \A i \in DOMAIN delegation : (SamePair(delegation[i], row) /\ delegation[i].revoked = 0)
        => Apart(delegation[i], row)
  BY <1>1, <1>2 DEF DelegatesAlone
<1>9. OneDelegationAtATime'
  <2>1. \A i, j \in DOMAIN delegation :
          (i # j /\ SamePair(delegation[i], delegation[j]) /\ delegation[i].revoked = 0 /\ delegation[j].revoked = 0)
            => Apart(delegation[i], delegation[j])
    BY OneDelegationIs
  <2>2. \A i, j \in DOMAIN delegation' :
          (i # j /\ SamePair(delegation'[i], delegation'[j]) /\ delegation'[i].revoked = 0 /\ delegation'[j].revoked = 0)
            => Apart(delegation'[i], delegation'[j])
    <3>1. \A i \in DOMAIN delegation : SamePair(row, delegation[i]) <=> SamePair(delegation[i], row)
      BY DEF SamePair
    <3> QED
      BY <1>5, <1>7, <1>8, <2>1, <3>1
  <2> QED
    BY <1>3, <2>2 DEF OneDelegationAtATime, SamePair, Apart
<1>10. ASSUME NEW y \in Request PROVE DelegatesAlone(y)'
  <2>1. CASE y = x
    BY <1>6, <2>1 DEF DelegatesAlone
  <2>2. CASE y # x /\ call[y].op = "delegate"
    <3>1. PICK other : other = call[y].row
      OBVIOUS
    <3>2. call'[y].op = "delegate" /\ call'[y].row = other
      BY <1>6, <2>2, <3>1
    <3>3. {other.delegator, other.delegate} \cap {row.delegator, row.delegate} = {}
      BY <1>1, <1>2, <2>2, <3>1 DEF DelegatesAlone
    <3>4. ~SamePair(row, other)
      BY <3>3 DEF SamePair
    <3>5. \A i \in DOMAIN delegation : (SamePair(delegation[i], other) /\ delegation[i].revoked = 0)
            => Apart(delegation[i], other)
      BY <2>2, <3>1 DEF DelegatesAlone
    <3>6. \A i \in DOMAIN delegation' : (SamePair(delegation'[i], other) /\ delegation'[i].revoked = 0)
            => Apart(delegation'[i], other)
      BY <1>5, <3>4, <3>5
    <3>7. \A z \in Request \ {y} : call'[z].op = "delegate" =>
            {other.delegator, other.delegate} \cap {call'[z].row.delegator, call'[z].row.delegate} = {}
      BY <1>6, <2>2, <3>1 DEF DelegatesAlone
    <3> QED
      BY <1>3, <3>2, <3>6, <3>7 DEF DelegatesAlone, SamePair, Apart
  <2>3. CASE y # x /\ call[y].op # "delegate"
    BY <1>6, <2>3 DEF DelegatesAlone
  <2> QED
    BY <2>1, <2>2, <2>3
<1> QED
  BY <1>9, <1>10

\* Only a request that holds the locks of both adds a delegation.
LEMMA DelegationStep ==
  ASSUME AuthorityTypes, AuthorityNext, OneDelegationAtATime, \A y \in Request : DelegatesAlone(y)
  PROVE  OneDelegationAtATime' /\ \A y \in Request : DelegatesAlone(y)'
<1>1. AuthorityTypes' /\ Kept
  BY AuthorityStepKeeps
<1>2. call \in [Request -> Call]
  BY DEF AuthorityTypes
<1>3. ASSUME Tick \/ (\E i \in DOMAIN delegation : RevokeDelegation(i)) \/ (\E u \in User : EndEmployment(u))
      PROVE  UNCHANGED call /\ DOMAIN delegation' = DOMAIN delegation
  BY <1>3 DEF Tick, RevokeDelegation, EndEmployment
<1>4. ASSUME NEW x \in Request,
             \/ \E u \in User, op \in {"manage", "use"} : BeginCall(x, u, op)
             \/ RequireManage(x) \/ CheckOwn(x) \/ ReadDelegations(x) \/ End(x)
             \/ \E u \in User, r \in DOMAIN role, p \in Period : BeginAssign(x, u, r, p)
             \/ \E i \in DOMAIN delegation : CheckDelegator(x, i)
             \/ \E code \in Code, grants \in SUBSET Permission : CreateRole(x, code, grants)
             \/ \E i \in DOMAIN assignment : RevokeAssignment(x, i)
             \/ CommitAssign(x)
      PROVE  /\ DOMAIN delegation' = DOMAIN delegation
             /\ \A y \in Request : call'[y].op = "delegate" => call'[y] = call[y]
  <2>1. UNCHANGED delegation
    BY <1>4 DEF BeginCall, RequireManage, CheckOwn, ReadDelegations, End, BeginAssign, CheckDelegator,
                CreateRole, RevokeAssignment, CommitAssign
  <2>2. \E c : call' = [call EXCEPT ![x] = c]
    BY <1>2, <1>4 DEF BeginCall, RequireManage, CheckOwn, ReadDelegations, End, BeginAssign, CheckDelegator,
                CreateRole, RevokeAssignment, CommitAssign
  <2>3. call'[x].op # "delegate"
    <3>1. PICK c \in Call : c = call[x]
      BY CallOf
    <3>3. Quiet.op = "idle"
      BY QuietIsCall
    <3>4. ASSUME NEW u \in User, NEW op \in {"manage", "use"}, BeginCall(x, u, op) PROVE call'[x].op # "delegate"
      BY <1>2, <3>4 DEF BeginCall
    <3>5. ASSUME RequireManage(x) PROVE call'[x].op # "delegate"
      <4>1. c.op \in Bearer /\ c \in BearerCall
        BY <3>1, <3>5, CallIs DEF RequireManage, Bearer
      <4>2. [c EXCEPT !.op = "managing"].op = "managing"
        BY <4>1 DEF BearerCall
      <4> QED
        BY <1>2, <3>1, <3>3, <3>5, <4>2 DEF RequireManage
    <3>6. ASSUME CheckOwn(x) PROVE call'[x].op # "delegate"
      <4>1. c.op \in Bearer /\ c \in BearerCall
        BY <3>1, <3>6, CallIs DEF CheckOwn, Bearer
      <4>2. [c EXCEPT !.op = "granted"].op = "granted" /\ [c EXCEPT !.op = "denied"].op = "denied"
        BY <4>1 DEF BearerCall
      <4> QED
        BY <1>2, <3>1, <3>6, <4>2 DEF CheckOwn
    <3>7. ASSUME ReadDelegations(x) PROVE call'[x].op # "delegate"
      <4>1. c.op \in Bearer /\ c \in BearerCall
        BY <3>1, <3>7, CallIs DEF ReadDelegations, Bearer
      <4>2. PICK open : open = DelegatedTo(c.user)
        OBVIOUS
      <4>3. [c EXCEPT !.op = "delegated", !.open = open].op = "delegated"
        BY <4>1 DEF BearerCall
      <4> QED
        BY <1>2, <3>1, <3>7, <4>2, <4>3 DEF ReadDelegations
    <3>8. ASSUME NEW i \in DOMAIN delegation, CheckDelegator(x, i) PROVE call'[x].op # "delegate"
      <4>1. c.op = "delegated" /\ c \in BearerCall
        BY <3>1, <3>8, CallIs DEF CheckDelegator, Bearer
      <4>2. PICK open : open = c.open \ {i}
        OBVIOUS
      <4>3. [c EXCEPT !.open = open].op = "delegated" /\ [c EXCEPT !.op = "granted"].op = "granted"
        BY <4>1 DEF BearerCall
      <4> QED
        BY <1>2, <3>1, <3>8, <4>2, <4>3 DEF CheckDelegator
    <3>9. ASSUME NEW u \in User, NEW r \in DOMAIN role, NEW p \in Period, BeginAssign(x, u, r, p)
          PROVE  call'[x].op # "delegate"
      BY <1>2, <3>9 DEF BeginAssign
    <3>10. ASSUME \/ End(x) \/ CommitAssign(x)
                  \/ \E code \in Code, grants \in SUBSET Permission : CreateRole(x, code, grants)
                  \/ \E i \in DOMAIN assignment : RevokeAssignment(x, i)
           PROVE  call'[x].op # "delegate"
      BY <1>2, <3>3, <3>10 DEF End, CommitAssign, CreateRole, RevokeAssignment
    <3> QED
      BY <1>4, <3>4, <3>5, <3>6, <3>7, <3>8, <3>9, <3>10
  <2>4. \A y \in Request \ {x} : call'[y] = call[y]
    BY <1>2, <2>2
  <2> QED
    BY <2>1, <2>3, <2>4
<1>5. ASSUME NEW x \in Request, NEW u \in User, NEW v \in User, NEW p \in Period, BeginDelegate(x, u, v, p)
      PROVE  OneDelegationAtATime' /\ \A y \in Request : DelegatesAlone(y)'
  BY <1>5, BeginDelegateAlone
<1>6. ASSUME NEW x \in Request, CommitDelegate(x)
      PROVE  OneDelegationAtATime' /\ \A y \in Request : DelegatesAlone(y)'
  BY <1>6, CommitDelegateAlone
<1>7. ASSUME DOMAIN delegation' = DOMAIN delegation,
             \A x \in Request : call'[x].op = "delegate" => call'[x] = call[x]
      PROVE  OneDelegationAtATime' /\ \A y \in Request : DelegatesAlone(y)'
  BY <1>1, <1>7, DelegationsRest
<1> QED
  BY <1>3, <1>4, <1>5, <1>6, <1>7 DEF AuthorityNext

LEMMA AuthorityInvIs ==
  AuthorityInv <=> /\ AuthorityTypes /\ OneDelegationAtATime /\ Changes
                   /\ \A x \in Request : DelegatesAlone(x) /\ Knows(x)
BY UseIsAllowed DEF AuthorityInv, ChangesArePast, AccessIsEarned, Changes, Knows

LEMMA AuthorityInitInv == AuthorityInit => AuthorityInv
<1> SUFFICES ASSUME AuthorityInit PROVE AuthorityInv
  OBVIOUS
<1>1. PICK u \in User, p \in Period :
        assignment = <<[user |-> u, role |-> 1, period |-> p, revoked |-> 0, by |-> Nobody, revokedBy |-> Nobody]>>
  BY DEF AuthorityInit
<1>2. Nobody \in Manager /\ Nobody.since = 0
  BY DEF Manager, Nobody
<1>3. PICK row : row = [user |-> u, role |-> 1, period |-> p, revoked |-> 0, by |-> Nobody, revokedBy |-> Nobody]
  OBVIOUS
<1>4. row \in AssignmentRow /\ row.role = 1 /\ row.by = Nobody /\ row.revokedBy = Nobody
  BY <1>2, <1>3, AuthorityAssumption DEF AssignmentRow
<1>5. assignment = <<row>>
  BY <1>1, <1>3
<1>6. assignment \in Seq(AssignmentRow) /\ Len(assignment) = 1 /\ DOMAIN assignment = 1..1 /\ assignment[1] = row
  BY <1>4, <1>5
<1>7. PICK admin, staff : /\ admin = [code |-> "admin", grants |-> {"roles.manage"}, by |-> Nobody]
                          /\ staff = [code |-> "staff", grants |-> {"use"}, by |-> Nobody]
  OBVIOUS
<1>8. admin \in RoleRow /\ staff \in RoleRow /\ admin.by = Nobody /\ staff.by = Nobody
  BY <1>2, <1>7 DEF RoleRow, Permission
<1>9. role = <<admin, staff>>
  BY <1>7 DEF AuthorityInit
<1>10. role \in Seq(RoleRow) /\ DOMAIN role = 1..2 /\ \A i \in DOMAIN role : role[i].by = Nobody
  BY <1>8, <1>9
<1>11. delegation \in Seq(DelegationRow) /\ Len(delegation) = 0 /\ DOMAIN delegation = {}
  BY DEF AuthorityInit
<1>12. /\ now = 1 /\ now \in 1..LastMoment /\ disabled \in [User -> 0..now]
       /\ call \in [Request -> Call] /\ \A x \in Request : call[x].op = "idle"
  BY QuietIsCall, AuthorityAssumption DEF AuthorityInit
<1>13. AuthorityTypes
  BY <1>4, <1>6, <1>10, <1>11, <1>12, AuthorityBoundsAssumption DEF AuthorityTypes, AuthorityTypeOK
<1>14. OneDelegationAtATime /\ Changes
  BY <1>2, <1>4, <1>6, <1>10, <1>11, <1>12
  DEF OneDelegationAtATime, Changes, ChangesAreEarned, Earned, Past
<1>15. \A x \in Request : DelegatesAlone(x) /\ Knows(x)
  BY <1>12 DEF DelegatesAlone, Knows, CallIsEarned, Bearer
<1> QED
  BY <1>13, <1>14, <1>15, AuthorityInvIs

LEMMA AuthorityStepInv == AuthorityInv /\ [AuthorityNext]_authorityVars => AuthorityInv'
<1> SUFFICES ASSUME AuthorityInv, [AuthorityNext]_authorityVars PROVE AuthorityInv'
  OBVIOUS
<1>1. /\ AuthorityTypes /\ OneDelegationAtATime /\ Changes
      /\ \A x \in Request : DelegatesAlone(x) /\ Knows(x)
  BY AuthorityInvIs
<1>2. CASE AuthorityNext
  <2>1. AuthorityTypes'
    BY <1>1, <1>2, AuthorityStepKeeps
  <2>2. Changes' /\ \A x \in Request : Knows(x)'
    BY <1>1, <1>2, ChangesStay, EveryoneKnows
  <2>3. OneDelegationAtATime' /\ \A x \in Request : DelegatesAlone(x)'
    BY <1>1, <1>2, DelegationStep
  <2>4. UseIsEarned'
    BY <2>2 DEF UseIsEarned, Allowed, Knows
  <2> QED
    BY <2>1, <2>2, <2>3, <2>4 DEF AuthorityInv, ChangesArePast, AccessIsEarned, Changes, Knows
<1>3. CASE UNCHANGED authorityVars
  BY <1>3 DEF authorityVars, AuthorityInv, AuthorityTypes, AuthorityTypeOK, OneDelegationAtATime, DelegatesAlone,
     SamePair, Apart, ChangesArePast, Past, AccessIsEarned, UseIsEarned, ChangesAreEarned, CallIsEarned, Earned,
     Held, HeldSince, ActiveSince
<1> QED
  BY <1>2, <1>3

\* Roles, assignments, delegations and calls stay as AuthorityInv says, whatever the
\* requests, the clock and the terminations do between two reads of a call.
THEOREM AuthorityInvariant == AuthoritySpec => []AuthorityInv
BY AuthorityInitInv, AuthorityStepInv, PTL DEF AuthoritySpec

\* The rows are well formed: an assignment names a role there is, nobody delegates to himself.
THEOREM AuthorityRowsWellFormed == AuthoritySpec => []AuthorityTypeOK
<1>1. AuthorityInv => AuthorityTypeOK
  BY DEF AuthorityInv, AuthorityTypes
<1> QED
  BY <1>1, AuthorityInvariant, PTL

\* However many requests delegate at once, one user never delegates the permission twice to the
\* same user for a moment still to come: the locks on both rows close the gap after the check.
THEOREM DelegatedOnce == AuthoritySpec => []OneDelegationAtATime
<1>1. AuthorityInv => OneDelegationAtATime
  BY DEF AuthorityInv
<1> QED
  BY <1>1, AuthorityInvariant, PTL

\* Whoever is let in, and whoever changed roles or assignments, was entitled to it at some
\* moment of his own call, though its reads are apart and rows change between them.
THEOREM AuthorityIsEarned == AuthoritySpec => []AccessIsEarned
<1>1. AuthorityInv => AccessIsEarned
  BY DEF AuthorityInv
<1> QED
  BY <1>1, AuthorityInvariant, PTL
===========================================================================
