----------------------- MODULE TerminationProofs -----------------------
(***************************************************************************)
(* Proofs about the termination cases and their document: the linked        *)
(* process asks at its phase only, a transaction between its two steps has   *)
(* its case to itself, and employment ends by the whole protocol.           *)
(***************************************************************************)
EXTENDS Termination, FiniteSetTheorems, TLAPS

(* The document.  An upload that is still fresh has seen an unsettled document; whatever settles *)
(* it outdates the uploads, so none of them adds a version after the signature.                  *)

DocumentInv ==
  /\ DocumentTypeOK
  /\ SettledContentStands
  /\ signed # {} => record.status \in Settled
  /\ record.status = "registered" => record.registered
  /\ record.status \in Settled => \A u \in Upload : upload[u] # "fresh"

(* The cases.  A process asks only at its phase, so that an act on it is one at the phase the    *)
(* case expects; a case that is over, or has its end scheduled, has a process that is over.      *)

Asks(p) == \E s \in Stage : p.task[<<s, 1>>] = "active"

AtPhase(p) == \A s \in Stage : p.task[<<s, 1>>] \in {"active", "returned"} => s = p.phase

CaseInv(c) ==
  /\ AtPhase(process[c])
  /\ case[c].status \in {"scheduled"} \cup Final =>
       /\ ~Asks(process[c])
       /\ process[c].status = IF case[c].status = "scheduled" THEN "completed" ELSE case[c].status
  /\ case[c].status \notin {"offboarding", "scheduled"} => \A t \in Task : task[c][t] # "pending"
  /\ case[c].status \in {"offboarding", "scheduled", "completed"} => record.registered
  /\ case[c].status \in {"scheduled", "completed"} => case[c].date \in Day
  /\ case[c].status = "completed" => /\ ~employed /\ case[c].date <= today
                                     /\ \A t \in Required : task[c][t] = "done"

\* What a transaction between its two steps may rely on: no other one has its case.
OpenInv(x) ==
  /\ x.op = "initiate" => case[x.case].status = "none"
  /\ x.op = "cancel" => /\ case[x.case].status \notin {"none", "completed"}
                        /\ \A t \in Task : task[x.case][t] = "pending" => t \in x.pending

TerminationInv ==
  /\ TypeOK
  /\ DocumentInv
  /\ \A c \in Case : CaseInv(c)
  /\ \A x \in open : OpenInv(x)
  /\ \A x, y \in open : x.case = y.case => x = y
  /\ ~employed => \E c \in Case : case[c].status = "completed"

---------------------------------------------------------------------------
(* The document *)

LEMMA DocumentInits ==
  ASSUME DocumentInit
  PROVE  DocumentInv
BY MaxVersionAssumption DEF DocumentInit, DocumentInv, DocumentTypeOK, SettledContentStands, RecordRow, Settled,
                            Signatures, Version

LEMMA DocumentStep ==
  ASSUME DocumentInv, DocumentNext
  PROVE  DocumentInv' /\ (record.registered => record'.registered)
<1>1. /\ record \in RecordRow /\ record.versions \in 0..MaxVersion /\ record.versions \in Nat
      /\ record.registered \in BOOLEAN /\ MaxVersion \in Nat
      /\ immutable \subseteq Version /\ signed \subseteq Version
  BY MaxVersionAssumption DEF DocumentInv, DocumentTypeOK, RecordRow, Signatures
<1>2. Outdated \in [Upload -> {"idle", "fresh", "outdated"}] /\ \A u \in Upload : Outdated[u] # "fresh"
  BY DEF Outdated
<1>3. CASE \E u \in Upload : BeginUpload(u)
  BY <1>3 DEF BeginUpload, DocumentInv, DocumentTypeOK, SettledContentStands
<1>4. CASE \E u \in Upload : FailUpload(u)
  BY <1>4 DEF FailUpload, DocumentInv, DocumentTypeOK, SettledContentStands
<1>5. ASSUME NEW u \in Upload, AddVersion(u)
      PROVE  DocumentInv' /\ (record.registered => record'.registered)
  <2>1. record.status \notin Settled /\ signed = {} /\ ~record.registered
    BY <1>5 DEF AddVersion, DocumentInv, SettledContentStands
  <2>2. record.versions + 1 \in 0..MaxVersion
    BY <1>1, <1>5 DEF AddVersion
  <2>3. PICK next : next = [record EXCEPT !.status = "uploaded", !.versions = record.versions + 1]
    OBVIOUS
  <2>4. next \in RecordRow /\ next.status = "uploaded" /\ next.registered = record.registered
    BY <1>1, <2>2, <2>3 DEF RecordRow
  <2>5. /\ record' = next /\ immutable' = immutable /\ signed' = signed
        /\ upload' = [Outdated EXCEPT ![u] = "idle"]
    BY <1>5, <2>3 DEF AddVersion
  <2>6. DocumentTypeOK'
    BY <1>1, <1>2, <2>4, <2>5 DEF DocumentTypeOK, Signatures
  <2>7. SettledContentStands'
    BY <2>1, <2>4, <2>5 DEF SettledContentStands
  <2> QED
    BY <2>1, <2>4, <2>5, <2>6, <2>7 DEF DocumentInv, Settled
<1>6. CASE Register
  <2>1. PICK next : next = [record EXCEPT !.status = "registered", !.registered = TRUE]
    OBVIOUS
  <2>2. /\ next \in RecordRow /\ next.status = "registered" /\ next.registered /\ next.versions = record.versions
    BY <1>1, <2>1 DEF RecordRow, Settled
  <2>3. record' = next /\ immutable' = 1..record.versions /\ signed' = signed /\ upload' = Outdated
    BY <1>6, <2>1 DEF Register
  <2>4. 1..record.versions \subseteq Version
    BY <1>1 DEF Version
  <2>5. DocumentTypeOK'
    BY <1>1, <1>2, <2>2, <2>3, <2>4 DEF DocumentTypeOK, Signatures
  <2>6. \A v \in signed : v = record.versions /\ v \in 1..record.versions
    BY <1>1 DEF DocumentInv, SettledContentStands, Version
  <2>7. SettledContentStands'
    BY <2>2, <2>3, <2>6 DEF SettledContentStands, Settled
  <2> QED
    BY <1>2, <2>2, <2>3, <2>5, <2>7 DEF DocumentInv, Settled
<1>7. CASE Sign
  <2>1. PICK next : next = [record EXCEPT !.status = "signed"]
    OBVIOUS
  <2>2. /\ next \in RecordRow /\ next.status = "signed" /\ next.registered = record.registered
        /\ next.versions = record.versions
    BY <1>1, <2>1 DEF RecordRow, Settled
  <2>3. /\ record' = next /\ immutable' = immutable \cup {record.versions}
        /\ signed' = signed \cup {record.versions} /\ upload' = Outdated /\ record.versions > 0
    BY <1>7, <2>1 DEF Sign
  <2>4. record.versions \in Version
    BY <1>1, <2>3 DEF Version
  <2>5. DocumentTypeOK'
    BY <1>1, <1>2, <2>2, <2>3, <2>4 DEF DocumentTypeOK, Signatures
  <2>6. /\ \A v \in signed : v = record.versions /\ v \in immutable
        /\ record.registered => immutable = 1..record.versions
    BY DEF DocumentInv, SettledContentStands
  <2>7. record.registered => immutable' = 1..record.versions
    BY <1>1, <2>3, <2>6
  <2>8. SettledContentStands'
    BY <2>2, <2>3, <2>6, <2>7 DEF SettledContentStands, Settled
  <2> QED
    BY <1>2, <2>2, <2>3, <2>5, <2>8 DEF DocumentInv, Settled
<1> QED
  BY <1>3, <1>4, <1>5, <1>6, <1>7 DEF DocumentNext, BeginUpload, FailUpload

LEMMA DocumentStutter ==
  ASSUME DocumentInv, UNCHANGED documentVars
  PROVE  DocumentInv'
BY DEF documentVars, DocumentInv, DocumentTypeOK, SettledContentStands

\* A document record on its own: signing and registering settle its content, whatever uploads,
\* signatures and registrations meet (add_version, signature, register).
THEOREM DocumentsSettle == DocumentSpec => []SettledContentStands
<1>1. DocumentInit => DocumentInv
  BY DocumentInits
<1>2. DocumentInv /\ [DocumentNext]_documentVars => DocumentInv'
  BY DocumentStep, DocumentStutter
<1>3. DocumentInv => SettledContentStands
  BY DEF DocumentInv
<1> QED
  BY <1>1, <1>2, <1>3, PTL DEF DocumentSpec

---------------------------------------------------------------------------
(* The linked process, with one holder at each step. *)

LEMMA ProcessFields ==
  ASSUME NEW p \in Workflow!Process
  PROVE  /\ p.phase \in Stage /\ p.status \in {"active", "configuration_error"} \cup Workflow!Terminal
         /\ p.task \in [Stage \X {1} -> {"none", "active"} \cup Workflow!Decision]
         /\ \A s \in Stage : <<s, 1>> \in Stage \X {1} /\ p.task[<<s, 1>>] \in {"none", "active"} \cup Workflow!Decision
BY DEF Workflow!Process

\* _close_linked_instance and the end of a linked process.
LEMMA ClosedAsks ==
  ASSUME NEW p \in Workflow!Process, NEW status \in Workflow!Terminal, AtPhase(p)
  PROVE  \E q \in Workflow!Process :
           /\ q = Workflow!Closed(p, status) /\ q.status = status /\ ~Asks(q) /\ AtPhase(q)
<1>1. PICK tasks : tasks = [k \in Stage \X {1} |-> IF p.task[k] = "active" THEN "cancelled" ELSE p.task[k]]
  OBVIOUS
<1>2. tasks \in [Stage \X {1} -> {"none", "active"} \cup Workflow!Decision]
  BY <1>1, ProcessFields DEF Workflow!Decision
<1>3. PICK q : q = [p EXCEPT !.status = status, !.task = tasks]
  OBVIOUS
<1>4. q \in Workflow!Process /\ q.status = status /\ q.task = tasks /\ q.phase = p.phase
  BY <1>2, <1>3 DEF Workflow!Process
<1>5. \A s \in Stage : q.task[<<s, 1>>] = IF p.task[<<s, 1>>] = "active" THEN "cancelled" ELSE p.task[<<s, 1>>]
  BY <1>1, <1>4
<1>6. q = Workflow!Closed(p, status)
  BY <1>1, <1>3 DEF Workflow!Closed
<1> QED
  BY <1>4, <1>5, <1>6 DEF Asks, AtPhase

\* One decision on the task of the phase.
LEMMA RecordedIs ==
  ASSUME NEW p \in Workflow!Process, NEW s \in Stage, NEW action \in Workflow!Action
  PROVE  \E q \in Workflow!Process :
           /\ q = Workflow!Recorded(p, s, 1, action) /\ q.phase = p.phase /\ q.status = p.status
           /\ q.task[<<s, 1>>] = Workflow!Verdict(action) /\ Workflow!Verdict(action) \in Workflow!Decision
           /\ \A x \in Stage : x # s => q.task[<<x, 1>>] = p.task[<<x, 1>>]
<1>1. Workflow!Verdict(action) \in Workflow!Decision
  BY DEF Workflow!Verdict, Workflow!Decision, Workflow!Action
<1>2. PICK q : q = [p EXCEPT !.task[<<s, 1>>] = Workflow!Verdict(action)]
  OBVIOUS
<1>3. /\ q \in Workflow!Process /\ q.phase = p.phase /\ q.status = p.status
      /\ q.task = [p.task EXCEPT ![<<s, 1>>] = Workflow!Verdict(action)]
  BY <1>1, <1>2 DEF Workflow!Process
<1>4. \A x \in Stage : q.task[<<x, 1>>] = IF x = s THEN Workflow!Verdict(action) ELSE p.task[<<x, 1>>]
  BY <1>3, ProcessFields
<1>5. q = Workflow!Recorded(p, s, 1, action)
  BY <1>2 DEF Workflow!Recorded
<1> QED
  BY <1>1, <1>3, <1>4, <1>5

LEMMA TasksAdded ==
  ASSUME NEW p \in Workflow!Process, NEW s \in Stage, NEW users
  PROVE  \E q \in Workflow!Process :
           /\ q = Workflow!AddTasks(p, s, users) /\ q.phase = s
           /\ \A x \in Stage : q.task[<<x, 1>>] = IF x = s /\ 1 \in users THEN "active" ELSE p.task[<<x, 1>>]
<1>1. PICK tasks : tasks = [k \in Stage \X {1} |-> IF k[1] = s /\ k[2] \in users THEN "active" ELSE p.task[k]]
  OBVIOUS
<1>2. tasks \in [Stage \X {1} -> {"none", "active"} \cup Workflow!Decision]
  BY <1>1, ProcessFields
<1>3. PICK q : q = [p EXCEPT !.phase = s, !.task = tasks]
  OBVIOUS
<1>4. q \in Workflow!Process /\ q.phase = s /\ q.task = tasks
  BY <1>2, <1>3 DEF Workflow!Process
<1>5. \A x \in Stage : q.task[<<x, 1>>] = IF x = s /\ 1 \in users THEN "active" ELSE p.task[<<x, 1>>]
  BY <1>1, <1>4
<1>6. q = Workflow!AddTasks(p, s, users)
  BY <1>1, <1>3 DEF Workflow!AddTasks
<1> QED
  BY <1>4, <1>5, <1>6

\* The route: one approval is enough, and leads on or to the end.
LEMMA RouteIs ==
  /\ \A s \in Stage : TerminationRoute.required[s] = 1 /\ TerminationRoute.mode[s] = "all"
  /\ TerminationRoute.first = "hr_review"
  /\ \A s \in Stage, action \in Workflow!Action :
       TerminationRoute.goto[<<s, action>>] =
         IF action = "approve" /\ s = "hr_review" THEN "signature_registration"
         ELSE IF action = "approve" /\ s = "signature_registration" THEN "offboarding" ELSE "none"
  /\ \A s \in Stage : Holders[s] = {1}
  /\ {"approve", "return", "reject"} \subseteq Workflow!Action
  /\ \A s \in Stage : TerminationRoute.allowed[s] \subseteq Workflow!Action
<1>1. \A k \in Stage \X Workflow!Action : TerminationRoute.goto[k] =
        CASE k = <<"hr_review", "approve">> -> "signature_registration"
          [] k = <<"signature_registration", "approve">> -> "offboarding"
          [] OTHER -> "none"
  BY DEF TerminationRoute
<1>2. ASSUME NEW s \in Stage, NEW action \in Workflow!Action
      PROVE  TerminationRoute.goto[<<s, action>>] =
               IF action = "approve" /\ s = "hr_review" THEN "signature_registration"
               ELSE IF action = "approve" /\ s = "signature_registration" THEN "offboarding" ELSE "none"
  <2>1. <<s, action>> \in Stage \X Workflow!Action
    OBVIOUS
  <2> QED
    BY <1>1, <2>1
<1>3. \A s \in Stage : TerminationRoute.required[s] = 1 /\ TerminationRoute.mode[s] = "all" /\ Holders[s] = {1}
  BY DEF TerminationRoute, Holders
<1>4. \A s \in Stage : TerminationRoute.allowed[s] = IF s = "offboarding" THEN {"approve", "cancel"}
                                                     ELSE {"approve", "return", "reject"}
  BY DEF TerminationRoute
<1>5. TerminationRoute.first = "hr_review"
  BY DEF TerminationRoute
<1> QED
  BY <1>2, <1>3, <1>4, <1>5 DEF Workflow!Action

\* Nothing waits: the one approval completes the step.
LEMMA NothingWaits ==
  ASSUME NEW p \in Workflow!Process, NEW s \in Stage, NEW action \in Workflow!Action
  PROVE  ~Workflow!Waits(p, TerminationRoute, s, 1, action)
<1> SUFFICES ASSUME action = "approve"
             PROVE  Workflow!Ready(Workflow!Recorded(p, s, 1, action), TerminationRoute, s)
  BY DEF Workflow!Waits
<1>1. PICK q \in Workflow!Process :
        q = Workflow!Recorded(p, s, 1, action) /\ q.task[<<s, 1>>] = Workflow!Verdict(action)
  BY RecordedIs
<1>2. q.task[<<s, 1>>] = "completed"
  BY <1>1 DEF Workflow!Verdict
<1>3. Workflow!With(q, s, "completed") = {1} /\ Workflow!With(q, s, "active") = {}
  BY <1>2 DEF Workflow!With
<1>4. Workflow!Cardinality(Workflow!With(q, s, "completed")) = 1
  <2>1. Workflow!Cardinality({1}) = Cardinality({1})
    BY DEF Workflow!Cardinality, Cardinality
  <2> QED
    BY <1>3, <2>1, FS_Singleton
<1>5. TerminationRoute.required[s] = 1 /\ TerminationRoute.mode[s] = "all"
  BY RouteIs
<1>6. Workflow!Ready(q, TerminationRoute, s)
  BY <1>3, <1>4, <1>5 DEF Workflow!Ready
<1> QED
  BY <1>1, <1>6

\* A step of mode "all" leaves the tasks as they were recorded.
LEMMA SettledIs ==
  ASSUME NEW p, NEW s \in Stage, NEW action
  PROVE  Workflow!Settled(p, TerminationRoute, s, action) = p
BY RouteIs DEF Workflow!Settled

\* act_task and act_linked_task on the task of the phase.
LEMMA ActedAsks ==
  ASSUME NEW p \in Workflow!Process, AtPhase(p), NEW s \in Stage, p.task[<<s, 1>>] = "active",
         NEW action \in Workflow!Action
  PROVE  /\ \E q \in Workflow!Process :
              q = Workflow!Acted(p, TerminationRoute, Holders, s, 1, action) /\ AtPhase(q)
         /\ \E q \in Workflow!Process :
              /\ q = Workflow!ActedLinked(p, TerminationRoute, Holders, s, 1, action) /\ AtPhase(q)
              /\ action = "reject" => q.status = "rejected" /\ ~Asks(q)
              /\ action = "approve" /\ s = "offboarding" => q.status = "completed" /\ ~Asks(q)
<1>1. s = p.phase /\ \A x \in Stage : x # s => p.task[<<x, 1>>] \notin {"active", "returned"}
  BY DEF AtPhase
<1>2. PICK r \in Workflow!Process :
        /\ r = Workflow!Recorded(p, s, 1, action) /\ r.phase = p.phase /\ r.status = p.status
        /\ r.task[<<s, 1>>] = Workflow!Verdict(action) /\ Workflow!Verdict(action) \in Workflow!Decision
        /\ \A x \in Stage : x # s => r.task[<<x, 1>>] = p.task[<<x, 1>>]
  BY RecordedIs
<1>3. AtPhase(r)
  BY <1>1, <1>2 DEF AtPhase
<1>4. PICK t : t = TerminationRoute.goto[<<s, action>>]
  OBVIOUS
<1>5. /\ t # "none" => action = "approve" /\ t \in Stage
      /\ action = "reject" => t = "none"
      /\ action = "approve" /\ s = "offboarding" => t = "none"
  BY <1>4, RouteIs DEF Stage
<1>6. Workflow!Settled(r, TerminationRoute, s, action) = r
  BY SettledIs
<1>7. ~Workflow!Waits(p, TerminationRoute, s, 1, action)
  BY NothingWaits
<1>8. ASSUME t # "none", NEW users
      PROVE  \E q \in Workflow!Process : q = Workflow!AddTasks(r, t, users) /\ AtPhase(q)
  <2>1. PICK q \in Workflow!Process :
          /\ q = Workflow!AddTasks(r, t, users) /\ q.phase = t
          /\ \A x \in Stage : q.task[<<x, 1>>] = IF x = t /\ 1 \in users THEN "active" ELSE r.task[<<x, 1>>]
    BY <1>5, <1>8, TasksAdded
  <2>2. r.task[<<s, 1>>] = "completed"
    BY <1>2, <1>5, <1>8 DEF Workflow!Verdict
  <2>3. \A x \in Stage : r.task[<<x, 1>>] \notin {"active", "returned"}
    BY <1>1, <1>2, <2>2
  <2> QED
    BY <2>1, <2>3 DEF AtPhase
<1>9. \E q \in Workflow!Process :
        q = Workflow!Acted(p, TerminationRoute, Holders, s, 1, action) /\ AtPhase(q)
  <2>1. CASE t = "none"
    <3>1. PICK status \in Workflow!Terminal : status = IF action = "cancel" THEN "cancelled" ELSE "completed"
      BY DEF Workflow!Terminal
    <3>2. PICK q : q = [r EXCEPT !.status = status]
      OBVIOUS
    <3>3. q \in Workflow!Process /\ q.task = r.task /\ q.phase = r.phase
      BY <3>1, <3>2 DEF Workflow!Process
    <3>4. q = Workflow!Acted(p, TerminationRoute, Holders, s, 1, action)
      BY <1>2, <1>4, <1>6, <1>7, <2>1, <3>1, <3>2 DEF Workflow!Acted
    <3> QED
      BY <1>3, <3>3, <3>4 DEF AtPhase
  <2>2. CASE t # "none"
    <3>1. PICK users : users = Workflow!Chosen(TerminationRoute, t, Holders[t])
      OBVIOUS
    <3>2. CASE Workflow!Resolved(TerminationRoute, t, Holders[t])
      <4>1. Workflow!Acted(p, TerminationRoute, Holders, s, 1, action) = Workflow!AddTasks(r, t, users)
        BY <1>2, <1>4, <1>6, <1>7, <2>2, <3>1, <3>2 DEF Workflow!Acted
      <4> QED
        BY <1>8, <2>2, <4>1
    <3>3. CASE ~Workflow!Resolved(TerminationRoute, t, Holders[t])
      <4>1. PICK q : q = [r EXCEPT !.phase = t, !.status = "configuration_error"]
        OBVIOUS
      <4>2. q \in Workflow!Process /\ q.task = r.task /\ q.phase = t
        BY <1>5, <2>2, <4>1 DEF Workflow!Process
      <4>3. q = Workflow!Acted(p, TerminationRoute, Holders, s, 1, action)
        BY <1>2, <1>4, <1>6, <1>7, <2>2, <3>3, <4>1 DEF Workflow!Acted, Workflow!Configured
      <4>4. r.task[<<s, 1>>] = "completed"
        BY <1>2, <1>5, <2>2 DEF Workflow!Verdict
      <4> QED
        BY <1>1, <1>2, <4>2, <4>3, <4>4 DEF AtPhase
    <3> QED
      BY <3>2, <3>3
  <2> QED
    BY <2>1, <2>2
<1>10. \E q \in Workflow!Process :
         /\ q = Workflow!ActedLinked(p, TerminationRoute, Holders, s, 1, action) /\ AtPhase(q)
         /\ action = "reject" => q.status = "rejected" /\ ~Asks(q)
         /\ action = "approve" /\ s = "offboarding" => q.status = "completed" /\ ~Asks(q)
  <2>1. CASE t # "none"
    <3>1. PICK users : users = Workflow!Chosen(TerminationRoute, t, Holders[t])
      OBVIOUS
    <3>2. Workflow!ActedLinked(p, TerminationRoute, Holders, s, 1, action) = Workflow!AddTasks(r, t, users)
      BY <1>2, <1>4, <1>6, <1>7, <2>1, <3>1 DEF Workflow!ActedLinked
    <3> QED
      BY <1>5, <1>8, <2>1, <3>2
  <2>2. CASE t = "none" /\ action = "return"
    <3>1. PICK q : q = [r EXCEPT !.status = "active"]
      OBVIOUS
    <3>2. q \in Workflow!Process /\ q.task = r.task /\ q.phase = r.phase
      BY <3>1 DEF Workflow!Process
    <3>3. q = Workflow!ActedLinked(p, TerminationRoute, Holders, s, 1, action)
      BY <1>2, <1>4, <1>7, <2>2, <3>1 DEF Workflow!ActedLinked
    <3> QED
      BY <1>3, <2>2, <3>2, <3>3 DEF AtPhase
  <2>3. CASE t = "none" /\ action # "return"
    <3>1. PICK status \in Workflow!Terminal : status = Workflow!FinalStatus(action)
      BY DEF Workflow!Terminal, Workflow!FinalStatus
    <3>2. Workflow!ActedLinked(p, TerminationRoute, Holders, s, 1, action) = Workflow!Closed(p, status)
      BY <1>2, <1>4, <1>7, <2>3, <3>1 DEF Workflow!ActedLinked
    <3>3. /\ action = "reject" => status = "rejected"
          /\ action = "approve" => status = "completed"
      BY <3>1 DEF Workflow!FinalStatus
    <3> QED
      BY <3>1, <3>2, <3>3, ClosedAsks
  <2> QED
    BY <2>1, <2>2, <2>3
<1> QED
  BY <1>9, <1>10

LEMMA StartedIs ==
  \E q \in Workflow!Process : q = Workflow!Started(TerminationRoute, Holders) /\ AtPhase(q)
<1> DEFINE users == Workflow!Chosen(TerminationRoute, "hr_review", Holders["hr_review"])
<1>1. PICK f : f = Workflow!Fresh("hr_review")
  OBVIOUS
<1>2. /\ f \in Workflow!Process /\ f.phase = "hr_review"
      /\ \A s \in Stage : f.task[<<s, 1>>] = "none"
  BY <1>1 DEF Workflow!Fresh, Workflow!Process, Stage
<1>3. PICK a \in Workflow!Process :
        /\ a = Workflow!AddTasks(f, "hr_review", users) /\ a.phase = "hr_review"
        /\ \A x \in Stage : a.task[<<x, 1>>] = IF x = "hr_review" /\ 1 \in users THEN "active" ELSE f.task[<<x, 1>>]
  <2>1. "hr_review" \in Stage
    BY DEF Stage
  <2> HIDE DEF users
  <2> QED
    BY <1>2, <2>1, TasksAdded
<1>4. AtPhase(a)
  BY <1>2, <1>3 DEF AtPhase
<1>5. PICK b : b = [f EXCEPT !.phase = "hr_review", !.status = "configuration_error"]
  OBVIOUS
<1>6. b \in Workflow!Process /\ AtPhase(b) /\ b = Workflow!Configured(f, "hr_review")
  BY <1>2, <1>5 DEF Workflow!Process, AtPhase, Workflow!Configured
<1>7. Workflow!Started(TerminationRoute, Holders) \in {a, b}
  BY <1>1, <1>3, <1>6, RouteIs DEF Workflow!Started
<1> QED
  BY <1>3, <1>4, <1>6, <1>7

LEMMA ResumedIs ==
  ASSUME NEW p \in Workflow!Process, AtPhase(p), NEW s \in Stage, p.task[<<s, 1>>] = "returned"
  PROVE  \E q \in Workflow!Process : q = Workflow!Resumed(p, s, 1) /\ AtPhase(q)
<1>1. PICK q : q = [p EXCEPT !.status = "active", !.task[<<s, 1>>] = "active"]
  OBVIOUS
<1>2. /\ q \in Workflow!Process /\ q.phase = p.phase
      /\ q.task = [p.task EXCEPT ![<<s, 1>>] = "active"]
  BY <1>1 DEF Workflow!Process
<1>3. \A x \in Stage : q.task[<<x, 1>>] = IF x = s THEN "active" ELSE p.task[<<x, 1>>]
  BY <1>2, ProcessFields
<1>4. q = Workflow!Resumed(p, s, 1)
  BY <1>1 DEF Workflow!Resumed
<1> QED
  BY <1>2, <1>3, <1>4 DEF AtPhase

\* The linked act of a case finds the task of the phase it expects.
LEMMA AdvancesIs ==
  ASSUME TypeOK, NEW c \in Case, AtPhase(process[c]), NEW stage, NEW action \in Workflow!Action,
         Advances(c, stage, action)
  PROVE  \E q \in Workflow!Process :
           /\ process' = [process EXCEPT ![c] = q] /\ AtPhase(q)
           /\ action = "reject" => q.status = "rejected" /\ ~Asks(q)
           /\ action = "approve" /\ stage = "offboarding" => q.status = "completed" /\ ~Asks(q)
<1>1. PICK p \in Workflow!Process : p = process[c]
  BY DEF TypeOK
<1>2. PICK k \in Workflow!LinkedTasks(p, Holders, 1) :
        process' = [process EXCEPT ![c] = Workflow!ActedLinked(p, TerminationRoute, Holders, k[1], 1, action)]
  BY <1>1 DEF Advances
<1>3. PICK s \in Stage : k[1] = s /\ p.task[<<s, 1>>] = "active"
  BY DEF Workflow!LinkedTasks
<1>4. s = stage
  BY <1>1, <1>3 DEF AtPhase, Advances
<1>5. PICK q \in Workflow!Process :
        /\ q = Workflow!ActedLinked(p, TerminationRoute, Holders, s, 1, action) /\ AtPhase(q)
        /\ action = "reject" => q.status = "rejected" /\ ~Asks(q)
        /\ action = "approve" /\ s = "offboarding" => q.status = "completed" /\ ~Asks(q)
  BY <1>1, <1>3, ActedAsks
<1> QED
  BY <1>2, <1>3, <1>4, <1>5

---------------------------------------------------------------------------
(* Rows *)

LEMMA StatusSet ==
  ASSUME TypeOK, NEW c \in Case, NEW v \in CaseStatus
  PROVE  \E next \in [Case -> CaseRow] :
           /\ next = [case EXCEPT ![c].status = v]
           /\ next[c].status = v /\ next[c].date = case[c].date
           /\ \A d \in Case : d # c => next[d] = case[d]
<1>1. PICK row : row = [case[c] EXCEPT !.status = v]
  OBVIOUS
<1>2. row \in CaseRow /\ row.status = v /\ row.date = case[c].date
  BY <1>1 DEF TypeOK, CaseRow
<1>3. [case EXCEPT ![c].status = v] = [case EXCEPT ![c] = row]
  BY <1>1
<1>4. case \in [Case -> CaseRow]
  BY DEF TypeOK
<1>5. PICK next : next = [case EXCEPT ![c] = row]
  OBVIOUS
<1>6. next \in [Case -> CaseRow] /\ next[c] = row /\ \A d \in Case : d # c => next[d] = case[d]
  BY <1>2, <1>4, <1>5
<1> QED
  BY <1>2, <1>3, <1>5, <1>6

LEMMA TasksCreated ==
  ASSUME TypeOK, NEW c \in Case, NEW types
  PROVE  \E next \in [Case -> [Task -> TaskStatus]] :
           next = WithTasks(c, types) /\ \A d \in Case : d # c => next[d] = task[d]
<1>1. PICK row : row = [t \in Task |-> IF t \in types /\ task[c][t] = "none" THEN "pending" ELSE task[c][t]]
  OBVIOUS
<1>2. row \in [Task -> TaskStatus] /\ task \in [Case -> [Task -> TaskStatus]]
  BY <1>1 DEF TypeOK, TaskStatus
<1>3. PICK next : next = [task EXCEPT ![c] = row]
  OBVIOUS
<1>4. next = WithTasks(c, types)
  BY <1>1, <1>3 DEF WithTasks
<1> QED
  BY <1>2, <1>3, <1>4

\* A step on one case: what has to be shown of it.
LEMMA OneCase ==
  ASSUME TerminationInv, NEW c \in Case, UNCHANGED <<documentVars, today>>,
         employed' = employed \/ ~employed',
         \A d \in Case : d # c => /\ case'[d] = case[d] /\ process'[d] = process[d] /\ task'[d] = task[d],
         open' \subseteq open,
         case' \in [Case -> CaseRow], process' \in [Case -> Workflow!Process],
         task' \in [Case -> [Task -> TaskStatus]],
         checklist' \in [Case -> [Form \cup {"order"} -> ItemStatus]],
         assignment' \in [Assignment -> AssignmentRow],
         employed' \in BOOLEAN,
         CaseInv(c)',
         \A x \in open' : x.case = c => OpenInv(x)',
         employed' # employed \/ case[c].status = "completed" => case'[c].status = "completed"
  PROVE  TerminationInv'
<1>1. DocumentInv'
  BY DocumentStutter DEF TerminationInv
<1>2. TypeOK'
  BY <1>1 DEF TypeOK, TerminationInv, DocumentInv
<1>3. ASSUME NEW d \in Case PROVE CaseInv(d)'
  <2>1. CASE d = c
    BY <2>1
  <2>2. CASE d # c
    BY <2>2 DEF TerminationInv, CaseInv, documentVars
  <2> QED
    BY <2>1, <2>2
<1>4. ASSUME NEW x \in open' PROVE OpenInv(x)'
  <2>1. CASE x.case = c
    BY <1>4, <2>1
  <2>2. CASE x.case # c
    <3>1. x \in open /\ x.case \in Case
      BY <1>4 DEF TerminationInv, TypeOK, Transaction
    <3> QED
      BY <2>2, <3>1 DEF TerminationInv, OpenInv
  <2> QED
    BY <2>1, <2>2
<1>5. ~employed' => \E d \in Case : case'[d].status = "completed"
  BY DEF TerminationInv
<1>6. \A x, y \in open' : x.case = y.case => x = y
  BY DEF TerminationInv
<1> QED
  BY <1>1, <1>2, <1>3, <1>4, <1>5, <1>6 DEF TerminationInv

---------------------------------------------------------------------------
(* The operations *)

LEMMA InitHolds ==
  ASSUME Init
  PROVE  TerminationInv
<1>1. PICK f : f = Workflow!Fresh("hr_review")
  OBVIOUS
<1>2. f \in Workflow!Process /\ AtPhase(f) /\ f.status = "active"
  BY <1>1 DEF Workflow!Fresh, Workflow!Process, Stage, AtPhase
<1>3. /\ case = [c \in Case |-> [status |-> "none", date |-> Unset]]
      /\ process = [c \in Case |-> f] /\ open = {} /\ employed = TRUE
      /\ task = [c \in Case |-> [t \in Task |-> "none"]] /\ today = 1
  BY <1>1 DEF Init
<1>4. DocumentInv
  BY DocumentInits DEF Init
<1>5. assignment \in [Assignment -> AssignmentRow]
  <2>1. Forever \in Day \cup {Forever}
    OBVIOUS
  <2> QED
    BY <2>1, AssignmentAssumption DEF Init, AssignmentRow
<1>6. 1 \in Day
  BY AssignmentAssumption DEF Day
<1>7. TypeOK
  BY <1>2, <1>3, <1>4, <1>5, <1>6
     DEF Init, TypeOK, DocumentInv, CaseRow, CaseStatus, Unset, TaskStatus, ItemStatus
<1>8. \A c \in Case : CaseInv(c)
  BY <1>2, <1>3 DEF CaseInv, Final
<1> QED
  BY <1>3, <1>4, <1>7, <1>8 DEF TerminationInv

\* What every operation finds.
LEMMA CaseFields ==
  ASSUME TerminationInv, NEW c \in Case
  PROVE  /\ TypeOK /\ CaseInv(c) /\ case[c] \in CaseRow /\ case[c].status \in CaseStatus
         /\ case[c].date \in Day \cup {Unset} /\ process[c] \in Workflow!Process /\ AtPhase(process[c])
         /\ task[c] \in [Task -> TaskStatus] /\ case \in [Case -> CaseRow]
         /\ process \in [Case -> Workflow!Process] /\ task \in [Case -> [Task -> TaskStatus]]
         /\ checklist \in [Case -> [Form \cup {"order"} -> ItemStatus]]
         /\ assignment \in [Assignment -> AssignmentRow] /\ employed \in BOOLEAN
         /\ today \in Day
         /\ \A x \in open : x.case = c => OpenInv(x)
         /\ CaseFree(c) <=> \A x \in open : x.case # c
BY DEF TerminationInv, TypeOK, CaseInv, CaseRow, CaseFree

LEMMA ActOnTaskKeeps ==
  ASSUME TerminationInv, NEW c \in Case, NEW s \in Stage, NEW action \in Workflow!Action,
         ActOnTask(c, s, action)
  PROVE  TerminationInv'
<1>1. PICK q \in Workflow!Process :
        q = Workflow!Acted(process[c], TerminationRoute, Holders, s, 1, action) /\ AtPhase(q)
  BY CaseFields, ActedAsks DEF ActOnTask
<1>2. /\ process' = [process EXCEPT ![c] = q] /\ process[c].task[<<s, 1>>] = "active"
      /\ UNCHANGED <<case, task, checklist, assignment, employed, open, today, documentVars>>
  BY <1>1 DEF ActOnTask
<1>3. process' \in [Case -> Workflow!Process] /\ process'[c] = q /\ \A d \in Case : d # c => process'[d] = process[d]
  BY <1>2, CaseFields
<1>4. case[c].status \notin {"scheduled"} \cup Final
  BY <1>2, CaseFields DEF CaseInv, Asks
<1>5. CaseInv(c)'
  BY <1>1, <1>2, <1>3, <1>4, CaseFields DEF CaseInv, documentVars, Final
<1>6. \A x \in open : x.case = c => OpenInv(x)'
  BY <1>2, CaseFields DEF OpenInv
<1> QED
  BY <1>2, <1>3, <1>5, <1>6, CaseFields, OneCase

LEMMA DecideKeeps ==
  ASSUME TerminationInv, NEW c \in Case, NEW decision \in {"approve", "return", "reject"},
         Decide(c, decision)
  PROVE  TerminationInv'
<1>1. PICK v : v = CASE decision = "approve" -> Following(case[c].status)
                     [] decision = "return" -> "returned" [] OTHER -> "rejected"
  OBVIOUS
<1>2. case[c].status \in Review
  BY DEF Decide
<1>3. /\ v \in Review \cup {"registration", "returned", "rejected"}
      /\ v = "rejected" <=> decision = "reject"
  BY <1>1, <1>2 DEF Following, Review
<1>4. PICK next \in [Case -> CaseRow] :
        /\ next = [case EXCEPT ![c].status = v]
        /\ next[c].status = v /\ next[c].date = case[c].date
        /\ \A d \in Case : d # c => next[d] = case[d]
  <2>1. v \in CaseStatus
    BY <1>3 DEF CaseStatus, Review, Final
  <2>2. TypeOK
    BY CaseFields
  <2> QED
    BY <2>1, <2>2, StatusSet
<1>5. /\ case' = next
      /\ UNCHANGED <<task, checklist, assignment, employed, open, today, documentVars>>
      /\ \A x \in open : x.case # c
  BY <1>1, <1>4, CaseFields DEF Decide
<1>6. PICK q \in Workflow!Process :
        /\ process' = [process EXCEPT ![c] = q] /\ AtPhase(q)
        /\ decision = "reject" => q.status = "rejected" /\ ~Asks(q)
  <2>1. CASE UNCHANGED process /\ decision = "approve"
    <3>1. process' = [process EXCEPT ![c] = process[c]]
      BY <2>1, CaseFields
    <3> QED
      BY <2>1, <3>1, CaseFields
  <2>2. ASSUME NEW stage, Advances(c, stage, decision)
        PROVE  \E q \in Workflow!Process :
                 /\ process' = [process EXCEPT ![c] = q] /\ AtPhase(q)
                 /\ decision = "reject" => q.status = "rejected" /\ ~Asks(q)
    BY <2>2, CaseFields, AdvancesIs DEF Workflow!Action
  <2> QED
    BY <2>1, <2>2 DEF Decide
<1>7. process' \in [Case -> Workflow!Process] /\ process'[c] = q /\ \A d \in Case : d # c => process'[d] = process[d]
  BY <1>6, CaseFields
<1>8. CaseInv(c)'
  BY <1>2, <1>3, <1>4, <1>5, <1>6, <1>7, CaseFields DEF CaseInv, Review, Final
<1>9. case[c].status # "completed"
  BY <1>2 DEF Review
<1> QED
  BY <1>4, <1>5, <1>7, <1>8, <1>9, CaseFields, OneCase

LEMMA ResubmitKeeps ==
  ASSUME TerminationInv, NEW c \in Case, Resubmit(c)
  PROVE  TerminationInv'
<1>1. PICK next \in [Case -> CaseRow] :
        /\ next = [case EXCEPT ![c].status = "hr_review"]
        /\ next[c].status = "hr_review" /\ next[c].date = case[c].date
        /\ \A d \in Case : d # c => next[d] = case[d]
  <2>1. "hr_review" \in CaseStatus
    BY DEF CaseStatus, Review
  <2>2. TypeOK
    BY CaseFields
  <2> QED
    BY <2>1, <2>2, StatusSet
<1>2. /\ case' = next /\ case[c].status = "returned"
      /\ UNCHANGED <<task, checklist, assignment, employed, open, today, documentVars>>
      /\ \A x \in open : x.case # c
  BY <1>1, CaseFields DEF Resubmit
<1>3. PICK q \in Workflow!Process : process' = [process EXCEPT ![c] = q] /\ AtPhase(q)
  <2>1. CASE UNCHANGED process
    <3>1. process' = [process EXCEPT ![c] = process[c]]
      BY <2>1, CaseFields
    <3> QED
      BY <3>1, CaseFields
  <2>2. ASSUME NEW s \in Stage, process[c].task[<<s, 1>>] = "returned",
               process' = [process EXCEPT ![c] = Workflow!Resumed(process[c], s, 1)]
        PROVE  \E q \in Workflow!Process : process' = [process EXCEPT ![c] = q] /\ AtPhase(q)
    BY <2>2, CaseFields, ResumedIs
  <2> QED
    BY <2>1, <2>2 DEF Resubmit
<1>4. process' \in [Case -> Workflow!Process] /\ process'[c] = q /\ \A d \in Case : d # c => process'[d] = process[d]
  BY <1>3, CaseFields
<1>5. CaseInv(c)'
  BY <1>1, <1>2, <1>3, <1>4, CaseFields DEF CaseInv, Final
<1> QED
  BY <1>1, <1>2, <1>4, <1>5, CaseFields, OneCase

LEMMA RegisterOrderKeeps ==
  ASSUME TerminationInv, NEW c \in Case, RegisterOrder(c)
  PROVE  TerminationInv'
<1>1. PICK next \in [Case -> CaseRow] :
        /\ next = [case EXCEPT ![c].status = "offboarding"]
        /\ next[c].status = "offboarding" /\ next[c].date = case[c].date
        /\ \A d \in Case : d # c => next[d] = case[d]
  <2>1. "offboarding" \in CaseStatus
    BY DEF CaseStatus
  <2>2. TypeOK
    BY CaseFields
  <2> QED
    BY <2>1, <2>2, StatusSet
<1>2. PICK tasks \in [Case -> [Task -> TaskStatus]] :
        tasks = WithTasks(c, Assigned) /\ \A d \in Case : d # c => tasks[d] = task[d]
  BY CaseFields, TasksCreated
<1>3. /\ case' = next /\ case[c].status = "registration" /\ task' = tasks
      /\ record.status = "registered"
      /\ UNCHANGED <<process, assignment, employed, open, today, documentVars>>
      /\ \A x \in open : x.case # c
  BY <1>1, <1>2, CaseFields DEF RegisterOrder
<1>4. checklist' \in [Case -> [Form \cup {"order"} -> ItemStatus]]
  BY CaseFields DEF RegisterOrder, ItemStatus
<1>5. record'.registered
  BY <1>3 DEF TerminationInv, DocumentInv, documentVars
<1>6. CaseInv(c)'
  BY <1>1, <1>3, <1>5, CaseFields DEF CaseInv, Final
<1> QED
  BY <1>1, <1>2, <1>3, <1>4, <1>6, CaseFields, OneCase

LEMMA AskForDocumentKeeps ==
  ASSUME TerminationInv, NEW c \in Case, NEW d \in Form \cup {"order"},
         NEW status \in {"missing", "validated"}, AskForDocument(c, d, status)
  PROVE  TerminationInv'
<1>1. UNCHANGED <<case, process, task, assignment, employed, open, today, documentVars>>
  BY DEF AskForDocument
<1>2. checklist' \in [Case -> [Form \cup {"order"} -> ItemStatus]]
  BY CaseFields DEF AskForDocument, ItemStatus
<1>3. CaseInv(c)'
  BY <1>1, CaseFields DEF CaseInv, documentVars
<1>4. \A x \in open : x.case = c => OpenInv(x)'
  BY <1>1, CaseFields DEF OpenInv
<1> QED
  BY <1>1, <1>2, <1>3, <1>4, CaseFields, OneCase

LEMMA CreateTaskKeeps ==
  ASSUME TerminationInv, NEW c \in Case, NEW t \in Task, CreateTask(c, t)
  PROVE  TerminationInv'
<1>1. PICK tasks \in [Case -> [Task -> TaskStatus]] :
        tasks = WithTasks(c, {t}) /\ \A d \in Case : d # c => tasks[d] = task[d]
  BY CaseFields, TasksCreated
<1>2. /\ case[c].status \in {"offboarding", "scheduled"} /\ task' = tasks
      /\ UNCHANGED <<case, process, checklist, assignment, employed, open, today, documentVars>>
      /\ \A x \in open : x.case # c
  BY <1>1, CaseFields DEF CreateTask
<1>3. CaseInv(c)'
  BY <1>2, CaseFields DEF CaseInv, documentVars
<1> QED
  BY <1>1, <1>2, <1>3, CaseFields, OneCase

LEMMA FinishTaskKeeps ==
  ASSUME TerminationInv, NEW c \in Case, NEW t \in Task, FinishTask(c, t)
  PROVE  TerminationInv'
<1>1. /\ task' = [task EXCEPT ![c][t] = "done"] /\ task[c][t] = "pending"
      /\ UNCHANGED <<case, process, checklist, assignment, employed, open, today, documentVars>>
  BY DEF FinishTask
<1>2. PICK row : row = [task[c] EXCEPT ![t] = "done"]
  OBVIOUS
<1>3. row \in [Task -> TaskStatus] /\ \A u \in Task : row[u] = IF u = t THEN "done" ELSE task[c][u]
  BY <1>2, CaseFields DEF TaskStatus
<1>4. /\ task' \in [Case -> [Task -> TaskStatus]] /\ task'[c] = row
      /\ \A d \in Case : d # c => task'[d] = task[d]
  <2>1. task' = [task EXCEPT ![c] = row]
    BY <1>1, <1>2
  <2> QED
    BY <1>3, <2>1, CaseFields
<1>5. case[c].status # "completed" /\ case[c].status \in {"offboarding", "scheduled"}
  BY <1>1, CaseFields DEF CaseInv
<1>6. CaseInv(c)'
  BY <1>1, <1>3, <1>4, <1>5, CaseFields DEF CaseInv, documentVars
<1>7. \A x \in open : x.case = c => OpenInv(x)'
  BY <1>1, <1>3, <1>4, CaseFields DEF OpenInv
<1> QED
  BY <1>1, <1>4, <1>5, <1>6, <1>7, CaseFields, OneCase

LEMMA ScheduleKeeps ==
  ASSUME TerminationInv, NEW c \in Case, NEW date \in Day, Schedule(c, date)
  PROVE  TerminationInv'
<1>1. PICK row : row = [status |-> "scheduled", date |-> date]
  OBVIOUS
<1>2. row \in CaseRow /\ row.status = "scheduled" /\ row.date = date
  BY <1>1 DEF CaseRow, CaseStatus
<1>3. /\ case' = [case EXCEPT ![c] = row] /\ case[c].status = "offboarding"
      /\ UNCHANGED <<task, checklist, employed, open, today, documentVars>>
      /\ \A x \in open : x.case # c
  BY <1>1, CaseFields DEF Schedule
<1>4. case' \in [Case -> CaseRow] /\ case'[c] = row /\ \A d \in Case : d # c => case'[d] = case[d]
  BY <1>2, <1>3, CaseFields
<1>5. assignment' \in [Assignment -> AssignmentRow]
  <2>1. [status |-> "scheduled_end", to |-> date] \in AssignmentRow
    BY DEF AssignmentRow
  <2> QED
    BY <2>1, CaseFields DEF Schedule
<1>6. PICK q \in Workflow!Process :
        /\ process' = [process EXCEPT ![c] = q] /\ AtPhase(q) /\ q.status = "completed" /\ ~Asks(q)
  <2>1. Advances(c, "offboarding", "approve") /\ "approve" \in Workflow!Action
    BY DEF Schedule, Workflow!Action
  <2> QED
    BY <2>1, CaseFields, AdvancesIs
<1>7. process' \in [Case -> Workflow!Process] /\ process'[c] = q /\ \A d \in Case : d # c => process'[d] = process[d]
  BY <1>6, CaseFields
<1>8. CaseInv(c)'
  BY <1>2, <1>3, <1>4, <1>6, <1>7, CaseFields DEF CaseInv, documentVars, Final
<1> QED
  BY <1>3, <1>4, <1>5, <1>7, <1>8, CaseFields, OneCase

LEMMA CompleteKeeps ==
  ASSUME TerminationInv, NEW c \in Case, Complete(c)
  PROVE  TerminationInv'
<1>1. PICK next \in [Case -> CaseRow] :
        /\ next = [case EXCEPT ![c].status = "completed"]
        /\ next[c].status = "completed" /\ next[c].date = case[c].date
        /\ \A d \in Case : d # c => next[d] = case[d]
  <2>1. "completed" \in CaseStatus
    BY DEF CaseStatus, Final
  <2>2. TypeOK
    BY CaseFields
  <2> QED
    BY <2>1, <2>2, StatusSet
<1>2. /\ case' = next /\ case[c].status = "scheduled" /\ case[c].date <= today /\ employed' = FALSE
      /\ ReadyToComplete(c) /\ assignment' = EndedBy(case[c].date)
      /\ process' = [process EXCEPT ![c] = Finished(process[c])]
      /\ UNCHANGED <<task, checklist, open, today, documentVars>>
      /\ \A x \in open : x.case # c
  BY <1>1, CaseFields DEF Complete
<1>3. process[c].status = "completed" /\ ~Asks(process[c]) /\ record.registered /\ case[c].date \in Day
  BY <1>2, CaseFields DEF CaseInv
<1>4. process' = process
  BY <1>2, <1>3, CaseFields DEF Finished
<1>5. assignment' \in [Assignment -> AssignmentRow]
  <2>1. \A a \in Assignment : Later(case[c].date, Start[a]) \in Day
    BY <1>3, AssignmentAssumption DEF Later
  <2>2. \A a \in Assignment : [status |-> "ended", to |-> Later(case[c].date, Start[a])] \in AssignmentRow
    BY <2>1 DEF AssignmentRow
  <2> QED
    BY <1>2, <2>2, CaseFields DEF EndedBy
<1>6. CaseInv(c)'
  BY <1>1, <1>2, <1>3, <1>4, CaseFields, TaskAssumption DEF CaseInv, documentVars, ReadyToComplete
<1> QED
  BY <1>1, <1>2, <1>4, <1>5, <1>6, CaseFields, OneCase

LEMMA BeginKeeps ==
  ASSUME TerminationInv, NEW c \in Case, BeginInitiate(c) \/ BeginCancel(c)
  PROVE  TerminationInv'
<1>1. PICK x \in Transaction :
        /\ x.case = c /\ open' = open \cup {x} /\ \A y \in open : y.case # c
        /\ UNCHANGED <<case, process, task, checklist, assignment, employed, today, documentVars>>
        /\ OpenInv(x)
  <2>1. CASE BeginInitiate(c)
    <3>1. PICK x : x = [op |-> "initiate", case |-> c, pending |-> {}]
      OBVIOUS
    <3>2. x \in Transaction /\ x.case = c /\ x.op = "initiate" /\ case[c].status = "none"
      BY <2>1, <3>1 DEF Transaction, BeginInitiate
    <3> QED
      BY <2>1, <3>1, <3>2, CaseFields DEF BeginInitiate, Begin, OpenInv
  <2>2. CASE BeginCancel(c)
    <3>1. PICK pending : pending = {t \in Task : task[c][t] = "pending"}
      OBVIOUS
    <3>2. PICK x : x = [op |-> "cancel", case |-> c, pending |-> pending]
      OBVIOUS
    <3>3. x \in Transaction /\ x.case = c /\ x.op = "cancel" /\ x.pending = pending
      BY <3>1, <3>2 DEF Transaction
    <3>4. case[c].status \notin {"none", "completed"}
      BY <2>2 DEF BeginCancel
    <3> QED
      BY <2>2, <3>1, <3>2, <3>3, <3>4, CaseFields DEF BeginCancel, Begin, OpenInv
  <2> QED
    BY <2>1, <2>2
<1>2. DocumentInv'
  BY <1>1, DocumentStutter DEF TerminationInv
<1>3. TypeOK'
  BY <1>1, <1>2 DEF TypeOK, DocumentInv, TerminationInv
<1>4. \A d \in Case : CaseInv(d)'
  BY <1>1 DEF TerminationInv, CaseInv, documentVars
<1>5. \A y \in open' : OpenInv(y)'
  BY <1>1 DEF TerminationInv, OpenInv
<1>6. \A y, z \in open' : y.case = z.case => y = z
  BY <1>1 DEF TerminationInv
<1> QED
  BY <1>1, <1>2, <1>3, <1>4, <1>5, <1>6 DEF TerminationInv

\* The transaction that ends here was the only one on its case.
LEMMA OnlyOne ==
  ASSUME TerminationInv, NEW x \in open
  PROVE  x.case \in Case /\ OpenInv(x) /\ \A y \in open \ {x} : y.case # x.case
BY DEF TerminationInv, TypeOK, Transaction

LEMMA CommitInitiateKeeps ==
  ASSUME TerminationInv, NEW x \in open, CommitInitiate(x)
  PROVE  TerminationInv'
<1>1. PICK c \in Case : c = x.case
  BY OnlyOne
<1>2. PICK next \in [Case -> CaseRow] :
        /\ next = [case EXCEPT ![c].status = "hr_review"]
        /\ next[c].status = "hr_review" /\ next[c].date = case[c].date
        /\ \A d \in Case : d # c => next[d] = case[d]
  <2>1. "hr_review" \in CaseStatus
    BY DEF CaseStatus, Review
  <2>2. TypeOK
    BY CaseFields
  <2> QED
    BY <2>1, <2>2, StatusSet
<1>3. PICK q \in Workflow!Process : q = Workflow!Started(TerminationRoute, Holders) /\ AtPhase(q)
  BY StartedIs
<1>4. /\ case' = next /\ process' = [process EXCEPT ![c] = q] /\ open' = open \ {x}
      /\ UNCHANGED <<task, checklist, assignment, employed, today, documentVars>>
      /\ case[c].status = "none"
  BY <1>1, <1>2, <1>3, OnlyOne DEF CommitInitiate, OpenInv
<1>5. process' \in [Case -> Workflow!Process] /\ process'[c] = q /\ \A d \in Case : d # c => process'[d] = process[d]
  BY <1>4, CaseFields
<1>6. CaseInv(c)'
  BY <1>2, <1>3, <1>4, <1>5, CaseFields DEF CaseInv, Final
<1>7. \A y \in open' : y.case # c
  BY <1>1, <1>4, OnlyOne
<1> QED
  BY <1>2, <1>4, <1>5, <1>6, <1>7, CaseFields, OneCase

LEMMA CommitCancelKeeps ==
  ASSUME TerminationInv, NEW x \in open, CommitCancel(x)
  PROVE  TerminationInv'
<1>1. PICK c \in Case : c = x.case
  BY OnlyOne
<1>2. PICK next \in [Case -> CaseRow] :
        /\ next = [case EXCEPT ![c].status = "cancelled"]
        /\ next[c].status = "cancelled" /\ next[c].date = case[c].date
        /\ \A d \in Case : d # c => next[d] = case[d]
  <2>1. "cancelled" \in CaseStatus
    BY DEF CaseStatus, Final
  <2>2. TypeOK
    BY CaseFields
  <2> QED
    BY <2>1, <2>2, StatusSet
<1>3. PICK row : row = [t \in Task |-> IF t \in x.pending THEN "cancelled" ELSE task[c][t]]
  OBVIOUS
<1>4. PICK q \in Workflow!Process :
        q = Workflow!Closed(process[c], "cancelled") /\ q.status = "cancelled" /\ ~Asks(q) /\ AtPhase(q)
  <2>1. "cancelled" \in Workflow!Terminal
    BY DEF Workflow!Terminal
  <2> QED
    BY <2>1, CaseFields, ClosedAsks
<1>5. /\ case' = next /\ process' = [process EXCEPT ![c] = q] /\ open' = open \ {x}
      /\ task' = [task EXCEPT ![c] = row] /\ assignment' = Restored
      /\ UNCHANGED <<checklist, employed, today, documentVars>>
  BY <1>1, <1>2, <1>3, <1>4 DEF CommitCancel
<1>6. case[c].status # "completed" /\ \A t \in Task : task[c][t] = "pending" => t \in x.pending
  BY <1>1, OnlyOne DEF CommitCancel, OpenInv
<1>7. process' \in [Case -> Workflow!Process] /\ process'[c] = q /\ \A d \in Case : d # c => process'[d] = process[d]
  BY <1>5, CaseFields
<1>8. row \in [Task -> TaskStatus] /\ \A t \in Task : row[t] # "pending"
  BY <1>3, <1>6, CaseFields DEF TaskStatus
<1>9. /\ task' \in [Case -> [Task -> TaskStatus]] /\ task'[c] = row
      /\ \A d \in Case : d # c => task'[d] = task[d]
  BY <1>5, <1>8, CaseFields
<1>10. assignment' \in [Assignment -> AssignmentRow]
  <2>1. /\ [status |-> "active", to |-> Forever] \in AssignmentRow
        /\ [status |-> "planned", to |-> Forever] \in AssignmentRow
    BY DEF AssignmentRow
  <2> QED
    BY <1>5, <2>1, CaseFields DEF Restored
<1>11. CaseInv(c)'
  BY <1>2, <1>4, <1>5, <1>7, <1>8, <1>9 DEF CaseInv
<1>12. \A y \in open' : y.case # c
  BY <1>1, <1>5, OnlyOne
<1> QED
  BY <1>2, <1>5, <1>6, <1>7, <1>9, <1>10, <1>11, <1>12, CaseFields, OneCase

LEMMA RollbackKeeps ==
  ASSUME TerminationInv, NEW x \in open, Rollback(x)
  PROVE  TerminationInv'
<1>1. PICK c \in Case : c = x.case
  BY OnlyOne
<1>2. open' = open \ {x} /\ UNCHANGED <<case, process, task, checklist, assignment, employed, today, documentVars>>
  BY DEF Rollback
<1>3. CaseInv(c)'
  BY <1>2, CaseFields DEF CaseInv, documentVars
<1>4. \A y \in open' : y.case # c
  BY <1>1, <1>2, OnlyOne
<1> QED
  BY <1>2, <1>3, <1>4, CaseFields, OneCase

\* A day passes, or something happens to the document: the cases stay as they are.
LEMMA AroundTheCases ==
  ASSUME TerminationInv, UNCHANGED <<case, process, task, checklist, assignment, employed, open>>,
         DocumentInv', record.registered => record'.registered,
         today' \in Day, today <= today'
  PROVE  TerminationInv'
<1>1. TypeOK'
  BY DEF TerminationInv, TypeOK, DocumentInv
<1>2. ASSUME NEW c \in Case PROVE CaseInv(c)'
  <2>1. case[c].date \in Day => case[c].date \in Nat
    BY DEF Day
  <2>2. today \in Nat /\ today' \in Nat
    BY DEF TerminationInv, TypeOK, Day
  <2>3. case[c].status = "completed" => case[c].date <= today'
    <3>1. case[c].status = "completed" => case[c].date \in Nat /\ case[c].date <= today
      BY <2>1, CaseFields DEF CaseInv
    <3> QED
      BY <2>2, <3>1
  <2> QED
    BY <2>3 DEF TerminationInv, CaseInv
<1>3. \A x \in open' : OpenInv(x)'
  BY DEF TerminationInv, OpenInv
<1> QED
  BY <1>1, <1>2, <1>3 DEF TerminationInv

---------------------------------------------------------------------------

LEMMA StepKeeps == TerminationInv /\ [Next]_vars => TerminationInv'
<1> SUFFICES ASSUME TerminationInv, [Next]_vars PROVE TerminationInv'
  OBVIOUS
<1>1. CASE DocumentNext /\ UNCHANGED caseVars
  <2>1. DocumentInv' /\ (record.registered => record'.registered)
    BY <1>1, DocumentStep DEF TerminationInv
  <2>2. today \in Nat /\ today \in Day
    BY DEF TerminationInv, TypeOK, Day
  <2> QED
    BY <1>1, <2>1, <2>2, AroundTheCases DEF caseVars
<1>2. CASE UNCHANGED vars
  <2>1. today \in Nat /\ today \in Day
    BY DEF TerminationInv, TypeOK, Day
  <2>2. DocumentInv' /\ record' = record
    BY <1>2, DocumentStutter DEF TerminationInv, vars, documentVars
  <2> QED
    BY <1>2, <2>1, <2>2, AroundTheCases DEF vars, caseVars
<1>3. CASE NextDay
  <2>1. today \in Nat /\ today' \in Day /\ today <= today'
    BY <1>3, AssignmentAssumption DEF TerminationInv, TypeOK, Day, NextDay
  <2>2. DocumentInv' /\ record' = record
    BY <1>3, DocumentStutter DEF TerminationInv, NextDay, documentVars
  <2> QED
    BY <1>3, <2>1, <2>2, AroundTheCases DEF NextDay
<1>4. CASE \E x \in open : CommitInitiate(x) \/ CommitCancel(x) \/ Rollback(x)
  BY <1>4, CommitInitiateKeeps, CommitCancelKeeps, RollbackKeeps
<1>5. ASSUME NEW c \in Case,
        \/ BeginInitiate(c) \/ Resubmit(c) \/ RegisterOrder(c) \/ Complete(c) \/ BeginCancel(c)
        \/ \E decision \in {"approve", "return", "reject"} : Decide(c, decision)
        \/ \E d \in Form \cup {"order"}, status \in {"missing", "validated"} : AskForDocument(c, d, status)
        \/ \E t \in Task : CreateTask(c, t) \/ FinishTask(c, t)
        \/ \E date \in Day : Schedule(c, date)
        \/ \E s \in Stage, action \in Workflow!Action : ActOnTask(c, s, action)
      PROVE  TerminationInv'
  <2>1. CASE BeginInitiate(c) \/ Resubmit(c) \/ RegisterOrder(c) \/ Complete(c) \/ BeginCancel(c)
    BY <2>1, BeginKeeps, ResubmitKeeps, RegisterOrderKeeps, CompleteKeeps
  <2>2. CASE \E t \in Task : CreateTask(c, t) \/ FinishTask(c, t)
    BY <2>2, CreateTaskKeeps, FinishTaskKeeps
  <2> QED
    BY <1>5, <2>1, <2>2, DecideKeeps, AskForDocumentKeeps, ScheduleKeeps, ActOnTaskKeeps
<1> QED
  BY <1>1, <1>2, <1>3, <1>4, <1>5 DEF Next

\* The inductive invariant: a linked process asks at its phase only, an operation of two steps is
\* alone on its case and still finds what it read, and what a case has reached - the registered
\* order, the date, a process that is over - is still there.
THEOREM TerminationInvariant == Spec => []TerminationInv
<1>1. Init => TerminationInv
  BY InitHolds
<1> QED
  BY <1>1, StepKeeps, PTL DEF Spec

\* Nobody's employment ends but by the whole protocol, with a registered order whose content
\* stands, the required tasks done, the date come and the process over (initiate to complete).
THEOREM EndsByTheProtocol == Spec => []EndedByProtocol
<1>1. ASSUME TerminationInv PROVE EndedByProtocol
  <2>1. ASSUME NEW c \in Case, case[c].status = "completed"
        PROVE  /\ ~employed
               /\ record.registered /\ record.status \in Settled /\ immutable = 1..record.versions
               /\ \A t \in Required : task[c][t] = "done"
               /\ case[c].date \in 1..today
               /\ process[c].status = "completed"
    <3>1. today \in Nat /\ record.registered /\ case[c].date \in Day /\ case[c].date <= today
      BY <1>1, <2>1 DEF TerminationInv, TypeOK, CaseInv, Day
    <3>2. record.status \in Settled /\ immutable = 1..record.versions
      BY <1>1, <3>1 DEF TerminationInv, DocumentInv, SettledContentStands
    <3>3. case[c].date \in 1..today
      BY <3>1 DEF Day
    <3> QED
      BY <1>1, <2>1, <3>1, <3>2, <3>3 DEF TerminationInv, CaseInv, Final
  <2>2. ~employed => \E c \in Case : case[c].status = "completed"
    BY <1>1 DEF TerminationInv
  <2> QED
    BY <2>1, <2>2 DEF EndedByProtocol
<1> QED
  BY <1>1, TerminationInvariant, PTL

\* A case that is over asks nobody for anything, in its process or in offboarding, although tasks
\* are created and finished beside it (reject, cancel, complete against act_task and complete_task).
THEOREM ClosedIsSettled == Spec => []ClosedCaseIsSettled
<1>1. ASSUME TerminationInv PROVE ClosedCaseIsSettled
  BY <1>1 DEF TerminationInv, CaseInv, Asks, Final, ClosedCaseIsSettled
<1> QED
  BY <1>1, TerminationInvariant, PTL

\* The registered order of a termination stands: no upload under way replaces what was signed.
THEOREM OrderStands == Spec => []SettledContentStands
<1>1. TerminationInv => SettledContentStands
  BY DEF TerminationInv, DocumentInv
<1> QED
  BY <1>1, TerminationInvariant, PTL
===========================================================================
