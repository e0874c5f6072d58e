--------------------------- MODULE Organization ---------------------------
(***************************************************************************)
(* The structure versions of one organization: drafts are cloned from a    *)
(* published version, edited, reviewed and published for an effective date. *)
(* Every request is a transaction at READ COMMITTED that locks nothing.     *)
(* It loads the version row, makes its checks, and last of all saves the    *)
(* row WHERE revision is the one it loaded (_optimistic_update).  A request *)
(* that commits has therefore made all its checks on one state of the       *)
(* version, so loading and checking are one step, Begin...; what happens    *)
(* between it and the commit is what this module is about.                  *)
(***************************************************************************)
EXTENDS OrganizationStructure

CONSTANTS Session,      \* requests served concurrently
          MaxVersion,   \* bound: versions of the structure
          MaxRevision,  \* bound: revision of a version row
          LastDay,      \* bound: effective dates are 1..LastDay
          Edit,         \* the changes clients ask for
          Edited,       \* bound: the versions whose structure clients change
          Retirable,    \* the reference rows an administrator deactivates
          Seeded        \* the structure the organization starts with

ASSUME BoundAssumption == MaxVersion \in Nat \ {0} /\ MaxRevision \in Nat \ {0}
ASSUME DayAssumption == LastDay \in Nat \ {0}
ASSUME EditAssumption == Edit \subseteq EditRequest
ASSUME EditedAssumption == Edited \subseteq 1..MaxVersion
ASSUME RetirableAssumption == Retirable \subseteq Reference
\* All its units are active, and its open slots are among its slots.
ASSUME SeededAssumption ==
  /\ Seeded \in Structure /\ Valid(Seeded, Reference)
  /\ Seeded.units = Seeded.active /\ Seeded.open \subseteq Seeded.slots

VARIABLES version,   \* structure versions with units, relationships, slots and policy
          review,    \* the latest review request of each version
          session    \* what each open transaction has read so far

vars == <<version, review, session>>

Version == 1..MaxVersion

Day == 1..LastDay

Forever == LastDay + 1   \* effective_to is NULL

Status == {"absent", "draft", "in_review", "published"}

VersionRow == [status : Status, revision : 0..MaxRevision, base : Version \cup {None},
               from : Day \cup {0}, to : 0..Forever, content : Structure]

\* shown is a history variable: the structure as it was submitted.
ReviewRow == [status : {"none", "pending", "approved", "returned"}, shown : Structure]

Op == {"none", "draft", "edit", "submit", "return", "publish"}

NoEdit == [kind |-> "none"]

Request == [phase : {"idle", "checked", "collected"}, op : Op,
            target : Version \cup {None}, seen : 0..MaxRevision, edit : Edit \cup {NoEdit},
            from : Day \cup {0}, base : Version \cup {None}, approves : BOOLEAN,
            closing : SUBSET (Version \X (0..MaxRevision))]

Idle == [phase |-> "idle", op |-> "none", target |-> None, seen |-> 0, edit |-> NoEdit,
         from |-> 0, base |-> None, approves |-> FALSE, closing |-> {}]

Empty == [units |-> {}, active |-> {}, parent |-> [u \in Unit |-> None], links |-> {},
          slots |-> {}, open |-> {}, place |-> [s \in Slot |-> None],
          manager |-> [s \in Slot |-> None], heads |-> {},
          policy |-> {"publishReview", "staffingReview"}]

NoVersion == [status |-> "absent", revision |-> 0, base |-> None, from |-> 0, to |-> Forever,
              content |-> Empty]

TypeOK ==
  /\ version \in [Version -> VersionRow]
  /\ review \in [Version -> ReviewRow]
  /\ session \in [Session -> Request]

\* The seed installs one published version, in force from the first day on.
Init ==
  /\ version = [v \in Version |->
       IF v = 1 THEN [NoVersion EXCEPT !.status = "published", !.revision = 1, !.from = 1,
                                       !.content = Seeded]
       ELSE NoVersion]
  /\ review = [v \in Version |-> [status |-> "none", shown |-> Empty]]
  /\ session = [s \in Session |-> Idle]

Exists(v) == version[v].status # "absent"

Published == {v \in Version : version[v].status = "published"}

Covers(v, d) == version[v].from <= d /\ d <= version[v].to

---------------------------------------------------------------------------
(* create_draft *)

\* The next number and a published base, or none, are read.  The rows of a
\* published version do not change, so reading them is part of the commit.
BeginDraft(s) ==
  /\ session[s].phase = "idle"
  /\ \E n \in Version, b \in Published \cup {None} :
       /\ ~Exists(n) /\ \A v \in Version : Exists(v) <=> v < n
       /\ session' = [session EXCEPT ![s] = [Idle EXCEPT !.phase = "checked", !.op = "draft",
                                                         !.target = n, !.base = b]]
  /\ UNCHANGED <<version, review>>

\* The unique (organization_id, version_number) fails the slower of two drafts.
CommitDraft(s) ==
  LET c == session[s] IN
  /\ c.op = "draft" /\ ~Exists(c.target)
  /\ version' = [version EXCEPT ![c.target] =
       [NoVersion EXCEPT !.status = "draft", !.revision = 1, !.base = c.base,
                         !.content = IF c.base = None THEN Empty ELSE version[c.base].content]]
  /\ session' = [session EXCEPT ![s] = Idle]
  /\ UNCHANGED review

---------------------------------------------------------------------------
(* Every request on an existing version loads and checks it first *)

\* update_unit_type, update_position and update_relationship_type switch the
\* active flag of a reference row at any time, without looking at the versions
\* that use it: every check may find any of the Retirable rows inactive.
Offer == {Reference \ retired : retired \in SUBSET Retirable}

SourceStatus(op) ==
  CASE op \in {"edit", "submit"} -> {"draft"}
    [] op = "return" -> {"in_review"}
    [] op = "publish" -> {"draft", "in_review"}

Load(s, v, request) ==
  session' = [session EXCEPT ![s] =
    [request EXCEPT !.phase = "checked", !.target = v, !.seen = version[v].revision]]

AllowedEdits(v) ==
  {e \in Edit : \E offered \in Offer : Allowed(version[v].content, offered, e)}

\* The versions the validator accepts.
Valids == {v \in Version : \E offered \in Offer : Valid(version[v].content, offered)}

\* Slip: _require_version where _require_editable_version is meant.
BeginEditOfAny(s) ==
  /\ session[s].phase = "idle"
  /\ \E v \in Edited : \E e \in AllowedEdits(v) :
       /\ version[v].status \in SourceStatus("publish")
       /\ Load(s, v, [Idle EXCEPT !.op = "edit", !.edit = e])
  /\ UNCHANGED <<version, review>>

\* _require_editable_version and the checks of the edit.
BeginEdit(s) ==
  /\ session[s].phase = "idle"
  /\ \E v \in Edited : \E e \in AllowedEdits(v) :
       /\ version[v].status \in SourceStatus("edit")
       /\ Load(s, v, [Idle EXCEPT !.op = "edit", !.edit = e])
  /\ UNCHANGED <<version, review>>

\* submit_for_review wants a valid structure without a pending review,
\* return_for_correction a pending one.
BeginReview(s) ==
  /\ session[s].phase = "idle"
  /\ \E v \in Version, op \in {"submit", "return"} :
       /\ version[v].status \in SourceStatus(op)
       /\ IF op = "submit" THEN v \in Valids /\ review[v].status # "pending"
          ELSE review[v].status = "pending"
       /\ Load(s, v, [Idle EXCEPT !.op = op])
  /\ UNCHANGED <<version, review>>

\* _staffing_changed_from_base
StaffingOf(st) ==
  [slots |-> st.slots, open |-> st.open, place |-> st.place, manager |-> st.manager,
   heads |-> st.heads]

StaffingChanged(row) ==
  IF row.base = None THEN row.content.slots # {}
  ELSE StaffingOf(row.content) # StaffingOf(version[row.base].content)

ReviewRequired(row) ==
  \/ "publishReview" \in row.content.policy
  \/ "staffingReview" \in row.content.policy /\ StaffingChanged(row)

\* What publish_structure demands: a valid structure, and a pending review
\* when the policy of the version requires one.
MayPublish(v) ==
  /\ v \in Valids
  /\ ReviewRequired(version[v]) =>
       version[v].status = "in_review" /\ review[v].status = "pending"

BeginPublish(s) ==
  /\ session[s].phase = "idle"
  /\ \E v \in Version :
       /\ version[v].status \in SourceStatus("publish")
       /\ MayPublish(v)
       /\ \E from \in Day :
            Load(s, v, [Idle EXCEPT !.op = "publish", !.from = from,
                                    !.approves = review[v].status = "pending"])
  /\ UNCHANGED <<version, review>>

\* publish_structure reads the published versions: those that end before the
\* effective date stay, one that starts on it or later is a conflict, the others
\* will be closed.
Collect(s) ==
  LET c == session[s]
      overlapping == {v \in Published \ {c.target} : version[v].to >= c.from}
  IN
  /\ c.phase = "checked" /\ c.op = "publish"
  /\ session' = [session EXCEPT ![s] =
       IF \A v \in overlapping : version[v].from < c.from
       THEN [@ EXCEPT !.phase = "collected",
                      !.closing = {<<v, version[v].revision>> : v \in overlapping}]
       ELSE Idle]
  /\ UNCHANGED <<version, review>>

---------------------------------------------------------------------------
(* The commits *)

\* Slip: an edit that does not touch the version.
CommitEditUntouched(s) ==
  LET c == session[s] IN
  /\ c.op = "edit" /\ c.phase = "checked"
  /\ version' = [version EXCEPT ![c.target].content = Apply(@, c.edit)]
  /\ session' = [session EXCEPT ![s] = Idle]
  /\ UNCHANGED review

\* The row of the version still has the revision this request loaded.
Fresh(s) ==
  /\ version[session[s].target].revision = session[s].seen
  /\ session[s].seen < MaxRevision

\* version.touch: the edit and the new revision of the version commit together.
CommitEdit(s) ==
  LET c == session[s] IN
  /\ c.op = "edit" /\ c.phase = "checked" /\ Fresh(s)
  /\ version' = [version EXCEPT ![c.target].content = Apply(@, c.edit),
                                ![c.target].revision = @ + 1]
  /\ session' = [session EXCEPT ![s] = Idle]
  /\ UNCHANGED review

CommitSubmit(s) ==
  LET c == session[s] IN
  /\ c.op = "submit" /\ c.phase = "checked" /\ Fresh(s)
  /\ version' = [version EXCEPT ![c.target].status = "in_review", ![c.target].revision = @ + 1]
  /\ review' = [review EXCEPT ![c.target] =
       [status |-> "pending", shown |-> version[c.target].content]]
  /\ session' = [session EXCEPT ![s] = Idle]

CommitReturn(s) ==
  LET c == session[s] IN
  /\ c.op = "return" /\ c.phase = "checked" /\ Fresh(s)
  /\ version' = [version EXCEPT ![c.target].status = "draft", ![c.target].revision = @ + 1]
  /\ review' = [review EXCEPT ![c.target].status = "returned"]
  /\ session' = [session EXCEPT ![s] = Idle]

\* Slip: the last day of the closed versions is one too early.
ClosedADayEarly(from) == IF from > 1 THEN from - 2 ELSE 0

\* effective_to of the versions a publication closes.
ClosedAt(from) == from - 1

\* The versions as publication leaves them: the overlapping ones closed on the
\* day before, the draft published without an end.
AfterPublish(c) ==
  [v \in Version |->
     IF v = c.target
     THEN [version[v] EXCEPT !.status = "published", !.revision = @ + 1, !.from = c.from]
     ELSE IF \E p \in c.closing : p[1] = v
     THEN [version[v] EXCEPT !.revision = @ + 1, !.to = ClosedAt(c.from)]
     ELSE version[v]]

\* excl_organization_structure_versions_published_overlap
NoOverlap(rows) ==
  \A v, w \in Version :
    /\ rows[v].status = "published" /\ rows[w].status = "published" /\ v # w
    /\ rows[v].from <= rows[w].to
    => rows[w].from > rows[v].to

CommitPublish(s) ==
  LET c == session[s] IN
  /\ c.op = "publish" /\ c.phase = "collected" /\ Fresh(s)
  /\ \A p \in c.closing : version[p[1]].revision = p[2] /\ p[2] < MaxRevision
  /\ NoOverlap(AfterPublish(c))
  /\ version' = AfterPublish(c)
  /\ review' = IF c.approves THEN [review EXCEPT ![c.target].status = "approved"] ELSE review
  /\ session' = [session EXCEPT ![s] = Idle]

\* Any failure rolls back: ConcurrencyConflictError, a constraint, a lost connection.
Fail(s) ==
  /\ session[s].phase # "idle"
  /\ session' = [session EXCEPT ![s] = Idle]
  /\ UNCHANGED <<version, review>>

Next ==
  \E s \in Session :
    \/ BeginDraft(s) \/ CommitDraft(s)
    \/ BeginEdit(s) \/ BeginReview(s) \/ BeginPublish(s) \/ Collect(s)
    \/ CommitEdit(s) \/ CommitSubmit(s) \/ CommitReturn(s) \/ CommitPublish(s)
    \/ Fail(s)

Spec == Init /\ [][Next]_vars

---------------------------------------------------------------------------
(* Properties *)

Connected(st) ==
  /\ Cardinality(ActiveRoots(st)) <= 1
  /\ \A u \in st.active : st.parent[u] # None => st.parent[u] \in st.active
  /\ Acyclic(Unit, ParentEdges(st, st.units)) /\ Acyclic(Unit, st.links)
  /\ \A e \in st.links : {e[1], e[2]} \subseteq st.active
  /\ \A s \in st.open : /\ st.place[s] \in st.active
                        /\ st.manager[s] # None => st.manager[s] \in st.open
  /\ Acyclic(Slot, ReportingEdges(st))

\* No two edits, made at once or one after the other, break what each of them
\* checks alone: no draft ever has a loop of units, relationships or managers,
\* an active unit below an inactive one, or a slot or relationship of an
\* inactive unit (move_unit, deactivate_unit, _assert_staffing_slot_valid).
DraftsStayConnected == \A v \in Version : Connected(version[v].content)

\* A structure in review or published is one the validator accepts, apart from
\* the reference rows, which can be deactivated at any time: validation reads
\* before submit_for_review and publish_structure write.
SettledStructuresAreValid ==
  \A v \in Version :
    version[v].status \in {"in_review", "published"} => Valid(version[v].content, Reference)

\* A published version whose policy requires a review was approved, and is the
\* structure that was submitted: nobody changed it in between, nor after.
ReviewedAsPublished ==
  \A v \in Published \ {1} :
    /\ ReviewRequired(version[v]) => review[v].status = "approved"
    /\ review[v].status = "approved" => review[v].shown = version[v].content

\* The version in force on a day: the one get_active finds, if it is the only one.
InForce(d) ==
  LET covering == {v \in Published : Covers(v, d)} IN
  IF Cardinality(covering) = 1 THEN CHOOSE v \in covering : TRUE ELSE None

Timeline == INSTANCE StructureTimeline WITH inForce <- [d \in Day |-> InForce(d)]

\* Concurrent publications implement the timeline: on every day exactly one
\* version is in force, whatever order the requests read and commit in.
TimelineSpec == Timeline!Spec
===========================================================================
