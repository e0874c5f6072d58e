----------------------- MODULE WorkflowDefinitions -----------------------
(***************************************************************************)
(* The versions of one process definition: drafts are edited, reviewed and *)
(* published while other requests do the same.  Every request is a          *)
(* database transaction at READ COMMITTED: each SELECT sees what is         *)
(* committed at that moment, nothing is locked, and an UPDATE of a version  *)
(* row carries the revision the transaction loaded (RevisionMixin); when it *)
(* matches no row the whole transaction rolls back (StaleDataError, 409).   *)
(***************************************************************************)
EXTENDS RouteValidation

CONSTANTS Session,      \* requests served concurrently
          MaxVersion,   \* bound: versions of the definition
          MaxRevision,  \* bound: revision of a version row
          Step,         \* steps a route may have, numbered by their sequence
          Edge,         \* transitions a route may have
          NoRule        \* actor_rule_id is NULL: the initiator acts

ASSUME VersionAssumption == MaxVersion \in Nat \ {0} /\ MaxRevision \in Nat \ {0}
ASSUME StepAssumption == Step \subseteq Nat /\ Edge \subseteq Step \X Step
ASSUME NoRuleAssumption == NoRule \notin Nat

VARIABLES version,   \* process_definition_versions with the rows that hang off them
          session,   \* what each open transaction has read so far
          instances  \* process instances: the version they run and the route snapshot

vars == <<version, session, instances>>

Version == 1..MaxVersion

\* The actor rules of a version are abstracted to one or none of them; a step
\* names the version whose rule it uses, or none.
Route == [rules : 0..1, steps : SUBSET Step, actor : [Step -> Version \cup {NoRule}],
          edges : SUBSET Edge]

EmptyRoute == [rules |-> 0, steps |-> {}, actor |-> [s \in Step |-> NoRule], edges |-> {}]

Status == {"absent", "draft", "in_review", "published", "archived"}

Phase == {"idle", "loaded", "validated", "collected"}

Op == {"none", "draft", "save", "submit", "return", "publish"}

Idle == [phase |-> "idle", op |-> "none", target |-> 0, seen |-> 0, base |-> 0,
         route |-> EmptyRoute, previous |-> {}]

VersionRow == [status : Status, revision : 0..MaxRevision, route : Route]

Request == [phase : Phase, op : Op, target : Version \cup {0}, seen : 0..MaxRevision,
            base : Version \cup {0}, route : Route,
            previous : SUBSET (Version \X (0..MaxRevision))]

TypeOK ==
  /\ version \in [Version -> VersionRow]
  /\ session \in [Session -> Request]
  /\ instances \subseteq [version : Version, route : Route]

Init ==
  /\ version = [v \in Version |-> [status |-> "absent", revision |-> 0, route |-> EmptyRoute]]
  /\ session = [s \in Session |-> Idle]
  /\ instances = {}

\* The seed installs every definition with version 1 published.
SeededInit ==
  /\ \E route \in Route :
       /\ route.rules = 1 /\ NoProblems(route.steps, route.edges)
       /\ \A k \in Step : route.actor[k] = IF k \in route.steps THEN 1 ELSE NoRule
       /\ version = [v \in Version |->
            IF v = 1 THEN [status |-> "published", revision |-> 1, route |-> route]
            ELSE [status |-> "absent", revision |-> 0, route |-> EmptyRoute]]
  /\ session = [s \in Session |-> Idle]
  /\ instances = {}

Exists(v) == v \in Version /\ version[v].status # "absent"

Publishable(route) == NoProblems(route.steps, route.edges)

\* Slip: the archived rows carry no revision.
FreshTarget(s) == version[session[s].target].revision = session[s].seen

\* Every row this transaction would UPDATE still has the revision it loaded.
Fresh(s) ==
  /\ version[session[s].target].revision = session[s].seen
  /\ \A p \in session[s].previous : version[p[1]].revision = p[2]

---------------------------------------------------------------------------
(* create_draft and _clone *)

\* max(version_number) + 1 is read, then the base version row, if one is given.
BeginDraft(s) ==
  /\ session[s].phase = "idle"
  /\ \E n \in Version, b \in {v \in Version : Exists(v)} \cup {0} :
       /\ ~Exists(n) /\ \A v \in Version : Exists(v) <=> v < n
       /\ session' = [session EXCEPT ![s] = [Idle EXCEPT !.phase = "loaded", !.op = "draft",
                                                         !.target = n, !.base = b]]
  /\ UNCHANGED <<version, instances>>

\* _clone reads the rules of the base in a first query ...
CloneRules(s) ==
  /\ session[s].phase = "loaded" /\ session[s].op = "draft" /\ session[s].base # 0
  /\ session' = [session EXCEPT ![s] =
       [@ EXCEPT !.phase = "validated", !.route.rules = version[session[s].base].route.rules]]
  /\ UNCHANGED <<version, instances>>

\* ... its steps in a second one, keeping an actor rule only when the first
\* query returned it (rule_map.get) ...
ClonedSteps(route, base, b, n) ==
  [route EXCEPT
     !.steps = base.steps,
     !.actor = [k \in Step |-> IF base.actor[k] = b /\ route.rules = 1 THEN n ELSE NoRule]]

CloneSteps(s) ==
  LET c == session[s]
      base == version[c.base].route
  IN
  /\ c.phase = "validated" /\ c.op = "draft"
  /\ session' = [session EXCEPT ![s] =
       [c EXCEPT !.phase = "collected",
                 !.route = ClonedSteps(c.route, base, c.base, c.target)]]
  /\ UNCHANGED <<version, instances>>

\* ... and its transitions in a third: an end it has not copied is a KeyError.
\* The insert fails on (process_definition_id, version_number) when another
\* draft took the number first.
CommitDraft(s) ==
  LET c == session[s]
      edges == IF c.base = 0 THEN {} ELSE version[c.base].route.edges
  IN
  /\ c.op = "draft"
  /\ IF c.base = 0 THEN c.phase = "loaded" ELSE c.phase = "collected"
  /\ \A e \in edges : e[1] \in c.route.steps /\ e[2] \in c.route.steps
  /\ ~Exists(c.target)
  /\ version' = [version EXCEPT ![c.target] =
       [status |-> "draft", revision |-> 1, route |-> [c.route EXCEPT !.edges = edges]]]
  /\ session' = [session EXCEPT ![s] = Idle]
  /\ UNCHANGED instances

---------------------------------------------------------------------------
(* save_actor_rule, save_step and save_transition *)

\* One more row of the route of v: its rule, a step with its actor, or a transition
\* between its steps (one to a step of another version never validates and is
\* left out).  The foreign key of a step lets its rule belong to any version.
HasRule(route, v, w) == (IF w = v THEN route ELSE version[w].route).rules = 1

WithStep(route, k, a) == [route EXCEPT !.steps = @ \cup {k}, !.actor[k] = a]

AddedSteps(route, v) ==
  {WithStep(route, k, a) :
     k \in Step \ route.steps, a \in {NoRule} \cup {w \in Version : HasRule(route, v, w)}}

AddedEdges(route) ==
  {[route EXCEPT !.edges = @ \cup {e}] : e \in Edge \cap (route.steps \X route.steps)}

Added(route, v) ==
  {[route EXCEPT !.rules = 1]} \cup AddedSteps(route, v) \cup AddedEdges(route)

\* Slip: _draft finds the version but does not look at its status.
BeginSaveAnyStatus(s) ==
  /\ session[s].phase = "idle"
  /\ \E v \in Version :
       /\ Exists(v)
       /\ session' = [session EXCEPT ![s] = [Idle EXCEPT !.phase = "loaded", !.op = "save",
                                              !.target = v, !.seen = version[v].revision]]
  /\ UNCHANGED <<version, instances>>

\* _draft loads the version row: only a draft is editable.
BeginSave(s) ==
  /\ session[s].phase = "idle"
  /\ \E v \in Version :
       /\ version[v].status = "draft"
       /\ session' = [session EXCEPT ![s] = [Idle EXCEPT !.phase = "loaded", !.op = "save",
                                              !.target = v, !.seen = version[v].revision]]
  /\ UNCHANGED <<version, instances>>

\* Slip: a save operation without _touch.
CommitSaveUntouched(s) ==
  LET v == session[s].target IN
  /\ session[s].op = "save"
  /\ \E route \in Added(version[v].route, v) \ {version[v].route} :
       version' = [version EXCEPT ![v].route = route]
  /\ session' = [session EXCEPT ![s] = Idle]
  /\ UNCHANGED instances

\* The row is inserted and _touch makes the commit an UPDATE of the version row.
CommitSave(s) ==
  LET c == session[s]
      v == c.target
  IN
  /\ c.op = "save" /\ Fresh(s) /\ version[v].revision < MaxRevision
  /\ \E route \in Added(version[v].route, v) \ {version[v].route} :
       version' = [version EXCEPT ![v].route = route, ![v].revision = @ + 1]
  /\ session' = [session EXCEPT ![s] = Idle]
  /\ UNCHANGED instances

---------------------------------------------------------------------------
(* submit_review, return_draft (_transition_version) and publish *)

SourceStatus(op) ==
  CASE op = "submit" -> {"draft"}
    [] op = "return" -> {"in_review"}
    [] op = "publish" -> {"draft", "in_review"}

\* The version row is loaded; its revision and status are checked.
BeginTransition(s) ==
  /\ session[s].phase = "idle"
  /\ \E v \in Version, op \in {"submit", "return", "publish"} :
       /\ version[v].status \in SourceStatus(op)
       /\ session' = [session EXCEPT ![s] = [Idle EXCEPT !.phase = "loaded", !.op = op,
                                              !.target = v, !.seen = version[v].revision]]
  /\ UNCHANGED <<version, instances>>

\* _problems reads the steps and transitions; a problem ends the request.
Validate(s) ==
  /\ session[s].phase = "loaded" /\ session[s].op \in {"submit", "publish"}
  /\ IF Publishable(version[session[s].target].route)
     THEN session' = [session EXCEPT ![s] = [@ EXCEPT !.phase = "validated"]]
     ELSE session' = [session EXCEPT ![s] = Idle]
  /\ UNCHANGED <<version, instances>>

\* publish loads the versions that are published now.
CollectPrevious(s) ==
  /\ session[s].phase = "validated" /\ session[s].op = "publish"
  /\ session' = [session EXCEPT ![s] =
       [@ EXCEPT !.phase = "collected",
                 !.previous = {<<p, version[p].revision>> : p \in
                                 {q \in Version : version[q].status = "published"}}]]
  /\ UNCHANGED <<version, instances>>

CommitReview(s) ==
  LET c == session[s] IN
  /\ \/ c.op = "submit" /\ c.phase = "validated"
     \/ c.op = "return" /\ c.phase = "loaded"
  /\ Fresh(s) /\ version[c.target].revision < MaxRevision
  /\ version' = [version EXCEPT
       ![c.target].status = IF c.op = "submit" THEN "in_review" ELSE "draft",
       ![c.target].revision = @ + 1]
  /\ session' = [session EXCEPT ![s] = Idle]
  /\ UNCHANGED instances

\* The previous versions become archived and the draft published in one flush.
CommitPublish(s) ==
  LET c == session[s]
      old == {p[1] : p \in c.previous}
  IN
  /\ c.op = "publish" /\ c.phase = "collected"
  /\ Fresh(s) /\ \A v \in old \cup {c.target} : version[v].revision < MaxRevision
  /\ version' = [v \in Version |->
       IF v = c.target
       THEN [version[v] EXCEPT !.status = "published", !.revision = @ + 1]
       ELSE IF v \in old
       THEN [version[v] EXCEPT !.status = "archived", !.revision = @ + 1]
       ELSE version[v]]
  /\ session' = [session EXCEPT ![s] = Idle]
  /\ UNCHANGED instances

\* Any failure rolls back: a problem found by another guard, StaleDataError when
\* ~Fresh(s), a unique constraint, the KeyError of a clone, a lost connection.
Fail(s) ==
  /\ session[s].phase # "idle"
  /\ session' = [session EXCEPT ![s] = Idle]
  /\ UNCHANGED <<version, instances>>

---------------------------------------------------------------------------
(* start_instance *)

\* The published version with the highest number; its route is snapshotted.
StartInstance ==
  \E v \in Version :
    /\ version[v].status = "published"
    /\ \A w \in Version : version[w].status = "published" => w <= v
    /\ version[v].route.steps # {}
    /\ instances' = instances \cup {[version |-> v, route |-> version[v].route]}
    /\ UNCHANGED <<version, session>>

Next ==
  \/ \E s \in Session :
       \/ BeginDraft(s) \/ CloneRules(s) \/ CloneSteps(s) \/ CommitDraft(s)
       \/ BeginSave(s) \/ CommitSave(s)
       \/ BeginTransition(s) \/ Validate(s) \/ CollectPrevious(s)
       \/ CommitReview(s) \/ CommitPublish(s) \/ Fail(s)
  \/ StartInstance

Spec == Init /\ [][Next]_vars

SeededSpec == SeededInit /\ [][Next]_vars

---------------------------------------------------------------------------
(* The inductive invariant behind the properties *)

\* The statuses in which the row of c.target was loaded.
LoadedStatus(op) == IF op = "save" THEN {"draft"} ELSE SourceStatus(op)

\* A transaction finds the row it loaded and the published rows it collected as
\* it read them, or finds a higher revision and fails.
TargetIsCurrentOrStale(r) ==
  r.op \in {"save", "submit", "return", "publish"} =>
    /\ version[r.target].status # "absent"
    /\ r.seen <= version[r.target].revision
    /\ r.seen = version[r.target].revision =>
         /\ version[r.target].status \in LoadedStatus(r.op)
         /\ r.phase \in {"validated", "collected"} => Publishable(version[r.target].route)

PreviousIsCurrentOrStale(r) ==
  \A p \in r.previous :
    /\ version[p[1]].status # "absent"
    /\ p[2] <= version[p[1]].revision
    /\ p[2] = version[p[1]].revision => version[p[1]].status = "published"

RequestsAreCurrentOrStale ==
  \A s \in Session :
    TargetIsCurrentOrStale(session[s]) /\ PreviousIsCurrentOrStale(session[s])

\* Every request names a version number; a clone also names its base.
RequestsNameVersions ==
  \A s \in Session :
    /\ session[s].op # "none" => session[s].target \in Version
    /\ session[s].op = "draft" /\ session[s].phase \in {"validated", "collected"}
         => session[s].base \in Version

IInv ==
  /\ TypeOK
  /\ RequestsNameVersions
  /\ RequestsAreCurrentOrStale

---------------------------------------------------------------------------
(* Properties *)

\* A route in review, published or archived is one validate_definition accepts,
\* whatever was saved while it was being validated: submit_review and publish
\* read the route before they write, and _touch makes every edit in between fail them.
SettledRoutesAreValid ==
  \A v \in Version :
    version[v].status \in {"in_review", "published", "archived"} => Publishable(version[v].route)

\* The route an instance was started with stays the route of its version:
\* act_task follows the rows of definition_version_id, not the snapshot.
RunningRoutesAreFixed ==
  \A i \in instances :
    /\ version[i.version].status \in {"published", "archived"}
    /\ version[i.version].route = i.route

\* A definition has one published route, the one the catalogue shows
\* (list_definitions) and new instances start on.  Two concurrent publish
\* requests conflict only through the row of the version they both archive.
OnePublishedVersion ==
  \A v, w \in Version :
    version[v].status = "published" /\ version[w].status = "published" => v = w

\* What keeps OnePublishedVersion once a version is published: a published
\* version never disappears and every publish request has found one to archive.
SeededInv ==
  /\ OnePublishedVersion
  /\ \E v \in Version : version[v].status = "published"
  /\ \A s \in Session :
       session[s].op = "publish" /\ session[s].phase = "collected" => session[s].previous # {}
===========================================================================
