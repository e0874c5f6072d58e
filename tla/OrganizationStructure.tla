---------------------- MODULE OrganizationStructure ----------------------
(***************************************************************************)
(* What one version of the organization structure contains, what an edit   *)
(* of it checks and changes, and what validation asks of it.  A structure  *)
(* has unit rows in a tree, relationships between units, staffing slots    *)
(* that report to each other, and a policy.  Codes, names, dates, FTE and  *)
(* sort orders are abstracted away; a slot that is closing counts as        *)
(* closed, as it does in every check but the one on later closing dates.    *)
(* All units have one type, all slots one position and all relationships   *)
(* one type that prevents cycles: Reference names these three, which       *)
(* belong to the organization and can be deactivated at any time.          *)
(***************************************************************************)
EXTENDS Naturals, FiniteSets

CONSTANTS Unit, Slot

None == 0   \* parent_unit_id or reports_to_slot_id is NULL

ASSUME UnitAssumption == None \notin Unit /\ IsFiniteSet(Unit)
ASSUME SlotAssumption == None \notin Slot

Reference == {"unitType", "position", "relationshipType"}

\* The policy flags publication and validation look at.
Policy == SUBSET {"publishReview", "staffingReview", "multipleHeads"}

Structure == [units : SUBSET Unit, active : SUBSET Unit, parent : [Unit -> Unit \cup {None}],
              links : SUBSET (Unit \X Unit),
              slots : SUBSET Slot, open : SUBSET Slot, place : [Slot -> Unit \cup {None}],
              manager : [Slot -> Slot \cup {None}], heads : SUBSET Slot, policy : Policy]

---------------------------------------------------------------------------
(* Graphs: a set of edges over a set of nodes *)

\* The nodes a walk from n visits: the least set with n closed under the edges.
Walk(nodes, edges, n) ==
  {m \in nodes : \A closed \in SUBSET nodes :
     (n \in closed /\ \A e \in edges : e[1] \in closed => e[2] \in closed) => m \in closed}

\* No cycle: every set of nodes has one whose edges all leave the set.
Acyclic(nodes, edges) ==
  \A some \in (SUBSET nodes) \ {{}} : \E n \in some : \A e \in edges : e[1] = n => e[2] \notin some

ParentEdges(st, units) == {<<u, st.parent[u]>> : u \in {v \in units : st.parent[v] \in units}}

ReportingEdges(st) == {<<s, st.manager[s]>> : s \in {t \in st.open : st.manager[t] \in st.slots}}

\* The unit itself and every unit above it, active or not.
Ancestors(st, u) == Walk(Unit, ParentEdges(st, st.units), u)

ActiveRoots(st) == {u \in st.active : st.parent[u] = None}

---------------------------------------------------------------------------
(* The edits.  Can... is what the handler checks on the rows it reads,      *)
(* after it has found the version editable; the other operator is what it   *)
(* writes.                                                                  *)

\* _assert_new_unit_values: a new root only when there is none, a child only
\* of an active unit, an active unit type.
CanAddUnit(st, offered, u, p) ==
  /\ u \notin st.units
  /\ "unitType" \in offered
  /\ IF p = None THEN ActiveRoots(st) = {} ELSE p \in st.active

AddUnit(st, u, p) ==
  [st EXCEPT !.units = @ \cup {u}, !.active = @ \cup {u}, !.parent[u] = p]

\* _assert_valid_move: no second root, and never under itself.
CanMoveUnit(st, u, p) ==
  /\ u \in st.units
  /\ IF p = None THEN ActiveRoots(st) \subseteq {u}
     ELSE p \in st.active /\ u \notin Ancestors(st, p)

MoveUnit(st, u, p) == [st EXCEPT !.parent[u] = p]

\* Slip: the slots of the unit are forgotten.
CanDeactivateUnitWithSlots(st, u) ==
  /\ u \in st.active
  /\ \A v \in st.active : st.parent[v] # u
  /\ \A e \in st.links : u \notin {e[1], e[2]}

\* deactivate_unit: no active child, relationship or open slot is left behind.
CanDeactivateUnit(st, u) ==
  /\ u \in st.active
  /\ \A v \in st.active : st.parent[v] # u
  /\ \A e \in st.links : u \notin {e[1], e[2]}
  /\ \A s \in st.open : st.place[s] # u

DeactivateUnit(st, u) == [st EXCEPT !.active = @ \ {u}]

\* _assert_relationship_valid: two different active units, no duplicate, no path back.
CanLink(st, offered, u, v) ==
  /\ "relationshipType" \in offered
  /\ {u, v} \subseteq st.active /\ u # v
  /\ <<u, v>> \notin st.links
  /\ u \notin Walk(Unit, st.links, v)

Link(st, u, v) == [st EXCEPT !.links = @ \cup {<<u, v>>}]

Unlink(st, u, v) == [st EXCEPT !.links = @ \ {<<u, v>>}]

\* update_relationship validates the row it has changed without counting the row itself.
CanRelink(st, offered, old, new) ==
  old \in st.links /\ CanLink(Unlink(st, old[1], old[2]), offered, new[1], new[2])

Relink(st, old, new) == Link(Unlink(st, old[1], old[2]), new[1], new[2])

\* _assert_staffing_slot_valid, for a new slot and for one that is changed, which may be
\* a closed one: only the new status is asked not to be closing or closed, so a change
\* can open the slot again.  An active unit and position, an open manager whose own
\* managers do not lead back, one open head per unit unless the policy allows more.
CanPutSlot(st, offered, s, u, m, head) ==
  /\ u \in st.active
  /\ "position" \in offered
  /\ m # None => /\ m \in st.open /\ m # s
                 /\ s \notin Walk(Slot, ReportingEdges(st), m)
  /\ head /\ "multipleHeads" \notin st.policy
       => \A t \in st.open \ {s} : st.place[t] = u => t \notin st.heads

PutSlot(st, s, u, m, head) ==
  [st EXCEPT !.slots = @ \cup {s}, !.open = @ \cup {s}, !.place[s] = u, !.manager[s] = m,
             !.heads = IF head THEN @ \cup {s} ELSE @ \ {s}]

\* close_staffing_slot: no direct reports; StaffingSlot.close refuses a second time.
CanCloseSlot(st, s) == s \in st.open /\ \A t \in st.open : st.manager[t] # s

CloseSlot(st, s) == [st EXCEPT !.open = @ \ {s}]

UpdatePolicy(st, policy) == [st EXCEPT !.policy = policy]

\* One request to change a draft.  "attributes" stands for the edits that change
\* nothing of the above: update_unit, reorder_units and unchanged rows.
EditRequest ==
  [kind : {"addUnit", "moveUnit"}, unit : Unit, parent : Unit \cup {None}]
    \cup [kind : {"deactivateUnit"}, unit : Unit]
    \cup [kind : {"link", "unlink"}, ends : Unit \X Unit]
    \cup [kind : {"relink"}, old : Unit \X Unit, ends : Unit \X Unit]
    \cup [kind : {"putSlot"}, slot : Slot, unit : Unit, manager : Slot \cup {None}, head : BOOLEAN]
    \cup [kind : {"closeSlot"}, slot : Slot]
    \cup [kind : {"policy"}, policy : Policy]
    \cup [kind : {"attributes"}]

Allowed(st, offered, e) ==
  CASE e.kind = "addUnit" -> CanAddUnit(st, offered, e.unit, e.parent)
    [] e.kind = "moveUnit" -> CanMoveUnit(st, e.unit, e.parent)
    [] e.kind = "deactivateUnit" -> CanDeactivateUnit(st, e.unit)
    [] e.kind = "link" -> CanLink(st, offered, e.ends[1], e.ends[2])
    [] e.kind = "unlink" -> e.ends \in st.links
    [] e.kind = "relink" -> CanRelink(st, offered, e.old, e.ends)
    [] e.kind = "putSlot" -> CanPutSlot(st, offered, e.slot, e.unit, e.manager, e.head)
    [] e.kind = "closeSlot" -> CanCloseSlot(st, e.slot)
    [] OTHER -> TRUE

Apply(st, e) ==
  CASE e.kind = "addUnit" -> AddUnit(st, e.unit, e.parent)
    [] e.kind = "moveUnit" -> MoveUnit(st, e.unit, e.parent)
    [] e.kind = "deactivateUnit" -> DeactivateUnit(st, e.unit)
    [] e.kind = "link" -> Link(st, e.ends[1], e.ends[2])
    [] e.kind = "unlink" -> Unlink(st, e.ends[1], e.ends[2])
    [] e.kind = "relink" -> Relink(st, e.old, e.ends)
    [] e.kind = "putSlot" -> PutSlot(st, e.slot, e.unit, e.manager, e.head)
    [] e.kind = "closeSlot" -> CloseSlot(st, e.slot)
    [] e.kind = "policy" -> UpdatePolicy(st, e.policy)
    [] OTHER -> st

---------------------------------------------------------------------------
(* StructureValidator *)

ValidUnits(st, offered) ==
  /\ Cardinality(ActiveRoots(st)) = 1
  /\ \A u \in st.active : st.parent[u] # None => st.parent[u] \in st.active
  /\ Acyclic(st.active, ParentEdges(st, st.active))
  /\ "unitType" \in offered

ValidLinks(st, offered) ==
  /\ \A e \in st.links : {e[1], e[2]} \subseteq st.active /\ e[1] # e[2]
  /\ Acyclic(Unit, st.links)
  /\ st.links # {} => "relationshipType" \in offered

ValidStaffing(st, offered) ==
  /\ \A s \in st.open : st.place[s] \in st.active
  /\ \A s \in st.open : st.manager[s] # None => st.manager[s] \in st.open
  /\ "multipleHeads" \notin st.policy =>
       \A s, t \in st.open \cap st.heads : st.place[s] = st.place[t] => s = t
  /\ Acyclic(Slot, ReportingEdges(st))
  /\ st.open # {} => "position" \in offered

\* The report of validate has no errors.
Valid(st, offered) ==
  ValidUnits(st, offered) /\ ValidLinks(st, offered) /\ ValidStaffing(st, offered)
===========================================================================
