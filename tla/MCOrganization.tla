-------------------------- MODULE MCOrganization --------------------------
(***************************************************************************)
(* Two requests on the structure of an organization with a root and up to  *)
(* two more units, two slots and three versions, where the edits clients    *)
(* send are the ones that can get into each other's way; or two requests on *)
(* its reference rows of one kind; or publications over the assignments in   *)
(* a slot.  A behaviour moves one of these, chosen at the start: the         *)
(* structure sees reference rows as Offer lets them be.                      *)
(***************************************************************************)
EXTENDS Organization, ReferenceCatalog, StaffedPublication, TLC

CONSTANTS r1, r2

VARIABLE part

MCSession == {r1, r2}
MCSymmetry == Permutations(MCSession)

MCUnit == {1, 2, 3}
MCSlot == {1, 2}

MCSeeded == [units |-> {1, 2, 3}, active |-> {1, 2, 3}, parent |-> <<0, 1, 1>>, links |-> {},
             slots |-> {1}, open |-> {1}, place |-> <<1, 0>>, manager |-> <<0, 0>>,
             heads |-> {1}, policy |-> {"staffingReview"}]

\* Moves that together close a loop, a new slot in a unit that is being
\* deactivated, a manager that is being closed, or opened again in that unit.
MCEdit ==
  {[kind |-> "moveUnit", unit |-> 2, parent |-> 3], [kind |-> "moveUnit", unit |-> 3, parent |-> 2],
   [kind |-> "deactivateUnit", unit |-> 3],
   [kind |-> "putSlot", slot |-> 2, unit |-> 3, manager |-> 1, head |-> TRUE],
   [kind |-> "putSlot", slot |-> 1, unit |-> 3, manager |-> None, head |-> FALSE],
   [kind |-> "closeSlot", slot |-> 1]}

MCEdited == {2}
MCRetirable == {"position"}

Kind == [position |-> Position, unitType |-> UnitType, relationshipType |-> RelationshipType]

\* A slot with room for two halves and what a later version may make of it: half the FTE
\* and blocked, another unit or position, closed or about to close, later dates, or none.
Desk == [state |-> "open", unit |-> 1, position |-> 1, fte |-> 2, from |-> 1, to |-> Unending]
MCPlaceRow == {Desk, [Desk EXCEPT !.state = "held", !.fte = 1], [Desk EXCEPT !.unit = 2],
               [Desk EXCEPT !.position = 2], [Desk EXCEPT !.state = "closed"],
               [Desk EXCEPT !.state = "closing", !.to = 2], [Desk EXCEPT !.from = 3], NoPlace}
MCDesign == [Place -> MCPlaceRow]
MCTerms == {[from |-> day, to |-> Unending, fte |-> 1] : day \in 1..2}

MCInit ==
  /\ part \in DOMAIN Kind \cup {"structure", "staffed"}
  /\ Init /\ CatalogInit /\ StaffedInit
  /\ \A p \in Place : edition[1].design[p] = Desk

MCNext ==
  /\ UNCHANGED part
  /\ \/ part = "structure" /\ Next /\ UNCHANGED <<catalogVars, staffedVars>>
     \/ /\ part \in DOMAIN Kind /\ CatalogNext /\ UNCHANGED <<vars, staffedVars>>
        /\ \A c \in Client : save'[c] # NoPage => save'[c].entry \in Kind[part]
     \/ part = "staffed" /\ StaffedNext /\ UNCHANGED <<vars, catalogVars>>

MCSpec == MCInit /\ [][MCNext]_<<part, vars, catalogVars, staffedVars>>
===========================================================================
