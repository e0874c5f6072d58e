-------------------------- MODULE ReferenceCatalog --------------------------
(***************************************************************************)
(* The reference rows of an organization: positions, unit types and        *)
(* relationship types.  Each kind has a table and handlers of its own, which *)
(* keep the same protocol: codes must differ, a change names the revision    *)
(* the client has on the page, the whole row is loaded, changed and written  *)
(* back WHERE revision is the one loaded, and a unique constraint stands      *)
(* behind the codes.  A row is never deleted, only deactivated.  Names and    *)
(* descriptions are left out.                                                 *)
(***************************************************************************)
EXTENDS Naturals

CONSTANTS Client,     \* users, each with one page and one request at a time
          Position, UnitType, RelationshipType,  \* ids of rows
          Code,       \* codes, normalized
          MaxChange   \* bound: revision of a row

ASSUME CatalogAssumption == MaxChange \in Nat \ {0}

VARIABLES catalog,  \* the rows; revision 0 means that there is none
          page,     \* the row a client has opened, as it was then
          save      \* the row a request is about to write, and where

catalogVars == <<catalog, page, save>>

Entry == Position \cup UnitType \cup RelationshipType

Content == [active : BOOLEAN] \cup [active : BOOLEAN, parents : SUBSET UnitType]
           \cup [active : BOOLEAN, prevents_cycles : BOOLEAN]

EntryRow == [code : Code, revision : 1..MaxChange, content : Content]

NoRow == [revision |-> 0]
NoPage == [entry |-> "none"]

Exist == {e \in Entry : catalog[e].revision > 0}

CatalogTypeOK ==
  /\ catalog \in [Entry -> EntryRow \cup {NoRow}]
  /\ page \in [Client -> {NoPage} \cup [entry : Entry, row : EntryRow]]
  /\ save \in [Client -> {NoPage} \cup [entry : Entry, row : EntryRow, seen : 0..MaxChange]]

CatalogInit ==
  /\ catalog = [e \in Entry |-> NoRow]
  /\ page = [c \in Client |-> NoPage] /\ save = [c \in Client |-> NoPage]

\* list_positions, list_unit_types, list_relationship_types
OpenEntry(c, e) ==
  /\ save[c] = NoPage /\ e \in Exist
  /\ page' = [page EXCEPT ![c] = [entry |-> e, row |-> catalog[e]]]
  /\ UNCHANGED <<catalog, save>>

CodeIsFree(kind, code, e) == \A other \in Exist \cap (kind \ {e}) : catalog[other].code # code

\* What the three creations have in common; the id is a new one.
Insert(c, kind, e, code, content) ==
  /\ save[c] = NoPage
  /\ e \notin Exist /\ \A other \in Client : save[other] # NoPage => save[other].entry # e
  /\ CodeIsFree(kind, code, e)
  /\ save' = [save EXCEPT ![c] =
       [entry |-> e, row |-> [code |-> code, revision |-> 1, content |-> content], seen |-> 0]]
  /\ UNCHANGED <<catalog, page>>

CreatePosition(c, e, code) == Insert(c, Position, e, code, [active |-> TRUE])

CreateUnitType(c, e, code) ==
  \E parents \in SUBSET (Exist \cap UnitType) :
    Insert(c, UnitType, e, code, [active |-> TRUE, parents |-> parents])

CreateRelationshipType(c, e, code) ==
  \E prevents \in BOOLEAN :
    Insert(c, RelationshipType, e, code, [active |-> TRUE, prevents_cycles |-> prevents])

\* Slip: the revision the client sent is not compared.
AnyRevision(c) == page[c] # NoPage

\* assert_revision: the row still is the one on the client's page.
AssertRevision(c) == page[c] # NoPage /\ catalog[page[c].entry].revision = page[c].row.revision

\* What the three changes have in common: the fields the client names are changed
\* in the row as loaded.
Change(c, kind, code, content) ==
  LET e == page[c].entry
      row == catalog[e]
  IN
  /\ save[c] = NoPage /\ AssertRevision(c) /\ e \in kind /\ row.revision < MaxChange
  /\ code # row.code => CodeIsFree(kind, code, e)
  /\ save' = [save EXCEPT ![c] =
       [entry |-> e, row |-> [code |-> code, revision |-> row.revision + 1, content |-> content],
        seen |-> row.revision]]
  /\ UNCHANGED <<catalog, page>>

UpdatePosition(c, code) ==
  \E active \in BOOLEAN : Change(c, Position, code, [active |-> active])

UpdateUnitType(c, code) ==
  \E active \in BOOLEAN, parents \in SUBSET (Exist \cap UnitType) :
    Change(c, UnitType, code, [active |-> active, parents |-> parents])

\* The flags change whatever relationships of the type there are.
UpdateRelationshipType(c, code) ==
  \E active, prevents \in BOOLEAN :
    Change(c, RelationshipType, code, [active |-> active, prevents_cycles |-> prevents])

\* The INSERT or UPDATE: the unique (organization_id, code), and the revision of
\* _optimistic_update.  The answer shows the client the row as it is now.
CommitSave(c) ==
  /\ save[c] # NoPage
  /\ \A kind \in {Position, UnitType, RelationshipType} :
       save[c].entry \in kind => CodeIsFree(kind, save[c].row.code, save[c].entry)
  /\ catalog[save[c].entry].revision = save[c].seen
  /\ catalog' = [catalog EXCEPT ![save[c].entry] = save[c].row]
  /\ page' = [page EXCEPT ![c] = [entry |-> save[c].entry, row |-> save[c].row]]
  /\ save' = [save EXCEPT ![c] = NoPage]

\* A conflict, a violated constraint, a lost connection.
RollBackSave(c) ==
  /\ save[c] # NoPage
  /\ save' = [save EXCEPT ![c] = NoPage]
  /\ UNCHANGED <<catalog, page>>

CatalogNext ==
  \E c \in Client :
    \/ \E e \in Entry : OpenEntry(c, e)
    \/ \E code \in Code :
         \/ \E e \in Position : CreatePosition(c, e, code)
         \/ \E e \in UnitType : CreateUnitType(c, e, code)
         \/ \E e \in RelationshipType : CreateRelationshipType(c, e, code)
         \/ UpdatePosition(c, code) \/ UpdateUnitType(c, code) \/ UpdateRelationshipType(c, code)
    \/ CommitSave(c) \/ RollBackSave(c)

CatalogSpec == CatalogInit /\ [][CatalogNext]_catalogVars

---------------------------------------------------------------------------
(* Properties *)

\* The checks of concurrent requests come to what they would one after the other:
\* every write of a row is on top of what its client had on the page, so it undoes
\* nobody else's change, and takes a code no row of its kind has (assert_revision
\* and _optimistic_update, the list of codes and uq_..._code).
CatalogChangesAreSerial ==
  [][\A kind \in {Position, UnitType, RelationshipType} : \A e \in kind :
       catalog'[e] # catalog[e] =>
         /\ \A other \in Exist \cap (kind \ {e}) : catalog'[e].code # catalog[other].code
         /\ \E c \in Client : /\ save[c] # NoPage /\ save'[c] = NoPage /\ save[c].entry = e
                              /\ e \in Exist => page[c] = [entry |-> e, row |-> catalog[e]]
    ]_catalogVars
===========================================================================
