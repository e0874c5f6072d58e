------------------------ MODULE OrganizationProofs ------------------------
(***************************************************************************)
(* Proofs about the structure versions of an organization and about its    *)
(* catalogue of reference rows.  First the edits, as operators on one       *)
(* structure; then the requests on the versions, with what each of them     *)
(* knows when it commits, and the days the versions are in force; then the  *)
(* catalogue; then the work that a publication has noticed.                 *)
(***************************************************************************)
EXTENDS Organization, ReferenceCatalog, StaffedPublication, FiniteSetTheorems, SequenceTheorems,
        WellFoundedInduction, TLAPS

---------------------------------------------------------------------------
(* Structures.  An edit adds at most one edge to a graph, and only when no walk from its end   *)
(* leads to its start; a graph without cycles stays one (NewEdge).  Sound is what the          *)
(* edits keep beside that: parents are units, active ones of active units, open slots are       *)
(* slots.                                                                                     *)

LEMMA NotOnWalk ==
  ASSUME NEW nodes, NEW edges, NEW u \in nodes, NEW p \in nodes, u \notin Walk(nodes, edges, p)
  PROVE  \E closed \in SUBSET nodes :
           /\ p \in closed /\ u \notin closed
           /\ \A e \in edges : e[1] \in closed => e[2] \in closed
BY DEF Walk

LEMMA NewEdge ==
  ASSUME NEW nodes, NEW edges, NEW u \in nodes, NEW p \in nodes, NEW closed \in SUBSET nodes,
         Acyclic(nodes, edges),
         p \in closed, u \notin closed, \A e \in edges : e[1] \in closed => e[2] \in closed,
         NEW more, \A e \in more : e \in edges \/ (e[1] = u /\ e[2] = p)
  PROVE  Acyclic(nodes, more)
<1> SUFFICES ASSUME NEW some \in (SUBSET nodes) \ {{}}
             PROVE  \E n \in some : \A e \in more : e[1] = n => e[2] \notin some
  BY DEF Acyclic
<1>1. CASE some \cap closed # {}
  <2>1. some \cap closed \in (SUBSET nodes) \ {{}}
    BY <1>1
  <2>2. PICK n \in some \cap closed : \A e \in edges : e[1] = n => e[2] \notin some \cap closed
    BY <2>1 DEF Acyclic
  <2>3. \A e \in more : e[1] = n => e[2] \notin some
    BY <2>2
  <2> QED
    BY <2>2, <2>3
<1>2. CASE some \cap closed = {}
  <2>1. PICK n \in some : \A e \in edges : e[1] = n => e[2] \notin some
    BY DEF Acyclic
  <2>2. \A e \in more : e[1] = n => e[2] \notin some
    BY <1>2, <2>1
  <2> QED
    BY <2>1, <2>2
<1> QED
  BY <1>1, <1>2

LEMMA FewerEdges ==
  ASSUME NEW nodes, NEW edges, Acyclic(nodes, edges), NEW fewer, \A e \in fewer : e \in edges
  PROVE  Acyclic(nodes, fewer)
BY DEF Acyclic

\* A set of units has at most one member.
LEMMA AtMostOne ==
  ASSUME NEW S \in SUBSET Unit
  PROVE  Cardinality(S) <= 1 <=> \A x, y \in S : x = y
<1>1. IsFiniteSet(S) /\ Cardinality(S) \in Nat
  BY UnitAssumption, FS_Subset, FS_CardinalityType
<1>2. Cardinality(S) = 0 <=> S = {}
  BY <1>1, FS_EmptySet
<1>3. Cardinality(S) = 1 <=> \E x : S = {x}
  BY <1>1, FS_Singleton
<1>4. (\A x, y \in S : x = y) <=> (S = {} \/ \E x : S = {x})
  OBVIOUS
<1>5. Cardinality(S) <= 1 <=> (Cardinality(S) = 0 \/ Cardinality(S) = 1)
  BY <1>1
<1> QED
  BY <1>2, <1>3, <1>4, <1>5

OneRoot(st) == \A u, v \in st.active : st.parent[u] = None /\ st.parent[v] = None => u = v

\* Everything that keeps a structure connected, edits being made one at a time.
Sound(st) ==
  /\ st \in Structure
  /\ st.active \subseteq st.units /\ st.open \subseteq st.slots
  /\ OneRoot(st)
  /\ \A u \in st.units : st.parent[u] # None => st.parent[u] \in st.units
  /\ \A u \in st.active : st.parent[u] # None => st.parent[u] \in st.active
  /\ Acyclic(Unit, ParentEdges(st, st.units)) /\ Acyclic(Unit, st.links)
  /\ \A e \in st.links : e[1] \in st.active /\ e[2] \in st.active
  /\ \A s \in st.open : /\ st.place[s] \in st.active
                        /\ st.manager[s] # None => st.manager[s] \in st.open
  /\ Acyclic(Slot, ReportingEdges(st))

LEMMA RootsAre ==
  ASSUME NEW st \in Structure
  PROVE  ActiveRoots(st) \in SUBSET Unit /\ (Cardinality(ActiveRoots(st)) <= 1 <=> OneRoot(st))
<1>1. ActiveRoots(st) \in SUBSET Unit
  BY DEF ActiveRoots, Structure
<1>2. (\A x, y \in ActiveRoots(st) : x = y) <=> OneRoot(st)
  BY DEF ActiveRoots, OneRoot
<1> QED
  BY <1>1, <1>2, AtMostOne

LEMMA SoundIsConnected ==
  ASSUME NEW st, Sound(st)
  PROVE  Connected(st)
BY RootsAre DEF Sound, Connected

\* The edges of a structure.
LEMMA EdgesAre ==
  ASSUME NEW st
  PROVE  /\ \A units, e : e \in ParentEdges(st, units)
                            <=> e[1] \in units /\ st.parent[e[1]] \in units /\ e = <<e[1], st.parent[e[1]]>>
         /\ \A e : e \in ReportingEdges(st)
                     <=> e[1] \in st.open /\ st.manager[e[1]] \in st.slots /\ e = <<e[1], st.manager[e[1]]>>
BY DEF ParentEdges, ReportingEdges

\* An edge of one structure that is one of another.
LEMMA ParentEdgesFrom ==
  ASSUME NEW st, NEW n
  PROVE  \A e \in ParentEdges(n, n.units) :
           /\ e[1] \in n.units /\ e[2] = n.parent[e[1]] /\ e[2] \in n.units
           /\ (e[1] \in st.units /\ st.parent[e[1]] \in st.units /\ n.parent[e[1]] = st.parent[e[1]])
                => e \in ParentEdges(st, st.units)
<1> SUFFICES ASSUME NEW v \in n.units, n.parent[v] \in n.units
             PROVE  (v \in st.units /\ st.parent[v] \in st.units /\ n.parent[v] = st.parent[v])
                      => <<v, n.parent[v]>> \in ParentEdges(st, st.units)
  BY DEF ParentEdges
<1> QED
  BY DEF ParentEdges

LEMMA ReportingEdgesFrom ==
  ASSUME NEW st, NEW n
  PROVE  \A e \in ReportingEdges(n) :
           /\ e[1] \in n.open /\ e[2] = n.manager[e[1]] /\ e[2] \in n.slots
           /\ (e[1] \in st.open /\ st.manager[e[1]] \in st.slots /\ n.manager[e[1]] = st.manager[e[1]])
                => e \in ReportingEdges(st)
<1> SUFFICES ASSUME NEW t \in n.open, n.manager[t] \in n.slots
             PROVE  (t \in st.open /\ st.manager[t] \in st.slots /\ n.manager[t] = st.manager[t])
                      => <<t, n.manager[t]>> \in ReportingEdges(st)
  BY DEF ReportingEdges
<1> QED
  BY DEF ReportingEdges

\* The fields of a structure.
LEMMA StructureFields ==
  ASSUME NEW st \in Structure
  PROVE  /\ st.units \in SUBSET Unit /\ st.active \in SUBSET Unit /\ st.parent \in [Unit -> Unit \cup {None}]
         /\ st.links \in SUBSET (Unit \X Unit)
         /\ st.slots \in SUBSET Slot /\ st.open \in SUBSET Slot /\ st.place \in [Slot -> Unit \cup {None}]
         /\ st.manager \in [Slot -> Slot \cup {None}] /\ st.heads \in SUBSET Slot /\ st.policy \in Policy
BY DEF Structure

LEMMA AddUnitKeeps ==
  ASSUME NEW st, Sound(st), NEW offered, NEW u \in Unit, NEW p \in Unit \cup {None},
         CanAddUnit(st, offered, u, p)
  PROVE  Sound(AddUnit(st, u, p))
<1>1. PICK n : n = AddUnit(st, u, p)
  OBVIOUS
<1>2. st \in Structure
  BY DEF Sound
<1>3. /\ n \in Structure /\ n.units = st.units \cup {u} /\ n.active = st.active \cup {u}
      /\ n.parent = [st.parent EXCEPT ![u] = p]
      /\ n.links = st.links /\ n.slots = st.slots /\ n.open = st.open /\ n.place = st.place
      /\ n.manager = st.manager
  BY <1>1, <1>2 DEF AddUnit, Structure
<1>4. u \notin st.units /\ u \notin st.active /\ (p # None => p \in st.active /\ p \in st.units /\ p # u)
  BY DEF CanAddUnit, Sound
<1>5. \A v \in Unit : n.parent[v] = IF v = u THEN p ELSE st.parent[v]
  BY <1>2, <1>3, StructureFields
<1>6. p = None => \A v \in st.active : st.parent[v] # None
  BY DEF CanAddUnit, ActiveRoots
<1>7. st.active \subseteq Unit /\ st.units \subseteq Unit
  BY <1>2, StructureFields
<1>8. OneRoot(n)
  BY <1>3, <1>4, <1>5, <1>6, <1>7 DEF Sound, OneRoot
<1>9. /\ \A v \in n.units : n.parent[v] # None => n.parent[v] \in n.units
      /\ \A v \in n.active : n.parent[v] # None => n.parent[v] \in n.active
  BY <1>3, <1>4, <1>5, <1>7 DEF Sound
<1>10. Acyclic(Unit, ParentEdges(n, n.units))
  <2>0. \A e \in ParentEdges(n, n.units) :
          e[2] \in n.units /\ (e \in ParentEdges(st, st.units) \/ (e[1] = u /\ e[2] = p))
    <3>1. \A v \in n.units : n.parent[v] \in n.units =>
            \/ v \in st.units /\ st.parent[v] \in st.units /\ n.parent[v] = st.parent[v]
            \/ v = u /\ n.parent[v] = p
      BY <1>3, <1>5, <1>7, UnitAssumption DEF Sound
    <3> QED
      BY <3>1, ParentEdgesFrom
  <2>1. CASE p = None
    <3>1. \A e \in ParentEdges(n, n.units) : e \in ParentEdges(st, st.units)
      <4>1. None \notin n.units
        BY <1>3, <1>7, UnitAssumption
      <4> QED
        BY <2>0, <2>1, <4>1
    <3> QED
      BY <3>1, FewerEdges DEF Sound
  <2>2. CASE p # None
    <3>2. \A e \in ParentEdges(st, st.units) : e[1] \in st.units => e[2] \in st.units
      BY EdgesAre
    <3> QED
      BY <1>4, <1>7, <2>2, <2>0, <3>2, NewEdge DEF Sound
  <2> QED
    BY <2>1, <2>2
<1>11. \A e : e \in ReportingEdges(n) => e \in ReportingEdges(st)
  BY <1>3, EdgesAre
<1>12. Acyclic(Slot, ReportingEdges(n))
  BY <1>11, FewerEdges DEF Sound
<1>13. Sound(n)
  BY <1>3, <1>8, <1>9, <1>10, <1>12 DEF Sound
<1> QED
  BY <1>1, <1>13

LEMMA MoveUnitKeeps ==
  ASSUME NEW st, Sound(st), NEW u \in Unit, NEW p \in Unit \cup {None}, CanMoveUnit(st, u, p)
  PROVE  Sound(MoveUnit(st, u, p))
<1>1. PICK n : n = MoveUnit(st, u, p)
  OBVIOUS
<1>2. st \in Structure
  BY DEF Sound
<1>3. /\ n \in Structure /\ n.units = st.units /\ n.active = st.active
      /\ n.parent = [st.parent EXCEPT ![u] = p]
      /\ n.links = st.links /\ n.slots = st.slots /\ n.open = st.open /\ n.place = st.place
      /\ n.manager = st.manager
  BY <1>1, <1>2 DEF MoveUnit, Structure
<1>4. p # None => p \in st.active /\ p \in st.units /\ u \notin Ancestors(st, p)
  BY DEF CanMoveUnit, Sound
<1>5. \A v \in Unit : n.parent[v] = IF v = u THEN p ELSE st.parent[v]
  BY <1>2, <1>3, StructureFields
<1>6. p = None => \A v \in st.active : st.parent[v] = None => v = u
  BY DEF CanMoveUnit, ActiveRoots
<1>7. st.active \subseteq Unit /\ st.units \subseteq Unit
  BY <1>2, StructureFields
<1>8. OneRoot(n)
  BY <1>3, <1>4, <1>5, <1>6, <1>7 DEF Sound, OneRoot
<1>9. /\ \A v \in n.units : n.parent[v] # None => n.parent[v] \in n.units
      /\ \A v \in n.active : n.parent[v] # None => n.parent[v] \in n.active
  BY <1>3, <1>4, <1>5, <1>7 DEF Sound
<1>10. Acyclic(Unit, ParentEdges(n, n.units))
  <2>0. \A e \in ParentEdges(n, n.units) :
          e[2] \in n.units /\ (e \in ParentEdges(st, st.units) \/ (e[1] = u /\ e[2] = p))
    <3>1. \A v \in n.units : n.parent[v] \in n.units =>
            \/ v \in st.units /\ st.parent[v] \in st.units /\ n.parent[v] = st.parent[v]
            \/ v = u /\ n.parent[v] = p
      BY <1>3, <1>5, <1>7, UnitAssumption DEF Sound
    <3> QED
      BY <3>1, ParentEdgesFrom
  <2>1. CASE p = None
    <3>1. \A e \in ParentEdges(n, n.units) : e \in ParentEdges(st, st.units)
      <4>1. None \notin n.units
        BY <1>3, <1>7, UnitAssumption
      <4> QED
        BY <2>0, <2>1, <4>1
    <3> QED
      BY <3>1, FewerEdges DEF Sound
  <2>2. CASE p # None
    <3>2. p \in Unit /\ u \notin Walk(Unit, ParentEdges(st, st.units), p)
      BY <1>4, <1>7, <2>2 DEF Ancestors
    <3>3. PICK closed \in SUBSET Unit :
            /\ p \in closed /\ u \notin closed
            /\ \A e \in ParentEdges(st, st.units) : e[1] \in closed => e[2] \in closed
      BY <3>2, NotOnWalk
    <3> QED
      BY <2>0, <3>2, <3>3, NewEdge DEF Sound
  <2> QED
    BY <2>1, <2>2
<1>11. \A e : e \in ReportingEdges(n) => e \in ReportingEdges(st)
  BY <1>3, EdgesAre
<1>12. Acyclic(Slot, ReportingEdges(n))
  BY <1>11, FewerEdges DEF Sound
<1>13. Sound(n)
  BY <1>3, <1>8, <1>9, <1>10, <1>12 DEF Sound
<1> QED
  BY <1>1, <1>13

LEMMA DeactivateUnitKeeps ==
  ASSUME NEW st, Sound(st), NEW u \in Unit, CanDeactivateUnit(st, u)
  PROVE  Sound(DeactivateUnit(st, u))
<1>1. PICK n : n = DeactivateUnit(st, u)
  OBVIOUS
<1>2. st \in Structure
  BY DEF Sound
<1>3. /\ n \in Structure /\ n.units = st.units /\ n.active = st.active \ {u} /\ n.parent = st.parent
      /\ n.links = st.links /\ n.slots = st.slots /\ n.open = st.open /\ n.place = st.place
      /\ n.manager = st.manager
  BY <1>1, <1>2 DEF DeactivateUnit, Structure
<1>4. /\ \A e : e \in ParentEdges(n, n.units) => e \in ParentEdges(st, st.units)
      /\ \A e : e \in ReportingEdges(n) => e \in ReportingEdges(st)
  BY <1>3, EdgesAre
<1>5. Acyclic(Unit, ParentEdges(n, n.units)) /\ Acyclic(Slot, ReportingEdges(n))
  BY <1>4, FewerEdges DEF Sound
<1>6. Sound(n)
  BY <1>3, <1>5 DEF Sound, OneRoot, CanDeactivateUnit
<1> QED
  BY <1>1, <1>6

\* Relationships are added and taken away.
LEMMA LinksKeep ==
  ASSUME NEW st, Sound(st), NEW links \in SUBSET (Unit \X Unit), Acyclic(Unit, links),
         \A e \in links : e[1] \in st.active /\ e[2] \in st.active
  PROVE  Sound([st EXCEPT !.links = links])
<1>1. PICK n : n = [st EXCEPT !.links = links]
  OBVIOUS
<1>2. st \in Structure
  BY DEF Sound
<1>3. /\ n \in Structure /\ n.units = st.units /\ n.active = st.active /\ n.parent = st.parent
      /\ n.links = links /\ n.slots = st.slots /\ n.open = st.open /\ n.place = st.place
      /\ n.manager = st.manager
  BY <1>1, <1>2 DEF Structure
<1>4. /\ \A e : e \in ParentEdges(n, n.units) => e \in ParentEdges(st, st.units)
      /\ \A e : e \in ReportingEdges(n) => e \in ReportingEdges(st)
  BY <1>3, EdgesAre
<1>5. Acyclic(Unit, ParentEdges(n, n.units)) /\ Acyclic(Slot, ReportingEdges(n))
  BY <1>4, FewerEdges DEF Sound
<1>6. Sound(n)
  BY <1>3, <1>5 DEF Sound, OneRoot
<1> QED
  BY <1>1, <1>6

LEMMA UnlinkKeeps ==
  ASSUME NEW st, Sound(st), NEW u, NEW v
  PROVE  Sound(Unlink(st, u, v))
<1>1. PICK links : links = st.links \ {<<u, v>>}
  OBVIOUS
<1>2. links \in SUBSET (Unit \X Unit) /\ \A e \in links : e \in st.links
  BY <1>1, StructureFields DEF Sound
<1>3. Acyclic(Unit, links)
  BY <1>2, FewerEdges DEF Sound
<1>4. \A e \in links : e[1] \in st.active /\ e[2] \in st.active
  BY <1>2 DEF Sound
<1>5. Sound([st EXCEPT !.links = links])
  BY <1>2, <1>3, <1>4, LinksKeep
<1>6. Unlink(st, u, v) = [st EXCEPT !.links = links]
  BY <1>1 DEF Unlink
<1> QED
  BY <1>5, <1>6

LEMMA LinkKeeps ==
  ASSUME NEW st, Sound(st), NEW offered, NEW u \in Unit, NEW v \in Unit, CanLink(st, offered, u, v)
  PROVE  Sound(Link(st, u, v))
<1>1. PICK links : links = st.links \cup {<<u, v>>}
  OBVIOUS
<1>2. links \in SUBSET (Unit \X Unit) /\ \A e \in links : e \in st.links \/ (e[1] = u /\ e[2] = v)
  BY <1>1, StructureFields DEF Sound
<1>3. PICK closed \in SUBSET Unit :
        v \in closed /\ u \notin closed /\ \A e \in st.links : e[1] \in closed => e[2] \in closed
  BY NotOnWalk DEF CanLink
<1>4. Acyclic(Unit, links)
  BY <1>2, <1>3, NewEdge DEF Sound
<1>5. \A e \in links : e[1] \in st.active /\ e[2] \in st.active
  BY <1>2 DEF Sound, CanLink
<1>6. Sound([st EXCEPT !.links = links])
  BY <1>2, <1>4, <1>5, LinksKeep
<1>7. Link(st, u, v) = [st EXCEPT !.links = links]
  BY <1>1 DEF Link
<1> QED
  BY <1>6, <1>7

\* A slot is put into a unit, under a manager who is not one of those it manages.
LEMMA PutSlotKeeps ==
  ASSUME NEW st, Sound(st), NEW offered, NEW s \in Slot, NEW u \in Unit, NEW m \in Slot \cup {None},
         NEW head \in BOOLEAN, CanPutSlot(st, offered, s, u, m, head)
  PROVE  Sound(PutSlot(st, s, u, m, head))
<1>1. PICK n : n = PutSlot(st, s, u, m, head)
  OBVIOUS
<1>2. st \in Structure
  BY DEF Sound
<1>3. PICK heads : heads = IF head THEN st.heads \cup {s} ELSE st.heads \ {s}
  OBVIOUS
<1>4. heads \in SUBSET Slot
  BY <1>2, <1>3, StructureFields
<1>5. n = [st EXCEPT !.slots = st.slots \cup {s}, !.open = st.open \cup {s}, !.place[s] = u, !.manager[s] = m,
                     !.heads = heads]
  BY <1>1, <1>3 DEF PutSlot
<1>6. /\ n \in Structure /\ n.units = st.units /\ n.active = st.active /\ n.parent = st.parent
      /\ n.links = st.links /\ n.slots = st.slots \cup {s} /\ n.open = st.open \cup {s}
      /\ n.place = [st.place EXCEPT ![s] = u] /\ n.manager = [st.manager EXCEPT ![s] = m]
  BY <1>2, <1>4, <1>5 DEF Structure
<1>7. \A t \in Slot : /\ n.place[t] = IF t = s THEN u ELSE st.place[t]
                      /\ n.manager[t] = IF t = s THEN m ELSE st.manager[t]
  BY <1>2, <1>6, StructureFields
<1>8. st.open \subseteq Slot /\ st.slots \subseteq Slot /\ st.open \subseteq st.slots
  BY <1>2, StructureFields DEF Sound
<1>9. u \in st.active /\ (m # None => m \in st.open /\ m # s)
  BY DEF CanPutSlot
<1>10. \A t \in n.open : /\ n.place[t] \in n.active
                         /\ n.manager[t] # None => n.manager[t] \in n.open
  BY <1>6, <1>7, <1>8, <1>9 DEF Sound
<1>11. \A t \in st.open : t # s => (st.manager[t] \in st.slots \cup {s} => st.manager[t] \in st.slots)
  BY <1>8, <1>9, SlotAssumption DEF Sound
<1>12. Acyclic(Slot, ReportingEdges(n))
  <2>0. \A e \in ReportingEdges(n) :
          e[2] \in n.slots /\ (e \in ReportingEdges(st) \/ (e[1] = s /\ e[2] = m))
    <3>1. \A t \in n.open : n.manager[t] \in n.slots =>
            \/ t \in st.open /\ st.manager[t] \in st.slots /\ n.manager[t] = st.manager[t]
            \/ t = s /\ n.manager[t] = m
      BY <1>6, <1>7, <1>8, <1>11
    <3> QED
      BY <3>1, ReportingEdgesFrom
  <2>1. CASE m = None
    <3>1. \A e \in ReportingEdges(n) : e \in ReportingEdges(st)
      <4>1. None \notin n.slots
        BY <1>6, <1>8, SlotAssumption
      <4> QED
        BY <2>0, <2>1, <4>1
    <3> QED
      BY <3>1, FewerEdges DEF Sound
  <2>2. CASE m # None
    <3>2. m \in Slot /\ s \notin Walk(Slot, ReportingEdges(st), m)
      BY <2>2 DEF CanPutSlot
    <3>3. PICK closed \in SUBSET Slot :
            /\ m \in closed /\ s \notin closed
            /\ \A e \in ReportingEdges(st) : e[1] \in closed => e[2] \in closed
      BY <3>2, NotOnWalk
    <3> QED
      BY <2>0, <3>2, <3>3, NewEdge DEF Sound
  <2> QED
    BY <2>1, <2>2
<1>13. \A e : e \in ParentEdges(n, n.units) => e \in ParentEdges(st, st.units)
  BY <1>6, EdgesAre
<1>14. Acyclic(Unit, ParentEdges(n, n.units))
  BY <1>13, FewerEdges DEF Sound
<1>15. Sound(n)
  BY <1>6, <1>8, <1>10, <1>12, <1>14 DEF Sound, OneRoot
<1> QED
  BY <1>1, <1>15

LEMMA CloseSlotKeeps ==
  ASSUME NEW st, Sound(st), NEW s \in Slot, CanCloseSlot(st, s)
  PROVE  Sound(CloseSlot(st, s))
<1>1. PICK n : n = CloseSlot(st, s)
  OBVIOUS
<1>2. st \in Structure
  BY DEF Sound
<1>3. /\ n \in Structure /\ n.units = st.units /\ n.active = st.active /\ n.parent = st.parent
      /\ n.links = st.links /\ n.slots = st.slots /\ n.open = st.open \ {s} /\ n.place = st.place
      /\ n.manager = st.manager
  BY <1>1, <1>2 DEF CloseSlot, Structure
<1>4. /\ \A e : e \in ParentEdges(n, n.units) => e \in ParentEdges(st, st.units)
      /\ \A e : e \in ReportingEdges(n) => e \in ReportingEdges(st)
  BY <1>3, EdgesAre
<1>5. Acyclic(Unit, ParentEdges(n, n.units)) /\ Acyclic(Slot, ReportingEdges(n))
  BY <1>4, FewerEdges DEF Sound
<1>6. Sound(n)
  BY <1>3, <1>5 DEF Sound, OneRoot, CanCloseSlot
<1> QED
  BY <1>1, <1>6

LEMMA UpdatePolicyKeeps ==
  ASSUME NEW st, Sound(st), NEW policy \in Policy
  PROVE  Sound(UpdatePolicy(st, policy))
<1>1. PICK n : n = UpdatePolicy(st, policy)
  OBVIOUS
<1>2. st \in Structure
  BY DEF Sound
<1>3. /\ n \in Structure /\ n.units = st.units /\ n.active = st.active /\ n.parent = st.parent
      /\ n.links = st.links /\ n.slots = st.slots /\ n.open = st.open /\ n.place = st.place
      /\ n.manager = st.manager
  BY <1>1, <1>2 DEF UpdatePolicy, Structure
<1>4. /\ \A e : e \in ParentEdges(n, n.units) => e \in ParentEdges(st, st.units)
      /\ \A e : e \in ReportingEdges(n) => e \in ReportingEdges(st)
  BY <1>3, EdgesAre
<1>5. Acyclic(Unit, ParentEdges(n, n.units)) /\ Acyclic(Slot, ReportingEdges(n))
  BY <1>4, FewerEdges DEF Sound
<1>6. Sound(n)
  BY <1>3, <1>5 DEF Sound, OneRoot
<1> QED
  BY <1>1, <1>6

\* Whatever a client asks for: what its handler checks is enough to keep the structure sound.
LEMMA EditKeepsSound ==
  ASSUME NEW st, Sound(st), NEW offered, NEW e \in EditRequest, Allowed(st, offered, e)
  PROVE  Sound(Apply(st, e))
<1>1. CASE e.kind = "addUnit"
  <2>1. e.unit \in Unit /\ e.parent \in Unit \cup {None}
    BY <1>1 DEF EditRequest
  <2>2. CanAddUnit(st, offered, e.unit, e.parent) /\ Apply(st, e) = AddUnit(st, e.unit, e.parent)
    BY <1>1 DEF Allowed, Apply
  <2> QED
    BY <2>1, <2>2, AddUnitKeeps
<1>2. CASE e.kind = "moveUnit"
  <2>1. e.unit \in Unit /\ e.parent \in Unit \cup {None}
    BY <1>2 DEF EditRequest
  <2>2. CanMoveUnit(st, e.unit, e.parent) /\ Apply(st, e) = MoveUnit(st, e.unit, e.parent)
    BY <1>2 DEF Allowed, Apply
  <2> QED
    BY <2>1, <2>2, MoveUnitKeeps
<1>3. CASE e.kind = "deactivateUnit"
  <2>1. e.unit \in Unit
    BY <1>3 DEF EditRequest
  <2>2. CanDeactivateUnit(st, e.unit) /\ Apply(st, e) = DeactivateUnit(st, e.unit)
    BY <1>3 DEF Allowed, Apply
  <2> QED
    BY <2>1, <2>2, DeactivateUnitKeeps
<1>4. CASE e.kind = "link"
  <2>1. e.ends[1] \in Unit /\ e.ends[2] \in Unit
    BY <1>4 DEF EditRequest
  <2>2. CanLink(st, offered, e.ends[1], e.ends[2]) /\ Apply(st, e) = Link(st, e.ends[1], e.ends[2])
    BY <1>4 DEF Allowed, Apply
  <2> QED
    BY <2>1, <2>2, LinkKeeps
<1>5. CASE e.kind = "unlink"
  <2>1. Apply(st, e) = Unlink(st, e.ends[1], e.ends[2])
    BY <1>5 DEF Apply
  <2> QED
    BY <2>1, UnlinkKeeps
<1>6. CASE e.kind = "relink"
  <2>1. e.ends[1] \in Unit /\ e.ends[2] \in Unit
    BY <1>6 DEF EditRequest
  <2>2. PICK less : less = Unlink(st, e.old[1], e.old[2])
    OBVIOUS
  <2>3. CanLink(less, offered, e.ends[1], e.ends[2]) /\ Apply(st, e) = Link(less, e.ends[1], e.ends[2])
    BY <1>6, <2>2 DEF Allowed, Apply, CanRelink, Relink
  <2>4. Sound(less)
    BY <2>2, UnlinkKeeps
  <2> QED
    BY <2>1, <2>3, <2>4, LinkKeeps
<1>7. CASE e.kind = "putSlot"
  <2>1. e.slot \in Slot /\ e.unit \in Unit /\ e.manager \in Slot \cup {None} /\ e.head \in BOOLEAN
    BY <1>7 DEF EditRequest
  <2>2. /\ CanPutSlot(st, offered, e.slot, e.unit, e.manager, e.head)
        /\ Apply(st, e) = PutSlot(st, e.slot, e.unit, e.manager, e.head)
    BY <1>7 DEF Allowed, Apply
  <2> QED
    BY <2>1, <2>2, PutSlotKeeps
<1>8. CASE e.kind = "closeSlot"
  <2>1. e.slot \in Slot
    BY <1>8 DEF EditRequest
  <2>2. CanCloseSlot(st, e.slot) /\ Apply(st, e) = CloseSlot(st, e.slot)
    BY <1>8 DEF Allowed, Apply
  <2> QED
    BY <2>1, <2>2, CloseSlotKeeps
<1>9. CASE e.kind = "policy"
  <2>1. e.policy \in Policy
    BY <1>9 DEF EditRequest
  <2>2. Apply(st, e) = UpdatePolicy(st, e.policy)
    BY <1>9 DEF Apply
  <2> QED
    BY <2>1, <2>2, UpdatePolicyKeeps
<1>10. CASE e.kind = "attributes"
  <2>1. Apply(st, e) = st
    BY <1>10 DEF Apply
  <2> QED
    BY <2>1
<1>11. e.kind \in {"addUnit", "moveUnit", "deactivateUnit", "link", "unlink", "relink", "putSlot", "closeSlot",
                   "policy", "attributes"}
  BY DEF EditRequest
<1> QED
  BY <1>1, <1>2, <1>3, <1>4, <1>5, <1>6, <1>7, <1>8, <1>9, <1>10, <1>11

\* The structure a draft without a base starts with, and the one the organization starts with.
LEMMA EmptyIsSound == Sound(Empty)
<1>1. Empty \in Structure
  BY DEF Empty, Structure, Policy
<1>2. /\ Empty.units = {} /\ Empty.active = {} /\ Empty.links = {} /\ Empty.open = {} /\ Empty.slots = {}
  BY DEF Empty
<1>3. \A e : e \notin ParentEdges(Empty, Empty.units) /\ e \notin ReportingEdges(Empty) /\ e \notin Empty.links
  BY <1>2, EdgesAre
<1>4. ASSUME NEW nodes, NEW edges, \A e : e \notin edges PROVE Acyclic(nodes, edges)
  <2> SUFFICES ASSUME NEW some \in (SUBSET nodes) \ {{}}
               PROVE  \E n \in some : \A e \in edges : e[1] = n => e[2] \notin some
    BY DEF Acyclic
  <2>0. some # {}
    OBVIOUS
  <2>1. PICK n : n \in some
    BY <2>0
  <2> QED
    BY <1>4, <2>1
<1>5. /\ Acyclic(Unit, ParentEdges(Empty, Empty.units)) /\ Acyclic(Slot, ReportingEdges(Empty))
      /\ Acyclic(Unit, Empty.links)
  BY <1>3, <1>4
<1> QED
  BY <1>1, <1>2, <1>5 DEF Sound, OneRoot

LEMMA SeededIsSound == Sound(Seeded)
<1>1. Seeded \in Structure /\ Seeded.units = Seeded.active /\ Seeded.open \subseteq Seeded.slots
  BY SeededAssumption
<1>2. ValidUnits(Seeded, Reference) /\ ValidLinks(Seeded, Reference) /\ ValidStaffing(Seeded, Reference)
  BY SeededAssumption DEF Valid
<1>3. OneRoot(Seeded)
  BY <1>1, <1>2, RootsAre DEF ValidUnits
<1>4. Acyclic(Unit, ParentEdges(Seeded, Seeded.units))
  <2> SUFFICES ASSUME NEW some \in (SUBSET Unit) \ {{}}
               PROVE  \E n \in some : \A e \in ParentEdges(Seeded, Seeded.units) : e[1] = n => e[2] \notin some
    BY DEF Acyclic
  <2>1. CASE some \cap Seeded.active = {}
    <3>0. some # {}
      OBVIOUS
    <3>1. PICK n : n \in some
      BY <3>0
    <3>2. \A e \in ParentEdges(Seeded, Seeded.units) : e[1] \in Seeded.active
      BY <1>1, EdgesAre
    <3> QED
      BY <2>1, <3>1, <3>2
  <2>2. CASE some \cap Seeded.active # {}
    <3>1. some \cap Seeded.active \in (SUBSET Seeded.active) \ {{}}
      BY <2>2
    <3>2. PICK n \in some \cap Seeded.active :
            \A e \in ParentEdges(Seeded, Seeded.active) : e[1] = n => e[2] \notin some \cap Seeded.active
      BY <1>2, <3>1 DEF ValidUnits, Acyclic
    <3> QED
      BY <1>1, <3>2, EdgesAre
  <2> QED
    BY <2>1, <2>2
<1>5. Acyclic(Unit, Seeded.links) /\ \A e \in Seeded.links : e[1] \in Seeded.active /\ e[2] \in Seeded.active
  BY <1>2 DEF ValidLinks
<1>6. /\ \A u \in Seeded.active : Seeded.parent[u] # None => Seeded.parent[u] \in Seeded.active
      /\ \A s \in Seeded.open : /\ Seeded.place[s] \in Seeded.active
                                /\ Seeded.manager[s] # None => Seeded.manager[s] \in Seeded.open
      /\ Acyclic(Slot, ReportingEdges(Seeded))
  BY <1>2 DEF ValidUnits, ValidStaffing
<1> QED
  BY <1>1, <1>3, <1>4, <1>5, <1>6 DEF Sound

---------------------------------------------------------------------------
(* Versions.  What a request has checked still holds when it commits, because it commits only   *)
(* if its version kept the revision it read, and every change of a row raises its revision.     *)

\* What the checks of a request said of its version.
Checked(c) ==
  /\ version[c.target].status \in SourceStatus(c.op)
  /\ c.op = "edit" => c.edit \in AllowedEdits(c.target)
  /\ c.op = "submit" => c.target \in Valids
  /\ c.op = "publish" => /\ MayPublish(c.target)
                         /\ c.approves = (review[c.target].status = "pending")

\* An open request: its checks hold as long as the version has the revision it loaded.
RequestInv(c) ==
  /\ c.phase = "collected" => c.op = "publish"
  /\ c.op = "draft" => c.target \in Version /\ (c.base # None => c.base \in Published)
  /\ c.op = "publish" => c.from \in Day
  /\ c.op \in {"edit", "submit", "return", "publish"} =>
       /\ c.target \in Version /\ c.seen <= version[c.target].revision
       /\ version[c.target].revision = c.seen => Checked(c)

RowInv(v) ==
  /\ Sound(version[v].content)
  /\ version[v].status = "absent" => version[v].revision = 0
  /\ version[v].base # None => version[v].base \in Published
  /\ version[v].status \in {"in_review", "published"} => Valid(version[v].content, Reference)
  /\ review[v].status = "pending" <=> version[v].status = "in_review"
  /\ review[v].status = "approved" => version[v].status = "published"
  /\ review[v].status \in {"pending", "approved"} => review[v].shown = version[v].content
  /\ v # 1 /\ version[v].status = "published" /\ ReviewRequired(version[v]) => review[v].status = "approved"

VersionInv ==
  /\ TypeOK
  /\ 1 \in Published
  /\ \A v \in Version : RowInv(v)
  /\ \A s \in Session : RequestInv(session[s])

\* The published versions cover every day once, the day after the last one included.
TermInv(v) ==
  IF v \in Published
  THEN version[v].from \in Day /\ version[v].from <= version[v].to
  ELSE version[v].to = Forever

\* What a publication closes is the one version without an end, if nothing happens to it.
ClosingInv(c) ==
  \E w \in Version, r \in 0..MaxRevision :
    /\ c.closing = {<<w, r>>} /\ r <= version[w].revision
    /\ version[w].revision = r => /\ w \in Published /\ version[w].to = Forever
                                  /\ version[w].from < c.from

TimelineInv ==
  /\ \A v \in Version : TermInv(v)
  /\ \A d \in 1..Forever : \E v \in Published : Covers(v, d)
  /\ \A v, w \in Published : v # w => version[v].to < version[w].from \/ version[w].to < version[v].from
  /\ \A s \in Session :
       session[s].phase = "collected" /\ version[session[s].target].revision = session[s].seen
         => ClosingInv(session[s])

\* The rows of the tables.
LEMMA Types ==
  ASSUME TypeOK
  PROVE  /\ \A v \in Version :
              /\ version[v] \in VersionRow /\ version[v].status \in Status
              /\ version[v].revision \in 0..MaxRevision /\ version[v].revision \in Nat
              /\ version[v].base \in Version \cup {None}
              /\ version[v].from \in 0..LastDay /\ version[v].to \in 0..Forever
              /\ version[v].from \in Nat /\ version[v].to \in Nat
              /\ version[v].content \in Structure
              /\ review[v] \in ReviewRow /\ review[v].shown \in Structure
         /\ \A s \in Session :
              /\ session[s] \in Request /\ session[s].target \in Version \cup {None}
              /\ session[s].seen \in 0..MaxRevision /\ session[s].seen \in Nat
              /\ session[s].from \in 0..LastDay /\ session[s].from \in Nat
              /\ session[s].base \in Version \cup {None} /\ session[s].edit \in Edit \cup {NoEdit}
              /\ session[s].approves \in BOOLEAN
              /\ session[s].closing \in SUBSET (Version \X (0..MaxRevision))
         /\ LastDay \in Nat /\ LastDay >= 1 /\ MaxRevision \in Nat /\ Forever = LastDay + 1
         /\ 1 \in Version /\ None \notin Version
<1>1. LastDay \in Nat /\ LastDay >= 1 /\ MaxRevision \in Nat /\ Forever = LastDay + 1
  BY DayAssumption, BoundAssumption DEF Forever
<1>2. 1 \in Version /\ None \notin Version
  BY BoundAssumption DEF Version, None
<1>3. Day \cup {0} = 0..LastDay
  BY <1>1 DEF Day
<1>4. \A v \in Version : version[v] \in VersionRow /\ review[v] \in ReviewRow
  BY DEF TypeOK
<1>5. \A s \in Session : session[s] \in Request
  BY DEF TypeOK
<1>6. \A r \in VersionRow :
        /\ r.status \in Status /\ r.revision \in 0..MaxRevision /\ r.base \in Version \cup {None}
        /\ r.from \in 0..LastDay /\ r.to \in 0..Forever /\ r.content \in Structure
  BY <1>3 DEF VersionRow
<1>7. \A r \in ReviewRow : r.shown \in Structure
  BY DEF ReviewRow
<1>8. \A c \in Request :
        /\ c.target \in Version \cup {None} /\ c.seen \in 0..MaxRevision /\ c.from \in 0..LastDay
        /\ c.base \in Version \cup {None} /\ c.edit \in Edit \cup {NoEdit} /\ c.approves \in BOOLEAN
        /\ c.closing \in SUBSET (Version \X (0..MaxRevision))
  BY <1>3 DEF Request
<1>9. \A n \in Nat : \A i \in 0..n : i \in Nat
  OBVIOUS
<1> QED
  BY <1>1, <1>2, <1>4, <1>5, <1>6, <1>7, <1>8, <1>9

\* A structure that is valid with the reference rows on offer is valid with all of them.
LEMMA ValidWithAll ==
  ASSUME NEW v \in Version, v \in Valids
  PROVE  Valid(version[v].content, Reference)
<1>1. PICK offered \in Offer : Valid(version[v].content, offered)
  BY DEF Valids
<1>2. offered \subseteq Reference
  BY <1>1 DEF Offer
<1> QED
  BY <1>1, <1>2 DEF Valid, ValidUnits, ValidLinks, ValidStaffing, Reference

\* A row of the version and its review as they were, and one with a higher revision.
Kept(v) == version'[v] = version[v] /\ review'[v] = review[v]
Raised(v) == version[v].revision < version'[v].revision

\* What every step does to the versions: a row it changes has a higher revision, and what is
\* published stays published and stays as it is.
Frame ==
  /\ \A v \in Version : Kept(v) \/ Raised(v)
  /\ \A v \in Published : version'[v].status = "published" /\ version'[v].content = version[v].content

LEMMA KeptReview ==
  ASSUME TypeOK, TypeOK', Frame, NEW v \in Version, version'[v] = version[v],
         version[v].base # None => version[v].base \in Published
  PROVE  ReviewRequired(version[v])' <=> ReviewRequired(version[v])
<1>1. PICK row : row = version[v]
  OBVIOUS
<1>2. row.base # None => version'[row.base].content = version[row.base].content
  BY <1>1 DEF Frame
<1>3. version'[v] = row
  BY <1>1
<1>4. ReviewRequired(row)' <=> ReviewRequired(row)
  BY <1>2 DEF ReviewRequired, StaffingChanged
<1>5. ReviewRequired(version[v])' <=> ReviewRequired(row)'
  BY <1>3
<1> QED
  BY <1>1, <1>4, <1>5

LEMMA KeptRow ==
  ASSUME TypeOK, TypeOK', Frame, NEW v \in Version, Kept(v), RowInv(v)
  PROVE  RowInv(v)'
<1>1. version'[v] = version[v] /\ review'[v] = review[v]
  BY DEF Kept
<1>2. version[v].base # None => version[v].base \in Published /\ version[v].base \in Published'
  BY DEF RowInv, Frame, Published
<1>3. ReviewRequired(version[v])' <=> ReviewRequired(version[v])
  BY <1>1, <1>2, KeptReview
<1> QED
  BY <1>1, <1>2, <1>3 DEF RowInv

LEMMA KeptRequest ==
  ASSUME TypeOK, TypeOK', Frame, \A v \in Version : RowInv(v), NEW c \in Request, RequestInv(c)
  PROVE  RequestInv(c)'
<1>1. \A v \in Published : v \in Published'
  BY DEF Frame, Published
<1>2. ASSUME c.op \in {"edit", "submit", "return", "publish"}
      PROVE  /\ c.seen <= version'[c.target].revision
             /\ version'[c.target].revision = c.seen => Checked(c)'
  <2>1. PICK v : v = c.target
    OBVIOUS
  <2>2. v \in Version /\ c.seen <= version[v].revision /\ (version[v].revision = c.seen => Checked(c))
    BY <1>2, <2>1 DEF RequestInv
  <2>3. version[v].revision \in Nat /\ version'[v].revision \in Nat /\ c.seen \in Nat
    <3>1. c.seen \in 0..MaxRevision /\ MaxRevision \in Nat
      BY Types DEF Request
    <3>2. version'[v] \in VersionRow
      BY <2>2 DEF TypeOK
    <3>3. version'[v].revision \in 0..MaxRevision
      BY <3>2 DEF VersionRow
    <3> QED
      BY <2>2, <3>1, <3>3, Types
  <2>4. CASE Kept(v)
    <3>1. version'[v] = version[v] /\ review'[v] = review[v]
      BY <2>4 DEF Kept
    <3>2. ReviewRequired(version[v])' <=> ReviewRequired(version[v])
      BY <2>2, <3>1, KeptReview DEF RowInv
    <3>3. AllowedEdits(v)' = AllowedEdits(v) /\ (v \in Valids' <=> v \in Valids)
      BY <2>2, <3>1 DEF AllowedEdits, Valids
    <3>4. MayPublish(v)' <=> MayPublish(v)
      BY <3>1, <3>2, <3>3 DEF MayPublish
    <3>5. Checked(c)' <=> Checked(c)
      BY <2>1, <3>1, <3>3, <3>4 DEF Checked
    <3> QED
      BY <2>1, <2>2, <3>1, <3>5
  <2>5. CASE Raised(v)
    BY <2>1, <2>2, <2>3, <2>5 DEF Raised
  <2> QED
    BY <2>2, <2>4, <2>5 DEF Frame
<1> QED
  BY <1>1, <1>2 DEF RequestInv

\* A step of a request: the rows it leaves alone and the requests of the others need no care.
LEMMA StepOfRequest ==
  ASSUME VersionInv, TypeOK', Frame, NEW s \in Session, NEW x,
         session' = [session EXCEPT ![s] = x], RequestInv(x)',
         \A v \in Version : Kept(v) \/ RowInv(v)'
  PROVE  VersionInv'
<1>1. 1 \in Published'
  BY Types DEF VersionInv, Published, Frame
<1>2. \A v \in Version : RowInv(v)'
  BY KeptRow DEF VersionInv
<1>3. ASSUME NEW t \in Session
      PROVE  RequestInv(session[t])'
  <2>1. PICK c \in Request : c = session[t]
    BY Types DEF VersionInv
  <2>2. RequestInv(c)'
    BY <2>1, KeptRequest DEF VersionInv
  <2>3. session'[t] = IF t = s THEN x ELSE c
    BY <2>1 DEF VersionInv, TypeOK
  <2> QED
    BY <2>2, <2>3
<1> QED
  BY <1>1, <1>2, <1>3 DEF VersionInv

LEMMA IdleRequest ==
  /\ Idle \in Request /\ RequestInv(Idle) /\ RequestInv(Idle)'
  /\ Idle.phase # "collected"
<1>1. Idle \in Request
  BY BoundAssumption DEF Idle, Request, Op
<1> QED
  BY <1>1 DEF Idle, RequestInv

LEMMA VersionInit ==
  ASSUME Init
  PROVE  VersionInv
<1>1. Idle \in Request /\ RequestInv(Idle)
  BY IdleRequest
<1>2. Seeded \in Structure /\ Empty \in Structure /\ Valid(Seeded, Reference)
  BY SeededAssumption, EmptyIsSound DEF Sound
<1>3. LastDay \in Nat /\ LastDay >= 1 /\ MaxRevision \in Nat /\ MaxRevision >= 1 /\ MaxVersion \in Nat /\ MaxVersion >= 1
  BY DayAssumption, BoundAssumption
<1>4. PICK first : first = [NoVersion EXCEPT !.status = "published", !.revision = 1, !.from = 1, !.content = Seeded]
  OBVIOUS
<1>5. /\ NoVersion \in VersionRow /\ NoVersion.status = "absent" /\ NoVersion.revision = 0
      /\ NoVersion.base = None /\ NoVersion.content = Empty
  BY <1>2, <1>3 DEF NoVersion, VersionRow, Status, Forever
<1>6. /\ first \in VersionRow /\ first.status = "published" /\ first.base = None /\ first.content = Seeded
  <2>1. 1 \in 0..MaxRevision /\ 1 \in Day \cup {0} /\ "published" \in Status
    BY <1>3 DEF Day, Status
  <2> QED
    BY <1>2, <1>4, <1>5, <2>1 DEF VersionRow
<1>7. \A v \in Version : version[v] = IF v = 1 THEN first ELSE NoVersion
  BY <1>4 DEF Init
<1>8. \A v \in Version : review[v] = [status |-> "none", shown |-> Empty]
  BY DEF Init
<1>9. [status |-> "none", shown |-> Empty] \in ReviewRow
  BY <1>2 DEF ReviewRow
<1>10. TypeOK
  <2>1. version \in [Version -> VersionRow]
    BY <1>4, <1>5, <1>6 DEF Init
  <2>2. review \in [Version -> ReviewRow] /\ session \in [Session -> Request]
    BY <1>1, <1>9 DEF Init
  <2> QED
    BY <2>1, <2>2 DEF TypeOK
<1>11. 1 \in Published
  BY <1>3, <1>6, <1>7 DEF Published, Version
<1>12. \A v \in Version : RowInv(v)
  BY <1>2, <1>5, <1>6, <1>7, <1>8, EmptyIsSound, SeededIsSound DEF RowInv
<1>13. \A s \in Session : session[s] = Idle
  BY DEF Init
<1> QED
  BY <1>1, <1>10, <1>11, <1>12, <1>13 DEF VersionInv

\* A request that only reads.
LEMMA ReadingStep ==
  ASSUME VersionInv, NEW s \in Session, NEW x \in Request, RequestInv(x),
         session' = [session EXCEPT ![s] = x], UNCHANGED <<version, review>>
  PROVE  VersionInv'
<1>1. TypeOK'
  BY DEF VersionInv, TypeOK
<1>2. Frame
  BY DEF Frame, Kept, Published
<1>3. \A v \in Version : Kept(v)
  BY DEF Kept
<1>4. RequestInv(x)'
  BY <1>1, <1>2, KeptRequest DEF VersionInv
<1> QED
  BY <1>1, <1>2, <1>3, <1>4, StepOfRequest

LEMMA BeginDraftKeeps ==
  ASSUME VersionInv, NEW s \in Session, BeginDraft(s)
  PROVE  VersionInv'
<1>1. PICK n \in Version, b \in Published \cup {None} :
        session' = [session EXCEPT ![s] = [Idle EXCEPT !.phase = "checked", !.op = "draft", !.target = n, !.base = b]]
  BY DEF BeginDraft
<1>2. PICK x : x = [Idle EXCEPT !.phase = "checked", !.op = "draft", !.target = n, !.base = b]
  OBVIOUS
<1>3. x \in Request /\ x.phase = "checked" /\ x.op = "draft" /\ x.target = n /\ x.base = b
  <2>1. b \in Version \cup {None}
    BY <1>1 DEF Published
  <2> QED
    BY <1>1, <1>2, <2>1, IdleRequest DEF Request, Op
<1>4. RequestInv(x)
  BY <1>1, <1>3 DEF RequestInv
<1> QED
  BY <1>1, <1>2, <1>3, <1>4, ReadingStep DEF BeginDraft

LEMMA BeginEditKeeps ==
  ASSUME VersionInv, NEW s \in Session, BeginEdit(s)
  PROVE  VersionInv'
<1>1. PICK v \in Edited, e \in Edit :
        /\ e \in AllowedEdits(v) /\ version[v].status \in SourceStatus("edit")
        /\ Load(s, v, [Idle EXCEPT !.op = "edit", !.edit = e])
  BY DEF BeginEdit, AllowedEdits
<1>2. PICK x : x = [[Idle EXCEPT !.op = "edit", !.edit = e] EXCEPT !.phase = "checked", !.target = v,
                                                                    !.seen = version[v].revision]
  OBVIOUS
<1>3. v \in Version /\ e \in Edit /\ version[v].revision \in 0..MaxRevision /\ version[v].revision \in Nat
  BY EditedAssumption, Types DEF VersionInv, Version, AllowedEdits
<1>4. /\ x \in Request /\ x.phase = "checked" /\ x.op = "edit" /\ x.target = v
      /\ x.edit = e /\ x.seen = version[v].revision
  BY <1>2, <1>3, BoundAssumption DEF Idle, Request, Op
<1>5. Checked(x)
  BY <1>1, <1>4 DEF Checked
<1>6. RequestInv(x)
  BY <1>3, <1>4, <1>5 DEF RequestInv
<1> QED
  BY <1>1, <1>2, <1>4, <1>6, ReadingStep DEF BeginEdit, Load

LEMMA BeginReviewKeeps ==
  ASSUME VersionInv, NEW s \in Session, BeginReview(s)
  PROVE  VersionInv'
<1>1. PICK v \in Version, op \in {"submit", "return"} :
        /\ version[v].status \in SourceStatus(op)
        /\ op = "submit" => v \in Valids
        /\ Load(s, v, [Idle EXCEPT !.op = op])
  BY DEF BeginReview
<1>2. PICK x : x = [[Idle EXCEPT !.op = op] EXCEPT !.phase = "checked", !.target = v, !.seen = version[v].revision]
  OBVIOUS
<1>3. version[v].revision \in 0..MaxRevision /\ version[v].revision \in Nat
  BY Types DEF VersionInv
<1>4. /\ x \in Request /\ x.phase = "checked" /\ x.op = op /\ x.target = v
      /\ x.seen = version[v].revision
  BY <1>2, <1>3, BoundAssumption DEF Idle, Request, Op
<1>5. Checked(x)
  BY <1>1, <1>4 DEF Checked
<1>6. RequestInv(x)
  BY <1>3, <1>4, <1>5 DEF RequestInv
<1> QED
  BY <1>1, <1>2, <1>4, <1>6, ReadingStep DEF BeginReview, Load

LEMMA BeginPublishKeeps ==
  ASSUME VersionInv, NEW s \in Session, BeginPublish(s)
  PROVE  VersionInv'
<1>1. PICK v \in Version, from \in Day :
        /\ version[v].status \in SourceStatus("publish") /\ MayPublish(v)
        /\ Load(s, v, [Idle EXCEPT !.op = "publish", !.from = from, !.approves = review[v].status = "pending"])
  BY DEF BeginPublish
<1>2. PICK pending \in BOOLEAN : pending = (review[v].status = "pending")
  OBVIOUS
<1>3. PICK x : x = [[Idle EXCEPT !.op = "publish", !.from = from, !.approves = pending]
                      EXCEPT !.phase = "checked", !.target = v, !.seen = version[v].revision]
  OBVIOUS
<1>4. version[v].revision \in 0..MaxRevision /\ version[v].revision \in Nat
  BY Types DEF VersionInv
<1>5. /\ x \in Request /\ x.phase = "checked" /\ x.op = "publish" /\ x.target = v
      /\ x.from = from /\ x.approves = pending /\ x.seen = version[v].revision
  BY <1>2, <1>3, <1>4, BoundAssumption DEF Idle, Request, Op
<1>6. Checked(x)
  BY <1>1, <1>2, <1>5 DEF Checked
<1>7. RequestInv(x)
  BY <1>4, <1>5, <1>6 DEF RequestInv
<1>8. session' = [session EXCEPT ![s] = x]
  BY <1>1, <1>2, <1>3 DEF Load
<1> QED
  BY <1>5, <1>7, <1>8, ReadingStep DEF BeginPublish

\* Closing is the only thing a publication reads later.
LEMMA CollectKeeps ==
  ASSUME VersionInv, NEW s \in Session, Collect(s)
  PROVE  VersionInv'
<1>1. PICK c \in Request : c = session[s] /\ RequestInv(c)
  BY Types DEF VersionInv
<1>2. PICK overlapping : overlapping = {v \in Published \ {c.target} : version[v].to >= c.from}
  OBVIOUS
<1>3. PICK closing : closing = {<<v, version[v].revision>> : v \in overlapping}
  OBVIOUS
<1>4. closing \in SUBSET (Version \X (0..MaxRevision))
  BY <1>2, <1>3, Types DEF VersionInv, Published
<1>5. PICK x : x = [c EXCEPT !.phase = "collected", !.closing = closing]
  OBVIOUS
<1>6. c.op = "publish" /\ (session' = [session EXCEPT ![s] = x] \/ session' = [session EXCEPT ![s] = Idle])
  BY <1>1, <1>2, <1>3, <1>5 DEF Collect, VersionInv, TypeOK
<1>7. /\ x \in Request /\ x.op = c.op /\ x.target = c.target /\ x.seen = c.seen /\ x.edit = c.edit
      /\ x.from = c.from /\ x.base = c.base /\ x.approves = c.approves
  BY <1>4, <1>5 DEF Request
<1>8. RequestInv(x)
  BY <1>1, <1>6, <1>7 DEF RequestInv, Checked
<1>9. UNCHANGED <<version, review>>
  BY DEF Collect
<1> QED
  BY <1>6, <1>7, <1>8, <1>9, IdleRequest, ReadingStep

LEMMA FailKeeps ==
  ASSUME VersionInv, NEW s \in Session, Fail(s)
  PROVE  VersionInv'
BY IdleRequest, ReadingStep DEF Fail

\* A request that writes the row of one version that is not published, and its review.
LEMMA WritingStep ==
  ASSUME VersionInv, NEW s \in Session, NEW v \in Version, NEW row \in VersionRow, NEW rev \in ReviewRow,
         version' = [version EXCEPT ![v] = row], review' = [review EXCEPT ![v] = rev],
         session' = [session EXCEPT ![s] = Idle],
         version[v].status # "published", version[v].revision < row.revision,
         version'[v] = row /\ review'[v] = rev => RowInv(v)'
  PROVE  VersionInv'
<1>1. TypeOK'
  BY IdleRequest DEF VersionInv, TypeOK
<1>2. \A w \in Version : IF w = v THEN version'[w] = row /\ review'[w] = rev ELSE Kept(w)
  BY DEF VersionInv, TypeOK, Kept
<1>3. Frame
  BY <1>2 DEF Frame, Kept, Raised, Published
<1>4. RowInv(v)'
  BY <1>2
<1> QED
  BY <1>1, <1>2, <1>3, <1>4, IdleRequest, StepOfRequest

LEMMA CommitDraftKeeps ==
  ASSUME VersionInv, NEW s \in Session, CommitDraft(s)
  PROVE  VersionInv'
<1>1. PICK c \in Request : c = session[s] /\ RequestInv(c)
  BY Types DEF VersionInv
<1>2. PICK v : v = c.target
  OBVIOUS
<1>3. v \in Version /\ version[v].status = "absent" /\ (c.base # None => c.base \in Published)
  BY <1>1, <1>2 DEF CommitDraft, RequestInv, Exists
<1>4. PICK content : content = IF c.base = None THEN Empty ELSE version[c.base].content
  OBVIOUS
<1>5. content \in Structure /\ Sound(content)
  BY <1>3, <1>4, EmptyIsSound DEF VersionInv, RowInv, Published, Sound
<1>6. PICK row : row = [NoVersion EXCEPT !.status = "draft", !.revision = 1, !.base = c.base, !.content = content]
  OBVIOUS
<1>7. NoVersion \in VersionRow
  BY EmptyIsSound, BoundAssumption, DayAssumption DEF NoVersion, VersionRow, Status, Forever, Sound
<1>8. row \in VersionRow /\ row.status = "draft" /\ row.revision = 1 /\ row.base = c.base /\ row.content = content
  <2>1. 1 \in 0..MaxRevision /\ "draft" \in Status /\ c.base \in Version \cup {None}
    BY BoundAssumption DEF Status, Request
  <2> QED
    BY <1>5, <1>6, <1>7, <2>1 DEF VersionRow
<1>9. /\ version' = [version EXCEPT ![v] = row] /\ review' = review
      /\ session' = [session EXCEPT ![s] = Idle]
  BY <1>1, <1>2, <1>4, <1>6 DEF CommitDraft
<1>10. review[v] \in ReviewRow /\ review' = [review EXCEPT ![v] = review[v]]
  BY <1>3, <1>9, Types DEF VersionInv, TypeOK
<1>11. RowInv(v) /\ version[v].revision = 0
  BY <1>3 DEF VersionInv, RowInv
<1>12. c.base # None => c.base \in Published'
  BY <1>3, <1>9 DEF VersionInv, TypeOK, Published
<1>13. ASSUME version'[v] = row, review'[v] = review[v]
       PROVE  RowInv(v)'
  BY <1>3, <1>5, <1>8, <1>11, <1>12, <1>13 DEF RowInv
<1>14. version[v].status # "published" /\ version[v].revision < row.revision
  BY <1>3, <1>8, <1>11
<1> QED
  BY <1>3, <1>8, <1>9, <1>10, <1>13, <1>14, WritingStep

\* What a commit that finds its version unchanged may rely on.
LEMMA FreshRequest ==
  ASSUME VersionInv, NEW s \in Session, Fresh(s), session[s].op \in {"edit", "submit", "return", "publish"}
  PROVE  \E c \in Request, v \in Version :
           /\ c = session[s] /\ v = c.target /\ RequestInv(c) /\ Checked(c) /\ RowInv(v)
           /\ version[v] \in VersionRow /\ review[v] \in ReviewRow
           /\ version[v].status \in SourceStatus(c.op)
           /\ version[v].revision \in Nat /\ version[v].revision + 1 \in 0..MaxRevision
<1>1. PICK c \in Request : c = session[s] /\ RequestInv(c)
  BY Types DEF VersionInv
<1>2. PICK v : v = c.target
  OBVIOUS
<1>3. v \in Version /\ RowInv(v) /\ Checked(c) /\ version[v].revision = c.seen /\ c.seen < MaxRevision
  BY <1>1, <1>2 DEF RequestInv, Fresh, VersionInv
<1>4. version[v].revision \in Nat /\ MaxRevision \in Nat
  BY <1>3, Types DEF VersionInv
<1>5. version[v].revision + 1 \in 0..MaxRevision
  BY <1>3, <1>4
<1>6. version[v] \in VersionRow /\ review[v] \in ReviewRow
  BY <1>3, Types DEF VersionInv
<1> QED
  BY <1>1, <1>2, <1>3, <1>4, <1>5, <1>6 DEF Checked

LEMMA CommitEditKeeps ==
  ASSUME VersionInv, NEW s \in Session, CommitEdit(s)
  PROVE  VersionInv'
<1>1. PICK c \in Request, v \in Version :
        /\ c = session[s] /\ v = c.target /\ RequestInv(c) /\ Checked(c) /\ RowInv(v)
        /\ version[v] \in VersionRow /\ review[v] \in ReviewRow
        /\ version[v].status \in SourceStatus(c.op)
        /\ version[v].revision \in Nat /\ version[v].revision + 1 \in 0..MaxRevision
  BY FreshRequest DEF CommitEdit
<1>2. c.op = "edit" /\ version[v].status = "draft"
  BY <1>1 DEF CommitEdit, SourceStatus
<1>3. PICK content : content = Apply(version[v].content, c.edit)
  OBVIOUS
<1>4. Sound(content) /\ content \in Structure
  <2>1. c.edit \in AllowedEdits(v)
    BY <1>1, <1>2 DEF Checked
  <2>2. PICK offered \in Offer : c.edit \in EditRequest /\ Allowed(version[v].content, offered, c.edit)
    BY <2>1, EditAssumption DEF AllowedEdits
  <2>3. Sound(version[v].content)
    BY <1>1 DEF RowInv
  <2>4. Sound(Apply(version[v].content, c.edit))
    BY <2>2, <2>3, EditKeepsSound
  <2> QED
    BY <1>3, <2>4 DEF Sound
<1>5. PICK row : row = [version[v] EXCEPT !.content = content, !.revision = version[v].revision + 1]
  OBVIOUS
<1>6. /\ row \in VersionRow /\ row.status = "draft" /\ row.base = version[v].base /\ row.content = content
      /\ row.revision = version[v].revision + 1
  BY <1>1, <1>2, <1>4, <1>5 DEF VersionRow
<1>7. /\ version' = [version EXCEPT ![v] = row] /\ review' = review
      /\ session' = [session EXCEPT ![s] = Idle]
  BY <1>1, <1>3, <1>5 DEF CommitEdit, VersionInv, TypeOK
<1>8. review' = [review EXCEPT ![v] = review[v]]
  BY <1>7 DEF VersionInv, TypeOK
<1>9. version[v].base # None => version[v].base \in Published'
  BY <1>1, <1>2, <1>7 DEF VersionInv, TypeOK, Published, RowInv
<1>10. ASSUME version'[v] = row, review'[v] = review[v]
       PROVE  RowInv(v)'
  <2>1. row.revision # 0
    BY <1>1, <1>6
  <2> QED
    BY <1>1, <1>2, <1>4, <1>6, <1>9, <1>10, <2>1 DEF RowInv
<1>11. version[v].status # "published" /\ version[v].revision < row.revision
  BY <1>1, <1>2, <1>6
<1> QED
  BY <1>1, <1>6, <1>7, <1>8, <1>10, <1>11, WritingStep

LEMMA CommitSubmitKeeps ==
  ASSUME VersionInv, NEW s \in Session, CommitSubmit(s)
  PROVE  VersionInv'
<1>1. PICK c \in Request, v \in Version :
        /\ c = session[s] /\ v = c.target /\ RequestInv(c) /\ Checked(c) /\ RowInv(v)
        /\ version[v] \in VersionRow /\ review[v] \in ReviewRow
        /\ version[v].status \in SourceStatus(c.op)
        /\ version[v].revision \in Nat /\ version[v].revision + 1 \in 0..MaxRevision
  BY FreshRequest DEF CommitSubmit
<1>2. c.op = "submit" /\ version[v].status = "draft"
  BY <1>1 DEF CommitSubmit, SourceStatus
<1>3. Valid(version[v].content, Reference)
  BY <1>1, <1>2, ValidWithAll DEF Checked
<1>4. PICK row : row = [version[v] EXCEPT !.status = "in_review", !.revision = version[v].revision + 1]
  OBVIOUS
<1>5. PICK rev : rev = [status |-> "pending", shown |-> version[v].content]
  OBVIOUS
<1>6. /\ row \in VersionRow /\ row.status = "in_review" /\ row.base = version[v].base
      /\ row.content = version[v].content /\ row.revision = version[v].revision + 1
  BY <1>1, <1>4 DEF VersionRow, Status
<1>7. rev \in ReviewRow /\ rev.status = "pending" /\ rev.shown = version[v].content
  BY <1>1, <1>5 DEF ReviewRow, VersionRow
<1>8. /\ version' = [version EXCEPT ![v] = row] /\ review' = [review EXCEPT ![v] = rev]
      /\ session' = [session EXCEPT ![s] = Idle]
  BY <1>1, <1>4, <1>5 DEF CommitSubmit, VersionInv, TypeOK
<1>9. version[v].base # None => version[v].base \in Published'
  BY <1>1, <1>2, <1>8 DEF VersionInv, TypeOK, Published, RowInv
<1>10. ASSUME version'[v] = row, review'[v] = rev
       PROVE  RowInv(v)'
  BY <1>1, <1>3, <1>6, <1>7, <1>9, <1>10 DEF RowInv
<1>11. version[v].status # "published" /\ version[v].revision < row.revision
  BY <1>1, <1>2, <1>6
<1> QED
  BY <1>1, <1>6, <1>7, <1>8, <1>10, <1>11, WritingStep

LEMMA CommitReturnKeeps ==
  ASSUME VersionInv, NEW s \in Session, CommitReturn(s)
  PROVE  VersionInv'
<1>1. PICK c \in Request, v \in Version :
        /\ c = session[s] /\ v = c.target /\ RequestInv(c) /\ Checked(c) /\ RowInv(v)
        /\ version[v] \in VersionRow /\ review[v] \in ReviewRow
        /\ version[v].status \in SourceStatus(c.op)
        /\ version[v].revision \in Nat /\ version[v].revision + 1 \in 0..MaxRevision
  BY FreshRequest DEF CommitReturn
<1>2. c.op = "return" /\ version[v].status = "in_review"
  BY <1>1 DEF CommitReturn, SourceStatus
<1>3. PICK row : row = [version[v] EXCEPT !.status = "draft", !.revision = version[v].revision + 1]
  OBVIOUS
<1>4. PICK rev : rev = [review[v] EXCEPT !.status = "returned"]
  OBVIOUS
<1>5. /\ row \in VersionRow /\ row.status = "draft" /\ row.base = version[v].base
      /\ row.content = version[v].content /\ row.revision = version[v].revision + 1
  BY <1>1, <1>3 DEF VersionRow, Status
<1>6. rev \in ReviewRow /\ rev.status = "returned"
  BY <1>1, <1>4 DEF ReviewRow
<1>7. /\ version' = [version EXCEPT ![v] = row] /\ review' = [review EXCEPT ![v] = rev]
      /\ session' = [session EXCEPT ![s] = Idle]
  BY <1>1, <1>3, <1>4 DEF CommitReturn, VersionInv, TypeOK
<1>8. version[v].base # None => version[v].base \in Published'
  BY <1>1, <1>2, <1>7 DEF VersionInv, TypeOK, Published, RowInv
<1>9. ASSUME version'[v] = row, review'[v] = rev
      PROVE  RowInv(v)'
  BY <1>1, <1>5, <1>6, <1>8, <1>9 DEF RowInv
<1>10. version[v].status # "published" /\ version[v].revision < row.revision
  BY <1>1, <1>2, <1>5
<1> QED
  BY <1>1, <1>5, <1>6, <1>7, <1>9, <1>10, WritingStep

\* The version a publication closes is the one that has no end.
LEMMA Publication ==
  ASSUME VersionInv, TimelineInv, NEW s \in Session, CommitPublish(s)
  PROVE  \E c \in Request, v \in Version, w \in Published :
           /\ c = session[s] /\ v = c.target /\ v # w /\ Checked(c) /\ RowInv(v)
           /\ c.op = "publish" /\ c.from \in Day /\ version[v].status \in {"draft", "in_review"}
           /\ version[w].to = Forever /\ version[w].from < c.from
           /\ version' = [version EXCEPT
                            ![v] = [version[v] EXCEPT !.status = "published",
                                                      !.revision = version[v].revision + 1, !.from = c.from],
                            ![w] = [version[w] EXCEPT !.revision = version[w].revision + 1, !.to = c.from - 1]]
           /\ version[v].revision + 1 \in 0..MaxRevision /\ version[w].revision + 1 \in 0..MaxRevision
           /\ review' = IF c.approves THEN [review EXCEPT ![v].status = "approved"] ELSE review
           /\ session' = [session EXCEPT ![s] = Idle]
<1>1. PICK c \in Request, v \in Version :
        /\ c = session[s] /\ v = c.target /\ RequestInv(c) /\ Checked(c) /\ RowInv(v)
        /\ version[v] \in VersionRow /\ review[v] \in ReviewRow
        /\ version[v].status \in SourceStatus(c.op)
        /\ version[v].revision \in Nat /\ version[v].revision + 1 \in 0..MaxRevision
  BY FreshRequest DEF CommitPublish
<1>a. /\ c.op = "publish" /\ c.phase = "collected" /\ c.from \in Day
      /\ version[v].status \in {"draft", "in_review"} /\ version[v].revision = c.seen
  BY <1>1 DEF CommitPublish, SourceStatus, RequestInv, Fresh
<1>2. ClosingInv(c)
  BY <1>1, <1>a DEF TimelineInv
<1>3. PICK w \in Version, r \in 0..MaxRevision :
        /\ c.closing = {<<w, r>>}
        /\ version[w].revision = r => w \in Published /\ version[w].to = Forever /\ version[w].from < c.from
  BY <1>2 DEF ClosingInv
<1>4. \A p \in c.closing : p[1] = w /\ p[2] = r
  BY <1>3
<1>5. version[w].revision = r /\ r < MaxRevision
  <2>1. <<w, r>> \in c.closing
    BY <1>3
  <2>2. version[w].revision = r /\ r < MaxRevision
    BY <1>1, <2>1 DEF CommitPublish
  <2> QED
    BY <2>2
<1>6. w \in Published /\ version[w].to = Forever /\ version[w].from < c.from
  BY <1>3, <1>5
<1>7. v # w
  BY <1>a, <1>6 DEF Published
<1>8. version[w].revision + 1 \in 0..MaxRevision
  BY <1>5, Types DEF VersionInv
<1>9. \A x : (\E p \in c.closing : p[1] = x) <=> x = w
  BY <1>3
<1>10. PICK row : row = [version[v] EXCEPT !.status = "published", !.revision = version[v].revision + 1, !.from = c.from]
  OBVIOUS
<1>11. PICK closed : closed = [version[w] EXCEPT !.revision = version[w].revision + 1, !.to = c.from - 1]
  OBVIOUS
<1>12. version' = [x \in Version |-> IF x = v THEN row ELSE IF x = w THEN closed ELSE version[x]]
  <2>1. version' = AfterPublish(c)
    BY <1>1 DEF CommitPublish
  <2> QED
    BY <1>1, <1>9, <1>10, <1>11, <2>1 DEF AfterPublish, ClosedAt
<1>13. version' = [version EXCEPT ![v] = row, ![w] = closed]
  BY <1>7, <1>12 DEF VersionInv, TypeOK
<1>14. /\ review' = IF c.approves THEN [review EXCEPT ![v].status = "approved"] ELSE review
       /\ session' = [session EXCEPT ![s] = Idle]
  BY <1>1 DEF CommitPublish
<1> QED
  BY <1>1, <1>a, <1>6, <1>7, <1>8, <1>10, <1>11, <1>13, <1>14

LEMMA SameReview ==
  ASSUME Frame, NEW row, NEW other, row.content = other.content, row.base = other.base,
         other.base # None => other.base \in Published
  PROVE  ReviewRequired(row)' <=> ReviewRequired(other)
BY DEF ReviewRequired, StaffingChanged, Frame

LEMMA CommitPublishKeeps ==
  ASSUME VersionInv, TimelineInv, NEW s \in Session, CommitPublish(s)
  PROVE  VersionInv'
<1>1. PICK c \in Request, v \in Version, w \in Published :
        /\ c = session[s] /\ v = c.target /\ v # w /\ Checked(c) /\ RowInv(v)
        /\ c.op = "publish" /\ c.from \in Day /\ version[v].status \in {"draft", "in_review"}
        /\ version[w].to = Forever /\ version[w].from < c.from
        /\ version' = [version EXCEPT
                         ![v] = [version[v] EXCEPT !.status = "published",
                                                   !.revision = version[v].revision + 1, !.from = c.from],
                         ![w] = [version[w] EXCEPT !.revision = version[w].revision + 1, !.to = c.from - 1]]
        /\ version[v].revision + 1 \in 0..MaxRevision /\ version[w].revision + 1 \in 0..MaxRevision
        /\ review' = IF c.approves THEN [review EXCEPT ![v].status = "approved"] ELSE review
        /\ session' = [session EXCEPT ![s] = Idle]
  BY Publication
<1>2. PICK row : row = [version[v] EXCEPT !.status = "published", !.revision = version[v].revision + 1, !.from = c.from]
  OBVIOUS
<1>3. PICK closed : closed = [version[w] EXCEPT !.revision = version[w].revision + 1, !.to = c.from - 1]
  OBVIOUS
<1>4. version' = [version EXCEPT ![v] = row, ![w] = closed]
  BY <1>1, <1>2, <1>3
<1>5. w \in Version /\ version[w].status = "published" /\ RowInv(w)
  BY DEF Published, VersionInv
<1>6. /\ row \in VersionRow /\ row.status = "published" /\ row.base = version[v].base
      /\ row.content = version[v].content /\ row.revision = version[v].revision + 1
  <2>1. version[v] \in VersionRow /\ c.from \in Day \cup {0} /\ "published" \in Status
    BY <1>1 DEF VersionInv, TypeOK, Status
  <2> QED
    BY <1>1, <1>2, <2>1 DEF VersionRow
<1>7. /\ closed \in VersionRow /\ closed.status = "published" /\ closed.base = version[w].base
      /\ closed.content = version[w].content /\ closed.revision = version[w].revision + 1
  <2>1. c.from - 1 \in 0..Forever
    BY <1>1, DayAssumption DEF Day, Forever
  <2>2. version[w] \in VersionRow
    BY <1>5 DEF VersionInv, TypeOK
  <2> QED
    BY <1>1, <1>3, <1>5, <2>1, <2>2 DEF VersionRow
<1>8. PICK rev \in ReviewRow :
        /\ rev = IF c.approves THEN [review[v] EXCEPT !.status = "approved"] ELSE review[v]
        /\ rev.shown = review[v].shown
        /\ rev.status = IF c.approves THEN "approved" ELSE review[v].status
  <2>1. review[v] \in ReviewRow
    BY DEF VersionInv, TypeOK
  <2>2. PICK done : done = [review[v] EXCEPT !.status = "approved"]
    OBVIOUS
  <2>3. done \in ReviewRow /\ done.status = "approved" /\ done.shown = review[v].shown
    BY <2>1, <2>2 DEF ReviewRow
  <2> QED
    BY <2>1, <2>2, <2>3
<1>9. review' = [review EXCEPT ![v] = rev]
  BY <1>1, <1>8 DEF VersionInv, TypeOK
<1>10. TypeOK'
  <2>1. version' \in [Version -> VersionRow]
    BY <1>4, <1>5, <1>6, <1>7 DEF VersionInv, TypeOK
  <2>2. review' \in [Version -> ReviewRow] /\ session' \in [Session -> Request]
    BY <1>1, <1>9, IdleRequest DEF VersionInv, TypeOK
  <2> QED
    BY <2>1, <2>2 DEF TypeOK
<1>11. /\ version'[v] = row /\ review'[v] = rev
       /\ version'[w] = closed /\ review'[w] = review[w]
       /\ \A x \in Version : x # v /\ x # w => Kept(x)
  BY <1>1, <1>4, <1>5, <1>9 DEF VersionInv, TypeOK, Kept
<1>12. version[v].revision \in Nat /\ version[w].revision \in Nat
  BY <1>5, Types DEF VersionInv
<1>13. Frame
  <2>1. Raised(v) /\ Raised(w)
    BY <1>6, <1>7, <1>11, <1>12 DEF Raised
  <2>2. v \notin Published
    BY <1>1 DEF Published
  <2> QED
    BY <1>5, <1>7, <1>11, <2>1, <2>2 DEF Frame, Kept, Published
<1>14. \A x \in Published : x \in Published'
  BY <1>13 DEF Frame, Published
<1>15. RowInv(v)'
  <2>1. MayPublish(v) /\ c.approves = (review[v].status = "pending")
    BY <1>1 DEF Checked
  <2>2. Valid(row.content, Reference)
    BY <1>6, <2>1, ValidWithAll DEF MayPublish
  <2>3. ReviewRequired(row)' <=> ReviewRequired(version[v])
    BY <1>1, <1>6, <1>13, SameReview DEF RowInv
  <2>4. ReviewRequired(row)' => rev.status = "approved"
    <3>1. ReviewRequired(version[v]) => review[v].status = "pending"
      BY <2>1 DEF MayPublish
    <3> QED
      BY <1>8, <2>1, <2>3, <3>1
  <2>5. rev.status # "pending"
    <3>1. CASE c.approves
      BY <1>8, <3>1
    <3>2. CASE ~c.approves
      BY <1>8, <2>1, <3>2
    <3> QED
      BY <3>1, <3>2
  <2>6. rev.status \in {"approved"} => rev.shown = row.content
    BY <1>1, <1>6, <1>8, <2>1 DEF RowInv
  <2>7. row.base # None => row.base \in Published'
    BY <1>1, <1>6, <1>14 DEF RowInv
  <2>8. Sound(row.content)
    BY <1>1, <1>6 DEF RowInv
  <2>9. ReviewRequired(version[v])' => rev.status = "approved"
    BY <1>11, <2>4
  <2> QED
    BY <1>6, <1>11, <2>2, <2>5, <2>6, <2>7, <2>8, <2>9 DEF RowInv
<1>16. RowInv(w)'
  <2>1. ReviewRequired(closed)' <=> ReviewRequired(version[w])
    BY <1>5, <1>7, <1>13, SameReview DEF RowInv
  <2>2. ReviewRequired(version[w])' <=> ReviewRequired(version[w])
    BY <1>11, <2>1
  <2>3. closed.base # None => closed.base \in Published'
    BY <1>5, <1>7, <1>14 DEF RowInv
  <2> QED
    BY <1>5, <1>7, <1>11, <2>2, <2>3 DEF RowInv
<1>17. RequestInv(Idle)'
  BY IdleRequest
<1> QED
  BY <1>1, <1>10, <1>11, <1>13, <1>15, <1>16, <1>17, StepOfRequest

\* Everything but a publication leaves the days alone.
SameTerms ==
  \A v \in Version :
    /\ v \in Published' <=> v \in Published
    /\ v \in Published => version'[v].from = version[v].from
    /\ version'[v].to = version[v].to

LEMMA SameClosing ==
  ASSUME VersionInv, VersionInv', NEW c, ClosingInv(c),
         \A v \in Version : Kept(v) \/ Raised(v)
  PROVE  ClosingInv(c)'
<1>1. PICK w \in Version, r \in 0..MaxRevision :
        /\ c.closing = {<<w, r>>} /\ r <= version[w].revision
        /\ version[w].revision = r => /\ w \in Published /\ version[w].to = Forever /\ version[w].from < c.from
  BY DEF ClosingInv
<1>2. r \in Nat /\ version[w].revision \in Nat /\ version'[w].revision \in Nat
  <2>1. version'[w] \in VersionRow /\ MaxRevision \in Nat
    BY Types DEF VersionInv, TypeOK
  <2>2. version'[w].revision \in 0..MaxRevision
    BY <2>1 DEF VersionRow
  <2> QED
    BY <2>1, <2>2, Types DEF VersionInv
<1>3. CASE Kept(w)
  <2>1. version'[w] = version[w]
    BY <1>3 DEF Kept
  <2>2. /\ r <= version'[w].revision
        /\ version'[w].revision = r => /\ w \in Published' /\ version'[w].to = Forever /\ version'[w].from < c.from
    BY <1>1, <2>1 DEF Published
  <2> QED
    BY <1>1, <2>2 DEF ClosingInv
<1>4. CASE Raised(w)
  <2>1. r <= version'[w].revision /\ version'[w].revision # r
    BY <1>1, <1>2, <1>4 DEF Raised
  <2> QED
    BY <1>1, <2>1 DEF ClosingInv
<1> QED
  BY <1>3, <1>4

\* The requests of the others keep what they have collected.
LEMMA SameRequests ==
  ASSUME VersionInv, VersionInv', TimelineInv, NEW s \in Session, NEW x,
         session' = [session EXCEPT ![s] = x], \A v \in Version : Kept(v) \/ Raised(v),
         x.phase = "collected" /\ version'[x.target].revision = x.seen => ClosingInv(x)'
  PROVE  \A t \in Session :
           session'[t].phase = "collected" /\ version'[session'[t].target].revision = session'[t].seen
             => ClosingInv(session[t])'
<1> SUFFICES ASSUME NEW t \in Session, session'[t].phase = "collected",
                    version'[session'[t].target].revision = session'[t].seen
             PROVE  ClosingInv(session[t])'
  OBVIOUS
<1>1. CASE t = s
  <2>1. session'[t] = x
    BY <1>1 DEF VersionInv, TypeOK
  <2> QED
    BY <2>1
<1>2. CASE t # s
  <2>1. PICK c \in Request : c = session[t] /\ RequestInv(c)
    BY Types DEF VersionInv
  <2>2. session'[t] = c
    BY <1>2, <2>1 DEF VersionInv, TypeOK
  <2>3. PICK v : v = c.target
    OBVIOUS
  <2>4. v \in Version /\ c.seen <= version[v].revision
    BY <2>1, <2>2, <2>3 DEF RequestInv
  <2>5. version[v].revision = c.seen
    <3>1. version[v].revision \in Nat /\ c.seen \in Nat
      BY <2>1, <2>4, Types DEF VersionInv
    <3>2. version'[v].revision = c.seen
      BY <2>2, <2>3
    <3>3. Kept(v) => version'[v].revision = version[v].revision
      BY DEF Kept
    <3> QED
      BY <2>4, <3>1, <3>2, <3>3 DEF Raised
  <2>6. ClosingInv(c)
    BY <2>1, <2>2, <2>3, <2>5 DEF TimelineInv
  <2> QED
    BY <2>2, <2>6, SameClosing
<1> QED
  BY <1>1, <1>2

LEMMA QuietStep ==
  ASSUME VersionInv, VersionInv', TimelineInv, NEW s \in Session, NEW x,
         session' = [session EXCEPT ![s] = x], \A v \in Version : Kept(v) \/ Raised(v), SameTerms,
         x.phase = "collected" /\ version'[x.target].revision = x.seen => ClosingInv(x)'
  PROVE  TimelineInv'
<1>1. Published \subseteq Version /\ Published' = Published
  BY DEF Published, SameTerms
<1>2. \A v \in Version : TermInv(v)'
  BY <1>1 DEF TimelineInv, TermInv, SameTerms
<1>3. \A v \in Published : version'[v].from = version[v].from /\ version'[v].to = version[v].to
  BY <1>1 DEF SameTerms
<1>4. (\A d \in 1..Forever : \E v \in Published : Covers(v, d))'
  BY <1>1, <1>3 DEF TimelineInv, Covers
<1>5. (\A v, w \in Published : v # w => version[v].to < version[w].from \/ version[w].to < version[v].from)'
  BY <1>1, <1>3 DEF TimelineInv
<1>6. \A t \in Session :
        session'[t].phase = "collected" /\ version'[session'[t].target].revision = session'[t].seen
          => ClosingInv(session[t])'
  BY SameRequests
<1> QED
  BY <1>2, <1>4, <1>5, <1>6 DEF TimelineInv

\* One row that is not published gets another one that is not, without an end either.
LEMMA QuietWrite ==
  ASSUME VersionInv, VersionInv', TimelineInv, NEW s \in Session, NEW v \in Version, NEW row,
         version' = [version EXCEPT ![v] = row], session' = [session EXCEPT ![s] = Idle],
         \A w \in Version : w # v => review'[w] = review[w],
         version[v].status # "published", row.status # "published", row.to = Forever,
         version[v].revision < row.revision
  PROVE  TimelineInv'
<1>1. \A w \in Version : version'[w] = IF w = v THEN row ELSE version[w]
  BY DEF VersionInv, TypeOK
<1>2. \A w \in Version : Kept(w) \/ Raised(w)
  BY <1>1 DEF Kept, Raised
<1>3. version[v].to = Forever
  BY DEF TimelineInv, TermInv, Published
<1>4. SameTerms
  BY <1>1, <1>3 DEF SameTerms, Published
<1> QED
  BY <1>2, <1>4, IdleRequest, QuietStep

LEMMA QuietActions ==
  ASSUME VersionInv, VersionInv', TimelineInv, NEW s \in Session,
         \/ BeginDraft(s) \/ CommitDraft(s) \/ BeginEdit(s) \/ BeginReview(s) \/ BeginPublish(s)
         \/ CommitEdit(s) \/ CommitSubmit(s) \/ CommitReturn(s) \/ Fail(s)
  PROVE  TimelineInv'
<1>1. ASSUME NEW x, session' = [session EXCEPT ![s] = x], x.phase # "collected",
             UNCHANGED <<version, review>>
      PROVE  TimelineInv'
  <2>1. (\A v \in Version : Kept(v) \/ Raised(v)) /\ SameTerms
    BY <1>1 DEF Kept, SameTerms, Published
  <2> QED
    BY <1>1, <2>1, QuietStep
<1>2. CASE BeginDraft(s)
  <2>1. PICK n \in Version, b \in Published \cup {None} :
          session' = [session EXCEPT ![s] = [Idle EXCEPT !.phase = "checked", !.op = "draft", !.target = n, !.base = b]]
    BY <1>2 DEF BeginDraft
  <2>2. PICK x : x = [Idle EXCEPT !.phase = "checked", !.op = "draft", !.target = n, !.base = b]
    OBVIOUS
  <2>3. x.phase = "checked" /\ session' = [session EXCEPT ![s] = x]
    BY <2>1, <2>2 DEF Idle
  <2> QED
    BY <1>1, <1>2, <2>3 DEF BeginDraft
<1>3. ASSUME NEW v, NEW request, Load(s, v, request), UNCHANGED <<version, review>>, request \in Request
      PROVE  TimelineInv'
  <2>1. PICK x : x = [request EXCEPT !.phase = "checked", !.target = v, !.seen = version[v].revision]
    OBVIOUS
  <2>2. x.phase = "checked" /\ session' = [session EXCEPT ![s] = x]
    BY <1>3, <2>1 DEF Load, Request
  <2> QED
    BY <1>1, <1>3, <2>2
<1>4. CASE BeginEdit(s)
  <2>1. PICK v \in Edited, e \in Edit : Load(s, v, [Idle EXCEPT !.op = "edit", !.edit = e])
    BY <1>4 DEF BeginEdit, AllowedEdits
  <2>2. [Idle EXCEPT !.op = "edit", !.edit = e] \in Request
    BY IdleRequest DEF Request, Op
  <2> QED
    BY <1>3, <1>4, <2>1, <2>2 DEF BeginEdit
<1>5. CASE BeginReview(s)
  <2>1. PICK v \in Version, op \in {"submit", "return"} : Load(s, v, [Idle EXCEPT !.op = op])
    BY <1>5 DEF BeginReview
  <2>2. [Idle EXCEPT !.op = op] \in Request
    BY IdleRequest DEF Request, Op
  <2> QED
    BY <1>3, <1>5, <2>1, <2>2 DEF BeginReview
<1>6. CASE BeginPublish(s)
  <2>1. PICK v \in Version, from \in Day, pending \in BOOLEAN :
          Load(s, v, [Idle EXCEPT !.op = "publish", !.from = from, !.approves = pending])
    BY <1>6 DEF BeginPublish
  <2>2. [Idle EXCEPT !.op = "publish", !.from = from, !.approves = pending] \in Request
    BY IdleRequest DEF Request, Op
  <2> QED
    BY <1>3, <1>6, <2>1, <2>2 DEF BeginPublish
<1>7. CASE CommitDraft(s)
  <2>1. PICK c \in Request : c = session[s] /\ RequestInv(c)
    BY Types DEF VersionInv
  <2>2. PICK v : v = c.target
    OBVIOUS
  <2>3. v \in Version /\ version[v].status = "absent"
    BY <1>7, <2>1, <2>2 DEF CommitDraft, RequestInv, Exists
  <2>4. version[v].revision = 0
    BY <2>3 DEF VersionInv, RowInv
  <2>5. PICK content : content = IF c.base = None THEN Empty ELSE version[c.base].content
    OBVIOUS
  <2>6. PICK row : row = [NoVersion EXCEPT !.status = "draft", !.revision = 1, !.base = c.base, !.content = content]
    OBVIOUS
  <2>7. row.status = "draft" /\ row.revision = 1 /\ row.to = Forever
    BY <2>6 DEF NoVersion
  <2>8. /\ version' = [version EXCEPT ![v] = row] /\ review' = review
        /\ session' = [session EXCEPT ![s] = Idle]
    BY <1>7, <2>1, <2>2, <2>5, <2>6 DEF CommitDraft
  <2>9. /\ version[v].status # "published" /\ row.status # "published" /\ version[v].revision < row.revision
        /\ \A w \in Version : w # v => review'[w] = review[w]
    BY <2>3, <2>4, <2>7, <2>8
  <2> QED
    BY <2>3, <2>7, <2>8, <2>9, QuietWrite
<1>8. CASE CommitEdit(s) \/ CommitSubmit(s) \/ CommitReturn(s)
  <2>1. Fresh(s) /\ session[s].op \in {"edit", "submit", "return"}
    BY <1>8 DEF CommitEdit, CommitSubmit, CommitReturn
  <2>2. PICK c \in Request, v \in Version :
          /\ c = session[s] /\ v = c.target
          /\ version[v] \in VersionRow /\ review[v] \in ReviewRow
          /\ version[v].status \in SourceStatus(c.op) /\ version[v].revision \in Nat
    BY <2>1, FreshRequest
  <2>3. version[v].status \in {"draft", "in_review"}
    BY <2>1, <2>2 DEF SourceStatus
  <2>4. version[v].to = Forever
    BY <2>3 DEF TimelineInv, TermInv, Published
  <2>5. CASE CommitEdit(s)
    <3>1. PICK row : row = [version[v] EXCEPT !.content = Apply(version[v].content, c.edit),
                                              !.revision = version[v].revision + 1]
      OBVIOUS
    <3>2. row.status = version[v].status /\ row.to = Forever /\ version[v].revision < row.revision
      BY <2>2, <2>4, <3>1 DEF VersionRow
    <3>3. /\ version' = [version EXCEPT ![v] = row] /\ review' = review
          /\ session' = [session EXCEPT ![s] = Idle]
      BY <2>2, <2>5, <3>1 DEF CommitEdit, VersionInv, TypeOK
    <3> QED
      BY <2>3, <3>2, <3>3, QuietWrite
  <2>6. CASE CommitSubmit(s) \/ CommitReturn(s)
    <3>1. PICK status \in {"draft", "in_review"} :
            version' = [version EXCEPT ![v] = [version[v] EXCEPT !.status = status, !.revision = version[v].revision + 1]]
      <4>1. CASE CommitSubmit(s)
        <5>1. version' = [version EXCEPT ![v] = [version[v] EXCEPT !.status = "in_review", !.revision = version[v].revision + 1]]
          BY <2>2, <4>1 DEF CommitSubmit, VersionInv, TypeOK
        <5> QED
          BY <5>1
      <4>2. CASE CommitReturn(s)
        <5>1. version' = [version EXCEPT ![v] = [version[v] EXCEPT !.status = "draft", !.revision = version[v].revision + 1]]
          BY <2>2, <4>2 DEF CommitReturn, VersionInv, TypeOK
        <5> QED
          BY <5>1
      <4> QED
        BY <2>6, <4>1, <4>2
    <3>2. PICK row : row = [version[v] EXCEPT !.status = status, !.revision = version[v].revision + 1]
      OBVIOUS
    <3>3. version' = [version EXCEPT ![v] = row] /\ status \in {"draft", "in_review"}
      BY <3>1, <3>2
    <3>4. row.status = status /\ row.to = Forever /\ version[v].revision < row.revision
      BY <2>2, <2>4, <3>2 DEF VersionRow
    <3>5. session' = [session EXCEPT ![s] = Idle] /\ \A w \in Version : w # v => review'[w] = review[w]
      BY <2>2, <2>6 DEF CommitSubmit, CommitReturn, VersionInv, TypeOK
    <3> QED
      BY <2>3, <3>3, <3>4, <3>5, QuietWrite
  <2> QED
    BY <1>8, <2>5, <2>6
<1>9. CASE Fail(s)
  BY <1>1, <1>9, IdleRequest DEF Fail
<1> QED
  BY <1>2, <1>4, <1>5, <1>6, <1>7, <1>8, <1>9

LEMMA TimelineInit ==
  ASSUME Init, VersionInv
  PROVE  TimelineInv
<1>1. PICK first : first = [NoVersion EXCEPT !.status = "published", !.revision = 1, !.from = 1, !.content = Seeded]
  OBVIOUS
<1>2. /\ first.status = "published" /\ first.from = 1 /\ first.to = Forever
      /\ NoVersion.status = "absent" /\ NoVersion.to = Forever
  BY <1>1 DEF NoVersion
<1>3. \A v \in Version : version[v] = IF v = 1 THEN first ELSE NoVersion
  BY <1>1 DEF Init
<1>4. LastDay \in Nat /\ LastDay >= 1 /\ Forever = LastDay + 1 /\ 1 \in Version
  BY Types DEF VersionInv
<1>5. Published = {1}
  BY <1>2, <1>3, <1>4 DEF Published
<1>6. \A v \in Version : TermInv(v)
  BY <1>2, <1>3, <1>4, <1>5 DEF TermInv, Day
<1>7. \A d \in 1..Forever : \E v \in Published : Covers(v, d)
  BY <1>2, <1>3, <1>4, <1>5 DEF Covers
<1>8. \A s \in Session : session[s].phase # "collected"
  BY IdleRequest DEF Init
<1> QED
  BY <1>5, <1>6, <1>7, <1>8 DEF TimelineInv

\* What a publication finds overlapping is, if it starts after all of it, the last version alone.
LEMMA CollectQuiet ==
  ASSUME VersionInv, VersionInv', TimelineInv, NEW s \in Session, Collect(s)
  PROVE  TimelineInv'
<1>1. PICK c \in Request : c = session[s] /\ RequestInv(c)
  BY Types DEF VersionInv
<1>2. PICK overlapping : overlapping = {v \in Published \ {c.target} : version[v].to >= c.from}
  OBVIOUS
<1>3. PICK closing : closing = {<<v, version[v].revision>> : v \in overlapping}
  OBVIOUS
<1>4. PICK x : x = [c EXCEPT !.phase = "collected", !.closing = closing]
  OBVIOUS
<1>5. /\ c.op = "publish" /\ c.phase = "checked"
      /\ \/ session' = [session EXCEPT ![s] = x] /\ \A v \in overlapping : version[v].from < c.from
         \/ session' = [session EXCEPT ![s] = Idle]
  BY <1>1, <1>2, <1>3, <1>4 DEF Collect, VersionInv, TypeOK
<1>6. (\A v \in Version : Kept(v) \/ Raised(v)) /\ SameTerms
  BY DEF Collect, Kept, SameTerms, Published
<1>7. CASE session' = [session EXCEPT ![s] = Idle]
  BY <1>6, <1>7, IdleRequest, QuietStep
<1>8. CASE session' = [session EXCEPT ![s] = x] /\ \A v \in overlapping : version[v].from < c.from
  <2>1. x.target = c.target /\ x.seen = c.seen /\ x.from = c.from /\ x.closing = closing
    BY <1>4 DEF Request
  <2>2. ASSUME version'[x.target].revision = x.seen
        PROVE  ClosingInv(x)'
    <3>1. c.target \in Version /\ c.from \in Day /\ version[c.target].status \in {"draft", "in_review"}
      <4>1. version'[x.target] = version[c.target]
        BY <2>1 DEF Collect
      <4>2. c.target \in Version /\ c.from \in Day /\ Checked(c)
        BY <1>1, <1>5, <2>1, <2>2, <4>1 DEF RequestInv
      <4> QED
        BY <1>5, <4>2 DEF Checked, SourceStatus
    <3>2. LastDay \in Nat /\ Forever = LastDay + 1 /\ c.from \in Nat /\ c.from < Forever
      BY <3>1, DayAssumption DEF Day, Forever
    <3>3. PICK w \in Published : Covers(w, Forever)
      <4>1. Forever \in 1..Forever
        BY <3>2
      <4> QED
        BY <4>1 DEF TimelineInv
    <3>4. \A v \in Published : /\ v \in Version /\ version[v].from \in Nat /\ version[v].to \in Nat
                               /\ version[v].from <= version[v].to /\ version[v].to <= Forever
                               /\ version[v].from < Forever
      <4> SUFFICES ASSUME NEW v \in Published
                   PROVE  /\ v \in Version /\ version[v].from \in Nat /\ version[v].to \in Nat
                          /\ version[v].from <= version[v].to /\ version[v].to <= Forever
                          /\ version[v].from < Forever
        OBVIOUS
      <4>1. v \in Version
        BY DEF Published
      <4>2. version[v].from \in Day /\ version[v].from <= version[v].to /\ version[v].to \in 0..Forever
        BY <4>1, Types DEF TimelineInv, TermInv, VersionInv
      <4> QED
        BY <3>2, <4>1, <4>2 DEF Day
    <3>5. version[w].to = Forever
      BY <3>2, <3>3, <3>4 DEF Covers
    <3>6. w \in overlapping
      BY <1>2, <3>1, <3>2, <3>5 DEF Published
    <3>7. version[w].from < c.from
      BY <1>8, <3>6
    <3>8. ASSUME NEW v \in overlapping
          PROVE  v = w
      <4>1. v \in Published /\ version[v].to >= c.from /\ version[v].from < c.from
        BY <1>2, <1>8
      <4>2. ~(version[v].to < version[w].from) /\ ~(version[w].to < version[v].from)
        BY <3>2, <3>4, <3>5, <3>7, <4>1
      <4> QED
        BY <4>1, <4>2 DEF TimelineInv
    <3>9. overlapping = {w}
      BY <3>6, <3>8
    <3>10. closing = {<<w, version[w].revision>>} /\ w \in Version
      BY <1>3, <3>3, <3>4, <3>9
    <3>11. version[w].revision \in 0..MaxRevision /\ version[w].revision \in Nat
      BY <3>10, Types DEF VersionInv
    <3>12. ClosingInv(x)
      BY <2>1, <3>3, <3>5, <3>7, <3>10, <3>11 DEF ClosingInv
    <3>13. \A v \in Version : Kept(v) \/ Raised(v)
      BY <1>6
    <3> QED
      BY <3>12, <3>13, SameClosing
  <2> QED
    BY <1>6, <1>8, <2>2, QuietStep
<1> QED
  BY <1>5, <1>7, <1>8

\* The days from the effective date on go to the published version, the others stay as they are.
LEMMA PublishTerms ==
  ASSUME VersionInv, VersionInv', TimelineInv, NEW s \in Session, CommitPublish(s)
  PROVE  /\ TimelineInv'
         /\ \E v \in Version, w \in Published, from \in Day :
              /\ from - 1 \in Day /\ v \notin Published
              /\ \A d \in 1..Forever : \A x \in Version :
                   x \in Published' /\ Covers(x, d)'
                     <=> IF d < from THEN x \in Published /\ Covers(x, d) ELSE x = v
              /\ \A d \in (from - 1)..Forever : Covers(w, d)
<1>1. PICK c \in Request, v \in Version, w \in Published :
        /\ c = session[s] /\ v = c.target /\ v # w /\ Checked(c) /\ RowInv(v)
        /\ c.op = "publish" /\ c.from \in Day /\ version[v].status \in {"draft", "in_review"}
        /\ version[w].to = Forever /\ version[w].from < c.from
        /\ version' = [version EXCEPT
                         ![v] = [version[v] EXCEPT !.status = "published",
                                                   !.revision = version[v].revision + 1, !.from = c.from],
                         ![w] = [version[w] EXCEPT !.revision = version[w].revision + 1, !.to = c.from - 1]]
        /\ version[v].revision + 1 \in 0..MaxRevision /\ version[w].revision + 1 \in 0..MaxRevision
        /\ review' = IF c.approves THEN [review EXCEPT ![v].status = "approved"] ELSE review
        /\ session' = [session EXCEPT ![s] = Idle]
  BY Publication
<1>a. /\ c.from \in Day /\ version[v].status \in {"draft", "in_review"} /\ v # w
      /\ version[w].to = Forever /\ version[w].from < c.from
      /\ session' = [session EXCEPT ![s] = Idle]
  BY <1>1
<1>b. \A x \in Version : x # v => review'[x] = review[x]
  BY <1>1 DEF VersionInv, TypeOK
<1>2. PICK row : row = [version[v] EXCEPT !.status = "published", !.revision = version[v].revision + 1, !.from = c.from]
  OBVIOUS
<1>3. PICK closed : closed = [version[w] EXCEPT !.revision = version[w].revision + 1, !.to = c.from - 1]
  OBVIOUS
<1>4. version' = [version EXCEPT ![v] = row, ![w] = closed]
  BY <1>1, <1>2, <1>3
<1>5. w \in Version /\ version[w].status = "published" /\ v \notin Published
  BY <1>1 DEF Published
<1>6. version[v] \in VersionRow /\ version[w] \in VersionRow /\ version[v].to = Forever
  BY <1>5, Types DEF VersionInv, TimelineInv, TermInv
<1>7. /\ row.status = "published" /\ row.from = c.from /\ row.to = Forever
      /\ row.revision = version[v].revision + 1
      /\ closed.status = "published" /\ closed.from = version[w].from /\ closed.to = c.from - 1
      /\ closed.revision = version[w].revision + 1
  BY <1>2, <1>3, <1>5, <1>6 DEF VersionRow
<1>8. \A x \in Version : version'[x] = IF x = v THEN row ELSE IF x = w THEN closed ELSE version[x]
  BY <1>a, <1>4, <1>5 DEF VersionInv, TypeOK
<1>9. Published' = Published \cup {v}
  BY <1>5, <1>7, <1>8 DEF Published
<1>10. LastDay \in Nat /\ Forever = LastDay + 1 /\ c.from \in Nat /\ c.from <= LastDay
  BY <1>a, DayAssumption DEF Day, Forever
<1>11. \A x \in Published : /\ x \in Version /\ x # v
                            /\ version[x].from \in Nat /\ version[x].to \in Nat /\ version[x].from >= 1
                            /\ version[x].from <= version[x].to /\ version[x].to <= Forever
                            /\ version[x].from <= LastDay
  <2> SUFFICES ASSUME NEW x \in Published
               PROVE  /\ x \in Version /\ x # v
                      /\ version[x].from \in Nat /\ version[x].to \in Nat /\ version[x].from >= 1
                      /\ version[x].from <= version[x].to /\ version[x].to <= Forever
                      /\ version[x].from <= LastDay
    OBVIOUS
  <2>1. x \in Version /\ x # v
    BY <1>5 DEF Published
  <2>2. version[x].from \in Day /\ version[x].from <= version[x].to /\ version[x].to \in 0..Forever
    BY <2>1, Types DEF TimelineInv, TermInv, VersionInv
  <2> QED
    BY <1>10, <2>1, <2>2 DEF Day
<1>12. version[w].from \in Nat /\ version[w].from >= 1 /\ c.from - 1 \in Day
  BY <1>a, <1>10, <1>11 DEF Day
<1>13. \A x \in Published : x # w => version[x].to < version[w].from
  <2> SUFFICES ASSUME NEW x \in Published, x # w
               PROVE  version[x].to < version[w].from
    OBVIOUS
  <2>1. version[x].to < version[w].from \/ version[w].to < version[x].from
    BY DEF TimelineInv
  <2> QED
    BY <1>a, <1>10, <1>11, <2>1
<1>14. ASSUME NEW d \in 1..Forever, NEW x \in Version
       PROVE  x \in Published' /\ Covers(x, d)' <=> IF d < c.from THEN x \in Published /\ Covers(x, d) ELSE x = v
  <2>1. d \in Nat /\ d <= Forever
    BY <1>10
  <2>2. CASE x = v
    <3>1. version'[x].from = c.from /\ version'[x].to = Forever
      BY <1>7, <1>8, <2>2
    <3> QED
      BY <1>5, <1>9, <1>10, <2>1, <2>2, <3>1 DEF Covers
  <2>3. CASE x = w
    <3>1. version'[x].from = version[w].from /\ version'[x].to = c.from - 1
      BY <1>a, <1>7, <1>8, <2>3
    <3> QED
      BY <1>a, <1>9, <1>10, <1>12, <2>1, <2>3, <3>1 DEF Covers
  <2>4. CASE x # v /\ x # w
    <3>1. version'[x] = version[x]
      BY <1>8, <2>4
    <3>2. x \in Published => version[x].to < c.from /\ version[x].to \in Nat /\ version[x].from \in Nat
      BY <1>a, <1>10, <1>11, <1>12, <1>13, <2>4
    <3> QED
      BY <1>9, <1>10, <2>1, <2>4, <3>1, <3>2 DEF Covers
  <2> QED
    BY <2>2, <2>3, <2>4
<1>15. \A d \in (c.from - 1)..Forever : Covers(w, d)
  BY <1>a, <1>10, <1>12 DEF Covers
<1>16. \A x \in Version : TermInv(x)'
  <2> SUFFICES ASSUME NEW x \in Version
               PROVE  TermInv(x)'
    OBVIOUS
  <2>1. CASE x = v
    BY <1>a, <1>7, <1>8, <1>9, <1>10, <2>1 DEF TermInv
  <2>2. CASE x = w
    <3>1. version'[x].from = version[w].from /\ version'[x].to = c.from - 1 /\ version[w].from \in Day
      BY <1>a, <1>5, <1>7, <1>8, <2>2 DEF TimelineInv, TermInv
    <3> QED
      BY <1>a, <1>9, <1>10, <1>12, <2>2, <3>1 DEF TermInv
  <2>3. CASE x # v /\ x # w
    <3>1. version'[x] = version[x] /\ (x \in Published' <=> x \in Published)
      BY <1>8, <1>9, <2>3
    <3> QED
      BY <3>1 DEF TimelineInv, TermInv
  <2> QED
    BY <2>1, <2>2, <2>3
<1>17. \A d \in 1..Forever : \E x \in Published' : Covers(x, d)'
  <2> SUFFICES ASSUME NEW d \in 1..Forever
               PROVE  \E x \in Published' : Covers(x, d)'
    OBVIOUS
  <2>1. CASE d < c.from
    <3>1. PICK x \in Published : Covers(x, d)
      BY DEF TimelineInv
    <3> QED
      BY <1>11, <1>14, <2>1, <3>1
  <2>2. CASE ~(d < c.from)
    BY <1>14, <2>2
  <2> QED
    BY <2>1, <2>2
<1>18. \A x, y \in Published' : x # y => version'[x].to < version'[y].from \/ version'[y].to < version'[x].from
  <2>1. \A x \in Published : version'[x].from = version[x].from /\ version'[x].to \in Nat /\ version'[x].to < c.from
    <3> SUFFICES ASSUME NEW x \in Published
                 PROVE  version'[x].from = version[x].from /\ version'[x].to \in Nat /\ version'[x].to < c.from
      OBVIOUS
    <3>1. CASE x = w
      BY <1>a, <1>5, <1>7, <1>8, <1>10, <1>12, <3>1
    <3>2. CASE x # w
      <4>1. version'[x] = version[x]
        BY <1>8, <1>11, <3>2
      <4> QED
        BY <1>a, <1>10, <1>11, <1>12, <1>13, <3>2, <4>1
    <3> QED
      BY <3>1, <3>2
  <2>2. version'[v].from = c.from
    BY <1>7, <1>8
  <2>3. \A x \in Published : version'[x].to <= version[x].to
    <3> SUFFICES ASSUME NEW x \in Published
                 PROVE  version'[x].to <= version[x].to
      OBVIOUS
    <3>1. CASE x = w
      BY <1>a, <1>10, <2>1, <3>1
    <3>2. CASE x # w
      BY <1>8, <1>11, <3>2
    <3> QED
      BY <3>1, <3>2
  <2>4. ASSUME NEW x \in Published, NEW y \in Published, x # y
        PROVE  version'[x].to < version'[y].from \/ version'[y].to < version'[x].from
    <3>1. version[x].to < version[y].from \/ version[y].to < version[x].from
      BY <2>4 DEF TimelineInv
    <3>2. /\ version[x].to \in Nat /\ version[y].to \in Nat /\ version[x].from \in Nat /\ version[y].from \in Nat
      BY <1>11
    <3> QED
      BY <2>1, <2>3, <3>1, <3>2
  <2> QED
    BY <1>9, <2>1, <2>2, <2>4
<1>19. \A x \in Version : Kept(x) \/ Raised(x)
  <2>1. version[v].revision \in Nat /\ version[w].revision \in Nat
    BY <1>5, Types DEF VersionInv
  <2>2. Raised(v) /\ Raised(w)
    BY <1>a, <1>5, <1>7, <1>8, <2>1 DEF Raised
  <2> QED
    BY <1>b, <1>8, <2>2 DEF Kept
<1>20. \A t \in Session :
         session'[t].phase = "collected" /\ version'[session'[t].target].revision = session'[t].seen
           => ClosingInv(session[t])'
  BY <1>a, <1>19, IdleRequest, SameRequests
<1>21. TimelineInv'
  BY <1>16, <1>17, <1>18, <1>20 DEF TimelineInv
<1> QED
  BY <1>a, <1>5, <1>12, <1>14, <1>15, <1>21

LEMMA VersionStep ==
  ASSUME VersionInv, TimelineInv, [Next]_vars
  PROVE  VersionInv' /\ TimelineInv'
<1>1. CASE UNCHANGED vars
  <2>1. UNCHANGED <<version, review, session>>
    BY <1>1 DEF vars
  <2> QED
    BY <2>1 DEF VersionInv, TypeOK, Published, RowInv, ReviewRequired, StaffingChanged, RequestInv, Checked,
                AllowedEdits, Valids, MayPublish, TimelineInv, TermInv, Covers, ClosingInv
<1>2. ASSUME NEW s \in Session,
             \/ BeginDraft(s) \/ CommitDraft(s) \/ BeginEdit(s) \/ BeginReview(s) \/ BeginPublish(s)
             \/ CommitEdit(s) \/ CommitSubmit(s) \/ CommitReturn(s) \/ Fail(s)
      PROVE  VersionInv' /\ TimelineInv'
  <2>1. VersionInv'
    BY <1>2, BeginDraftKeeps, CommitDraftKeeps, BeginEditKeeps, BeginReviewKeeps, BeginPublishKeeps,
       CommitEditKeeps, CommitSubmitKeeps, CommitReturnKeeps, FailKeeps
  <2> QED
    BY <1>2, <2>1, QuietActions
<1>3. ASSUME NEW s \in Session, Collect(s)
      PROVE  VersionInv' /\ TimelineInv'
  BY <1>3, CollectKeeps, CollectQuiet
<1>4. ASSUME NEW s \in Session, CommitPublish(s)
      PROVE  VersionInv' /\ TimelineInv'
  BY <1>4, CommitPublishKeeps, PublishTerms
<1> QED
  BY <1>1, <1>2, <1>3, <1>4 DEF Next

\* The structure versions of any organization, whatever requests are served at once: every
\* structure is sound, every check of an open request holds as long as its version has the
\* revision it read, and the published versions cover every day exactly once.
THEOREM VersionInvariant == Spec => [](VersionInv /\ TimelineInv)
<1>1. Init => VersionInv /\ TimelineInv
  BY VersionInit, TimelineInit
<1>2. VersionInv /\ TimelineInv /\ [Next]_vars => (VersionInv /\ TimelineInv)'
  BY VersionStep
<1> QED
  BY <1>1, <1>2, PTL DEF Spec

\* No interleaving of edits (move_unit, deactivate_unit, the staffing edits) leaves a draft with a
\* loop, with an active unit below an inactive one or with a slot or relationship of an inactive unit.
THEOREM DraftsConnected == Spec => []DraftsStayConnected
<1>1. VersionInv => DraftsStayConnected
  BY SoundIsConnected DEF VersionInv, RowInv, DraftsStayConnected
<1> QED
  BY <1>1, VersionInvariant, PTL

\* What submit_for_review and publish_structure let through is valid, the reference rows aside.
THEOREM SettledAreValid == Spec => []SettledStructuresAreValid
<1>1. VersionInv => SettledStructuresAreValid
  BY DEF VersionInv, RowInv, SettledStructuresAreValid
<1> QED
  BY <1>1, VersionInvariant, PTL

\* What publish_structure publishes was approved where its policy asks for a review, and is the
\* structure that was submitted.
THEOREM PublishedAsReviewed == Spec => []ReviewedAsPublished
<1>1. VersionInv => ReviewedAsPublished
  BY DEF VersionInv, RowInv, ReviewedAsPublished, Published
<1> QED
  BY <1>1, VersionInvariant, PTL

\* get_active: the version in force on a day is the published version that covers it.
LEMMA InForceIs ==
  ASSUME VersionInv, TimelineInv, NEW d \in 1..Forever
  PROVE  /\ InForce(d) \in Published /\ Covers(InForce(d), d)
         /\ \A v \in Published : Covers(v, d) => InForce(d) = v
<1>1. PICK v \in Published : Covers(v, d)
  BY DEF TimelineInv
<1>2. PICK covering : covering = {w \in Published : Covers(w, d)}
  OBVIOUS
<1>3. ASSUME NEW w \in Published, Covers(w, d)
      PROVE  w = v
  <2>1. d \in Nat /\ version[v].to \in Nat /\ version[v].from \in Nat /\ version[w].to \in Nat /\ version[w].from \in Nat
    <3>1. LastDay \in Nat /\ Forever \in Nat
      BY Types DEF VersionInv
    <3> QED
      BY <3>1, Types DEF VersionInv, Published
  <2>2. ~(version[v].to < version[w].from) /\ ~(version[w].to < version[v].from)
    BY <1>1, <1>3, <2>1 DEF Covers
  <2> QED
    BY <2>2 DEF TimelineInv
<1>4. covering = {v}
  BY <1>1, <1>2, <1>3
<1>5. Cardinality(covering) = 1
  BY <1>4, FS_Singleton
<1>6. InForce(d) = CHOOSE w \in covering : TRUE
  BY <1>2, <1>5 DEF InForce
<1>7. InForce(d) = v
  BY <1>4, <1>6
<1> QED
  BY <1>1, <1>3, <1>7

\* The same after a step.
LEMMA InForceNext ==
  VersionInv' /\ TimelineInv'
    => (\A d \in 1..Forever : \A v \in Published : Covers(v, d) => InForce(d) = v)'
<1>1. VersionInv /\ TimelineInv => \A d \in 1..Forever : \A v \in Published : Covers(v, d) => InForce(d) = v
  BY InForceIs
<1> QED
  BY <1>1, PTL

LEMMA DaysAre ==
  /\ Timeline!Day = Day /\ LastDay \in Nat /\ LastDay \in Day /\ Day \subseteq 1..Forever
  /\ \A d \in Day : d \in Nat /\ d <= LastDay
BY DayAssumption DEF Timeline!Day, Day, Forever

LEMMA TimelineInits ==
  ASSUME Init, VersionInv, TimelineInv
  PROVE  Timeline!Init
<1>1. PICK first : first = [NoVersion EXCEPT !.status = "published", !.revision = 1, !.from = 1, !.content = Seeded]
  OBVIOUS
<1>2. first.status = "published" /\ first.from = 1 /\ first.to = Forever /\ NoVersion.status = "absent"
  BY <1>1 DEF NoVersion
<1>3. \A v \in Version : version[v] = IF v = 1 THEN first ELSE NoVersion
  BY <1>1 DEF Init
<1>4. 1 \in Published /\ 1 \in Version
  BY DEF VersionInv, Published
<1>5. \A d \in Day : Covers(1, d)
  BY <1>2, <1>3, <1>4, DaysAre DEF Covers, Day, Forever
<1>6. \A d \in Day : InForce(d) = 1
  BY <1>4, <1>5, DaysAre, InForceIs
<1>7. [d \in Day |-> InForce(d)] = [d \in Day |-> 1]
  BY <1>6
<1>8. [d \in Day |-> InForce(d)] = [d \in Timeline!Day |-> 1]
  BY <1>7, DaysAre
<1> QED
  BY <1>4, <1>8 DEF Timeline!Init

\* A step that leaves the published versions and their terms alone leaves the days alone.
LEMMA SameDays ==
  ASSUME VersionInv, VersionInv', TimelineInv, TimelineInv',
         \A d \in 1..Forever, v \in Published : v \in Published' /\ (Covers(v, d) => Covers(v, d)')
  PROVE  [d \in Day |-> InForce(d)]' = [d \in Day |-> InForce(d)]
<1>1. ASSUME NEW d \in Day
      PROVE  InForce(d)' = InForce(d)
  <2>1. PICK v : v = InForce(d)
    OBVIOUS
  <2>2. d \in 1..Forever
    BY DaysAre
  <2>3. v \in Published /\ Covers(v, d)
    BY <2>1, <2>2, InForceIs
  <2>4. v \in Published' /\ Covers(v, d)'
    BY <2>2, <2>3
  <2>5. \A w \in Published' : Covers(w, d)' => InForce(d)' = w
    BY <2>2, InForceNext
  <2> QED
    BY <2>1, <2>4, <2>5
<1> QED
  BY <1>1

LEMMA TimelineStep ==
  ASSUME VersionInv, VersionInv', TimelineInv, TimelineInv', [Next]_vars
  PROVE  Timeline!Next \/ [d \in Day |-> InForce(d)]' = [d \in Day |-> InForce(d)]
<1>1. ASSUME SameTerms
      PROVE  [d \in Day |-> InForce(d)]' = [d \in Day |-> InForce(d)]
  <2>1. \A d \in 1..Forever, v \in Published : v \in Published' /\ (Covers(v, d) => Covers(v, d)')
    BY <1>1 DEF SameTerms, Covers, Published
  <2> QED
    BY <2>1, SameDays
<1>2. CASE UNCHANGED version
  BY <1>1, <1>2 DEF SameTerms, Published
<1>3. ASSUME NEW s \in Session, CommitPublish(s)
      PROVE  Timeline!Next
  <2>1. PICK v \in Version, w \in Published, from \in Day :
          /\ from - 1 \in Day /\ v \notin Published
          /\ \A d \in 1..Forever : \A x \in Version :
               x \in Published' /\ Covers(x, d)'
                 <=> IF d < from THEN x \in Published /\ Covers(x, d) ELSE x = v
          /\ \A d \in (from - 1)..Forever : Covers(w, d)
    BY <1>3, PublishTerms
  <2>2. PICK before, after : before = [d \in Day |-> InForce(d)] /\ after = [d \in Day |-> InForce(d)]'
    OBVIOUS
  <2>3. \A d \in Day : before[d] = InForce(d) /\ after[d] = InForce(d)'
    BY <2>2
  <2>4. \A d \in Day : before[d] \in Published /\ Covers(before[d], d)
    BY <2>3, DaysAre, InForceIs
  <2>5. \A d \in Day : before[d] # v
    BY <2>1, <2>4
  <2>6. before[from - 1] = w /\ before[LastDay] = w
    <3>1. from - 1 \in 1..Forever /\ LastDay \in 1..Forever /\ from - 1 \in (from - 1)..Forever /\ LastDay \in (from - 1)..Forever
      BY <2>1, DaysAre DEF Day, Forever
    <3>2. Covers(w, from - 1) /\ Covers(w, LastDay)
      BY <2>1, <3>1
    <3>3. InForce(from - 1) = w /\ InForce(LastDay) = w
      BY <3>1, <3>2, InForceIs
    <3> QED
      BY <2>1, <2>3, <3>3, DaysAre
  <2>7. ASSUME NEW d \in Day
        PROVE  after[d] = IF d < from THEN before[d] ELSE v
    <3>1. d \in 1..Forever
      BY DaysAre
    <3>2. \A x \in Published' : Covers(x, d)' => InForce(d)' = x
      BY <3>1, InForceNext
    <3>3. PICK x \in Version : x = IF d < from THEN before[d] ELSE v
      BY <2>4 DEF Published
    <3>4. IF d < from THEN x \in Published /\ Covers(x, d) ELSE x = v
      BY <2>4, <3>3
    <3>5. x \in Published' /\ Covers(x, d)'
      BY <2>1, <3>1, <3>4
    <3>6. InForce(d)' = x
      BY <3>2, <3>5
    <3> QED
      BY <2>3, <3>3, <3>6
  <2>8. after = [d \in Day |-> IF d < from THEN before[d] ELSE v]
    BY <2>2, <2>7
  <2>9. Timeline!Publish(v, from)
    BY <2>1, <2>2, <2>5, <2>6, <2>8, DaysAre DEF Timeline!Publish
  <2> QED
    BY <2>9, DaysAre DEF Timeline!Next
<1>4. ASSUME NEW s \in Session,
             CommitDraft(s) \/ CommitEdit(s) \/ CommitSubmit(s) \/ CommitReturn(s)
      PROVE  [d \in Day |-> InForce(d)]' = [d \in Day |-> InForce(d)]
  <2>1. ASSUME NEW v \in Published
        PROVE  version'[v] = version[v]
    <3>1. v \in Version /\ version[v].status = "published"
      BY DEF Published
    <3>2. PICK c \in Request : c = session[s] /\ RequestInv(c)
      BY Types DEF VersionInv
    <3>3. c.target \in Version => version[c.target] # version[v]
      <4>1. CASE CommitDraft(s)
        BY <3>1, <3>2, <4>1 DEF CommitDraft, Exists
      <4>2. CASE CommitEdit(s) \/ CommitSubmit(s) \/ CommitReturn(s)
        <5>1. Fresh(s) /\ c.op \in {"edit", "submit", "return"}
          BY <3>2, <4>2 DEF CommitEdit, CommitSubmit, CommitReturn
        <5>2. version[c.target].status \in SourceStatus(c.op)
          BY <3>2, <5>1 DEF Fresh, RequestInv, Checked
        <5> QED
          BY <3>1, <5>1, <5>2 DEF SourceStatus
      <4> QED
        BY <1>4, <4>1, <4>2
    <3>4. \A x \in Version : x # c.target => version'[x] = version[x]
      BY <1>4, <3>2 DEF CommitDraft, CommitEdit, CommitSubmit, CommitReturn, VersionInv, TypeOK
    <3> QED
      BY <3>1, <3>3, <3>4
  <2>2. \A d \in 1..Forever, v \in Published : v \in Published' /\ (Covers(v, d) => Covers(v, d)')
    BY <2>1 DEF Covers, Published
  <2> QED
    BY <2>2, SameDays
<1>5. ASSUME NEW s \in Session,
             \/ BeginDraft(s) \/ BeginEdit(s) \/ BeginReview(s) \/ BeginPublish(s) \/ Collect(s) \/ Fail(s)
      PROVE  UNCHANGED version
  BY <1>5 DEF BeginDraft, BeginEdit, BeginReview, BeginPublish, Collect, Fail
<1> QED
  BY <1>2, <1>3, <1>4, <1>5 DEF Next, vars

\* Publications that run at once implement the timeline: on every day exactly one version is in
\* force, and publishing decides about the days from the effective date on only.
THEOREM VersionsImplementTimeline == Spec => TimelineSpec
<1>1. Init /\ VersionInv /\ TimelineInv => Timeline!Init
  BY TimelineInits
<1>2. VersionInv /\ VersionInv' /\ TimelineInv /\ TimelineInv' /\ [Next]_vars
        => [Timeline!Next]_[d \in Day |-> InForce(d)]
  BY TimelineStep
<1> QED
  BY <1>1, <1>2, VersionInvariant, PTL DEF Spec, TimelineSpec, Timeline!Spec

---------------------------------------------------------------------------
(* The reference catalogue.  What a client has on the page is the row as it is now, or an     *)
(* older revision of it; a change that was checked is one revision on top of the page.  As a   *)
(* commit finds the revision the request has loaded, it finds the very row of the page.        *)

SavedRow == [entry : Entry, row : EntryRow, seen : 0..MaxChange]
PageRow == [entry : Entry, row : EntryRow]

\* What the page of a client, and the request it has under way, have to do with the rows.
PageIsOlder(c) ==
  page[c] # NoPage =>
    /\ page[c].row.revision <= catalog[page[c].entry].revision
    /\ page[c].row.revision = catalog[page[c].entry].revision => page[c].row = catalog[page[c].entry]

SaveIsOnPage(c) ==
  save[c] # NoPage =>
    /\ save[c].row.revision = save[c].seen + 1
    /\ save[c].seen > 0 =>
         page[c] # NoPage /\ page[c].entry = save[c].entry /\ page[c].row.revision = save[c].seen

CatalogInv ==
  /\ CatalogTypeOK
  /\ \A c \in Client : PageIsOlder(c) /\ SaveIsOnPage(c)

LEMMA CatalogTypes ==
  ASSUME CatalogTypeOK
  PROVE  /\ catalog \in [Entry -> EntryRow \cup {NoRow}]
         /\ page \in [Client -> {NoPage} \cup PageRow]
         /\ save \in [Client -> {NoPage} \cup SavedRow]
         /\ \A e \in Entry : catalog[e].revision \in Nat
                             /\ (catalog[e].revision > 0 => catalog[e] \in EntryRow)
         /\ \A c \in Client : page[c] # NoPage => page[c] \in PageRow
         /\ \A c \in Client : save[c] # NoPage => save[c] \in SavedRow
<1>1. \A row \in EntryRow : row.revision \in Nat
  BY DEF EntryRow
<1>2. NoRow.revision = 0
  BY DEF NoRow
<1>3. \A e \in Entry : catalog[e] \in EntryRow \/ catalog[e] = NoRow
  BY DEF CatalogTypeOK
<1> QED
  BY <1>1, <1>2, <1>3 DEF CatalogTypeOK, PageRow, SavedRow

\* What there is in a page and in a saved row.
LEMMA PageFields ==
  /\ \A p \in PageRow : /\ p.entry \in Entry /\ p.row \in EntryRow /\ p.row.revision \in 1..MaxChange
                        /\ p = [entry |-> p.entry, row |-> p.row]
  /\ \A s \in SavedRow : /\ s.entry \in Entry /\ s.row \in EntryRow /\ s.seen \in Nat
                         /\ s.row.revision \in 1..MaxChange /\ s.row.code \in Code
BY CatalogAssumption DEF PageRow, SavedRow, EntryRow

\* A request is checked: nothing is written yet.
LEMMA SaveBegins ==
  ASSUME CatalogInv, NEW c \in Client, save[c] = NoPage, NEW s \in SavedRow, s.row.revision = s.seen + 1,
         s.seen > 0 => page[c] # NoPage /\ page[c].entry = s.entry /\ page[c].row.revision = s.seen,
         save' = [save EXCEPT ![c] = s], UNCHANGED <<catalog, page>>
  PROVE  CatalogInv'
<1>1. save \in [Client -> {NoPage} \cup SavedRow]
  BY CatalogTypes DEF CatalogInv
<1>2. save' \in [Client -> {NoPage} \cup SavedRow]
  BY <1>1
<1>3. CatalogTypeOK'
  BY <1>2 DEF CatalogInv, CatalogTypeOK, SavedRow
<1>4. \A d \in Client : PageIsOlder(d)'
  BY DEF CatalogInv, PageIsOlder
<1>5. \A d \in Client : save'[d] = IF d = c THEN s ELSE save[d]
  BY <1>1
<1>6. \A d \in Client : SaveIsOnPage(d)'
  BY <1>5 DEF CatalogInv, SaveIsOnPage
<1> QED
  BY <1>3, <1>4, <1>6 DEF CatalogInv

LEMMA InsertKeeps ==
  ASSUME CatalogInv, NEW c \in Client, NEW kind, NEW e \in Entry, NEW code \in Code, NEW content \in Content,
         Insert(c, kind, e, code, content)
  PROVE  CatalogInv'
<1>1. PICK row : row = [code |-> code, revision |-> 1, content |-> content]
  OBVIOUS
<1>2. row \in EntryRow /\ row.revision = 1
  BY <1>1, CatalogAssumption DEF EntryRow
<1>3. PICK s : s = [entry |-> e, row |-> row, seen |-> 0]
  OBVIOUS
<1>4. s \in SavedRow /\ s.row = row /\ s.seen = 0
  BY <1>2, <1>3, CatalogAssumption DEF SavedRow
<1>5. save[c] = NoPage /\ save' = [save EXCEPT ![c] = s] /\ UNCHANGED <<catalog, page>>
  BY <1>1, <1>3 DEF Insert
<1>6. s.row.revision = s.seen + 1 /\ ~(s.seen > 0)
  BY <1>2, <1>4
<1> QED
  BY <1>4, <1>5, <1>6, SaveBegins

LEMMA ChangeKeeps ==
  ASSUME CatalogInv, NEW c \in Client, NEW kind, NEW code \in Code, NEW content \in Content,
         Change(c, kind, code, content)
  PROVE  CatalogInv'
<1>1. PICK p : p = page[c]
  OBVIOUS
<1>2. page[c] # NoPage /\ catalog[p.entry].revision = p.row.revision /\ catalog[p.entry].revision < MaxChange
  BY <1>1 DEF Change, AssertRevision
<1>3. p \in PageRow
  BY <1>1, <1>2, CatalogTypes DEF CatalogInv
<1>4. p.entry \in Entry /\ p.row.revision \in 1..MaxChange
  BY <1>3, PageFields
<1>5. PICK n : n = p.row.revision
  OBVIOUS
<1>6. PICK row : row = [code |-> code, revision |-> n + 1, content |-> content]
  OBVIOUS
<1>7. row \in EntryRow /\ row.revision = n + 1
  BY <1>2, <1>4, <1>5, <1>6, CatalogAssumption DEF EntryRow
<1>8. PICK s : s = [entry |-> p.entry, row |-> row, seen |-> n]
  OBVIOUS
<1>9. s \in SavedRow /\ s.row = row /\ s.seen = n /\ s.entry = p.entry
  BY <1>4, <1>5, <1>7, <1>8, CatalogAssumption DEF SavedRow
<1>10. save[c] = NoPage /\ save' = [save EXCEPT ![c] = s] /\ UNCHANGED <<catalog, page>>
  BY <1>1, <1>2, <1>5, <1>6, <1>8 DEF Change
<1> QED
  BY <1>1, <1>2, <1>5, <1>7, <1>9, <1>10, SaveBegins

LEMMA OpenEntryKeeps ==
  ASSUME CatalogInv, NEW c \in Client, NEW e \in Entry, OpenEntry(c, e)
  PROVE  CatalogInv'
<1>1. PICK p : p = [entry |-> e, row |-> catalog[e]]
  OBVIOUS
<1>2. catalog[e] \in EntryRow
  BY CatalogTypes DEF OpenEntry, Exist, CatalogInv
<1>3. p \in PageRow /\ p.entry = e /\ p.row = catalog[e]
  BY <1>1, <1>2 DEF PageRow
<1>4. page \in [Client -> {NoPage} \cup PageRow] /\ page' = [page EXCEPT ![c] = p]
  BY <1>1, CatalogTypes DEF CatalogInv, OpenEntry
<1>5. page' \in [Client -> {NoPage} \cup PageRow] /\ \A d \in Client : page'[d] = IF d = c THEN p ELSE page[d]
  BY <1>3, <1>4
<1>6. UNCHANGED <<catalog, save>> /\ save[c] = NoPage
  BY DEF OpenEntry
<1>7. CatalogTypeOK'
  BY <1>5, <1>6 DEF CatalogInv, CatalogTypeOK, PageRow
<1>8. \A d \in Client : PageIsOlder(d)'
  BY <1>2, <1>3, <1>5, <1>6, CatalogTypes DEF CatalogInv, PageIsOlder
<1>9. \A d \in Client : SaveIsOnPage(d)'
  BY <1>5, <1>6 DEF CatalogInv, SaveIsOnPage
<1> QED
  BY <1>7, <1>8, <1>9 DEF CatalogInv

\* A commit writes the next revision of the row on the client's page.
LEMMA CommitSaveIs ==
  ASSUME CatalogInv, NEW c \in Client, CommitSave(c)
  PROVE  \E s \in SavedRow :
           /\ s = save[c] /\ s.row.revision = catalog[s.entry].revision + 1
           /\ \A e \in Entry : catalog'[e] = IF e = s.entry THEN s.row ELSE catalog[e]
           /\ catalog[s.entry].revision > 0 => page[c] = [entry |-> s.entry, row |-> catalog[s.entry]]
<1>0. PICK s : s = save[c]
  OBVIOUS
<1>1. s \in SavedRow /\ catalog[s.entry].revision = s.seen
  BY <1>0, CatalogTypes DEF CatalogInv, CommitSave
<1>2. s.entry \in Entry /\ s.seen \in Nat
  BY <1>1, PageFields
<1>3. s.row.revision = s.seen + 1
  BY <1>0 DEF CatalogInv, SaveIsOnPage, CommitSave
<1>4. \A e \in Entry : catalog'[e] = IF e = s.entry THEN s.row ELSE catalog[e]
  BY <1>0, <1>2, CatalogTypes DEF CatalogInv, CommitSave
<1>5. ASSUME catalog[s.entry].revision > 0 PROVE page[c] = [entry |-> s.entry, row |-> catalog[s.entry]]
  <2>1. page[c] # NoPage /\ page[c].entry = s.entry /\ page[c].row.revision = s.seen
    BY <1>0, <1>1, <1>5 DEF CatalogInv, SaveIsOnPage, CommitSave
  <2>2. page[c].row = catalog[s.entry]
    BY <1>1, <2>1 DEF CatalogInv, PageIsOlder
  <2>3. page[c] \in PageRow
    BY <2>1, CatalogTypes DEF CatalogInv
  <2>4. page[c] = [entry |-> page[c].entry, row |-> page[c].row]
    BY <2>3, PageFields
  <2> QED
    BY <2>1, <2>2, <2>4
<1> QED
  BY <1>0, <1>1, <1>3, <1>4, <1>5

LEMMA CommitSaveKeeps ==
  ASSUME CatalogInv, NEW c \in Client, CommitSave(c)
  PROVE  CatalogInv'
<1>1. PICK s \in SavedRow :
        /\ s = save[c] /\ s.row.revision = catalog[s.entry].revision + 1
        /\ \A e \in Entry : catalog'[e] = IF e = s.entry THEN s.row ELSE catalog[e]
  BY CommitSaveIs
<1>2. /\ s \in SavedRow /\ s.row.revision = catalog[s.entry].revision + 1
      /\ \A e \in Entry : catalog'[e] = IF e = s.entry THEN s.row ELSE catalog[e]
  BY <1>1
<1>3. s.entry \in Entry /\ s.row \in EntryRow /\ s.row.revision \in Nat
  BY <1>2, PageFields, CatalogAssumption
<1>4. PICK p : p = [entry |-> s.entry, row |-> s.row]
  OBVIOUS
<1>5. p \in PageRow /\ p.entry = s.entry /\ p.row = s.row
  BY <1>3, <1>4 DEF PageRow
<1>6. /\ catalog' = [catalog EXCEPT ![s.entry] = s.row] /\ page' = [page EXCEPT ![c] = p]
      /\ save' = [save EXCEPT ![c] = NoPage]
  BY <1>1, <1>4 DEF CommitSave
<1>7. /\ catalog \in [Entry -> EntryRow \cup {NoRow}] /\ page \in [Client -> {NoPage} \cup PageRow]
      /\ save \in [Client -> {NoPage} \cup SavedRow]
  BY CatalogTypes DEF CatalogInv
<1>8. /\ catalog' \in [Entry -> EntryRow \cup {NoRow}] /\ page' \in [Client -> {NoPage} \cup PageRow]
      /\ save' \in [Client -> {NoPage} \cup SavedRow]
      /\ \A d \in Client : page'[d] = IF d = c THEN p ELSE page[d]
      /\ \A d \in Client : save'[d] = IF d = c THEN NoPage ELSE save[d]
  BY <1>3, <1>5, <1>6, <1>7
<1>9. CatalogTypeOK'
  BY <1>8 DEF CatalogTypeOK, PageRow, SavedRow
<1>10. ASSUME NEW d \in Client PROVE PageIsOlder(d)'
  <2>1. CASE d = c
    BY <1>2, <1>3, <1>5, <1>8, <2>1 DEF PageIsOlder
  <2>2. CASE d # c /\ page[d] # NoPage
    <3>1. page[d] \in PageRow /\ page'[d] = page[d]
      BY <1>8, <2>2, CatalogTypes DEF CatalogInv
    <3>2. page[d].entry \in Entry /\ page[d].row.revision \in Nat
      BY <3>1, PageFields
    <3>3. catalog[page[d].entry].revision \in Nat /\ catalog[s.entry].revision \in Nat
      BY <1>3, <3>2, CatalogTypes DEF CatalogInv
    <3> QED
      BY <1>2, <2>2, <3>1, <3>2, <3>3 DEF CatalogInv, PageIsOlder
  <2>3. CASE d # c /\ page[d] = NoPage
    BY <1>8, <2>3 DEF PageIsOlder
  <2> QED
    BY <2>1, <2>2, <2>3
<1>11. \A d \in Client : SaveIsOnPage(d)'
  BY <1>8 DEF CatalogInv, SaveIsOnPage
<1> QED
  BY <1>9, <1>10, <1>11 DEF CatalogInv

LEMMA RollBackKeeps ==
  ASSUME CatalogInv, NEW c \in Client, RollBackSave(c)
  PROVE  CatalogInv'
<1>1. save \in [Client -> {NoPage} \cup SavedRow]
  BY CatalogTypes DEF CatalogInv
<1>2. save' = [save EXCEPT ![c] = NoPage] /\ UNCHANGED <<catalog, page>>
  BY DEF RollBackSave
<1>3. save' \in [Client -> {NoPage} \cup SavedRow] /\ \A d \in Client : save'[d] = IF d = c THEN NoPage ELSE save[d]
  BY <1>1, <1>2
<1>4. CatalogTypeOK'
  BY <1>2, <1>3 DEF CatalogInv, CatalogTypeOK, SavedRow
<1> QED
  BY <1>2, <1>3, <1>4 DEF CatalogInv, PageIsOlder, SaveIsOnPage

LEMMA CatalogInitInv == CatalogInit => CatalogInv
BY DEF CatalogInit, CatalogInv, CatalogTypeOK, PageIsOlder, SaveIsOnPage

\* The two ways a request is checked, or it is rolled back; only a commit writes a row.
LEMMA CatalogSteps ==
  ASSUME CatalogInv, NEW c \in Client,
         \/ \E e \in Entry : OpenEntry(c, e)
         \/ \E code \in Code :
              \/ \E e \in Position : CreatePosition(c, e, code)
              \/ \E e \in UnitType : CreateUnitType(c, e, code)
              \/ \E e \in RelationshipType : CreateRelationshipType(c, e, code)
              \/ UpdatePosition(c, code) \/ UpdateUnitType(c, code) \/ UpdateRelationshipType(c, code)
         \/ RollBackSave(c)
  PROVE  CatalogInv' /\ UNCHANGED catalog
<1>1. ASSUME NEW e \in Entry, OpenEntry(c, e) PROVE CatalogInv' /\ UNCHANGED catalog
  BY <1>1, OpenEntryKeeps DEF OpenEntry
<1>2. CASE RollBackSave(c)
  BY <1>2, RollBackKeeps DEF RollBackSave
<1>3. /\ \A active \in BOOLEAN : [active |-> active] \in Content
      /\ \A active \in BOOLEAN, parents \in SUBSET UnitType : [active |-> active, parents |-> parents] \in Content
      /\ \A active, prevents \in BOOLEAN : [active |-> active, prevents_cycles |-> prevents] \in Content
  BY DEF Content
<1>4. /\ \A kind, e, code, content : Insert(c, kind, e, code, content) => UNCHANGED catalog
      /\ \A kind, code, content : Change(c, kind, code, content) => UNCHANGED catalog
  BY DEF Insert, Change
<1>5. \A e \in Position, code \in Code : CreatePosition(c, e, code) => CatalogInv' /\ UNCHANGED catalog
  BY <1>3, <1>4, InsertKeeps DEF CreatePosition, Entry
<1>6. \A e \in UnitType, code \in Code : CreateUnitType(c, e, code) => CatalogInv' /\ UNCHANGED catalog
  BY <1>3, <1>4, InsertKeeps DEF CreateUnitType, Entry
<1>7. \A e \in RelationshipType, code \in Code : CreateRelationshipType(c, e, code) => CatalogInv' /\ UNCHANGED catalog
  BY <1>3, <1>4, InsertKeeps DEF CreateRelationshipType, Entry
<1>8. \A code \in Code : UpdatePosition(c, code) \/ UpdateUnitType(c, code) \/ UpdateRelationshipType(c, code)
        => CatalogInv' /\ UNCHANGED catalog
  BY <1>3, <1>4, ChangeKeeps DEF UpdatePosition, UpdateUnitType, UpdateRelationshipType
<1> QED
  BY <1>1, <1>2, <1>5, <1>6, <1>7, <1>8

LEMMA CatalogStepInv == CatalogInv /\ [CatalogNext]_catalogVars => CatalogInv'
<1> SUFFICES ASSUME CatalogInv, [CatalogNext]_catalogVars PROVE CatalogInv'
  OBVIOUS
<1>1. CASE CatalogNext
  BY <1>1, CatalogSteps, CommitSaveKeeps DEF CatalogNext
<1>2. CASE UNCHANGED catalogVars
  BY <1>2 DEF catalogVars, CatalogInv, CatalogTypeOK, PageIsOlder, SaveIsOnPage
<1> QED
  BY <1>1, <1>2

\* A write of a row is a commit, with a code nobody has and on top of the client's page.
LEMMA WriteIsSerial ==
  ASSUME CatalogInv, CatalogNext, NEW kind \in {Position, UnitType, RelationshipType}, NEW e \in kind,
         catalog'[e] # catalog[e]
  PROVE  /\ \A other \in Exist \cap (kind \ {e}) : catalog'[e].code # catalog[other].code
         /\ \E c \in Client : /\ save[c] # NoPage /\ save'[c] = NoPage /\ save[c].entry = e
                              /\ e \in Exist => page[c] = [entry |-> e, row |-> catalog[e]]
<1>1. PICK c \in Client : CommitSave(c)
  BY CatalogSteps DEF CatalogNext
<1>2. PICK s \in SavedRow :
        /\ s = save[c]
        /\ \A f \in Entry : catalog'[f] = IF f = s.entry THEN s.row ELSE catalog[f]
        /\ catalog[s.entry].revision > 0 => page[c] = [entry |-> s.entry, row |-> catalog[s.entry]]
  BY <1>1, CommitSaveIs
<1>3. e \in Entry
  BY DEF Entry
<1>4. s.entry = e /\ catalog'[e] = s.row
  BY <1>2, <1>3
<1>5. catalog[e].revision > 0 => page[c] = [entry |-> e, row |-> catalog[e]]
  BY <1>2, <1>4
<1>6. CodeIsFree(kind, s.row.code, e)
  BY <1>1, <1>2, <1>4 DEF CommitSave
<1>7. save[c] # NoPage /\ save'[c] = NoPage
  BY <1>1, CatalogTypes DEF CommitSave, CatalogInv
<1> QED
  BY <1>2, <1>4, <1>5, <1>6, <1>7 DEF CodeIsFree, Exist

\* The pages and requests of the catalogue relate to its rows as CatalogInv says.
THEOREM CatalogInvariant == CatalogSpec => []CatalogInv
BY CatalogInitInv, CatalogStepInv, PTL DEF CatalogSpec

\* However many clients change positions, unit types and relationship types at once, no
\* change is lost and no code is taken twice: assert_revision and _optimistic_update together
\* make every write one on top of the row its client had on the page.
THEOREM CatalogIsSerial == CatalogSpec => CatalogChangesAreSerial
<1>1. CatalogInv /\ [CatalogNext]_catalogVars =>
        [\A kind \in {Position, UnitType, RelationshipType} : \A e \in kind :
           catalog'[e] # catalog[e] =>
             /\ \A other \in Exist \cap (kind \ {e}) : catalog'[e].code # catalog[other].code
             /\ \E c \in Client : /\ save[c] # NoPage /\ save'[c] = NoPage /\ save[c].entry = e
                                  /\ e \in Exist => page[c] = [entry |-> e, row |-> catalog[e]]
        ]_catalogVars
  <2> SUFFICES ASSUME CatalogInv, CatalogNext,
                      NEW kind \in {Position, UnitType, RelationshipType}, NEW e \in kind,
                      catalog'[e] # catalog[e]
               PROVE  /\ \A other \in Exist \cap (kind \ {e}) : catalog'[e].code # catalog[other].code
                      /\ \E c \in Client : /\ save[c] # NoPage /\ save'[c] = NoPage /\ save[c].entry = e
                                           /\ e \in Exist => page[c] = [entry |-> e, row |-> catalog[e]]
    OBVIOUS
  <2> QED
    BY WriteIsSerial
<1> QED
  BY <1>1, CatalogInvariant, PTL DEF CatalogSpec, CatalogChangesAreSerial

---------------------------------------------------------------------------
(* The work of a set of assignments stands with a design from a day on: what goes on has its      *)
(* place in the design, and no place has more of it than is approved.  Ending work only makes     *)
(* it easier, which is why the noticed work keeps its place whatever happens to assignments.       *)

KeepsPlace(i, design, from) == work[i].to >= from => Continues(i, design, from)

At(rows, p, day) == {i \in rows : work[i].place = p /\ work[i].from <= day /\ day <= work[i].to}

Fits(rows, design, from) ==
  \A p \in Place, day \in Days :
    day >= from /\ At(rows, p, day) # {} => Fte(At(rows, p, day)) <= design[p].fte

Stands(rows, design, from) ==
  /\ \A i \in rows : KeepsPlace(i, design, from)
  /\ Fits(rows, design, from)

StaffedInv ==
  /\ StaffedTypeOK
  /\ \A i \in DOMAIN work : work[i].edition \in DOMAIN edition
  /\ \A n \in DOMAIN edition : Stands(noticed[n], edition[n].design, edition[n].from)
  /\ publishing # Nothing =>
       /\ Len(edition) < MaxEdition
       /\ Stands(publishing.noticed, publishing.design, publishing.from)

LEMMA LeastNatural ==
  ASSUME NEW T \in SUBSET Nat, T # {}
  PROVE  \E x \in T : \A y \in T : x <= y
<1>1. IsWellFoundedOn({ss \in Nat \X Nat : ss[1] < ss[2]}, Nat)
  BY NatLessThanWellFounded DEF OpToRel
<1>2. PICK R : R = {ss \in Nat \X Nat : ss[1] < ss[2]}
  OBVIOUS
<1>3. PICK x \in T : \A y \in T : ~ (<<y, x>> \in R)
  BY <1>1, <1>2, WFMin
<1>4. ASSUME NEW y \in T PROVE x <= y
  <2>1. y \in Nat /\ x \in Nat /\ <<y, x>> \in Nat \X Nat
    OBVIOUS
  <2>2. ~(y < x)
    BY <1>2, <1>3, <2>1
  <2> QED
    BY <2>1, <2>2
<1> QED
  BY <1>3, <1>4

\* Of days up to a day, one is the last.
LEMMA LatestDay ==
  ASSUME NEW day \in Nat, NEW T, T # {}, \A x \in T : x \in Nat /\ x <= day
  PROVE  \E x \in T : \A y \in T : y <= x
<1>1. PICK left : left = {n \in Nat : \E x \in T : n = day - x}
  OBVIOUS
<1>2. left \in SUBSET Nat /\ left # {}
  <2>1. PICK x \in T : TRUE
    OBVIOUS
  <2>2. day - x \in Nat
    BY <2>1
  <2> QED
    BY <1>1, <2>1, <2>2
<1>3. PICK n \in left : \A m \in left : n <= m
  BY <1>2, LeastNatural
<1>4. PICK x \in T : n = day - x
  BY <1>1, <1>3
<1>5. ASSUME NEW y \in T PROVE y <= x
  <2>1. day - y \in left /\ x \in Nat /\ y \in Nat
    BY <1>1
  <2> QED
    BY <1>3, <1>4, <2>1
<1> QED
  BY <1>5

---------------------------------------------------------------------------
(* FTE *)

LEMMA UnitsFinite ==
  ASSUME NEW rows, IsFiniteSet(rows), \A i \in rows : work[i].fte \in Nat
  PROVE  IsFiniteSet(UNION {{i} \X (1..work[i].fte) : i \in rows})
<1>1. PICK parts : parts = {{i} \X (1..work[i].fte) : i \in rows}
  OBVIOUS
<1>2. IsFiniteSet(parts)
  <2>1. PICK f : f = [i \in rows |-> {i} \X (1..work[i].fte)]
    OBVIOUS
  <2>2. f \in Surjection(rows, parts)
    BY <1>1, <2>1 DEF Surjection
  <2> QED
    BY <2>2, FS_Surjection
<1>3. ASSUME NEW part \in parts PROVE IsFiniteSet(part)
  <2>1. PICK i \in rows : part = {i} \X (1..work[i].fte)
    BY <1>1
  <2>2. PICK n \in Nat : n = work[i].fte
    OBVIOUS
  <2>3. IsFiniteSet({i})
    BY FS_Singleton
  <2>4. IsFiniteSet(1..n)
    BY FS_Interval
  <2> QED
    BY <2>1, <2>2, <2>3, <2>4, FS_Product
<1> QED
  BY <1>1, <1>2, <1>3, FS_UNION

\* Fewer assignments, less FTE.
LEMMA FteGrows ==
  ASSUME NEW rows, IsFiniteSet(rows), \A i \in rows : work[i].fte \in Nat, NEW some \in SUBSET rows
  PROVE  Fte(some) \in Nat /\ Fte(rows) \in Nat /\ Fte(some) <= Fte(rows)
<1>1. IsFiniteSet(UNION {{i} \X (1..work[i].fte) : i \in rows})
  BY UnitsFinite
<1>2. UNION {{i} \X (1..work[i].fte) : i \in some} \subseteq UNION {{i} \X (1..work[i].fte) : i \in rows}
  OBVIOUS
<1>3. PICK A, B : /\ A = UNION {{i} \X (1..work[i].fte) : i \in some}
                  /\ B = UNION {{i} \X (1..work[i].fte) : i \in rows}
  OBVIOUS
<1>4. IsFiniteSet(A) /\ Cardinality(A) <= Cardinality(B) /\ IsFiniteSet(B)
  BY <1>1, <1>2, <1>3, FS_Subset
<1>5. Cardinality(A) \in Nat /\ Cardinality(B) \in Nat
  BY <1>4, FS_CardinalityType
<1> QED
  BY <1>3, <1>4, <1>5 DEF Fte

\* The FTE of the same assignments is the same as long as theirs is.
LEMMA FteSame ==
  ASSUME NEW rows, \A i \in rows : work'[i].fte = work[i].fte
  PROVE  Fte(rows)' = Fte(rows)
<1>1. {{i} \X (1..work'[i].fte) : i \in rows} = {{i} \X (1..work[i].fte) : i \in rows}
  OBVIOUS
<1> QED
  BY <1>1 DEF Fte

---------------------------------------------------------------------------
(* What is noticed stands *)

LEMMA StaffedRows ==
  ASSUME StaffedTypeOK
  PROVE  /\ \A n \in DOMAIN edition : n \in 1..Len(edition) /\ edition[n] \in Edition
         /\ \A i \in DOMAIN work : i \in 1..Len(work) /\ work[i] \in WorkRow
         /\ IsFiniteSet(DOMAIN work)
         /\ \A rows \in SUBSET DOMAIN work : IsFiniteSet(rows) /\ \A i \in rows : work[i].fte \in Nat
<1>1. /\ \A n \in DOMAIN edition : n \in 1..Len(edition) /\ edition[n] \in Edition
      /\ \A i \in DOMAIN work : i \in 1..Len(work) /\ work[i] \in WorkRow
  BY DEF StaffedTypeOK
<1>2. IsFiniteSet(DOMAIN work)
  <2>1. PICK n \in Nat : n = Len(work) /\ DOMAIN work = 1..n
    BY DEF StaffedTypeOK
  <2>2. IsFiniteSet(1..n)
    BY FS_Interval
  <2> QED
    BY <2>1, <2>2
<1>3. ASSUME NEW rows \in SUBSET DOMAIN work
      PROVE  IsFiniteSet(rows) /\ \A i \in rows : work[i].fte \in Nat
  <2>1. IsFiniteSet(rows)
    BY <1>2, FS_Subset
  <2>2. ASSUME NEW i \in rows PROVE work[i].fte \in Nat
    BY <1>1 DEF WorkRow
  <2> QED
    BY <2>1, <2>2
<1> QED
  BY <1>1, <1>2, <1>3

\* What goes on has a slot in the design, whose FTE is a number.
LEMMA PlaceOfWork ==
  ASSUME NEW design \in Design, NEW from \in Days, NEW i, Continues(i, design, from), work[i] \in WorkRow
  PROVE  design[work[i].place] \in PlaceRow
<1>1. design \in [Place -> PlaceRow \cup {NoPlace}]
  BY DesignAssumption
<1>2. work[i].place \in Place
  BY DEF WorkRow
<1>3. design[work[i].place] # NoPlace
  BY DEF Continues
<1> QED
  BY <1>1, <1>2, <1>3

SameWork(i) ==
  /\ i \in DOMAIN work'
  /\ work'[i].place = work[i].place /\ work'[i].edition = work[i].edition
  /\ work'[i].from = work[i].from /\ work'[i].fte = work[i].fte

SameDesign(n) ==
  n \in DOMAIN edition' /\ edition'[n].design = edition[n].design /\ edition'[n].from = edition[n].from

LEMMA StandsOn ==
  ASSUME StaffedInv, StaffedTypeOK',
         \A i \in DOMAIN work : SameWork(i), \A n \in DOMAIN edition : SameDesign(n),
         NEW rows \in SUBSET DOMAIN work, NEW less \in SUBSET rows,
         NEW design \in Design, NEW from \in Days, Stands(rows, design, from),
         \A i \in less : work'[i].to <= work[i].to
  PROVE  Stands(less, design, from)'
<1> USE DEF StaffedInv
<1>1. ASSUME NEW i \in DOMAIN work
      PROVE  /\ work[i] \in WorkRow /\ work'[i] \in WorkRow
             /\ work[i].from \in Nat /\ work[i].to \in Nat /\ work[i].fte \in Nat /\ work'[i].to \in Nat
  <2>1. work[i] \in WorkRow
    BY StaffedRows
  <2>2. work'[i] \in WorkRow
    <3>1. i \in DOMAIN work'
      BY DEF SameWork
    <3>2. \A j \in DOMAIN work' : work'[j] \in WorkRow
      BY DEF StaffedTypeOK
    <3> QED
      BY <3>1, <3>2
  <2> QED
    BY <2>1, <2>2, HorizonAssumption DEF WorkRow, Days, Unending
<1>2. ASSUME NEW i \in DOMAIN work PROVE Source(i)' = Source(i)
  <2>1. work'[i].edition = work[i].edition /\ work'[i].place = work[i].place
    BY DEF SameWork
  <2>2. edition'[work[i].edition].design = edition[work[i].edition].design
    BY DEF SameDesign
  <2> QED
    BY <2>1, <2>2 DEF Source
<1>3. from \in Nat
  BY DEF Days
<1>4. ASSUME NEW i \in less PROVE KeepsPlace(i, design, from)'
  <2>1. SUFFICES ASSUME work'[i].to >= from PROVE Continues(i, design, from)'
    BY DEF KeepsPlace
  <2>2. i \in DOMAIN work /\ i \in rows
    OBVIOUS
  <2>3. work[i].to >= from
    BY <1>1, <1>3, <2>1, <2>2
  <2>4. Continues(i, design, from)
    BY <2>2, <2>3 DEF Stands, KeepsPlace
  <2>5. design[work[i].place] \in PlaceRow
    BY <1>1, <2>2, <2>4, PlaceOfWork
  <2>6. design[work[i].place].to \in Nat
    BY <2>5, HorizonAssumption DEF PlaceRow, Days, Unending
  <2>7. work'[i].place = work[i].place /\ work'[i].from = work[i].from
    BY <2>2 DEF SameWork
  <2>8. work'[i].to <= design[work[i].place].to
    BY <1>1, <2>2, <2>4, <2>6 DEF Continues
  <2> QED
    BY <1>2, <2>2, <2>4, <2>7, <2>8 DEF Continues
<1>5. ASSUME NEW p \in Place, NEW day \in Days, day >= from, At(less, p, day)' # {}
      PROVE  Fte(At(less, p, day))' <= design[p].fte
  <2>1. PICK some, all : some = At(less, p, day)' /\ all = At(rows, p, day)
    OBVIOUS
  <2>2. some \in SUBSET all
    <3>1. ASSUME NEW i \in some PROVE i \in all
      <4>1. i \in less /\ work'[i].place = p /\ work'[i].from <= day /\ day <= work'[i].to
        BY <2>1 DEF At
      <4>2. i \in DOMAIN work /\ i \in rows
        BY <4>1
      <4>3. work[i].place = p /\ work[i].from <= day
        BY <4>1, <4>2 DEF SameWork
      <4>4. day <= work[i].to
        BY <1>1, <4>1, <4>2 DEF Days
      <4> QED
        BY <2>1, <4>2, <4>3, <4>4 DEF At
    <3> QED
      BY <3>1
  <2>3. all \in SUBSET DOMAIN work
    BY <2>1 DEF At
  <2>4. Fte(all) <= design[p].fte
    BY <1>5, <2>1, <2>2 DEF Stands, Fits
  <2>5. Fte(some) \in Nat /\ Fte(all) \in Nat /\ Fte(some) <= Fte(all)
    BY <2>2, <2>3, StaffedRows, FteGrows
  <2>6. design[p].fte \in Nat
    <3>1. PICK i \in all : TRUE
      BY <1>5, <2>1, <2>2
    <3>2. i \in rows /\ i \in DOMAIN work /\ work[i].place = p /\ day <= work[i].to
      BY <2>1 DEF At
    <3>3. work[i].to >= from
      BY <1>1, <1>3, <1>5, <3>2 DEF Days
    <3>4. Continues(i, design, from)
      BY <3>2, <3>3 DEF Stands, KeepsPlace
    <3>5. design[p] \in PlaceRow
      BY <1>1, <3>2, <3>4, PlaceOfWork
    <3> QED
      BY <3>5 DEF PlaceRow
  <2>7. Fte(some)' = Fte(some)
    <3>1. \A i \in some : work'[i].fte = work[i].fte
      BY <2>2, <2>3 DEF SameWork
    <3> QED
      BY <3>1, FteSame
  <2>8. Fte(At(less, p, day))' = Fte(some)'
    BY <2>1 DEF Fte
  <2> QED
    BY <2>4, <2>5, <2>6, <2>7, <2>8
<1> QED
  BY <1>4, <1>5 DEF Stands, Fits

\* The check finds no issue only with a design in which all the work there is stands.
LEMMA CheckedWorkStands ==
  ASSUME StaffedTypeOK, NEW design \in Design, NEW from \in Days, NoTransitionIssues(design, from)
  PROVE  Stands(Live, design, from)
<1>1. ASSUME NEW i \in DOMAIN work
      PROVE  work[i] \in WorkRow /\ work[i].from \in Nat /\ work[i].to \in Nat /\ work[i].fte \in Nat
  <2>1. work[i] \in WorkRow
    BY StaffedRows
  <2> QED
    BY <2>1, HorizonAssumption DEF WorkRow, Days, Unending
<1>2. from \in Nat /\ Live \in SUBSET DOMAIN work
  BY DEF Days, Live
<1>3. ASSUME NEW i \in Live PROVE KeepsPlace(i, design, from)
  BY DEF NoTransitionIssues, Ongoing, KeepsPlace
<1>4. ASSUME NEW p \in Place, NEW day \in Days, day >= from, At(Live, p, day) # {}
      PROVE  Fte(At(Live, p, day)) <= design[p].fte
  <2>1. PICK here, rows : here = At(Live, p, day) /\ rows = {i \in Ongoing(from) : work[i].place = p}
    OBVIOUS
  <2>2. ASSUME NEW i \in here
        PROVE  /\ i \in DOMAIN work /\ i \in rows /\ work[i].from <= day /\ day <= work[i].to
               /\ LargerOf(work[i].from, from) \in Nat /\ work[i].from <= LargerOf(work[i].from, from)
               /\ LargerOf(work[i].from, from) <= day
    <3>1. i \in DOMAIN work /\ i \in Live /\ work[i].place = p /\ work[i].from <= day /\ day <= work[i].to
      BY <1>2, <2>1 DEF At
    <3>2. work[i].to >= from
      BY <1>1, <1>2, <1>4, <3>1 DEF Days
    <3>3. i \in rows
      BY <2>1, <3>1, <3>2 DEF Ongoing
    <3> QED
      BY <1>1, <1>2, <1>4, <3>1, <3>3 DEF LargerOf, Days
  <2>3. PICK starts : starts = {LargerOf(work[i].from, from) : i \in here}
    OBVIOUS
  <2>4. \A x \in starts : x \in Nat /\ x <= day
    BY <2>2, <2>3
  <2>5. starts # {}
    BY <1>4, <2>1, <2>3
  <2>6. PICK b \in starts : \A x \in starts : x <= b
    <3>1. day \in Nat
      BY DEF Days
    <3> QED
      BY <2>4, <2>5, <3>1, LatestDay
  <2>7. b \in Nat /\ b <= day /\ b \in Boundaries(rows, from)
    <3>1. PICK i \in here : b = LargerOf(work[i].from, from)
      BY <2>3
    <3> QED
      BY <2>2, <2>4, <3>1 DEF Boundaries
  <2>8. Total(rows, b) <= design[p].fte
    <3>1. rows # {}
      BY <1>4, <2>1, <2>2
    <3>2. PeakIsApproved(rows, from, design[p].fte)
      BY <2>1, <3>1 DEF NoTransitionIssues
    <3> QED
      BY <2>7, <3>2 DEF PeakIsApproved
  <2>9. PICK active : active = {i \in rows : work[i].from <= b /\ b <= work[i].to}
    OBVIOUS
  <2>10. here \in SUBSET active
    <3>1. ASSUME NEW i \in here PROVE i \in active
      <4>1. LargerOf(work[i].from, from) <= b
        BY <2>3, <2>6
      <4>2. work[i].from <= b /\ b <= work[i].to
        BY <1>1, <2>2, <2>7, <4>1 DEF Days
      <4> QED
        BY <2>2, <2>9, <4>2
    <3> QED
      BY <3>1
  <2>11. active \in SUBSET DOMAIN work
    BY <1>2, <2>1, <2>9 DEF Ongoing
  <2>12. Fte(here) \in Nat /\ Fte(active) \in Nat /\ Fte(here) <= Fte(active)
    BY <2>10, <2>11, StaffedRows, FteGrows
  <2>13. Fte(active) <= design[p].fte
    BY <2>8, <2>9 DEF Total
  <2>14. design[p].fte \in Nat
    <3>1. PICK i \in here : TRUE
      BY <1>4, <2>1
    <3>2. i \in Ongoing(from) /\ work[i].place = p /\ i \in DOMAIN work
      BY <2>1, <2>2
    <3>3. Continues(i, design, from)
      BY <3>2 DEF NoTransitionIssues
    <3>4. design[p] \in PlaceRow
      BY <1>1, <3>2, <3>3, PlaceOfWork
    <3> QED
      BY <3>4 DEF PlaceRow
  <2> QED
    BY <2>1, <2>12, <2>13, <2>14
<1> QED
  BY <1>3, <1>4 DEF Stands, Fits

\* What a step does to assignments leaves what is noticed standing, as long as it only ends them.
LEMMA NoticedStands ==
  ASSUME StaffedInv, StaffedTypeOK',
         \A i \in DOMAIN work : SameWork(i), \A n \in DOMAIN edition : SameDesign(n),
         DOMAIN edition' = DOMAIN edition,
         \A n \in DOMAIN edition :
           noticed'[n] \subseteq noticed[n] /\ \A i \in noticed'[n] : work'[i].to <= work[i].to,
         publishing' # Nothing =>
           /\ publishing # Nothing
           /\ publishing'.design = publishing.design /\ publishing'.from = publishing.from
           /\ publishing'.noticed \subseteq publishing.noticed
           /\ \A i \in publishing'.noticed : work'[i].to <= work[i].to,
         \A i \in DOMAIN work' : work'[i].edition \in DOMAIN edition'
  PROVE  StaffedInv'
<1>1. ASSUME NEW n \in DOMAIN edition'
      PROVE  Stands(noticed[n], edition[n].design, edition[n].from)'
  <2>1. n \in DOMAIN edition /\ edition[n] \in Edition
    BY StaffedRows DEF StaffedInv
  <2>2. PICK rows, less, design, from :
          /\ rows = noticed[n] /\ less = noticed'[n]
          /\ design = edition[n].design /\ from = edition[n].from
    OBVIOUS
  <2>3. design \in Design /\ from \in Days
    BY <2>1, <2>2 DEF Edition
  <2>4. rows \in SUBSET DOMAIN work
    BY <2>1, <2>2 DEF StaffedInv, StaffedTypeOK
  <2>5. less \in SUBSET rows /\ \A i \in less : work'[i].to <= work[i].to
    BY <2>1, <2>2
  <2>6. Stands(rows, design, from)
    BY <2>1, <2>2 DEF StaffedInv
  <2>7. Stands(less, design, from)'
    BY <2>3, <2>4, <2>5, <2>6, StandsOn
  <2>8. less = noticed'[n] /\ design = edition'[n].design /\ from = edition'[n].from
    BY <2>1, <2>2 DEF SameDesign
  <2> QED
    BY <2>7, <2>8
<1>2. ASSUME publishing' # Nothing
      PROVE  /\ (Len(edition) < MaxEdition)'
             /\ Stands(publishing.noticed, publishing.design, publishing.from)'
  <2>1. publishing \in [design : Design, from : Days, noticed : SUBSET DOMAIN work]
    BY <1>2 DEF StaffedInv, StaffedTypeOK
  <2>2. PICK rows, less, design, from :
          /\ rows = publishing.noticed /\ less = publishing'.noticed
          /\ design = publishing.design /\ from = publishing.from
    OBVIOUS
  <2>3. design \in Design /\ from \in Days /\ rows \in SUBSET DOMAIN work
    BY <2>1, <2>2
  <2>4. less \in SUBSET rows /\ \A i \in less : work'[i].to <= work[i].to
    BY <1>2, <2>2
  <2>5. Stands(rows, design, from)
    BY <1>2, <2>2 DEF StaffedInv
  <2>6. Stands(less, design, from)'
    BY <2>3, <2>4, <2>5, StandsOn
  <2>7. less = publishing'.noticed /\ design = publishing'.design /\ from = publishing'.from
    BY <1>2, <2>2
  <2>8. (Len(edition) < MaxEdition)'
    <3>1. Len(edition) = Len(edition') /\ Len(edition) < MaxEdition
      BY <1>2 DEF StaffedInv, StaffedTypeOK
    <3> QED
      BY <3>1
  <2> QED
    BY <2>6, <2>7, <2>8
<1>3. \A n \in DOMAIN edition' : Stands(noticed[n], edition[n].design, edition[n].from)'
  BY <1>1
<1> QED
  BY <1>2, <1>3 DEF StaffedInv

LEMMA BeginStaffedPublicationKeepsInv ==
  ASSUME StaffedInv, NEW design \in Design, NEW from \in Days, BeginStaffedPublication(design, from)
  PROVE  StaffedInv'
<1>1. Stands(Live, design, from)
  BY CheckedWorkStands DEF StaffedInv, BeginStaffedPublication
<1>2. /\ publishing' = [design |-> design, from |-> from, noticed |-> Live]
      /\ edition' = edition /\ work' = work /\ noticed' = noticed
  BY DEF BeginStaffedPublication
<1>3. StaffedTypeOK'
  <2>1. Live \in SUBSET DOMAIN work
    BY DEF Live
  <2> QED
    BY <1>2, <2>1 DEF StaffedInv, StaffedTypeOK
<1>4. ASSUME NEW rows, NEW d, NEW f, Stands(rows, d, f) PROVE Stands(rows, d, f)'
  BY <1>2, <1>4 DEF Stands, KeepsPlace, Fits, At, Continues, Source, Fte
<1>5. Stands(Live, design, from)'
  <2>1. PICK rows : rows = Live
    OBVIOUS
  <2>2. Stands(rows, design, from)'
    BY <1>1, <1>4, <2>1
  <2>3. rows = Live'
    BY <1>2, <2>1 DEF Live
  <2> QED
    BY <2>2, <2>3
<1>6. Stands(publishing.noticed, publishing.design, publishing.from)'
  <2>1. publishing'.noticed = Live' /\ publishing'.design = design /\ publishing'.from = from
    BY <1>2 DEF Live
  <2> QED
    BY <1>5, <2>1
<1>7. ASSUME NEW n \in DOMAIN edition'
      PROVE  Stands(noticed[n], edition[n].design, edition[n].from)'
  <2>1. Stands(noticed[n], edition[n].design, edition[n].from)
    BY <1>2 DEF StaffedInv
  <2> QED
    BY <1>2, <1>4, <2>1
<1>8. \A n \in DOMAIN edition' : Stands(noticed[n], edition[n].design, edition[n].from)'
  BY <1>7
<1>9. \A i \in DOMAIN work' : work'[i].edition \in DOMAIN edition'
  BY <1>2 DEF StaffedInv
<1>10. (Len(edition) < MaxEdition)'
  BY <1>2 DEF BeginStaffedPublication
<1> QED
  BY <1>3, <1>6, <1>8, <1>9, <1>10 DEF StaffedInv

LEMMA CommitStaffedPublicationKeepsInv ==
  ASSUME StaffedInv, CommitStaffedPublication
  PROVE  StaffedInv'
<1>1. /\ publishing # Nothing /\ publishing' = Nothing /\ work' = work
      /\ publishing \in [design : Design, from : Days, noticed : SUBSET DOMAIN work]
  BY DEF StaffedInv, StaffedTypeOK, CommitStaffedPublication
<1>2. PICK before, after, next :
        /\ before = Len(edition)
        /\ after = [n \in DOMAIN edition |->
                     IF edition[n].to >= publishing.from
                     THEN [edition[n] EXCEPT !.to = publishing.from - 1] ELSE edition[n]]
        /\ next = [design |-> publishing.design, from |-> publishing.from, to |-> Unending]
  OBVIOUS
<1>3. edition' = Append(after, next) /\ noticed' = Append(noticed, publishing.noticed)
  BY <1>2 DEF CommitStaffedPublication
<1>4. /\ before \in Nat /\ DOMAIN edition = 1..before /\ before < MaxEdition /\ MaxEdition \in Nat
      /\ before >= 1
  BY <1>1, <1>2, HorizonAssumption DEF StaffedInv, StaffedTypeOK
<1>5. next \in Edition /\ publishing.from \in Nat /\ publishing.from - 1 \in 0..Unending
  BY <1>1, <1>2, HorizonAssumption DEF Edition, Days, Unending
<1>6. ASSUME NEW n \in DOMAIN edition
      PROVE  /\ after[n] \in Edition /\ after[n].design = edition[n].design
             /\ after[n].from = edition[n].from
  <2>1. edition[n] \in Edition
    BY StaffedRows DEF StaffedInv
  <2> QED
    BY <1>2, <1>5, <2>1 DEF Edition
<1>7. after \in Seq(Edition) /\ Len(after) = before
  <2>1. after \in [1..before -> Edition]
    BY <1>2, <1>4, <1>6
  <2> QED
    BY <1>4, <2>1
<1>8. /\ edition' \in Seq(Edition) /\ Len(edition') = before + 1 /\ DOMAIN edition' = 1..(before + 1)
      /\ edition'[before + 1] = next /\ \A n \in 1..before : edition'[n] = after[n]
  BY <1>3, <1>4, <1>5, <1>7, AppendProperties
<1>9. /\ noticed' \in Seq(SUBSET DOMAIN work) /\ Len(noticed') = before + 1
      /\ noticed'[before + 1] = publishing.noticed /\ \A n \in 1..before : noticed'[n] = noticed[n]
  <2>1. noticed \in [1..before -> SUBSET DOMAIN work]
    BY <1>4 DEF StaffedInv, StaffedTypeOK
  <2>2. noticed \in Seq(SUBSET DOMAIN work) /\ Len(noticed) = before
    BY <1>4, <2>1
  <2>3. publishing.noticed \in SUBSET DOMAIN work
    BY <1>1
  <2> QED
    BY <1>3, <1>4, <2>2, <2>3, AppendProperties
<1>10. StaffedTypeOK'
  <2>1. edition' \in Seq(Edition) /\ Len(edition') \in 1..MaxEdition
    BY <1>4, <1>8
  <2>2. noticed' \in [DOMAIN edition' -> SUBSET DOMAIN work']
    BY <1>1, <1>4, <1>8, <1>9
  <2>3. work' \in Seq(WorkRow) /\ Len(work') <= MaxWork
    BY <1>1 DEF StaffedInv, StaffedTypeOK
  <2> QED
    BY <1>1, <2>1, <2>2, <2>3 DEF StaffedTypeOK
<1>11. \A i \in DOMAIN work' : work'[i].edition \in DOMAIN edition'
  BY <1>1, <1>4, <1>8 DEF StaffedInv
<1>12. \A i \in DOMAIN work : SameWork(i)
  BY <1>1 DEF SameWork
<1>13. \A n \in DOMAIN edition : SameDesign(n)
  BY <1>4, <1>6, <1>8 DEF SameDesign
<1>14. \A i \in DOMAIN work : work'[i].to <= work[i].to
  <2>1. ASSUME NEW i \in DOMAIN work PROVE work[i].to \in Nat
    BY StaffedRows, HorizonAssumption DEF StaffedInv, WorkRow, Days, Unending
  <2> QED
    BY <1>1, <2>1
<1>15. ASSUME NEW rows \in SUBSET DOMAIN work, NEW d \in Design, NEW f \in Days, Stands(rows, d, f)
       PROVE  Stands(rows, d, f)'
  BY <1>10, <1>12, <1>13, <1>14, <1>15, StandsOn
<1>16. ASSUME NEW n \in DOMAIN edition'
       PROVE  Stands(noticed[n], edition[n].design, edition[n].from)'
  <2>1. PICK rows, d, f : rows = noticed'[n] /\ d = edition'[n].design /\ f = edition'[n].from
    OBVIOUS
  <2>2. rows \in SUBSET DOMAIN work /\ d \in Design /\ f \in Days /\ Stands(rows, d, f)
    <3>1. CASE n = before + 1
      BY <1>1, <1>2, <1>8, <1>9, <2>1, <3>1 DEF StaffedInv
    <3>2. CASE n \in 1..before
      <4>1. rows = noticed[n] /\ d = edition[n].design /\ f = edition[n].from /\ n \in DOMAIN edition
        BY <1>4, <1>6, <1>8, <1>9, <2>1, <3>2
      <4>2. edition[n] \in Edition
        BY <4>1, StaffedRows DEF StaffedInv
      <4>3. rows \in SUBSET DOMAIN work
        BY <4>1 DEF StaffedInv, StaffedTypeOK
      <4> QED
        BY <4>1, <4>2, <4>3 DEF StaffedInv, Edition
    <3> QED
      BY <1>4, <1>8, <3>1, <3>2
  <2>3. Stands(rows, d, f)'
    BY <1>15, <2>2
  <2> QED
    BY <2>1, <2>3
<1>17. \A n \in DOMAIN edition' : Stands(noticed[n], edition[n].design, edition[n].from)'
  BY <1>16
<1> QED
  BY <1>1, <1>10, <1>11, <1>17 DEF StaffedInv

LEMMA AbandonPublicationKeepsInv ==
  ASSUME StaffedInv, AbandonPublication
  PROVE  StaffedInv'
<1>1. publishing' = Nothing /\ edition' = edition /\ work' = work /\ noticed' = noticed
  BY DEF AbandonPublication
<1>2. StaffedTypeOK'
  BY <1>1 DEF StaffedInv, StaffedTypeOK
<1>3. \A i \in DOMAIN work : SameWork(i) /\ work'[i].to <= work[i].to
  <2>1. ASSUME NEW i \in DOMAIN work PROVE work[i].to \in Nat
    BY StaffedRows, HorizonAssumption DEF StaffedInv, WorkRow, Days, Unending
  <2> QED
    BY <1>1, <2>1 DEF SameWork
<1>4. \A n \in DOMAIN edition : SameDesign(n) /\ noticed[n] \in SUBSET DOMAIN work
  BY <1>1 DEF SameDesign, StaffedInv, StaffedTypeOK
<1>5. \A i \in DOMAIN work' : work'[i].edition \in DOMAIN edition'
  BY <1>1 DEF StaffedInv
<1> QED
  BY <1>1, <1>2, <1>3, <1>4, <1>5, NoticedStands

---------------------------------------------------------------------------
(* Assignments made and ended *)

LEMMA AddedWorkKeepsInv ==
  ASSUME StaffedInv, NEW n \in DOMAIN edition, NEW p \in Place, NEW t \in Terms,
         NEW status \in {"pending", "kept"}, Len(work) < MaxWork,
         work' = Append(work, NewWork(n, p, t, status)), UNCHANGED <<edition, publishing, noticed>>
  PROVE  StaffedInv'
<1>1. PICK before, w : before = Len(work) /\ w = NewWork(n, p, t, status)
  OBVIOUS
<1>2. before \in Nat /\ DOMAIN work = 1..before /\ before < MaxWork /\ MaxWork \in Nat /\ work \in Seq(WorkRow)
  BY <1>1, HorizonAssumption DEF StaffedInv, StaffedTypeOK
<1>3. n \in 1..MaxEdition
  BY HorizonAssumption DEF StaffedInv, StaffedTypeOK
<1>4. t \in [from : Days, to : Days \cup {Unending}, fte : Nat]
  BY TermsAssumption
<1>5. w \in WorkRow /\ w.edition = n
  BY <1>1, <1>3, <1>4 DEF NewWork, WorkRow
<1>6. /\ work' \in Seq(WorkRow) /\ Len(work') = before + 1 /\ DOMAIN work' = 1..(before + 1)
      /\ work'[before + 1] = w /\ \A i \in 1..before : work'[i] = work[i]
  BY <1>1, <1>2, <1>5, AppendProperties
<1>7. DOMAIN work \subseteq DOMAIN work'
  BY <1>2, <1>6
<1>8. StaffedTypeOK'
  <2>1. publishing' = Nothing \/ publishing' \in [design : Design, from : Days, noticed : SUBSET DOMAIN work']
    BY <1>7 DEF StaffedInv, StaffedTypeOK
  <2>2. noticed' \in [DOMAIN edition' -> SUBSET DOMAIN work']
    BY <1>7 DEF StaffedInv, StaffedTypeOK
  <2>3. edition' \in Seq(Edition) /\ Len(edition') \in 1..MaxEdition
    BY DEF StaffedInv, StaffedTypeOK
  <2>4. work' \in Seq(WorkRow) /\ Len(work') <= MaxWork
    BY <1>2, <1>6
  <2> QED
    BY <2>1, <2>2, <2>3, <2>4 DEF StaffedTypeOK
<1>9. \A i \in DOMAIN work : SameWork(i) /\ work'[i].to <= work[i].to
  <2>1. ASSUME NEW i \in DOMAIN work PROVE work[i].to \in Nat
    BY StaffedRows, HorizonAssumption DEF StaffedInv, WorkRow, Days, Unending
  <2> QED
    BY <1>2, <1>6, <2>1 DEF SameWork
<1>10. \A m \in DOMAIN edition : SameDesign(m) /\ noticed[m] \in SUBSET DOMAIN work
  BY DEF SameDesign, StaffedInv, StaffedTypeOK
<1>11. \A i \in DOMAIN work' : work'[i].edition \in DOMAIN edition'
  BY <1>2, <1>5, <1>6 DEF StaffedInv
<1>12. publishing' # Nothing => publishing.noticed \in SUBSET DOMAIN work
  BY DEF StaffedInv, StaffedTypeOK
<1> QED
  BY <1>8, <1>9, <1>10, <1>11, <1>12, NoticedStands

\* Work that changes in its end and its status: what was noticed of it counts only if it is over
\* no later.
LEMMA ChangedWorkKeepsInv ==
  ASSUME StaffedInv, NEW i \in DOMAIN work, NEW day \in Days \cup {Unending},
         NEW status \in {"pending", "kept", "scheduled_end", "ended", "cancelled"},
         work' = [work EXCEPT ![i] = [work[i] EXCEPT !.to = day, !.status = status]],
         edition' = edition,
         Unnotice(i) \/ (day <= work[i].to /\ UNCHANGED <<publishing, noticed>>)
  PROVE  StaffedInv'
<1>1. work \in Seq(WorkRow) /\ work[i] \in WorkRow
  BY StaffedRows DEF StaffedInv, StaffedTypeOK
<1>2. work'[i] = [work[i] EXCEPT !.to = day, !.status = status] /\ \A j \in DOMAIN work : j # i => work'[j] = work[j]
  BY <1>1
<1>3. work'[i] \in WorkRow
  BY <1>1, <1>2 DEF WorkRow
<1>4. work' \in Seq(WorkRow) /\ Len(work') = Len(work) /\ DOMAIN work' = DOMAIN work
  <2>1. PICK w : w = [work[i] EXCEPT !.to = day, !.status = status]
    OBVIOUS
  <2>2. w \in WorkRow /\ work' = [work EXCEPT ![i] = w]
    BY <1>2, <1>3, <2>1
  <2> QED
    BY <1>1, <2>2, ExceptSeq
<1>5. ASSUME NEW j \in DOMAIN work
      PROVE  /\ SameWork(j) /\ (j # i => work'[j].to <= work[j].to)
             /\ work'[j].edition = work[j].edition
  <2>1. work[j] \in WorkRow
    BY StaffedRows DEF StaffedInv
  <2>2. work[j].to \in Nat
    BY <2>1, HorizonAssumption DEF WorkRow, Days, Unending
  <2>3. CASE j = i
    BY <1>1, <1>2, <1>4, <2>3 DEF SameWork, WorkRow
  <2>4. CASE j # i
    BY <1>2, <1>4, <2>2, <2>4 DEF SameWork
  <2> QED
    BY <2>3, <2>4
<1>6. work'[i].to = day
  BY <1>1, <1>2 DEF WorkRow
<1>7. DOMAIN noticed = DOMAIN edition /\ \A n \in DOMAIN edition : noticed[n] \in SUBSET DOMAIN work
  BY DEF StaffedInv, StaffedTypeOK
<1>8. ASSUME NEW n \in DOMAIN edition
      PROVE  noticed'[n] \subseteq noticed[n] /\ \A j \in noticed'[n] : work'[j].to <= work[j].to
  <2>1. CASE Unnotice(i)
    <3>1. noticed'[n] = noticed[n] \ {i}
      BY <1>7, <2>1 DEF Unnotice
    <3> QED
      BY <1>5, <1>7, <3>1
  <2>2. CASE day <= work[i].to /\ noticed' = noticed
    BY <1>5, <1>6, <1>7, <2>2
  <2> QED
    BY <2>1, <2>2
<1>9. ASSUME publishing' # Nothing
      PROVE  /\ publishing # Nothing
             /\ publishing \in [design : Design, from : Days, noticed : SUBSET DOMAIN work]
             /\ publishing' \in [design : Design, from : Days, noticed : SUBSET DOMAIN work]
             /\ publishing'.design = publishing.design /\ publishing'.from = publishing.from
             /\ publishing'.noticed \subseteq publishing.noticed
             /\ \A j \in publishing'.noticed : work'[j].to <= work[j].to
  <2>1. CASE Unnotice(i)
    <3>1. publishing # Nothing /\ publishing' = [publishing EXCEPT !.noticed = publishing.noticed \ {i}]
      BY <1>9, <2>1 DEF Unnotice
    <3>2. publishing \in [design : Design, from : Days, noticed : SUBSET DOMAIN work]
      BY <3>1 DEF StaffedInv, StaffedTypeOK
    <3>3. /\ publishing'.noticed = publishing.noticed \ {i}
          /\ publishing' \in [design : Design, from : Days, noticed : SUBSET DOMAIN work]
          /\ publishing'.design = publishing.design /\ publishing'.from = publishing.from
      BY <3>1, <3>2
    <3> QED
      BY <1>5, <3>1, <3>2, <3>3
  <2>2. CASE day <= work[i].to /\ publishing' = publishing
    <3>1. publishing \in [design : Design, from : Days, noticed : SUBSET DOMAIN work]
      BY <1>9, <2>2 DEF StaffedInv, StaffedTypeOK
    <3> QED
      BY <1>5, <1>6, <1>9, <2>2, <3>1
  <2> QED
    BY <2>1, <2>2
<1>10. StaffedTypeOK'
  <2>1. publishing' = Nothing \/ publishing' \in [design : Design, from : Days, noticed : SUBSET DOMAIN work']
    BY <1>4, <1>9
  <2>2. noticed' \in [DOMAIN edition' -> SUBSET DOMAIN work']
    <3>1. noticed \in [DOMAIN edition -> SUBSET DOMAIN work]
      BY DEF StaffedInv, StaffedTypeOK
    <3>2. noticed' \in [DOMAIN edition -> SUBSET DOMAIN work]
      BY <1>7, <3>1 DEF Unnotice
    <3> QED
      BY <1>4, <3>2
  <2>3. edition' \in Seq(Edition) /\ Len(edition') \in 1..MaxEdition
    BY DEF StaffedInv, StaffedTypeOK
  <2>4. Len(work') <= MaxWork
    BY <1>4 DEF StaffedInv, StaffedTypeOK
  <2> QED
    BY <1>4, <2>1, <2>2, <2>3, <2>4 DEF StaffedTypeOK
<1>11. \A n \in DOMAIN edition : SameDesign(n)
  BY DEF SameDesign
<1>12. \A j \in DOMAIN work' : work'[j].edition \in DOMAIN edition'
  BY <1>4, <1>5 DEF StaffedInv
<1> QED
  BY <1>5, <1>8, <1>9, <1>10, <1>11, <1>12, NoticedStands

LEMMA WorkActionsKeepInv ==
  ASSUME StaffedInv, NEW i \in DOMAIN work,
         \/ ApproveWork(i) \/ ReopenWork(i) \/ CancelWork(i)
         \/ \E day \in Days, status \in {"ended", "scheduled_end"} : EndWork(i, day, status)
  PROVE  StaffedInv'
<1>1. work[i] \in WorkRow
  BY StaffedRows DEF StaffedInv
<1>2. work[i].to \in Days \cup {Unending} /\ work[i].to \in Nat /\ \A day \in Days : day \in Nat
  BY <1>1, HorizonAssumption DEF WorkRow, Days, Unending
<1>3. ASSUME NEW status, work' = [work EXCEPT ![i].status = status]
      PROVE  work' = [work EXCEPT ![i] = [work[i] EXCEPT !.to = work[i].to, !.status = status]]
  <2>1. [work[i] EXCEPT !.status = status] = [work[i] EXCEPT !.to = work[i].to, !.status = status]
    BY <1>1 DEF WorkRow
  <2> QED
    BY <1>3, <2>1
<1>4. CASE ApproveWork(i)
  <2>1. work' = [work EXCEPT ![i] = [work[i] EXCEPT !.to = work[i].to, !.status = "kept"]]
    BY <1>3, <1>4 DEF ApproveWork
  <2>2. edition' = edition /\ UNCHANGED <<publishing, noticed>>
    BY <1>4 DEF ApproveWork
  <2>3. PICK day \in Days \cup {Unending} : day = work[i].to /\ day <= work[i].to
    BY <1>2
  <2>4. work' = [work EXCEPT ![i] = [work[i] EXCEPT !.to = day, !.status = "kept"]]
    BY <2>1, <2>3
  <2> QED
    BY <2>2, <2>3, <2>4, ChangedWorkKeepsInv
<1>5. CASE ReopenWork(i)
  <2>1. /\ work' = [work EXCEPT ![i] = [work[i] EXCEPT !.to = Unending, !.status = "kept"]]
        /\ edition' = edition /\ Unnotice(i)
    BY <1>5 DEF ReopenWork
  <2>2. Unending \in Days \cup {Unending}
    OBVIOUS
  <2> QED
    BY <2>1, <2>2, ChangedWorkKeepsInv
<1>6. CASE CancelWork(i)
  <2>1. work' = [work EXCEPT ![i] = [work[i] EXCEPT !.to = work[i].to, !.status = "cancelled"]]
    BY <1>3, <1>6 DEF CancelWork
  <2>2. edition' = edition /\ UNCHANGED <<publishing, noticed>>
    BY <1>6 DEF CancelWork
  <2>3. PICK day \in Days \cup {Unending} : day = work[i].to /\ day <= work[i].to
    BY <1>2
  <2>4. work' = [work EXCEPT ![i] = [work[i] EXCEPT !.to = day, !.status = "cancelled"]]
    BY <2>1, <2>3
  <2> QED
    BY <2>2, <2>3, <2>4, ChangedWorkKeepsInv
<1>7. ASSUME NEW day \in Days, NEW status \in {"ended", "scheduled_end"}, EndWork(i, day, status)
      PROVE  StaffedInv'
  <2>1. /\ work' = [work EXCEPT ![i] = [work[i] EXCEPT !.to = day, !.status = status]]
        /\ edition' = edition
    BY <1>7 DEF EndWork
  <2>2. Unnotice(i) \/ (day <= work[i].to /\ UNCHANGED <<publishing, noticed>>)
    <3>1. CASE day > work[i].to
      BY <1>7, <3>1 DEF EndWork
    <3>2. CASE ~(day > work[i].to)
      <4>1. UNCHANGED <<publishing, noticed>>
        BY <1>7, <3>2 DEF EndWork
      <4>2. day <= work[i].to
        BY <1>2, <3>2
      <4> QED
        BY <4>1, <4>2
    <3> QED
      BY <3>1, <3>2
  <2> QED
    BY <2>1, <2>2, ChangedWorkKeepsInv
<1> QED
  BY <1>4, <1>5, <1>6, <1>7

---------------------------------------------------------------------------
(* The theorem *)

LEMMA StaffedInitially ==
  ASSUME StaffedInit
  PROVE  StaffedInv
<1>1. PICK design \in Design : edition = <<[design |-> design, from |-> 1, to |-> Unending]>>
  BY DEF StaffedInit
<1>2. work = <<>> /\ publishing = Nothing /\ noticed = <<{}>>
  BY DEF StaffedInit
<1>3. 1 \in Days /\ Unending \in 0..Unending /\ MaxEdition >= 1
  BY HorizonAssumption DEF Days, Unending
<1>4. [design |-> design, from |-> 1, to |-> Unending] \in Edition
  BY <1>3 DEF Edition
<1>5. /\ edition \in Seq(Edition) /\ Len(edition) = 1 /\ DOMAIN edition = {1}
      /\ DOMAIN work = {} /\ work \in Seq(WorkRow) /\ Len(work) = 0
  BY <1>1, <1>2, <1>4
<1>6. noticed \in [{1} -> SUBSET DOMAIN work] /\ noticed[1] = {}
  BY <1>2, <1>5
<1>7. StaffedTypeOK
  BY <1>2, <1>3, <1>5, <1>6, HorizonAssumption DEF StaffedTypeOK
<1>8. \A n \in DOMAIN edition : Stands(noticed[n], edition[n].design, edition[n].from)
  BY <1>5, <1>6 DEF Stands, Fits, At
<1> QED
  BY <1>2, <1>5, <1>7, <1>8 DEF StaffedInv

LEMMA StaffedStep ==
  ASSUME StaffedInv, [StaffedNext]_staffedVars
  PROVE  StaffedInv'
<1>1. ASSUME NEW design \in Design, NEW from \in Days, BeginStaffedPublication(design, from)
      PROVE  StaffedInv'
  BY <1>1, BeginStaffedPublicationKeepsInv
<1>2. CASE CommitStaffedPublication
  BY <1>2, CommitStaffedPublicationKeepsInv
<1>3. CASE AbandonPublication
  BY <1>3, AbandonPublicationKeepsInv
<1>4. ASSUME NEW n \in DOMAIN edition, NEW p \in Place, NEW t \in Terms, NEW status \in {"pending", "kept"},
             CreateWork(n, p, t, status)
      PROVE  StaffedInv'
  BY <1>4, AddedWorkKeepsInv DEF CreateWork
<1>5. ASSUME NEW n \in DOMAIN edition, NEW p \in Place, NEW t \in Terms, HireCandidate(n, p, t)
      PROVE  StaffedInv'
  BY <1>5, AddedWorkKeepsInv DEF HireCandidate
<1>6. ASSUME NEW i \in DOMAIN work,
             \/ ApproveWork(i) \/ ReopenWork(i) \/ CancelWork(i)
             \/ \E day \in Days, status \in {"ended", "scheduled_end"} : EndWork(i, day, status)
      PROVE  StaffedInv'
  BY <1>6, WorkActionsKeepInv
<1>7. CASE UNCHANGED staffedVars
  <2>1. edition' = edition /\ work' = work /\ publishing' = publishing /\ noticed' = noticed
    BY <1>7 DEF staffedVars
  <2>2. StaffedTypeOK'
    BY <2>1 DEF StaffedInv, StaffedTypeOK
  <2>3. \A i \in DOMAIN work : SameWork(i) /\ work'[i].to <= work[i].to
    <3>1. ASSUME NEW i \in DOMAIN work PROVE work[i].to \in Nat
      BY StaffedRows, HorizonAssumption DEF StaffedInv, WorkRow, Days, Unending
    <3> QED
      BY <2>1, <3>1 DEF SameWork
  <2>4. \A n \in DOMAIN edition : SameDesign(n) /\ noticed[n] \in SUBSET DOMAIN work
    BY <2>1 DEF SameDesign, StaffedInv, StaffedTypeOK
  <2>5. \A i \in DOMAIN work' : work'[i].edition \in DOMAIN edition'
    BY <2>1 DEF StaffedInv
  <2>6. publishing' # Nothing => publishing.noticed \in SUBSET DOMAIN work
    BY <2>1 DEF StaffedInv, StaffedTypeOK
  <2> QED
    BY <2>1, <2>2, <2>3, <2>4, <2>5, <2>6, NoticedStands
<1> QED
  BY <1>1, <1>2, <1>3, <1>4, <1>5, <1>6, <1>7 DEF StaffedNext

LEMMA StandingWorkKeepsItsPlace ==
  ASSUME StaffedInv
  PROVE  NoticedWorkKeepsItsPlace
<1> SUFFICES ASSUME NEW n \in 2..Len(edition), NEW p \in Place,
                    NEW day \in (edition[n].from..edition[n].to) \cap Days,
                    NEW here, here = {i \in noticed[n] \cap Live :
                                        work[i].place = p /\ work[i].from <= day /\ day <= work[i].to},
                    here # {}
             PROVE  /\ edition[n].design[p] # NoPlace /\ edition[n].design[p].state # "closed"
                    /\ edition[n].design[p].from <= day /\ day <= edition[n].design[p].to
                    /\ \A i \in here : /\ edition[n].design[p].unit = Source(i).unit
                                       /\ edition[n].design[p].position = Source(i).position
                    /\ Total(here, day) <= edition[n].design[p].fte
  BY DEF NoticedWorkKeepsItsPlace
<1>1. n \in DOMAIN edition /\ edition[n] \in Edition
  <2>1. n \in DOMAIN edition
    BY DEF StaffedInv, StaffedTypeOK
  <2> QED
    BY <2>1, StaffedRows DEF StaffedInv
<1>2. PICK rows, design, from :
        rows = noticed[n] /\ design = edition[n].design /\ from = edition[n].from
  OBVIOUS
<1>3. /\ Stands(rows, design, from) /\ design \in Design /\ from \in Days /\ from \in Nat
      /\ rows \in SUBSET DOMAIN work
  BY <1>1, <1>2 DEF StaffedInv, StaffedTypeOK, Edition, Days
<1>4. day \in Days /\ day \in Nat /\ from <= day
  BY <1>1, <1>2, HorizonAssumption DEF Edition, Days, Unending
<1>5. ASSUME NEW i \in here
      PROVE  /\ i \in rows /\ i \in DOMAIN work /\ work[i].place = p /\ work[i].from <= day /\ day <= work[i].to
             /\ Continues(i, design, from) /\ design[p] \in PlaceRow
             /\ work[i].from \in Nat /\ work[i].to \in Nat
  <2>1. i \in rows /\ i \in DOMAIN work /\ work[i].place = p /\ work[i].from <= day /\ day <= work[i].to
    BY <1>2, <1>3
  <2>2. work[i] \in WorkRow /\ work[i].from \in Nat /\ work[i].to \in Nat
    <3>1. work[i] \in WorkRow
      BY <2>1, StaffedRows DEF StaffedInv
    <3> QED
      BY <3>1, HorizonAssumption DEF WorkRow, Days, Unending
  <2>3. work[i].to >= from
    BY <1>3, <1>4, <2>1, <2>2
  <2>4. Continues(i, design, from)
    BY <1>3, <2>1, <2>3 DEF Stands, KeepsPlace
  <2>5. design[p] \in PlaceRow
    BY <1>3, <2>1, <2>2, <2>4, PlaceOfWork
  <2> QED
    BY <2>1, <2>2, <2>4, <2>5
<1>6. PICK one \in here : TRUE
  OBVIOUS
<1>7. /\ design[p] # NoPlace /\ design[p].state # "closed"
      /\ design[p].from \in Nat /\ design[p].to \in Nat /\ design[p].fte \in Nat
  <2>1. design[p] # NoPlace /\ design[p].state # "closed"
    BY <1>5, <1>6 DEF Continues
  <2>2. design[p] \in PlaceRow
    BY <1>5, <1>6
  <2> QED
    BY <2>1, <2>2, HorizonAssumption DEF PlaceRow, Days, Unending
<1>8. design[p].from <= day
  <2>1. design[p].from <= LargerOf(work[one].from, from)
    BY <1>5, <1>6 DEF Continues
  <2>2. LargerOf(work[one].from, from) \in Nat /\ LargerOf(work[one].from, from) <= day
    BY <1>3, <1>4, <1>5, <1>6 DEF LargerOf
  <2> QED
    BY <1>4, <1>7, <2>1, <2>2
<1>9. day <= design[p].to
  <2>1. work[one].to <= design[p].to /\ day <= work[one].to /\ work[one].to \in Nat
    BY <1>5, <1>6 DEF Continues
  <2> QED
    BY <1>4, <1>7, <2>1
<1>10. \A i \in here : design[p].unit = Source(i).unit /\ design[p].position = Source(i).position
  BY <1>5 DEF Continues
<1>11. Total(here, day) <= design[p].fte
  <2>1. PICK active, all : /\ active = {i \in here : work[i].from <= day /\ day <= work[i].to}
                           /\ all = At(rows, p, day)
    OBVIOUS
  <2>2. active \in SUBSET all /\ all \in SUBSET DOMAIN work /\ all # {}
    BY <1>3, <1>5, <1>6, <2>1 DEF At
  <2>3. Fte(active) \in Nat /\ Fte(all) \in Nat /\ Fte(active) <= Fte(all)
    BY <2>2, StaffedRows, FteGrows DEF StaffedInv
  <2>4. Fte(all) <= design[p].fte
    BY <1>3, <1>4, <2>1, <2>2 DEF Stands, Fits
  <2>5. Total(here, day) = Fte(active)
    BY <2>1 DEF Total
  <2> QED
    BY <1>7, <2>3, <2>4, <2>5
<1> QED
  BY <1>2, <1>7, <1>8, <1>9, <1>10, <1>11

\* Between the check of a publication and its commit, and ever after, nothing that is done to
\* assignments takes the work it has noticed out of the published design, and no slot has more
\* of that work than it has approved FTE, for any number of slots, versions and assignments
\* (validate_structure_version and publish_structure_version).
THEOREM NoticedWorkStays == StaffedSpec => []NoticedWorkKeepsItsPlace
<1>1. StaffedInit => StaffedInv
  BY StaffedInitially
<1>2. StaffedInv /\ [StaffedNext]_staffedVars => StaffedInv'
  BY StaffedStep
<1>3. StaffedInv => NoticedWorkKeepsItsPlace
  BY StandingWorkKeepsItsPlace
<1> QED
  BY <1>1, <1>2, <1>3, PTL DEF StaffedSpec
===========================================================================
