------------------------ MODULE StaffedPublication ------------------------
(***************************************************************************)
(* What the publication of a structure means for those who work in it.  An *)
(* assignment names the row that its staffing slot has in one version, and *)
(* stays with that row when the next version gives the slot another one;    *)
(* the publication therefore checks that all work that goes on has its     *)
(* place in the version to come.  It locks nothing, and assignments are     *)
(* made, ended, cancelled and reopened between its check and its commit.   *)
(*                                                                         *)
(* One publication at a time: how two of them, and edits of the draft, are *)
(* kept apart is the subject of Organization.  Employees are left out, each *)
(* assignment being somebody else's.                                       *)
(***************************************************************************)
EXTENDS Naturals, Sequences, FiniteSets

CONSTANTS Place,       \* the staffing slots, by stable key
          Design,      \* what versions say of their slots
          Terms,       \* the dates and FTE of the assignments clients ask for
          MaxEdition,  \* bound: published versions
          MaxWork,     \* bound: assignments
          Horizon      \* bound: the days are 1..Horizon

Days == 1..Horizon
Unending == Horizon + 1   \* effective_to is NULL

NoPlace == [state |-> "none"]
\* "open" is approved, vacant or occupied, "held" is planned or temporarily blocked.
PlaceRow == [state : {"open", "held", "closing", "closed"}, unit : Nat, position : Nat, fte : Nat,
             from : Days, to : Days \cup {Unending}]

ASSUME DesignAssumption == Design \subseteq [Place -> PlaceRow \cup {NoPlace}] /\ Design # {}
ASSUME TermsAssumption ==
  Terms \subseteq {t \in [from : Days, to : Days \cup {Unending}, fte : Nat] : t.from <= t.to}
ASSUME HorizonAssumption == Horizon \in Nat \ {0} /\ MaxEdition \in Nat \ {0} /\ MaxWork \in Nat

VARIABLES edition,     \* the published versions, with their slots and effective dates
          work,        \* the assignments, each with the version whose row it names
          publishing,  \* what an open publication has checked
          noticed      \* for each version, the work there was at its check and not made longer since

staffedVars == <<edition, work, publishing, noticed>>

Nothing == [from |-> 0]

Edition == [design : Design, from : Days, to : 0..Unending]
WorkRow == [place : Place, edition : 1..MaxEdition, from : Days, to : Days \cup {Unending},
            fte : Nat, status : {"pending", "kept", "scheduled_end", "ended", "cancelled"}]

StaffedTypeOK ==
  /\ edition \in Seq(Edition) /\ Len(edition) \in 1..MaxEdition
  /\ work \in Seq(WorkRow) /\ Len(work) <= MaxWork
  /\ publishing = Nothing \/ publishing \in [design : Design, from : Days, noticed : SUBSET DOMAIN work]
  /\ noticed \in [DOMAIN edition -> SUBSET DOMAIN work]

StaffedInit ==
  /\ \E design \in Design :
       edition = <<[design |-> design, from |-> 1, to |-> Unending]>>
  /\ work = <<>> /\ publishing = Nothing /\ noticed = <<{}>>

---------------------------------------------------------------------------
(* The check of a publication *)

LargerOf(x, y) == IF x > y THEN x ELSE y

\* FTE is counted in its smallest units: the sum is the number of units the rows have.
Fte(rows) == Cardinality(UNION {{i} \X (1..work[i].fte) : i \in rows})

Total(rows, day) == Fte({i \in rows : work[i].from <= day /\ day <= work[i].to})

\* Where the work is done, by the version its row belongs to.
Source(i) == edition[work[i].edition].design[work[i].place]

Live == {i \in DOMAIN work : work[i].status # "cancelled"}

\* Slip: work that ends on the effective date is taken to be over.
OngoingAfter(from) == {i \in Live : work[i].to > from}

Ongoing(from) == {i \in Live : work[i].to >= from}

\* An assignment stays in its unit and position, and within the dates of its slot.
Continues(i, design, from) ==
  LET target == design[work[i].place] IN
  /\ target # NoPlace
  /\ target.unit = Source(i).unit /\ target.position = Source(i).position
  /\ target.state # "closed" /\ ~(target.state = "closing" /\ target.to = Unending)
  /\ target.from <= LargerOf(work[i].from, from) /\ work[i].to <= target.to

\* The days on which the FTE of a slot may be at its peak.
Boundaries(rows, from) ==
  {LargerOf(work[i].from, from) : i \in rows} \cup {work[i].to + 1 : i \in {j \in rows : work[j].to # Unending}}

PeakIsApproved(rows, from, approved) == \A day \in Boundaries(rows, from) : Total(rows, day) <= approved

NoTransitionIssues(design, from) ==
  /\ \A i \in Ongoing(from) : Continues(i, design, from)
  /\ \A p \in Place :
       LET rows == {i \in Ongoing(from) : work[i].place = p} IN
       rows # {} => PeakIsApproved(rows, from, design[p].fte)

BeginStaffedPublication(design, from) ==
  /\ publishing = Nothing /\ Len(edition) < MaxEdition
  /\ NoTransitionIssues(design, from)
  /\ publishing' = [design |-> design, from |-> from, noticed |-> Live]
  /\ UNCHANGED <<edition, work, noticed>>

\* The versions in force from that day on are closed the day before; none may start later.
CommitStaffedPublication ==
  LET from == publishing.from
      reaching == {n \in DOMAIN edition : edition[n].to >= from}
  IN
  /\ publishing # Nothing
  /\ \A n \in reaching : edition[n].from < from
  /\ edition' = Append([n \in DOMAIN edition |->
                          IF n \in reaching THEN [edition[n] EXCEPT !.to = from - 1] ELSE edition[n]],
                       [design |-> publishing.design, from |-> from, to |-> Unending])
  /\ noticed' = Append(noticed, publishing.noticed)
  /\ publishing' = Nothing
  /\ UNCHANGED work

\* A check that fails further on, a lost connection.
AbandonPublication ==
  /\ publishing # Nothing /\ publishing' = Nothing
  /\ UNCHANGED <<edition, work, noticed>>

---------------------------------------------------------------------------
(* Assignments *)

\* The version is in force on the first day, whatever becomes of it later.
InActiveStructure(n, t) == edition[n].from <= t.from /\ t.from <= edition[n].to

WithinSlotDates(slot, t) == slot.from <= t.from /\ t.to <= slot.to

\* The FTE is that of the row, not that of the place.
MayWork(w, others) ==
  LET slot == edition[w.edition].design[w.place]
      sharing == {i \in Live \ others : work[i].edition = w.edition /\ work[i].place = w.place}
  IN
  /\ slot.state \in {"open", "closing"}
  /\ InActiveStructure(w.edition, w) /\ WithinSlotDates(slot, w)
  /\ \A day \in Days : w.from <= day /\ day <= w.to => Total(sharing, day) + w.fte <= slot.fte

NewWork(n, p, t, status) ==
  [place |-> p, edition |-> n, from |-> t.from, to |-> t.to, fte |-> t.fte, status |-> status]

\* create_assignment, by a manager for whom the personnel office reviews it or by that office.
CreateWork(n, p, t, status) ==
  LET w == NewWork(n, p, t, status) IN
  /\ Len(work) < MaxWork
  /\ MayWork(w, {})
  /\ work' = Append(work, w)
  /\ UNCHANGED <<edition, publishing, noticed>>

ApproveWork(i) ==
  /\ work[i].status = "pending" /\ MayWork(work[i], {i})
  /\ work' = [work EXCEPT ![i].status = "kept"]
  /\ UNCHANGED <<edition, publishing, noticed>>

\* A recruitment that completes asks for neither dates nor version, nor for what is pending.
HireCandidate(n, p, t) ==
  LET slot == edition[n].design[p]
      occupied == {i \in DOMAIN work : /\ work[i].edition = n /\ work[i].place = p
                                       /\ work[i].status \in {"kept", "scheduled_end"}}
  IN
  /\ Len(work) < MaxWork /\ t.to = Unending
  /\ slot.state = "open"
  /\ t.fte + Fte(occupied) <= slot.fte
  /\ work' = Append(work, NewWork(n, p, t, "kept"))
  /\ UNCHANGED <<edition, publishing, noticed>>

\* Work that goes on for longer than it was to is nothing a publication has noticed.
Unnotice(i) ==
  /\ noticed' = [n \in DOMAIN noticed |-> noticed[n] \ {i}]
  /\ publishing' = IF publishing = Nothing THEN Nothing ELSE [publishing EXCEPT !.noticed = @ \ {i}]

\* The end of an assignment, and a termination: its completion ends whatever has not ended,
\* cancelled rows included, its schedule sets the end whatever it was.
EndWork(i, day, status) ==
  /\ status = "ended" => work[i].status # "ended" /\ work[i].from <= day
  /\ work' = [work EXCEPT ![i].to = day, ![i].status = status]
  /\ IF day > work[i].to THEN Unnotice(i) ELSE UNCHANGED <<publishing, noticed>>
  /\ UNCHANGED edition

\* The cancellation of a termination takes the scheduled end back.
ReopenWork(i) ==
  /\ work[i].status = "scheduled_end"
  /\ work' = [work EXCEPT ![i].to = Unending, ![i].status = "kept"]
  /\ Unnotice(i)
  /\ UNCHANGED edition

\* A review that is rejected, or a termination before the first day.
CancelWork(i) ==
  /\ work[i].status \in {"pending", "kept", "scheduled_end"}
  /\ work' = [work EXCEPT ![i].status = "cancelled"]
  /\ UNCHANGED <<edition, publishing, noticed>>

StaffedNext ==
  \/ \E design \in Design, from \in Days : BeginStaffedPublication(design, from)
  \/ CommitStaffedPublication \/ AbandonPublication
  \/ \E n \in DOMAIN edition, p \in Place, t \in Terms :
       \/ \E status \in {"pending", "kept"} : CreateWork(n, p, t, status)
       \/ HireCandidate(n, p, t)
  \/ \E i \in DOMAIN work :
       \/ ApproveWork(i) \/ ReopenWork(i) \/ CancelWork(i)
       \/ \E day \in Days, status \in {"ended", "scheduled_end"} : EndWork(i, day, status)

StaffedSpec == StaffedInit /\ [][StaffedNext]_staffedVars

---------------------------------------------------------------------------
(* Property *)

\* No publication silently moves the work that it has noticed: on every day of a version,
\* such work has its place there, not closed, in the unit and position it is done in, and no
\* place has more of it than is approved; whatever happens to assignments between the
\* check of the publication and its commit, and afterwards (validate_structure_version).
NoticedWorkKeepsItsPlace ==
  \A n \in 2..Len(edition), p \in Place : \A day \in (edition[n].from..edition[n].to) \cap Days :
    LET here == {i \in noticed[n] \cap Live :
                   work[i].place = p /\ work[i].from <= day /\ day <= work[i].to}
        place == edition[n].design[p]
    IN here # {} =>
         /\ place # NoPlace /\ place.state # "closed"
         /\ place.from <= day /\ day <= place.to
         /\ \A i \in here : place.unit = Source(i).unit /\ place.position = Source(i).position
         /\ Total(here, day) <= place.fte
===========================================================================
