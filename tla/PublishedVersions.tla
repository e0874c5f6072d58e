------------------------ MODULE PublishedVersions ------------------------
(***************************************************************************)
(* What a library of versions promises to those who rely on it.  A version *)
(* is edited while it is a draft; once published its contents stand, and   *)
(* whatever is made with a version is made with the contents that were      *)
(* published.  In an exclusive library a publication archives the version   *)
(* published before.                                                        *)
(***************************************************************************)
EXTENDS Naturals

CONSTANTS Version, Contents, Exclusive

VARIABLES status, contents,
          uses   \* the versions used, each with the contents it was used with

vars == <<status, contents, uses>>

Status == {"absent", "draft", "published", "archived"}
Published == {v \in Version : status[v] = "published"}

TypeOK ==
  /\ status \in [Version -> Status]
  /\ contents \in [Version -> Contents]
  /\ uses \subseteq Version \X Contents

Init ==
  /\ status \in [Version -> {"absent", "published"}]
  /\ Exclusive => \A v, w \in Published : v = w
  /\ contents \in [Version -> Contents]
  /\ uses = {}

Edit(v, c) ==
  /\ status[v] \in {"absent", "draft"}
  /\ status' = [status EXCEPT ![v] = "draft"]
  /\ contents' = [contents EXCEPT ![v] = c]
  /\ UNCHANGED uses

Publish(v) ==
  /\ status[v] = "draft"
  /\ status' = [w \in Version |->
       IF w = v THEN "published"
       ELSE IF Exclusive /\ w \in Published THEN "archived" ELSE status[w]]
  /\ UNCHANGED <<contents, uses>>

Use(v) ==
  /\ status[v] \in {"published", "archived"}
  /\ uses' = uses \cup {<<v, contents[v]>>}
  /\ UNCHANGED <<status, contents>>

Next ==
  \/ \E v \in Version, c \in Contents : Edit(v, c)
  \/ \E v \in Version : Publish(v) \/ Use(v)

Spec == Init /\ [][Next]_vars
===========================================================================
