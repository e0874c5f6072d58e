----------------------------- MODULE Documents -----------------------------
(***************************************************************************)
(* A document record and its versions: uploads, signatures and the          *)
(* registration.  Nothing is locked; whatever changes the record loses if    *)
(* its revision is not the one loaded, so signing and registering are one   *)
(* step.  An upload has stored its file and read the record before it adds  *)
(* the version.  Templates, acknowledgements and the stored files are left   *)
(* out, and signatures that are not "signed", which change nothing else.     *)
(***************************************************************************)
EXTENDS Naturals

CONSTANTS Upload,      \* concurrent uploads
          MaxVersion   \* bound: versions of the record

ASSUME MaxVersionAssumption == MaxVersion \in Nat

VARIABLES record,     \* status, current_version_number and whether it has a registration_number
          immutable,  \* the versions marked so
          signed,     \* the versions a signature was given for
          upload      \* add_version: whether the record still is as it was read

documentVars == <<record, immutable, signed, upload>>

Settled == {"signed", "registered"}

RecordRow == [status : {"draft", "uploaded"} \cup Settled, versions : 0..MaxVersion, registered : BOOLEAN]

\* Versions by number, which is unique in the record.
Version == 1..MaxVersion

\* Signatures with status "signed", by the version they are for.
Signatures == SUBSET Version

DocumentTypeOK ==
  /\ record \in RecordRow
  /\ immutable \subseteq Version /\ signed \in Signatures
  /\ upload \in [Upload -> {"idle", "fresh", "outdated"}]

\* create_record.
DocumentInit ==
  /\ record = [status |-> "draft", versions |-> 0, registered |-> FALSE]
  /\ immutable = {} /\ signed = {}
  /\ upload = [u \in Upload |-> "idle"]

\* The others now hold an old revision.
Outdated == [u \in Upload |-> IF upload[u] = "idle" THEN "idle" ELSE "outdated"]

BeginUpload(u) ==
  /\ upload[u] = "idle" /\ record.status \notin Settled
  /\ upload' = [upload EXCEPT ![u] = "fresh"]
  /\ UNCHANGED <<record, immutable, signed>>

\* Slip: the revision that was read is not compared.
AddVersionAnyway(u) ==
  /\ upload[u] \in {"fresh", "outdated"} /\ record.versions < MaxVersion
  /\ record' = [record EXCEPT !.status = "uploaded", !.versions = @ + 1]
  /\ upload' = [Outdated EXCEPT ![u] = "idle"]
  /\ UNCHANGED <<immutable, signed>>

AddVersion(u) ==
  /\ upload[u] = "fresh" /\ record.versions < MaxVersion
  /\ record' = [record EXCEPT !.status = "uploaded", !.versions = @ + 1]
  /\ upload' = [Outdated EXCEPT ![u] = "idle"]
  /\ UNCHANGED <<immutable, signed>>

\* The file is deleted again.
FailUpload(u) ==
  /\ upload[u] # "idle"
  /\ upload' = [upload EXCEPT ![u] = "idle"]
  /\ UNCHANGED <<record, immutable, signed>>

\* register asks neither for a status nor for a version.
Register ==
  /\ record' = [record EXCEPT !.status = "registered", !.registered = TRUE]
  /\ immutable' = 1..record.versions
  /\ upload' = Outdated
  /\ UNCHANGED signed

\* signature with status "signed", for the newest version, whatever the document's status.
Sign ==
  /\ record.versions > 0
  /\ record' = [record EXCEPT !.status = "signed"]
  /\ immutable' = immutable \cup {record.versions}
  /\ signed' = signed \cup {record.versions}
  /\ upload' = Outdated

DocumentNext ==
  \/ \E u \in Upload : BeginUpload(u) \/ AddVersion(u) \/ FailUpload(u)
  \/ Register \/ Sign

DocumentSpec == DocumentInit /\ [][DocumentNext]_documentVars

---------------------------------------------------------------------------
(* Properties *)

\* Signing and registering settle the content: the signed version stays the newest one, every
\* version of a registered document is immutable, and an upload that was under way when the
\* document was settled adds nothing (add_version against register and signature).
SettledContentStands ==
  /\ \A v \in signed : v = record.versions /\ v \in immutable
  /\ record.registered => record.status \in Settled /\ immutable = 1..record.versions
===========================================================================
