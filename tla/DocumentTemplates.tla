------------------------ MODULE DocumentTemplates ------------------------
(***************************************************************************)
(* The versions of one document template, the records bound to them and     *)
(* the documents generated.  A version's file never changes, so it is its   *)
(* number.  Publication collects the versions published so far and archives *)
(* them in the transaction that publishes; only the revisions of the rows   *)
(* it writes keep two publications apart.                                   *)
(***************************************************************************)
EXTENDS Naturals, Sequences, SequencesExt

CONSTANTS Publisher, Document, MaxTemplate   \* bound: versions of the template

ASSUME MaxTemplateAssumption == MaxTemplate \in Nat \ {0}

VARIABLES template,   \* the versions by number: status and revision
          bound,      \* the template version each document record names, 0 without a record
          generated,  \* the template versions documents were generated from
          publisher   \* what a request has read: the version and the rows it will write

templateVars == <<template, bound, generated, publisher>>

Template == 1..MaxTemplate
MaxTemplateRevision == 3
Resting == [op |-> "idle", version |-> 0, seen |-> <<>>]

TemplateTypeOK ==
  /\ template \in BoundedSeq([status : {"draft", "published", "archived"},
                              revision : 1..MaxTemplateRevision], MaxTemplate)
  /\ bound \in [Document -> 0..MaxTemplate]
  /\ generated \subseteq Template
  /\ \A x \in Publisher : publisher[x].op \in {"idle", "publish", "archive", "generate"}

\* The state after the first publication.
TemplateInit ==
  /\ template = <<[status |-> "published", revision |-> 2]>>
  /\ bound = [d \in Document |-> 0]
  /\ generated = {}
  /\ publisher = [x \in Publisher |-> Resting]

\* The revisions of some versions, as a request finds them.
Seen(versions) == [v \in versions |-> template[v].revision]

\* add_template_version: the unique number makes one of two drafts at once fail.
AddTemplateVersion ==
  /\ Len(template) < MaxTemplate
  /\ template' = Append(template, [status |-> "draft", revision |-> 1])
  /\ UNCHANGED <<bound, generated, publisher>>

BeginPublishTemplate(x, v) ==
  /\ publisher[x] = Resting /\ template[v].status = "draft"
  /\ publisher' = [publisher EXCEPT ![x] = [op |-> "publish", version |-> v, seen |-> Seen({v})]]
  /\ UNCHANGED <<template, bound, generated>>

CollectPublished(x) ==
  /\ publisher[x].op = "publish"
  /\ LET own == publisher[x].seen
         old == {v \in DOMAIN template : template[v].status = "published"}
     IN publisher' = [publisher EXCEPT ![x].op = "archive",
          ![x].seen = [v \in old \cup DOMAIN own |-> IF v \in DOMAIN own THEN own[v] ELSE Seen(old)[v]]]
  /\ UNCHANGED <<template, bound, generated>>

\* Slip: the published versions are archived by one statement, which compares no revision.
CommitPublishOwnRow(x) ==
  LET p == publisher[x] IN
  /\ p.op = "archive" /\ template[p.version].revision = p.seen[p.version]
  /\ template' = [v \in DOMAIN template |->
       IF v \in DOMAIN p.seen
       THEN [status |-> IF v = p.version THEN "published" ELSE "archived", revision |-> p.seen[v] + 1]
       ELSE template[v]]
  /\ publisher' = [publisher EXCEPT ![x] = Resting]
  /\ UNCHANGED <<bound, generated>>

\* Every row that was read is written, and has the revision that was read.
CommitPublishTemplate(x) ==
  LET p == publisher[x] IN
  /\ p.op = "archive"
  /\ \A v \in DOMAIN p.seen : template[v].revision = p.seen[v]
  /\ template' = [v \in DOMAIN template |->
       IF v \in DOMAIN p.seen
       THEN [status |-> IF v = p.version THEN "published" ELSE "archived", revision |-> p.seen[v] + 1]
       ELSE template[v]]
  /\ publisher' = [publisher EXCEPT ![x] = Resting]
  /\ UNCHANGED <<bound, generated>>

\* create_record takes any template version, a draft too.
CreateRecord(d, v) ==
  /\ bound[d] = 0
  /\ bound' = [bound EXCEPT ![d] = v]
  /\ UNCHANGED <<template, generated, publisher>>

\* generate reads the template in one transaction and adds the document in
\* another; the template may be archived in between.
BeginGenerate(x, d) ==
  /\ publisher[x] = Resting /\ bound[d] # 0 /\ template[bound[d]].status = "published"
  /\ publisher' = [publisher EXCEPT ![x] = [op |-> "generate", version |-> bound[d], seen |-> <<>>]]
  /\ UNCHANGED <<template, bound, generated>>

CommitGenerate(x) ==
  /\ publisher[x].op = "generate"
  /\ generated' = generated \cup {publisher[x].version}
  /\ publisher' = [publisher EXCEPT ![x] = Resting]
  /\ UNCHANGED <<template, bound>>

FailTemplate(x) ==
  /\ publisher[x] # Resting
  /\ publisher' = [publisher EXCEPT ![x] = Resting]
  /\ UNCHANGED <<template, bound, generated>>

TemplateNext ==
  \/ AddTemplateVersion
  \/ \E d \in Document, v \in DOMAIN template : CreateRecord(d, v)
  \/ \E x \in Publisher :
       \/ \E v \in DOMAIN template : BeginPublishTemplate(x, v)
       \/ \E d \in Document : BeginGenerate(x, d)
       \/ CollectPublished(x) \/ CommitPublishTemplate(x) \/ CommitGenerate(x) \/ FailTemplate(x)

TemplateSpec == TemplateInit /\ [][TemplateNext]_templateVars

---------------------------------------------------------------------------
(* Properties *)

TemplateLibrary == INSTANCE PublishedVersions WITH
  Version <- Template, Contents <- Template, Exclusive <- TRUE,
  status <- [v \in Template |-> IF v \in DOMAIN template THEN template[v].status ELSE "absent"],
  contents <- [v \in Template |-> v],
  uses <- {<<v, v>> : v \in generated}

\* Concurrent publications leave one published version of a template, an archived
\* one never returns, and no document is generated from what was never published
\* (publish_template_version against generate).
OneTemplateIsPublished == TemplateLibrary!Spec
===========================================================================
