----------------------------- MODULE CvLibrary ------------------------------
(***************************************************************************)
(* From an uploaded file to the versions of a CV (services/product_cv.py). *)
(*                                                                         *)
(* A scan of a readable file becomes a draft; editors change the draft     *)
(* under optimistic revisions; confirming it makes a version, the active   *)
(* one of its CV.  A draft may also be taken from an old version.  The     *)
(* handlers read the scan or the CV before they lock or write: those that  *)
(* decide from what they read have two steps here.  The extraction of a    *)
(* scan is one step; TaskLease has its leases.                             *)
(***************************************************************************)
EXTENDS FileUpload, Sequences

CONSTANTS
  Scan,         \* scans; the first is created from the file
  Cv,           \* CVs
  Editor,       \* calls of update_draft, and of confirm, set_active, archive
  NoCv,         \* a scan that has no CV yet
  Text,         \* contents a draft can have; the checksum tells them apart
  MaxRevision   \* bound of edits of a draft

ASSUME CvAssumption == NoCv \notin Cv /\ MaxRevision \in Nat \ {0}

VARIABLES
  scan,         \* status and CV of each scan
  draft,        \* its draft
  cv,           \* status and active version of each CV
  versions,     \* the versions of each CV, in order of their number
  client        \* what each client has seen, and how far its call has come

cvVars == <<scan, draft, cv, versions, client>>
libraryVars == <<fileVars, cvVars>>

NoDraft == [revision |-> 0, text |-> Absent]
Away == [at |-> "away", scan |-> Absent, seen |-> NoDraft, cv |-> NoCv, want |-> 0]

LibraryInit ==
  /\ FileInit
  /\ scan = [s \in Scan |-> [status |-> "none", cv |-> NoCv]]
  /\ draft = [s \in Scan |-> NoDraft]
  /\ cv = [c \in Cv |-> [status |-> "none", active |-> 0]]
  /\ versions = [c \in Cv |-> <<>>]
  /\ client = [e \in Editor |-> Away]

-----------------------------------------------------------------------------
(* Scans. *)

NewScan(s) == s \in Scan /\ scan[s].status = "none"

\* create_scan: one scan of a file and schema; a second call returns it.
CreateScan(s) ==
  /\ Readable /\ NewScan(s)
  /\ \A t \in Scan : scan[t].status = "none"
  /\ scan' = [scan EXCEPT ![s] = [status |-> "queued", cv |-> NoCv]]
  /\ UNCHANGED <<fileVars, draft, cv, versions, client>>

\* The worker: a draft, or a failure.
Extract(s) ==
  /\ scan[s].status = "queued"
  /\ \/ /\ Readable
        /\ scan' = [scan EXCEPT ![s].status = "draft_ready"]
        /\ \E t \in Text : draft' = [draft EXCEPT ![s] = [revision |-> 1, text |-> t]]
     \/ scan' = [scan EXCEPT ![s].status = "extraction_failed"] /\ UNCHANGED draft
  /\ UNCHANGED <<fileVars, cv, versions, client>>

\* retry_scan: a new scan, as often as the old one is retried.
RetryScan(s, old) ==
  /\ NewScan(s) /\ scan[old].status = "extraction_failed"
  /\ scan' = [scan EXCEPT ![s] = [status |-> "queued", cv |-> scan[old].cv]]
  /\ UNCHANGED <<fileVars, draft, cv, versions, client>>

\* create_version_draft: the text of a version of an active CV.
DraftFromVersion(s, c, n) ==
  /\ NewScan(s) /\ cv[c].status = "active" /\ n \in DOMAIN versions[c]
  /\ scan' = [scan EXCEPT ![s] = [status |-> "draft_ready", cv |-> c]]
  /\ draft' = [draft EXCEPT ![s] = [revision |-> 1, text |-> versions[c][n].text]]
  /\ UNCHANGED <<fileVars, cv, versions, client>>

-----------------------------------------------------------------------------
(* Drafts. *)

\* get_draft, the revision and checksum a client will refer to; of a confirmed
\* draft he can only read them.
Look(e, s) ==
  /\ client[e].at = "away"
  /\ scan[s].status = "draft_ready"
  /\ client' = [client EXCEPT ![e] = [Away EXCEPT !.at = "looked", !.scan = s, !.seen = draft[s]]]
  /\ UNCHANGED <<fileVars, scan, draft, cv, versions>>

\* update_draft reads the scan without a lock ...
BeginEdit(e) ==
  /\ client[e].at = "looked" /\ scan[client[e].scan].status = "draft_ready"
  /\ client' = [client EXCEPT ![e].at = "editing"]
  /\ UNCHANGED <<fileVars, scan, draft, cv, versions>>

\* Fault: the revision is not compared.
AnyRevision(e, s) == TRUE

SameRevision(e, s) == draft[s].revision = client[e].seen.revision

\* ... and compares the revision under the lock of the draft.
EndEdit(e) ==
  LET s == client[e].scan IN
  /\ client[e].at = "editing"
  /\ IF SameRevision(e, s)
     THEN /\ draft[s].revision < MaxRevision
          /\ \E t \in Text : draft' = [draft EXCEPT ![s] = [revision |-> @.revision + 1, text |-> t]]
     ELSE UNCHANGED draft
  /\ client' = [client EXCEPT ![e] = Away]
  /\ UNCHANGED <<fileVars, scan, cv, versions>>

-----------------------------------------------------------------------------
(* Versions. *)

Confirmable(s) == scan[s].status = "draft_ready"

\* Fault: that the client has seen the draft once is enough.
SeenOnce(e, s) == client[e].seen.revision > 0

SeenDraft(e, s) == client[e].seen = draft[s]

NextNumber(c) == Len(versions[c]) + 1

\* confirm holds the scan, the draft and the CV.
Confirm(e) ==
  LET s == client[e].scan IN
  /\ client[e].at = "looked" /\ Confirmable(s) /\ SeenDraft(e, s)
  /\ \E c \in Cv :
       /\ IF scan[s].cv = NoCv THEN cv[c].status = "none"
                               ELSE c = scan[s].cv /\ cv[c].status = "active"
       /\ versions' = [versions EXCEPT ![c] = Append(@, [scan |-> s, text |-> draft[s].text,
                                                         seen |-> client[e].seen.text])]
       /\ cv' = [cv EXCEPT ![c] = [status |-> "active", active |-> NextNumber(c)]]
       /\ scan' = [scan EXCEPT ![s] = [status |-> "confirmed", cv |-> c]]
  /\ client' = [client EXCEPT ![e] = Away]
  /\ UNCHANGED <<fileVars, draft>>

\* set_active_version and archive read the CV without a lock and write what
\* they change: the session writes no column that keeps the value it read.
BeginChange(e, c, n) ==
  /\ client[e].at = "away" /\ cv[c].status # "none"
  /\ n = 0 \/ (n \in DOMAIN versions[c] /\ cv[c].status = "active")
  /\ client' = [client EXCEPT ![e] = [Away EXCEPT !.at = "changing", !.cv = c, !.want = n,
                                                  !.seen = [revision |-> cv[c].active,
                                                            text |-> cv[c].status]]]
  /\ UNCHANGED <<fileVars, scan, draft, cv, versions>>

EndChange(e) ==
  LET c == client[e].cv
      read == client[e].seen
      want == client[e].want
  IN
  /\ client[e].at = "changing"
  /\ cv' = [cv EXCEPT ![c] =
       [status |-> IF want = 0 /\ read.text # "archived" THEN "archived" ELSE @.status,
        active |-> IF want # read.revision THEN want ELSE @.active]]
  /\ client' = [client EXCEPT ![e] = Away]
  /\ UNCHANGED <<fileVars, scan, draft, versions>>

LibraryNext ==
  \/ FileNext /\ UNCHANGED cvVars
  \/ \E s \in Scan : \/ CreateScan(s) \/ Extract(s)
                     \/ \E old \in Scan : RetryScan(s, old)
                     \/ \E c \in Cv : \E n \in DOMAIN versions[c] : DraftFromVersion(s, c, n)
  \/ \E e \in Editor : \/ \E s \in Scan : Look(e, s)
                       \/ BeginEdit(e) \/ EndEdit(e) \/ Confirm(e)
                       \/ \E c \in Cv : \E n \in 0 .. Len(versions[c]) : BeginChange(e, c, n)
                       \/ EndChange(e)

LibrarySpec == LibraryInit /\ [][LibraryNext]_libraryVars

-----------------------------------------------------------------------------
(* Properties. *)

\* Every row and every client has its type.
LibraryTypeOK ==
  /\ FileTypeOK
  /\ scan \in [Scan -> [status: {"none", "queued", "draft_ready", "extraction_failed", "confirmed"},
                        cv: Cv \cup {NoCv}]]
  /\ draft \in [Scan -> [revision: 0 .. MaxRevision, text: Text \cup {Absent}]]
  /\ \A c \in Cv : cv[c].status \in {"none", "active", "archived"}
                   /\ cv[c].active \in 0 .. Len(versions[c])
  /\ client \in [Editor -> [at: {"away", "looked", "editing", "changing"}, scan: Scan \cup {Absent},
                            seen: [revision: Nat, text: Text \cup {Absent, "active", "archived"}],
                            cv: Cv \cup {NoCv}, want: Nat]]

\* No edit is lost: whoever changes a draft has seen the text he replaces, with
\* any number of editors between his look and his write.
NoLostEdit ==
  [][\A s \in Scan : draft'[s] # draft[s] =>
       draft[s] = NoDraft \/ \E e \in Editor : client[e].scan = s /\ client[e].seen = draft[s]
                                               /\ client'[e] = Away]_libraryVars

\* A version has the text its user saw when he confirmed it, although the draft
\* was edited meanwhile, and a scan becomes one version at most, whichever calls
\* confirm it.
VersionsConfirmed ==
  /\ \A c \in Cv : \A n \in DOMAIN versions[c] : versions[c][n].text = versions[c][n].seen
  /\ \A c, d \in Cv : \A n \in DOMAIN versions[c], m \in DOMAIN versions[d] :
       versions[c][n].scan = versions[d][m].scan => c = d /\ n = m
=============================================================================
