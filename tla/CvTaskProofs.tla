---------------------------- MODULE CvTaskProofs ----------------------------
(***************************************************************************)
(* A CV and the tasks that work on it (the two specifications share no     *)
(* state).                                                                 *)
(*                                                                         *)
(* The task, for any number of workers and messages, and for each of the   *)
(* three resources: processing under a lease implements a leased task, and *)
(* an analysis is charged exactly when it has a result.  The invariant     *)
(* needs two facts that the code nowhere states: a resource with a result  *)
(* has no lease, and a failed one that still has a lease was timed out, so *)
(* its reservation is released.                                            *)
(*                                                                         *)
(* The CV, for any number of calls, clients, scans and CVs: a readable     *)
(* file gives what was checked, a version has the text its user saw, and   *)
(* no edit of a draft is lost.  Nothing here is locked from the look to    *)
(* the write.  What makes it right is that a clean key has one writer,     *)
(* that a draft is only written again with a higher revision, and that a   *)
(* confirmed scan stays confirmed.                                         *)
(***************************************************************************)
EXTENDS TaskLease, CvLibrary, SequenceTheorems, TLAPS

-----------------------------------------------------------------------------
(* The task. *)

ResultHasNoLease == status = Done => lease = NoTask

TimedOutIsReleased == status = Failed /\ lease # NoTask => charge = "released"

IInv == TypeOK /\ ChargedIffDone /\ ResultHasNoLease /\ TimedOutIsReleased

LEMMA InitIInv == Init => IInv
<1> SUFFICES ASSUME Init PROVE IInv
  OBVIOUS
<1>1. exec \in [Worker -> {Idle} \cup Busy]
  BY DEF Init
<1>2. charge \in IF Billed THEN {"held", "captured", "released"} ELSE {"none"}
  BY TaskAssumption DEF Init
<1>3. status \in {Waiting, Active, Done, Failed} /\ lease \in TaskId \cup {NoTask} /\ aged \in BOOLEAN
  BY DEF Init
<1>4. event \in {"missing", "due", "backoff", "published"} /\ queued \in SUBSET TaskId /\ faults \in 0 .. MaxFaults
  BY TaskAssumption DEF Init
<1>5. TypeOK
  BY <1>1, <1>2, <1>3, <1>4 DEF TypeOK
<1>6. ChargedIffDone /\ ResultHasNoLease /\ TimedOutIsReleased
  BY TaskAssumption DEF Init, ChargedIffDone, ResultHasNoLease, TimedOutIsReleased
<1> QED
  BY <1>5, <1>6 DEF IInv

LEMMA StopKeepsType ==
  ASSUME TypeOK, NEW w \in Worker, Stop(w)
  PROVE  exec' \in [Worker -> {Idle} \cup Busy]
BY DEF TypeOK, Stop

\* An execution that owns the resource has a lease that is a task, and the
\* resource has no result yet.
LEMMA OwnerHasLease ==
  ASSUME IInv, NEW w \in Worker, exec[w].phase \in {"received", "calling"}, Owns(w)
  PROVE  lease \in TaskId /\ lease # NoTask /\ status # Done
BY TaskAssumption DEF IInv, TypeOK, ResultHasNoLease, Owns, Idle, Busy

LEMMA IInvInductive == IInv /\ [Next]_vars => IInv'
<1> SUFFICES ASSUME IInv, [Next]_vars PROVE IInv'
  OBVIOUS
<1> USE DEF IInv, ChargedIffDone, ResultHasNoLease, TimedOutIsReleased
<1>1. CASE Sent \/ SentUncommitted \/ Refused \/ BackoffEnds
  BY <1>1, TaskAssumption DEF Sent, SentUncommitted, Refused, BackoffEnds, TypeOK, FreshIds, Fault
<1>2. ASSUME NEW w \in Worker, Deliver(w) PROVE IInv'
  BY <1>2 DEF Deliver, TypeOK, Busy
<1>3. ASSUME NEW w \in Worker, Redeliver(w) PROVE IInv'
  BY <1>3 DEF Redeliver, TypeOK, Busy, Idle
<1>4. ASSUME NEW w \in Worker, Claim(w) PROVE IInv'
  <2>1. exec[w] \in Busy /\ exec[w].task \in TaskId
    BY <1>4 DEF Claim, TypeOK, Busy, Idle
  <2>2. exec' \in [Worker -> {Idle} \cup Busy]
    BY <1>4, <2>1, StopKeepsType DEF Claim, TypeOK, Busy, Idle
  <2>3. CASE status \in Startable /\ Claimable(exec[w].task)
    <3>1. status # Done /\ status' = Active /\ lease' \in TaskId /\ aged' = FALSE
      BY <1>4, <2>1, <2>3, TaskAssumption DEF Claim
    <3>2. UNCHANGED <<charge, event, queued, faults>>
      BY <1>4 DEF Claim
    <3>3. TypeOK'
      BY <2>2, <3>1, <3>2 DEF TypeOK
    <3>4. ChargedIffDone' /\ ResultHasNoLease' /\ TimedOutIsReleased'
      BY <3>1, <3>2, TaskAssumption
    <3> QED
      BY <3>3, <3>4
  <2>4. CASE ~(status \in Startable /\ Claimable(exec[w].task))
    BY <1>4, <2>2, <2>4 DEF Claim, TypeOK
  <2> QED
    BY <2>3, <2>4
<1>5. ASSUME NEW w \in Worker, Discard(w) PROVE IInv'
  BY <1>5, StopKeepsType DEF Discard, TypeOK
<1>6. ASSUME NEW w \in Worker, Complete(w) PROVE IInv'
  <2>1. lease # NoTask /\ status # Done
    BY <1>6, OwnerHasLease DEF Complete
  <2> QED
    BY <1>6, <2>1, StopKeepsType, TaskAssumption DEF Complete, TypeOK, Capturable, Captured
<1>7. ASSUME NEW w \in Worker, Fail(w) PROVE IInv'
  <2>1. lease # NoTask /\ status # Done
    BY <1>7, OwnerHasLease DEF Fail
  <2> QED
    BY <1>7, <2>1, StopKeepsType, TaskAssumption DEF Fail, TypeOK, Released
<1>8. ASSUME NEW w \in Worker, FailUnclaimed(w) PROVE IInv'
  <2>1. Owns(w) => lease # NoTask /\ status # Done
    BY <1>8, OwnerHasLease DEF FailUnclaimed
  <2>2. exec' \in [Worker -> {Idle} \cup Busy] /\ faults' \in 0 .. MaxFaults
    BY <1>8, StopKeepsType, TaskAssumption DEF FailUnclaimed, Fault, TypeOK
  <2>3. CASE Owns(w)
    <3>1. status' = Failed /\ lease' = NoTask /\ aged' = FALSE /\ charge' = Released(charge)
      BY <1>8, <2>3 DEF FailUnclaimed
    <3>2. charge' # "captured" /\ charge' \in IF Billed THEN {"held", "captured", "released"} ELSE {"none"}
      BY <2>1, <2>3, <3>1 DEF Released, TypeOK
    <3>3. TypeOK'
      BY <1>8, <2>2, <3>1, <3>2 DEF FailUnclaimed, TypeOK
    <3> QED
      BY <3>1, <3>2, <3>3, TaskAssumption
  <2>4. CASE ~Owns(w)
    BY <1>8, <2>2, <2>4 DEF FailUnclaimed, TypeOK
  <2> QED
    BY <2>3, <2>4
<1>9. ASSUME NEW w \in Worker, Crash(w) PROVE IInv'
  BY <1>9, StopKeepsType, TaskAssumption DEF Crash, Fault, TypeOK, Busy, Idle
<1>10. CASE Age
  BY <1>10 DEF Age, TypeOK
<1>11. CASE RecoverStalled
  BY <1>11, TaskAssumption DEF RecoverStalled, RecoveredEvent, TypeOK
<1>12. CASE Reconcile
  BY <1>12, TaskAssumption DEF Reconcile, TimedOut, TypeOK
<1>13. CASE UNCHANGED vars
  BY <1>13 DEF vars, TypeOK
<1> QED
  BY <1>1, <1>2, <1>3, <1>4, <1>5, <1>6, <1>7, <1>8, <1>9, <1>10, <1>11, <1>12, <1>13 DEF Next

LEMMA AlwaysIInv == Spec => []IInv
BY InitIInv, IInvInductive, PTL DEF Spec

-----------------------------------------------------------------------------

\* Every row, message and worker keeps its type.
THEOREM TypeCorrect == Spec => []TypeOK
BY AlwaysIInv, PTL DEF IInv

\* A CV analysis is charged exactly when it has a result: no delivery, crash,
\* recovery or reconciliation charges a failure or gives a result away.
THEOREM ChargedExactlyForResults == Spec => []ChargedIffDone
BY AlwaysIInv, PTL DEF IInv

LEMMA InitImplements == Init => Abstract!Init
BY TaskAssumption DEF Init, Abstract!Init, State

LEMMA StepImplements ==
  ASSUME IInv, [Next]_vars
  PROVE  [Abstract!Next]_<<State, lease>>
<1>1. CASE UNCHANGED <<status, lease>>
  BY <1>1 DEF State
<1>2. ASSUME NEW w \in Worker, Claim(w), ~UNCHANGED <<status, lease>>
      PROVE  Abstract!Next
  <2>1. exec[w].task \in TaskId
    BY <1>2 DEF Claim, IInv, TypeOK, Busy, Idle
  <2>2. Abstract!Take(exec[w].task)
    BY <1>2, <2>1, TaskAssumption DEF Claim, Stop, Abstract!Take, State
  <2> QED
    BY <2>1, <2>2 DEF Abstract!Next
<1>3. ASSUME NEW w \in Worker, Complete(w)
      PROVE  Abstract!Next
  <2>1. lease \in TaskId /\ lease # NoTask /\ status # Done
    BY <1>3, OwnerHasLease DEF Complete
  <2>2. status # Failed
    BY <1>3, <2>1 DEF Complete, Capturable, IInv, TimedOutIsReleased
  <2>3. Abstract!Finish(lease)
    BY <1>3, <2>1, <2>2 DEF Complete, Abstract!Finish, State
  <2> QED
    BY <2>1, <2>3 DEF Abstract!Next
<1>4. ASSUME NEW w \in Worker, Fail(w) \/ (FailUnclaimed(w) /\ Owns(w))
      PROVE  Abstract!Next
  <2>1. lease \in TaskId /\ lease # NoTask /\ status # Done
    BY <1>4, OwnerHasLease DEF Fail, FailUnclaimed
  <2>2. status' = Failed /\ lease' = NoTask
    BY <1>4 DEF Fail, FailUnclaimed
  <2>3. Abstract!Finish(lease)
    BY <2>1, <2>2, TaskAssumption DEF Abstract!Finish, State
  <2> QED
    BY <2>1, <2>3 DEF Abstract!Next
<1>5. CASE RecoverStalled
  BY <1>5, TaskAssumption DEF RecoverStalled, Abstract!Next, Abstract!PutBack, State
<1>6. CASE Reconcile
  <2>1. status # Done
    BY <1>6 DEF Reconcile, IInv, ChargedIffDone, TypeOK
  <2> QED
    BY <1>6, <2>1, TaskAssumption
      DEF Reconcile, TimedOut, Abstract!Next, Abstract!GiveUp, State, IInv, TypeOK
<1> QED
  BY <1>1, <1>2, <1>3, <1>4, <1>5, <1>6
    DEF Next, Sent, SentUncommitted, Refused, BackoffEnds, Deliver, Redeliver, Discard,
        FailUnclaimed, Crash, Age, vars

\* Processing under a lease implements a leased task: the result comes from
\* the execution that took the resource last, and is never replaced.
THEOREM ImplementsLeasedTask == Spec => IsLeasedTask
BY AlwaysIInv, InitImplements, StepImplements, PTL DEF Spec, IsLeasedTask, Abstract!Spec

-----------------------------------------------------------------------------
(* The file. *)

\* A call past the checks has read clean content, and its clean object is
\* written before the row names it.
ChecksPassed ==
  /\ \A c \in Call : call[c].at = "stored" => store[c] = "clean" /\ declared = "clean"
  /\ Readable => file.key \in Call

FileInv == FileTypeOK /\ ChecksPassed /\ ReadableIsChecked

-----------------------------------------------------------------------------
(* Scans, drafts and versions. *)

ScanRow == [status: {"none", "queued", "draft_ready", "extraction_failed", "confirmed"},
            cv: Cv \cup {NoCv}]
DraftRow == [revision: 0 .. MaxRevision, text: Text \cup {Absent}]
ClientRow == [at: {"away", "looked", "editing", "changing"}, scan: Scan \cup {Absent},
              seen: [revision: Nat, text: Text \cup {Absent, "active", "archived"}],
              cv: Cv \cup {NoCv}, want: Nat]
Version == [scan: Scan, text: Text \cup {Absent}, seen: Text \cup {Absent, "active", "archived"}]

LibraryOK ==
  /\ scan \in [Scan -> ScanRow]
  /\ draft \in [Scan -> DraftRow]
  /\ cv \in [Cv -> [status: {"none", "active", "archived"}, active: Nat]]
  /\ versions \in [Cv -> Seq(Version)]
  /\ client \in [Editor -> ClientRow]

\* The active version exists, and so does the one a client wants to activate.
ActiveExists ==
  /\ \A c \in Cv : cv[c].active <= Len(versions[c])
  /\ \A e \in Editor : client[e].at = "changing" =>
       client[e].cv \in Cv /\ client[e].want <= Len(versions[client[e].cv])

\* A scan has a draft only once it was extracted.
DraftOfScan ==
  \A s \in Scan : scan[s].status \in {"none", "queued", "extraction_failed"} => draft[s] = NoDraft

\* What a client has seen of a draft is the draft as it is now or an earlier
\* revision of it.
SeenBefore ==
  \A e \in Editor : client[e].at \in {"looked", "editing"} =>
    LET s == client[e].scan IN
    /\ s \in Scan /\ scan[s].status \in {"draft_ready", "confirmed"}
    /\ client[e].seen.revision <= draft[s].revision
    /\ client[e].seen.revision = draft[s].revision => client[e].seen = draft[s]

\* The scan of a version is confirmed.
VersionOfConfirmed ==
  \A c \in Cv : \A n \in DOMAIN versions[c] : scan[versions[c][n].scan].status = "confirmed"

LibraryInv ==
  LibraryOK /\ ActiveExists /\ DraftOfScan /\ SeenBefore /\ VersionOfConfirmed /\ VersionsConfirmed

USE DEF ScanRow, DraftRow, ClientRow

-----------------------------------------------------------------------------
(* The file is right. *)

LEMMA InitFileInv == LibraryInit => FileInv
BY FileAssumption
  DEF LibraryInit, FileInit, NotCalled, Staging, FileInv, FileTypeOK, ChecksPassed, ReadableIsChecked,
      Readable, Content

LEMMA FileInvInductive ==
  ASSUME FileInv, FileNext \/ UNCHANGED fileVars
  PROVE  FileInv'
<1> USE DEF FileInv, FileTypeOK, ChecksPassed, ReadableIsChecked, Readable
<1>1. CASE Put
  <2>1. PICK c \in {declared, "other"} : store' = [store EXCEPT ![Staging] = c]
    BY <1>1 DEF Put
  <2>2. c \in Content
    BY DEF Content
  <2>3. store' \in [Call \cup {Staging} -> Content \cup {Absent}] /\ \A k \in Call : store'[k] = store[k]
    BY <2>1, <2>2, FileAssumption
  <2> QED
    BY <1>1, <2>3 DEF Put
<1>2. CASE Expire
  BY <1>2 DEF Expire
<1>3. ASSUME NEW c \in Call, Begin(c) PROVE FileInv'
  BY <1>3 DEF Begin, At, GoTo
<1>4. ASSUME NEW c \in Call, ReadObject(c) PROVE FileInv'
  BY <1>4 DEF ReadObject, NotCalled, At
<1>5. ASSUME NEW c \in Call, Reject(c) PROVE FileInv'
  BY <1>5 DEF Reject, At, GoTo
<1>6. ASSUME NEW c \in Call, StoreClean(c) PROVE FileInv'
  BY <1>6 DEF StoreClean, CleanKey, Passes, At, GoTo
<1>7. ASSUME NEW c \in Call, Accept(c) PROVE FileInv'
  BY <1>7 DEF Accept, CleanKey, At, GoTo
<1>8. ASSUME NEW c \in Call, DeleteStaging(c) PROVE FileInv'
  BY <1>8, FileAssumption DEF DeleteStaging, At, GoTo
<1>9. ASSUME NEW c \in Call, GiveUp(c) PROVE FileInv'
  BY <1>9 DEF GiveUp, NotCalled
<1>10. CASE UNCHANGED fileVars
  BY <1>10 DEF fileVars
<1> QED
  BY <1>1, <1>2, <1>3, <1>4, <1>5, <1>6, <1>7, <1>8, <1>9, <1>10 DEF FileNext

\* A readable file gives what was declared, checked and found clean.
THEOREM FilesAreChecked == LibrarySpec => []ReadableIsChecked
<1>1. FileInv /\ [LibraryNext]_libraryVars => FileInv'
  BY FileInvInductive
    DEF LibraryNext, libraryVars, CreateScan, Extract, RetryScan, DraftFromVersion, Look, BeginEdit, EndEdit,
        Confirm, BeginChange, EndChange
<1>2. FileInv => ReadableIsChecked
  BY DEF FileInv
<1> QED
  BY InitFileInv, <1>1, <1>2, PTL DEF LibrarySpec

-----------------------------------------------------------------------------
(* Versions and edits are right. *)

LEMMA InitLibraryInv == LibraryInit => LibraryInv
<1> SUFFICES ASSUME LibraryInit PROVE LibraryInv
  OBVIOUS
<1>1. LibraryOK
  <2>1. versions \in [Cv -> Seq(Version)]
    BY EmptySeq DEF LibraryInit
  <2> QED
    BY <2>1, CvAssumption DEF LibraryInit, LibraryOK, NoDraft, Away
<1>2. \A c \in Cv : Len(versions[c]) = 0 /\ DOMAIN versions[c] = {}
  BY EmptySeq DEF LibraryInit
<1>3. ActiveExists /\ VersionOfConfirmed /\ VersionsConfirmed
  BY <1>2 DEF LibraryInit, ActiveExists, VersionOfConfirmed, VersionsConfirmed, Away
<1>4. DraftOfScan /\ SeenBefore
  BY DEF LibraryInit, DraftOfScan, SeenBefore, Away
<1> QED
  BY <1>1, <1>3, <1>4 DEF LibraryInv

\* A step that changes scans, and gives a draft to scans that have none.
LEMMA ScansGoOn ==
  ASSUME LibraryInv, UNCHANGED <<cv, versions, client>>,
         scan' \in [Scan -> ScanRow],
         draft' \in [Scan -> DraftRow],
         \A s \in Scan : (scan'[s].status = scan[s].status /\ draft'[s] = draft[s])
            \/ /\ scan[s].status \in {"none", "queued", "extraction_failed"}
               /\ scan'[s].status \in {"none", "queued", "extraction_failed"} => draft'[s] = NoDraft
  PROVE  LibraryInv'
<1>1. LibraryOK' /\ ActiveExists' /\ VersionsConfirmed'
  BY DEF LibraryInv, LibraryOK, ActiveExists, VersionsConfirmed
<1>2. DraftOfScan'
  BY DEF LibraryInv, DraftOfScan
<1>3. SeenBefore'
  BY DEF LibraryInv, SeenBefore
<1>4. VersionOfConfirmed'
  <2> SUFFICES ASSUME NEW c \in Cv, NEW n \in DOMAIN versions[c]
               PROVE  scan'[versions[c][n].scan].status = "confirmed"
    BY DEF VersionOfConfirmed
  <2>1. versions[c][n] \in Version
    BY ElementOfSeq, LenProperties DEF LibraryInv, LibraryOK
  <2>2. scan[versions[c][n].scan].status = "confirmed" /\ versions[c][n].scan \in Scan
    BY <2>1 DEF LibraryInv, VersionOfConfirmed, Version
  <2> QED
    BY <2>2
<1> QED
  BY <1>1, <1>2, <1>3, <1>4 DEF LibraryInv

\* A step of a client that writes nothing.
LEMMA ClientGoesOn ==
  ASSUME LibraryInv, UNCHANGED <<scan, draft, cv, versions>>, NEW e \in Editor, NEW row,
         client' = [client EXCEPT ![e] = row],
         row \in ClientRow,
         row.at = "changing" => row.cv \in Cv /\ row.want <= Len(versions[row.cv]),
         row.at \in {"looked", "editing"} =>
           /\ row.scan \in Scan /\ scan[row.scan].status \in {"draft_ready", "confirmed"}
           /\ row.seen.revision <= draft[row.scan].revision
           /\ row.seen.revision = draft[row.scan].revision => row.seen = draft[row.scan]
  PROVE  LibraryInv'
<1>1. LibraryOK'
  BY DEF LibraryInv, LibraryOK
<1>2. \A d \in Editor : client'[d] = IF d = e THEN row ELSE client[d]
  BY DEF LibraryInv, LibraryOK
<1>3. ActiveExists'
  BY <1>2 DEF LibraryInv, ActiveExists
<1>4. SeenBefore'
  BY <1>2 DEF LibraryInv, SeenBefore
<1> QED
  BY <1>1, <1>3, <1>4 DEF LibraryInv, DraftOfScan, VersionOfConfirmed, VersionsConfirmed

LEMMA AwayIsAClient ==
  /\ Away \in ClientRow
  /\ Away.at = "away"
BY DEF Away, NoDraft

\* Versions are only added, at the end.
LEMMA ConfirmAppends ==
  ASSUME LibraryOK, NEW c \in Cv, NEW v \in Version,
         versions' = [versions EXCEPT ![c] = Append(@, v)]
  PROVE  /\ versions' \in [Cv -> Seq(Version)]
         /\ Len(versions[c]) \in Nat /\ Len(versions'[c]) = Len(versions[c]) + 1
         /\ \A d \in Cv \ {c} : versions'[d] = versions[d]
         /\ \A n \in DOMAIN versions'[c] :
              \/ n \in DOMAIN versions[c] /\ versions'[c][n] = versions[c][n]
              \/ n = Len(versions[c]) + 1 /\ versions'[c][n] = v
<1>1. versions[c] \in Seq(Version) /\ versions'[c] = Append(versions[c], v)
  BY DEF LibraryOK
<1>2. /\ versions'[c] \in Seq(Version) /\ Len(versions'[c]) = Len(versions[c]) + 1
      /\ \A i \in 1 .. Len(versions[c]) : versions'[c][i] = versions[c][i]
      /\ versions'[c][Len(versions[c]) + 1] = v
  BY <1>1, AppendProperties
<1>3. /\ Len(versions[c]) \in Nat /\ DOMAIN versions[c] = 1 .. Len(versions[c])
      /\ DOMAIN versions'[c] = 1 .. Len(versions'[c])
  BY <1>1, <1>2, LenProperties
<1>4. versions' \in [Cv -> Seq(Version)] /\ \A d \in Cv \ {c} : versions'[d] = versions[d]
  BY <1>2 DEF LibraryOK
<1> QED
  BY <1>2, <1>3, <1>4

LEMMA ConfirmKeeps ==
  ASSUME LibraryInv, NEW e \in Editor, Confirm(e)
  PROVE  LibraryInv'
<1> DEFINE s == client[e].scan
           v == [scan |-> s, text |-> draft[s].text, seen |-> client[e].seen.text]
<1>1. /\ s \in Scan /\ scan[s].status = "draft_ready" /\ client[e].seen = draft[s]
      /\ client' = [client EXCEPT ![e] = Away] /\ draft' = draft
  BY DEF Confirm, Confirmable, SeenDraft, LibraryInv, SeenBefore
<1>2. PICK c \in Cv :
        /\ versions' = [versions EXCEPT ![c] = Append(@, v)]
        /\ cv' = [cv EXCEPT ![c] = [status |-> "active", active |-> NextNumber(c)]]
        /\ scan' = [scan EXCEPT ![s] = [status |-> "confirmed", cv |-> c]]
  BY DEF Confirm
<1>3. v \in Version /\ v.text = v.seen /\ v.scan = s
  BY <1>1 DEF Version, LibraryInv, LibraryOK
<1> HIDE DEF v
<1>4. /\ versions' \in [Cv -> Seq(Version)]
      /\ Len(versions[c]) \in Nat /\ Len(versions'[c]) = Len(versions[c]) + 1
      /\ \A d \in Cv \ {c} : versions'[d] = versions[d]
      /\ \A n \in DOMAIN versions'[c] :
           \/ n \in DOMAIN versions[c] /\ versions'[c][n] = versions[c][n]
           \/ n = Len(versions[c]) + 1 /\ versions'[c][n] = v
  <2>1. LibraryOK
    BY DEF LibraryInv
  <2>2. versions' = [versions EXCEPT ![c] = Append(@, v)] /\ v \in Version
    BY <1>2, <1>3
  <2> QED
    BY <2>1, <2>2, ConfirmAppends, ZenonT(60)
<1>5. \A d \in Editor : client'[d] = IF d = e THEN Away ELSE client[d]
  BY <1>1 DEF LibraryInv, LibraryOK
<1>6. \A t \in Scan : scan'[t] = IF t = s THEN [status |-> "confirmed", cv |-> c] ELSE scan[t]
  BY <1>2 DEF LibraryInv, LibraryOK
<1>7. LibraryOK'
  <2>1. client' \in [Editor -> ClientRow]
    BY <1>1, AwayIsAClient DEF LibraryInv, LibraryOK
  <2>2. cv' \in [Cv -> [status: {"none", "active", "archived"}, active: Nat]]
    BY <1>2, <1>4 DEF LibraryInv, LibraryOK, NextNumber
  <2>3. scan' \in [Scan -> ScanRow]
    BY <1>2 DEF LibraryInv, LibraryOK
  <2> QED
    BY <1>1, <1>4, <2>1, <2>2, <2>3 DEF LibraryInv, LibraryOK
<1>8. ActiveExists'
  <2>1. \A d \in Cv : Len(versions[d]) \in Nat /\ Len(versions[d]) <= Len(versions'[d])
    <3> TAKE d \in Cv
    <3>1. Len(versions[d]) \in Nat
      BY LenProperties DEF LibraryInv, LibraryOK
    <3>2. CASE d = c
      BY <1>4, <3>1, <3>2
    <3>3. CASE d # c
      BY <1>4, <3>1, <3>3
    <3> QED
      BY <3>2, <3>3
  <2>2. \A d \in Cv : cv'[d].active <= Len(versions'[d])
    BY <1>2, <1>4, <2>1 DEF LibraryInv, LibraryOK, ActiveExists, NextNumber
  <2>3. ASSUME NEW d \in Editor, client'[d].at = "changing"
        PROVE  client'[d].cv \in Cv /\ client'[d].want <= Len(versions'[client'[d].cv])
    <3>1. client'[d] = client[d]
      BY <1>5, <2>3, AwayIsAClient
    <3>2. /\ client[d].cv \in Cv /\ client[d].want \in Nat
          /\ client[d].want <= Len(versions[client[d].cv])
          /\ Len(versions'[client[d].cv]) \in Nat
      BY <1>4, <2>3, <3>1, LenProperties DEF LibraryInv, LibraryOK, ActiveExists
    <3> QED
      BY <2>1, <3>1, <3>2
  <2> QED
    BY <2>2, <2>3 DEF ActiveExists
<1>9. DraftOfScan'
  BY <1>1, <1>6 DEF LibraryInv, DraftOfScan
<1>10. SeenBefore'
  BY <1>1, <1>5, <1>6, AwayIsAClient DEF LibraryInv, SeenBefore
<1>11. \A d \in Cv : \A n \in DOMAIN versions[d] : versions[d][n].scan # s
  BY <1>1 DEF LibraryInv, VersionOfConfirmed
<1>12. VersionOfConfirmed'
  <2> SUFFICES ASSUME NEW d \in Cv, NEW n \in DOMAIN versions'[d]
               PROVE  scan'[versions'[d][n].scan].status = "confirmed"
    BY DEF VersionOfConfirmed
  <2>1. CASE n \in DOMAIN versions[d] /\ versions'[d][n] = versions[d][n]
    <3>1. versions[d][n] \in Version
      BY <2>1, ElementOfSeq, LenProperties DEF LibraryInv, LibraryOK
    <3>2. versions[d][n].scan \in Scan /\ scan[versions[d][n].scan].status = "confirmed"
      BY <2>1, <3>1 DEF LibraryInv, VersionOfConfirmed, Version
    <3> QED
      BY <1>1, <1>6, <2>1, <3>2
  <2>2. CASE d = c /\ versions'[d][n] = v
    BY <1>1, <1>3, <1>6, <2>2
  <2> QED
    BY <1>4, <2>1, <2>2
<1>13. VersionsConfirmed'
  <2>1. ASSUME NEW d \in Cv, NEW n \in DOMAIN versions'[d]
        PROVE  \/ n \in DOMAIN versions[d] /\ versions'[d][n] = versions[d][n]
               \/ d = c /\ n = Len(versions[c]) + 1 /\ versions'[d][n] = v
    BY <1>4
  <2>2. \A d \in Cv : \A n \in DOMAIN versions'[d] : versions'[d][n].text = versions'[d][n].seen
    BY <1>3, <2>1 DEF LibraryInv, VersionsConfirmed
  <2>3. \A a, b \in Cv : \A n \in DOMAIN versions'[a], m \in DOMAIN versions'[b] :
          versions'[a][n].scan = versions'[b][m].scan => a = b /\ n = m
    BY <1>3, <1>11, <2>1 DEF LibraryInv, VersionsConfirmed
  <2> QED
    BY <2>2, <2>3 DEF VersionsConfirmed
<1> QED
  BY <1>7, <1>8, <1>9, <1>10, <1>12, <1>13 DEF LibraryInv

LEMMA EndEditKeeps ==
  ASSUME LibraryInv, NEW e \in Editor, EndEdit(e)
  PROVE  LibraryInv'
<1> DEFINE s == client[e].scan
<1>1. s \in Scan /\ scan[s].status \in {"draft_ready", "confirmed"}
  BY DEF EndEdit, LibraryInv, SeenBefore
<1>2. UNCHANGED <<scan, cv, versions>> /\ client' = [client EXCEPT ![e] = Away]
  BY DEF EndEdit
<1>3. \A d \in Editor : client'[d] = IF d = e THEN Away ELSE client[d]
  BY <1>2 DEF LibraryInv, LibraryOK
<1>4. \/ draft' = draft
      \/ /\ draft[s].revision < MaxRevision
         /\ \E t \in Text : draft' = [draft EXCEPT ![s] = [revision |-> draft[s].revision + 1, text |-> t]]
  BY <1>1 DEF EndEdit, LibraryInv, LibraryOK
<1>5. /\ draft' \in [Scan -> DraftRow]
      /\ \A t \in Scan \ {s} : draft'[t] = draft[t]
      /\ draft'[s] = draft[s] \/ draft'[s].revision = draft[s].revision + 1
  <2>1. CASE draft' = draft
    BY <2>1 DEF LibraryInv, LibraryOK
  <2>2. ASSUME NEW t \in Text, draft[s].revision < MaxRevision,
               draft' = [draft EXCEPT ![s] = [revision |-> draft[s].revision + 1, text |-> t]]
        PROVE  /\ draft' \in [Scan -> DraftRow]
               /\ \A u \in Scan \ {s} : draft'[u] = draft[u]
               /\ draft'[s].revision = draft[s].revision + 1
    <3> DEFINE row == [revision |-> draft[s].revision + 1, text |-> t]
    <3>1. row \in DraftRow
      BY <1>1, <2>2, CvAssumption DEF LibraryInv, LibraryOK
    <3>2. row.revision = draft[s].revision + 1
      OBVIOUS
    <3> HIDE DEF row
    <3>3. draft' = [draft EXCEPT ![s] = row]
      BY <2>2 DEF row
    <3> QED
      BY <1>1, <3>1, <3>2, <3>3 DEF LibraryInv, LibraryOK
  <2> QED
    BY <1>4, <2>1, <2>2
<1>6. LibraryOK'
  BY <1>2, <1>5, AwayIsAClient DEF LibraryInv, LibraryOK
<1>7. ActiveExists'
  BY <1>2, <1>3, AwayIsAClient DEF LibraryInv, ActiveExists
<1>8. DraftOfScan'
  BY <1>1, <1>2, <1>5 DEF LibraryInv, DraftOfScan
<1>9. SeenBefore'
  <2> SUFFICES ASSUME NEW d \in Editor, client'[d].at \in {"looked", "editing"}
               PROVE  LET u == client'[d].scan IN
                      /\ u \in Scan /\ scan'[u].status \in {"draft_ready", "confirmed"}
                      /\ client'[d].seen.revision <= draft'[u].revision
                      /\ client'[d].seen.revision = draft'[u].revision => client'[d].seen = draft'[u]
    BY DEF SeenBefore
  <2>1. client'[d] = client[d]
    BY <1>3, AwayIsAClient
  <2> DEFINE u == client[d].scan
  <2>2. /\ u \in Scan /\ scan[u].status \in {"draft_ready", "confirmed"}
        /\ client[d].seen.revision <= draft[u].revision
        /\ client[d].seen.revision = draft[u].revision => client[d].seen = draft[u]
    BY <2>1 DEF LibraryInv, SeenBefore
  <2>3. draft[u].revision \in Int /\ client[d].seen.revision \in Int
    BY <2>2, CvAssumption DEF LibraryInv, LibraryOK
  <2>4. draft'[u] = draft[u] \/ draft'[u].revision = draft[u].revision + 1
    BY <1>5, <2>2
  <2> QED
    BY <1>2, <2>1, <2>2, <2>3, <2>4
<1> QED
  BY <1>2, <1>6, <1>7, <1>8, <1>9 DEF LibraryInv, VersionOfConfirmed, VersionsConfirmed

LEMMA EndChangeKeeps ==
  ASSUME LibraryInv, NEW e \in Editor, EndChange(e)
  PROVE  LibraryInv'
<1> DEFINE c == client[e].cv
           row == [status |-> IF client[e].want = 0 /\ client[e].seen.text # "archived"
                              THEN "archived" ELSE cv[c].status,
                   active |-> IF client[e].want # client[e].seen.revision
                              THEN client[e].want ELSE cv[c].active]
<1>1. c \in Cv /\ client[e].want \in Nat /\ client[e].want <= Len(versions[c])
  BY DEF EndChange, LibraryInv, LibraryOK, ActiveExists
<1>2. UNCHANGED <<scan, draft, versions>> /\ client' = [client EXCEPT ![e] = Away]
  BY DEF EndChange
<1>3. cv' = [cv EXCEPT ![c] = row]
  BY <1>1 DEF EndChange, LibraryInv, LibraryOK
<1>4. row \in [status: {"none", "active", "archived"}, active: Nat] /\ row.active <= Len(versions[c])
  BY <1>1 DEF LibraryInv, LibraryOK, ActiveExists
<1> HIDE DEF row
<1>5. \A d \in Editor : client'[d] = IF d = e THEN Away ELSE client[d]
  BY <1>2 DEF LibraryInv, LibraryOK
<1>6. LibraryOK'
  BY <1>2, <1>3, <1>4, AwayIsAClient DEF LibraryInv, LibraryOK
<1>7. ActiveExists'
  BY <1>1, <1>2, <1>3, <1>4, <1>5, AwayIsAClient DEF LibraryInv, LibraryOK, ActiveExists
<1>8. SeenBefore'
  BY <1>2, <1>5, AwayIsAClient DEF LibraryInv, SeenBefore
<1> QED
  BY <1>2, <1>6, <1>7, <1>8
    DEF LibraryInv, DraftOfScan, VersionOfConfirmed, VersionsConfirmed

LEMMA LibraryInvInductive ==
  ASSUME LibraryInv, [LibraryNext]_libraryVars
  PROVE  LibraryInv'
<1>1. CASE UNCHANGED cvVars
  BY <1>1 DEF cvVars, LibraryInv, LibraryOK, ActiveExists, DraftOfScan, SeenBefore,
              VersionOfConfirmed, VersionsConfirmed
<1>2. ASSUME NEW s \in Scan,
             \/ CreateScan(s) \/ Extract(s)
             \/ \E old \in Scan : RetryScan(s, old)
      PROVE  LibraryInv'
  <2>1. UNCHANGED <<cv, versions, client>>
    BY <1>2 DEF CreateScan, Extract, RetryScan
  <2>2. scan' \in [Scan -> ScanRow]
    <3>1. CASE CreateScan(s)
      BY <3>1 DEF CreateScan, LibraryInv, LibraryOK
    <3>3. CASE Extract(s)
      <4>1. PICK st \in {"draft_ready", "extraction_failed"} : scan' = [scan EXCEPT ![s].status = st]
        BY <3>3 DEF Extract
      <4>2. [scan[s] EXCEPT !.status = st] \in ScanRow
        <5>1. scan[s] \in ScanRow
          BY DEF LibraryInv, LibraryOK
        <5>2. st \in {"none", "queued", "draft_ready", "extraction_failed", "confirmed"}
          BY <4>1
        <5> QED
          BY <5>1, <5>2
      <4> QED
        BY <4>1, <4>2 DEF LibraryInv, LibraryOK
    <3>2. ASSUME NEW old \in Scan, RetryScan(s, old)
          PROVE  scan' \in [Scan -> ScanRow]
      BY <3>2 DEF RetryScan, LibraryInv, LibraryOK
    <3> QED
      BY <1>2, <3>1, <3>2, <3>3
  <2>3. draft' \in [Scan -> DraftRow]
    <3>1. CASE draft' = draft
      BY <3>1 DEF LibraryInv, LibraryOK
    <3>2. ASSUME NEW t \in Text, draft' = [draft EXCEPT ![s] = [revision |-> 1, text |-> t]]
          PROVE  draft' \in [Scan -> DraftRow]
      BY <3>2, CvAssumption DEF LibraryInv, LibraryOK
    <3> QED
      BY <1>2, <3>1, <3>2 DEF CreateScan, Extract, RetryScan
  <2>4. \A t \in Scan \ {s} : scan'[t] = scan[t] /\ draft'[t] = draft[t]
    BY <1>2 DEF CreateScan, Extract, RetryScan, LibraryInv, LibraryOK
  <2>5. /\ scan[s].status \in {"none", "queued", "extraction_failed"}
        /\ scan'[s].status \in {"none", "queued", "extraction_failed"} => draft'[s] = NoDraft
    BY <1>2 DEF CreateScan, Extract, RetryScan, NewScan, LibraryInv, LibraryOK, DraftOfScan
  <2> QED
    BY <2>1, <2>2, <2>3, <2>4, <2>5, ScansGoOn
<1>3. ASSUME NEW s \in Scan, NEW c \in Cv, NEW n \in DOMAIN versions[c], DraftFromVersion(s, c, n)
      PROVE  LibraryInv'
  <2>1. versions[c][n].text \in Text \cup {Absent}
    <3>1. versions[c][n] \in Version
      BY ElementOfSeq, LenProperties DEF LibraryInv, LibraryOK
    <3> QED
      BY <3>1 DEF Version
  <2>2. /\ scan' \in [Scan -> ScanRow]
        /\ draft' \in [Scan -> DraftRow]
    BY <1>3, <2>1, CvAssumption DEF DraftFromVersion, LibraryInv, LibraryOK
  <2>3. \A t \in Scan \ {s} : scan'[t] = scan[t] /\ draft'[t] = draft[t]
    BY <1>3 DEF DraftFromVersion, LibraryInv, LibraryOK
  <2>4. scan[s].status = "none" /\ scan'[s].status = "draft_ready"
    BY <1>3 DEF DraftFromVersion, NewScan, LibraryInv, LibraryOK
  <2> QED
    BY <1>3, <2>2, <2>3, <2>4, ScansGoOn DEF DraftFromVersion
<1>4. ASSUME NEW e \in Editor, NEW s \in Scan, Look(e, s) PROVE LibraryInv'
  <2> DEFINE row == [Away EXCEPT !.at = "looked", !.scan = s, !.seen = draft[s]]
  <2>1. /\ row \in ClientRow
        /\ row.at = "looked" /\ row.scan = s /\ row.seen = draft[s]
        /\ draft[s].revision \in Nat
    <3>1. draft[s] \in DraftRow
      BY DEF LibraryInv, LibraryOK
    <3>2. draft[s] \in [revision: Nat, text: Text \cup {Absent, "active", "archived"}]
      BY <3>1, CvAssumption
    <3> QED
      BY <3>2 DEF Away
  <2> HIDE DEF row
  <2>2. client' = [client EXCEPT ![e] = row]
    BY <1>4 DEF Look, row
  <2>3. UNCHANGED <<scan, draft, cv, versions>> /\ scan[s].status = "draft_ready"
    BY <1>4 DEF Look
  <2>4. row.seen.revision <= draft[row.scan].revision /\ row.at # "changing"
    BY <2>1
  <2> QED
    BY <2>1, <2>2, <2>3, <2>4, ClientGoesOn
<1>5. ASSUME NEW e \in Editor, BeginEdit(e) PROVE LibraryInv'
  <2> DEFINE row == [client[e] EXCEPT !.at = "editing"]
  <2>1. /\ row \in ClientRow
        /\ row.at = "editing" /\ row.scan = client[e].scan /\ row.seen = client[e].seen
    BY DEF LibraryInv, LibraryOK
  <2>2. client' = [client EXCEPT ![e] = row]
    BY <1>5 DEF BeginEdit, LibraryInv, LibraryOK
  <2> HIDE DEF row
  <2>3. /\ row.scan \in Scan /\ scan[row.scan].status \in {"draft_ready", "confirmed"}
        /\ row.seen.revision <= draft[row.scan].revision
        /\ row.seen.revision = draft[row.scan].revision => row.seen = draft[row.scan]
    BY <1>5, <2>1 DEF BeginEdit, LibraryInv, SeenBefore
  <2>4. UNCHANGED <<scan, draft, cv, versions>>
    BY <1>5 DEF BeginEdit
  <2> QED
    BY <2>1, <2>2, <2>3, <2>4, ClientGoesOn
<1>6. ASSUME NEW e \in Editor, NEW c \in Cv, NEW n \in 0 .. Len(versions[c]), BeginChange(e, c, n)
      PROVE  LibraryInv'
  <2> DEFINE row == [Away EXCEPT !.at = "changing", !.cv = c, !.want = n,
                                 !.seen = [revision |-> cv[c].active, text |-> cv[c].status]]
  <2>1. Len(versions[c]) \in Nat
    BY LenProperties DEF LibraryInv, LibraryOK
  <2>2. /\ row \in ClientRow
        /\ row.at = "changing" /\ row.cv = c /\ row.want = n
    <3>1. /\ cv[c].active \in Nat /\ cv[c].status \in {"active", "archived"} /\ n \in Nat
      BY <1>6, <2>1 DEF BeginChange, LibraryInv, LibraryOK
    <3> QED
      BY <3>1 DEF Away
  <2> HIDE DEF row
  <2>3. client' = [client EXCEPT ![e] = row]
    BY <1>6 DEF BeginChange, row
  <2>4. UNCHANGED <<scan, draft, cv, versions>> /\ n <= Len(versions[c])
    BY <1>6, <2>1 DEF BeginChange
  <2> QED
    BY <2>2, <2>3, <2>4, ClientGoesOn
<1> QED
  BY <1>1, <1>2, <1>3, <1>4, <1>5, <1>6, EndEditKeeps, ConfirmKeeps, EndChangeKeeps DEF LibraryNext, libraryVars

LEMMA AlwaysLibraryInv == LibrarySpec => []LibraryInv
BY InitLibraryInv, LibraryInvInductive, PTL DEF LibrarySpec

\* A version has the text its user saw, and a scan becomes one version at most.
THEOREM VersionsAreConfirmed == LibrarySpec => []VersionsConfirmed
BY AlwaysLibraryInv, PTL DEF LibraryInv

LEMMA StepLosesNoEdit ==
  ASSUME LibraryInv, [LibraryNext]_libraryVars, NEW s \in Scan, draft'[s] # draft[s]
  PROVE  draft[s] = NoDraft \/ \E e \in Editor : client[e].scan = s /\ client[e].seen = draft[s]
                                                  /\ client'[e] = Away
<1>1. CASE Extract(s) \/ \E c \in Cv : \E n \in DOMAIN versions[c] : DraftFromVersion(s, c, n)
  BY <1>1 DEF Extract, DraftFromVersion, NewScan, LibraryInv, DraftOfScan
<1>2. ASSUME NEW e \in Editor, EndEdit(e)
      PROVE  client[e].scan = s /\ client[e].seen = draft[s] /\ client'[e] = Away
  <2>1. client[e].scan \in Scan
    BY <1>2 DEF EndEdit, LibraryInv, SeenBefore
  <2>2. client[e].scan = s /\ SameRevision(e, s)
    BY <1>2, <2>1 DEF EndEdit, LibraryInv, LibraryOK
  <2> QED
    BY <1>2, <2>2 DEF EndEdit, SameRevision, LibraryInv, LibraryOK, SeenBefore
<1>3. ASSUME NEW t \in Scan, t # s,
             Extract(t) \/ \E c \in Cv : \E n \in DOMAIN versions[c] : DraftFromVersion(t, c, n)
      PROVE  FALSE
  BY <1>3 DEF Extract, DraftFromVersion, LibraryInv, LibraryOK
<1> QED
  BY <1>1, <1>2, <1>3
    DEF LibraryNext, libraryVars, cvVars, CreateScan, RetryScan, Look, BeginEdit, Confirm, BeginChange, EndChange

\* Whoever changes a draft has seen the text he replaces.
THEOREM NoEditIsLost == LibrarySpec => NoLostEdit
<1>1. LibraryInv /\ [LibraryNext]_libraryVars =>
        [\A s \in Scan : draft'[s] # draft[s] =>
           draft[s] = NoDraft \/ \E e \in Editor : client[e].scan = s /\ client[e].seen = draft[s]
                                                   /\ client'[e] = Away]_libraryVars
  BY StepLosesNoEdit
<1> QED
  BY AlwaysLibraryInv, <1>1, PTL DEF LibrarySpec, NoLostEdit

\* Every row and every client keeps its type.
THEOREM LibraryTypeCorrect == LibrarySpec => []LibraryTypeOK
<1>1. FileInv /\ LibraryInv => LibraryTypeOK
  <2> SUFFICES ASSUME FileInv, LibraryInv PROVE LibraryTypeOK
    OBVIOUS
  <2>1. \A c \in Cv : cv[c].status \in {"none", "active", "archived"} /\ cv[c].active \in 0 .. Len(versions[c])
    BY LenProperties DEF LibraryInv, LibraryOK, ActiveExists
  <2> QED
    BY <2>1 DEF LibraryTypeOK, FileInv, LibraryInv, LibraryOK
<1>2. FileInv /\ [LibraryNext]_libraryVars => FileInv'
  BY FileInvInductive
    DEF LibraryNext, libraryVars, CreateScan, Extract, RetryScan, DraftFromVersion, Look, BeginEdit, EndEdit,
        Confirm, BeginChange, EndChange
<1> QED
  BY AlwaysLibraryInv, InitFileInv, <1>1, <1>2, PTL DEF LibrarySpec
=============================================================================
