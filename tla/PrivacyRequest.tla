--------------------------- MODULE PrivacyRequest ---------------------------
(***************************************************************************)
(* Export and deletion of the data of one account (services/               *)
(* product_privacy.py and the task product.privacy.execute).               *)
(*                                                                         *)
(* The API writes a request and its dispatch; a publisher sends the        *)
(* dispatch to the broker; a worker takes the request under a lease of     *)
(* thirty minutes and goes through its stages, each a transaction of its   *)
(* own that renews the lease.  Objects are written to and removed from the *)
(* store between the transactions.  An error makes the request "failed",   *)
(* and an administrator may send it again, from its first stage.           *)
(*                                                                         *)
(* Meanwhile the owner may work with the account, as far as identity_      *)
(* security.py lets him in, and an upload that was let in before may end later.   *)
(***************************************************************************)
EXTENDS FiniteSets, Integers, Sequences

CONSTANTS
  Export,       \* requests for an export
  Deletion,     \* requests for a deletion, each with a key of its own
  Worker,       \* worker processes
  OldFile,      \* files uploaded before any request
  NewFile,      \* files whose upload was let in before the requests and ends later
  None,         \* no request
  Production,   \* whether an error of the cache fails the request
  MaxFaults,    \* bound of crashes and errors
  MaxRetries    \* bound of retries by an administrator

Request == Export \cup Deletion
File == OldFile \cup NewFile

ASSUME PrivacyAssumption ==
  /\ Export \cap Deletion = {} /\ OldFile \cap NewFile = {} /\ Request \cap File = {}
  /\ None \notin Request
  /\ Production \in BOOLEAN /\ MaxFaults \in Nat /\ MaxRetries \in Nat

VARIABLES
  api,         \* how far the call that creates a deletion has come
  request,     \* status and lease of each request
  dispatch,    \* its dispatch
  queued,      \* requests with a message in the broker
  exec,        \* what each worker is doing
  account,     \* what the rows of the account say
  data,        \* what the account still has besides files
  rows,        \* the file rows
  sending,     \* uploads that were let in and have not ended
  objects,     \* objects in the store: uploaded files and exports
  tombstone,   \* the request of the tombstone
  faults, retries

vars == <<api, request, dispatch, queued, exec, account, data, rows, sending, objects,
          tombstone, faults, retries>>
owned == <<account, data, rows, objects, tombstone>>

Stages == {"access", "list", "remove", "purge", "cache", "anonymise", "complete"}
Idle == [req |-> None, at |-> "idle", todo |-> {}]

-----------------------------------------------------------------------------

Fault == faults < MaxFaults /\ faults' = faults + 1

\* _append_event numbers an event with max + 1, and the session does not flush:
\* every event of one transaction gets the number after the last one committed.
Sequence(last, event) == last + 1

\* The unique constraint of (request, sequence).
Commits(events) ==
  \A i, j \in DOMAIN events : Sequence(0, events[i]) = Sequence(0, events[j]) => i = j

\* What get_product_user lets in: a session of an account that is not pending.
\* Without its profile an account counts as active.
LetIn == account.session /\ account.profile # "pending" /\ ~account.anonymous

Active(r) == request[r].status \in {"queued", "processing", "awaiting_retention"}

Inserted(r) ==
  /\ request' = [request EXCEPT ![r] = [status |-> "queued", lease |-> "none"]]
  /\ dispatch' = [dispatch EXCEPT ![r] = "pending"]

Init ==
  /\ api = [r \in Deletion |-> "none"]
  /\ request = [r \in Request |-> [status |-> "none", lease |-> "none"]]
  /\ dispatch = [r \in Request |-> "none"]
  /\ queued = {}
  /\ exec = [w \in Worker |-> Idle]
  /\ account = [profile |-> "active", session |-> TRUE, identity |-> TRUE, anonymous |-> FALSE]
  /\ data = {"rows", "cache"}
  /\ rows = [f \in File |-> IF f \in OldFile THEN "uploaded" ELSE "pending"]
  /\ sending = NewFile
  /\ objects = OldFile
  /\ tombstone = None
  /\ faults = 0 /\ retries = 0

-----------------------------------------------------------------------------
(* The API.  A call that goes no further is a process that died. *)

CreateExport(r) ==
  /\ LetIn /\ r \in Export /\ request[r].status = "none"
  /\ Inserted(r)
  /\ UNCHANGED <<api, queued, exec, owned, sending, faults, retries>>

\* The look for another active deletion takes no lock.
FindNoDeletion(r) ==
  /\ LetIn /\ api[r] = "none"
  /\ \A d \in Deletion : ~Active(d)
  /\ api' = [api EXCEPT ![r] = "looked"]
  /\ UNCHANGED <<request, dispatch, queued, exec, owned, sending, faults, retries>>

InsertDeletion(r) ==
  /\ api[r] = "looked"
  /\ Inserted(r)
  /\ api' = [api EXCEPT ![r] = "inserted"]
  /\ UNCHANGED <<queued, exec, owned, sending, faults, retries>>

\* A second transaction; the profile is made again when a worker has purged it.
SuspendAccount(r) ==
  /\ api[r] = "inserted"
  /\ account' = [account EXCEPT !.profile = "pending"]
  /\ api' = [api EXCEPT ![r] = "done"]
  /\ UNCHANGED <<request, dispatch, queued, exec, data, rows, sending, objects, tombstone,
                 faults, retries>>

\* By the call itself or by the beat.
Publish(r) ==
  /\ dispatch[r] = "pending"
  /\ queued' = queued \cup {r}
  /\ \/ dispatch' = [dispatch EXCEPT ![r] = "published"] /\ UNCHANGED faults
     \/ Fault /\ UNCHANGED dispatch          \* the commit is lost
  /\ UNCHANGED <<api, request, exec, owned, sending, retries>>

\* An administrator retries the failed job.
Retry(r) ==
  /\ request[r].status = "failed" /\ r \notin queued
  /\ retries < MaxRetries
  /\ retries' = retries + 1
  /\ queued' = queued \cup {r}
  /\ UNCHANGED <<api, request, dispatch, exec, owned, sending, faults>>

-----------------------------------------------------------------------------
(* The owner. *)

\* A new token; a user without identity is found by the email of the account.
SignIn ==
  /\ ~account.session /\ ~account.anonymous
  /\ account' = [account EXCEPT !.session = TRUE, !.identity = TRUE]
  /\ UNCHANGED <<api, request, dispatch, queued, exec, data, rows, sending, objects, tombstone,
                 faults, retries>>

Work ==
  /\ LetIn /\ "rows" \notin data
  /\ data' = data \cup {"new"}
  /\ UNCHANGED <<api, request, dispatch, queued, exec, account, rows, sending, objects,
                 tombstone, faults, retries>>

\* The object is stored, then the row is written, if it is still there.
FinishUpload(f) ==
  /\ f \in sending
  /\ objects' = objects \cup {f}
  /\ rows' = [rows EXCEPT ![f] = IF @ = "pending" THEN "uploaded" ELSE @]
  /\ sending' = sending \ {f}
  /\ UNCHANGED <<api, request, dispatch, queued, exec, account, data, tombstone, faults, retries>>

-----------------------------------------------------------------------------
(* The worker. *)

\* The handler of the task: "failed", whatever the row says now.
Failed(r) ==
  request' = [request EXCEPT ![r] = [status |-> "failed", lease |-> "none"]]

Fails(w) == Failed(exec[w].req) /\ exec' = [exec EXCEPT ![w] = Idle]

\* execute: the row is locked and taken unless a lease still runs.
Held(r) == request[r].status \in {"processing", "awaiting_retention"} /\ request[r].lease = "running"

\* A worker gets the message of r, which it may fail to handle or lose.
Take(w, r) ==
  /\ exec[w] = Idle /\ r \in queued
  /\ queued' = queued \ {r}
  /\ \/ /\ ~Held(r) /\ request[r].status # "completed"
        /\ exec' = [exec EXCEPT ![w] = [req |-> r, at |-> IF r \in Export THEN "export" ELSE "access",
                                       todo |-> {}]]
        /\ request' = [request EXCEPT ![r] = [status |-> "processing", lease |-> "running"]]
        /\ UNCHANGED faults
     \/ /\ Held(r) \/ request[r].status = "completed"
        /\ UNCHANGED <<exec, request, faults>>
     \/ Fault /\ UNCHANGED exec /\ (Failed(r) \/ UNCHANGED request)
  /\ UNCHANGED <<api, dispatch, owned, sending, retries>>

\* A stage is committed with its checkpoint, which renews the lease.
Checkpoint(w, next) ==
  /\ request' = [request EXCEPT ![exec[w].req].lease = "running"]
  /\ exec' = [exec EXCEPT ![w].at = next, ![w].todo = {}]

At(w, stage) == exec[w].at = stage /\ UNCHANGED <<api, dispatch, queued, sending, retries>>

\* The end of a request: its last checkpoint and "request.completed".
Ends(w) ==
  IF Commits(<<"checkpoint.completed", "request.completed">>)
  THEN /\ request' = [request EXCEPT ![exec[w].req] = [status |-> "completed", lease |-> "none"]]
       /\ exec' = [exec EXCEPT ![w] = Idle]
  ELSE Fails(w)

\* The archive is stored before the row that names it is committed.
StoreExport(w) ==
  /\ At(w, "export")
  /\ objects' = objects \cup {exec[w].req}
  /\ exec' = [exec EXCEPT ![w].at = "complete"]
  /\ UNCHANGED <<request, account, data, rows, tombstone, faults>>

RevokeAccess(w) ==
  /\ At(w, "access")
  /\ account' = [account EXCEPT !.session = FALSE]
  /\ Checkpoint(w, "list")
  /\ UNCHANGED <<data, rows, objects, tombstone, faults>>

Marked(f) == IF rows[f] = "purged" THEN "purged" ELSE "deleted"

\* Fault: the rows are marked before their objects are removed.
MarkedFirst(f) == Marked(f)

Listed(f) == rows[f]

\* The list of objects to remove, of the rows that are not marked yet.
ListObjects(w) ==
  /\ At(w, "list")
  /\ exec' = [exec EXCEPT ![w].at = "remove",
                          ![w].todo = {f \in File : rows[f] \in {"pending", "uploaded"}}]
  /\ rows' = [f \in File |-> Listed(f)]
  /\ UNCHANGED <<request, account, data, objects, tombstone, faults>>

RemoveObject(w, f) ==
  /\ At(w, "remove") /\ f \in exec[w].todo
  /\ objects' = objects \ {f}
  /\ exec' = [exec EXCEPT ![w].todo = @ \ {f}]
  /\ UNCHANGED <<request, account, data, rows, tombstone, faults>>

\* Every row of the account is marked, also one that was not in the list.
MarkRows(w) ==
  /\ At(w, "remove") /\ exec[w].todo = {}
  /\ rows' = [f \in File |-> Marked(f)]
  /\ Checkpoint(w, "purge")
  /\ UNCHANGED <<account, data, objects, tombstone, faults>>

\* Every row that names the user goes, the profile, the identity, the sessions
\* and the file rows among them; payments, audit and privacy rows stay.
PurgeRows(w) ==
  /\ At(w, "purge")
  /\ data' = data \ {"rows", "new"}
  /\ account' = [account EXCEPT !.profile = "none", !.identity = FALSE, !.session = FALSE]
  /\ rows' = [f \in File |-> "purged"]
  /\ Checkpoint(w, "cache")
  /\ UNCHANGED <<objects, tombstone, faults>>

\* Fault: an error of the cache is tolerated everywhere.
AlwaysTolerated == TRUE

\* Outside of staging and production an error of the cache is tolerated.
Tolerated == ~Production

PurgeCache(w) ==
  /\ At(w, "cache")
  /\ \/ data' = data \ {"cache"} /\ Checkpoint(w, "anonymise") /\ UNCHANGED faults
     \/ Fault /\ UNCHANGED data /\ IF Tolerated THEN Checkpoint(w, "anonymise") ELSE Fails(w)
  /\ UNCHANGED <<account, rows, objects, tombstone>>

\* The tombstone is unique for the request and for the user.
Anonymise(w) ==
  LET r == exec[w].req IN
  /\ At(w, "anonymise")
  /\ IF tombstone \in {None, r}
     THEN /\ account' = [profile |-> IF account.profile = "none" THEN "none" ELSE "deleted",
                         session |-> account.session, identity |-> FALSE, anonymous |-> TRUE]
          /\ tombstone' = r
          /\ request' = [request EXCEPT ![r] = [status |-> "awaiting_retention", lease |-> "running"]]
          /\ exec' = [exec EXCEPT ![w].at = "complete"]
     ELSE Fails(w) /\ UNCHANGED <<account, tombstone>>
  /\ UNCHANGED <<data, rows, objects, faults>>

Complete(w) ==
  /\ At(w, "complete")
  /\ Ends(w)
  /\ UNCHANGED <<owned, faults>>

\* An error of the store or of the database in the middle of a stage.
Fail(w) ==
  /\ exec[w].at \in Stages \cup {"export"} /\ Fault
  /\ Fails(w)
  /\ UNCHANGED <<api, dispatch, queued, owned, sending, retries>>

\* The process dies; its message comes again or counts as acknowledged.
Crash(w) ==
  /\ exec[w] # Idle /\ Fault
  /\ exec' = [exec EXCEPT ![w] = Idle]
  /\ queued' \in {queued, queued \cup {exec[w].req}}
  /\ UNCHANGED <<api, request, dispatch, owned, sending, retries>>

\* Thirty minutes without a checkpoint.
LeaseEnds(r) ==
  /\ request[r].lease = "running"
  /\ request' = [request EXCEPT ![r].lease = "over"]
  /\ UNCHANGED <<api, dispatch, queued, exec, owned, sending, faults, retries>>

Next ==
  \/ \E r \in Request : \/ CreateExport(r) \/ Publish(r) \/ Retry(r) \/ LeaseEnds(r)
  \/ \E r \in Deletion : \/ FindNoDeletion(r) \/ InsertDeletion(r) \/ SuspendAccount(r)
  \/ SignIn \/ Work
  \/ \E f \in File : FinishUpload(f)
  \/ \E w \in Worker :
       \/ \E r \in Request : Take(w, r)
       \/ StoreExport(w) \/ RevokeAccess(w) \/ ListObjects(w) \/ MarkRows(w)
       \/ PurgeRows(w) \/ PurgeCache(w) \/ Anonymise(w) \/ Complete(w)
       \/ \E f \in File : RemoveObject(w, f)
       \/ Fail(w) \/ Crash(w)

Spec == Init /\ [][Next]_vars

-----------------------------------------------------------------------------
(* Properties. *)

\* Every row, message and worker has its type.
TypeOK ==
  /\ api \in [Deletion -> {"none", "looked", "inserted", "done"}]
  /\ request \in [Request -> [status: {"none", "queued", "processing", "awaiting_retention",
                                       "completed", "failed"},
                              lease: {"none", "running", "over"}]]
  /\ dispatch \in [Request -> {"none", "pending", "published"}]
  /\ queued \subseteq Request
  /\ exec \in [Worker -> [req: Request \cup {None}, at: Stages \cup {"idle", "export"},
                          todo: SUBSET File]]
  /\ account \in [profile: {"active", "pending", "none", "deleted"},
                  session: BOOLEAN, identity: BOOLEAN, anonymous: BOOLEAN]
  /\ data \subseteq {"rows", "cache", "new"}
  /\ rows \in [File -> {"pending", "uploaded", "deleted", "purged"}]
  /\ sending \subseteq NewFile
  /\ objects \subseteq File \cup Export
  /\ tombstone \in Deletion \cup {None}
  /\ faults \in 0 .. MaxFaults /\ retries \in 0 .. MaxRetries

\* A file that was there before the requests is still named by its row as long
\* as its object exists, so that a deletion that failed half way, and any later
\* one, still finds what it has to remove.
NothingForgotten == \A f \in OldFile \cap objects : rows[f] = "uploaded"

\* The tombstone says the truth, however often deletions failed, crashed, ran
\* side by side or were started again: what the account had is gone from rows,
\* store and cache, and nobody can sign in to it.
TombstoneTruthful ==
  tombstone # None =>
    /\ data \cap {"rows", "cache"} = {}
    /\ OldFile \cap objects = {}
    /\ account.anonymous /\ ~account.identity

\* A finished deletion leaves no object of the account behind (FR-PRIV-002).
NothingSurvives == tombstone # None => objects = {}
=============================================================================
