------------------------ MODULE PrivacyRequestProofs ------------------------
(***************************************************************************)
(* For any number of requests, workers, files, crashes, errors and         *)
(* retries: a deletion that stopped half way forgets no file, and in       *)
(* production a tombstone says the truth.                                  *)
(*                                                                         *)
(* A worker acts at each stage on what an earlier stage, of its own, left  *)
(* behind: the invariant says for every stage what is gone by then.  It    *)
(* stays gone although other workers, the owner and uploads go on, because *)
(* none of them puts back what was there before the requests.              *)
(***************************************************************************)
EXTENDS PrivacyRequest, TLAPS

\* A worker that is not idle has a request, of the kind its stage is for.
HasRequest ==
  \A w \in Worker :
    /\ exec[w].at = "idle" => exec[w] = Idle
    /\ exec[w].at # "idle" => exec[w].req \in Request
    /\ exec[w].at = "export" => exec[w].req \in Export
    /\ exec[w].at \in Stages \ {"complete"} => exec[w].req \in Deletion

\* Of the old files, a worker that removes objects still has those to remove
\* that exist, and one that has come further has left none.
FilesRemoved ==
  \A w \in Worker :
    /\ exec[w].at = "remove" => OldFile \cap objects \subseteq exec[w].todo
    /\ exec[w].at \in {"purge", "cache", "anonymise"} => OldFile \cap objects = {}

\* Past the stage that purges the rows they are gone, and in production the
\* cache is gone past the stage that purges the cache.
DataPurged ==
  \A w \in Worker :
    /\ exec[w].at \in {"cache", "anonymise"} => "rows" \notin data
    /\ exec[w].at = "anonymise" /\ Production => "cache" \notin data

\* In production the tombstone is truthful.
TruthfulInProduction == Production => TombstoneTruthful

IInv == TypeOK /\ HasRequest /\ FilesRemoved /\ DataPurged /\ NothingForgotten /\ TruthfulInProduction

-----------------------------------------------------------------------------
(* Types. *)

LEMMA InitIInv == Init => IInv
<1> SUFFICES ASSUME Init PROVE IInv
  OBVIOUS
<1>1. TypeOK
  BY PrivacyAssumption DEF Init, TypeOK, Idle, Request, File
<1>2. HasRequest /\ FilesRemoved /\ DataPurged
  BY DEF Init, HasRequest, FilesRemoved, DataPurged, Idle, Stages
<1>3. NothingForgotten
  BY DEF Init, NothingForgotten, File
<1>4. TruthfulInProduction
  BY DEF Init, TruthfulInProduction, TombstoneTruthful
<1> QED
  BY <1>1, <1>2, <1>3, <1>4 DEF IInv

\* The row of a request, what a worker may be doing, and what one that works does.
RequestRow == [status: {"none", "queued", "processing", "awaiting_retention", "completed", "failed"},
               lease: {"none", "running", "over"}]
Execution == [req: Request \cup {None}, at: Stages \cup {"idle", "export"}, todo: SUBSET File]
Busy == [req: Request, at: Stages \cup {"export"}, todo: SUBSET File]
USE DEF RequestRow, Execution, Busy

\* The parts of the type invariant that the workers write.
RequestsOK == request \in [Request -> RequestRow]
WorkersOK ==
  /\ exec \in [Worker -> Execution]
  /\ HasRequest

\* A worker may always go idle.
LEMMA GoesIdle ==
  ASSUME WorkersOK, NEW w \in Worker, exec' = [exec EXCEPT ![w] = Idle]
  PROVE  WorkersOK'
<1>1. Idle \in Execution
  BY DEF Idle
<1>2. exec' \in [Worker -> Execution]
  BY <1>1 DEF WorkersOK
<1>3. \A v \in Worker : exec'[v] = IF v = w THEN Idle ELSE exec[v]
  BY DEF WorkersOK
<1> QED
  BY <1>2, <1>3 DEF WorkersOK, HasRequest, Idle, Stages

\* A worker may take a request, and go from one of its stages to a later one.
LEMMA GoesOn ==
  ASSUME WorkersOK, NEW w \in Worker, NEW row, exec' = [exec EXCEPT ![w] = row],
         row \in Busy,
         row.at = "export" => row.req \in Export,
         row.at \in Stages \ {"complete"} => row.req \in Deletion
  PROVE  WorkersOK'
<1>1. row \in Execution
  OBVIOUS
<1>2. exec' \in [Worker -> Execution]
  BY <1>1 DEF WorkersOK
<1>3. \A v \in Worker : exec'[v] = IF v = w THEN row ELSE exec[v]
  BY DEF WorkersOK
<1> QED
  BY <1>2, <1>3 DEF WorkersOK, HasRequest, Stages

\* A request may get a new row.
LEMMA NewRow ==
  ASSUME RequestsOK, NEW r \in Request, NEW row, request' = [request EXCEPT ![r] = row],
         row \in RequestRow
  PROVE  RequestsOK'
BY DEF RequestsOK

\* What a worker at a stage has.
LEMMA RowOfWorker ==
  ASSUME WorkersOK, NEW w \in Worker, exec[w].at # "idle"
  PROVE  /\ exec[w].req \in Request
         /\ exec[w] \in Busy
         /\ exec[w].at = "export" => exec[w].req \in Export
         /\ exec[w].at \in Stages \ {"complete"} => exec[w].req \in Deletion
BY DEF WorkersOK, HasRequest

\* A failure writes "failed" and ends the execution.
LEMMA FailsType ==
  ASSUME WorkersOK, RequestsOK, NEW w \in Worker, exec[w].at # "idle", Fails(w)
  PROVE  WorkersOK' /\ RequestsOK'
<1>1. exec[w].req \in Request
  BY RowOfWorker
<1> QED
  BY <1>1, GoesIdle, NewRow DEF Fails, Failed

\* A checkpoint renews the lease and goes on.
LEMMA CheckpointType ==
  ASSUME WorkersOK, RequestsOK, NEW w \in Worker, NEW next, Checkpoint(w, next),
         exec[w].at \in Stages \ {"complete"}, next \in Stages
  PROVE  WorkersOK' /\ RequestsOK'
<1> DEFINE r == exec[w].req
           row == [exec[w] EXCEPT !.at = next, !.todo = {}]
<1>1. r \in Deletion /\ r \in Request /\ exec[w] \in Busy
  BY RowOfWorker DEF Stages
<1>2. row \in Busy /\ row.req = r /\ row.at = next
  BY <1>1
<1>3. exec' = [exec EXCEPT ![w] = row]
  BY DEF Checkpoint, WorkersOK
<1>4. WorkersOK'
  <2>1. row.at # "export"
    BY <1>2 DEF Stages
  <2> HIDE DEF row
  <2> QED
    BY <1>1, <1>2, <1>3, <2>1, GoesOn
<1>5. request' = [request EXCEPT ![r] = [request[r] EXCEPT !.lease = "running"]]
  BY <1>1 DEF Checkpoint, RequestsOK
<1>6. RequestsOK'
  BY <1>1, <1>5, NewRow DEF RequestsOK
<1> QED
  BY <1>4, <1>6

LEMMA TypeInductive ==
  ASSUME TypeOK, HasRequest, [Next]_vars
  PROVE  TypeOK' /\ HasRequest'
<1>0. RequestsOK /\ WorkersOK
  BY DEF TypeOK, RequestsOK, WorkersOK
<1>1. ASSUME NEW r \in Request, CreateExport(r) \/ Publish(r) \/ Retry(r) \/ LeaseEnds(r)
      PROVE  TypeOK' /\ HasRequest'
  <2>1. HasRequest'
    BY <1>1 DEF CreateExport, Publish, Retry, LeaseEnds, HasRequest
  <2>2. request' \in [Request -> RequestRow]
    BY <1>1 DEF CreateExport, Publish, Retry, LeaseEnds, Inserted, TypeOK
  <2> QED
    BY <1>1, <2>1, <2>2, PrivacyAssumption
      DEF CreateExport, Publish, Retry, LeaseEnds, Inserted, Fault, owned, TypeOK
<1>2. ASSUME NEW r \in Deletion, FindNoDeletion(r) \/ InsertDeletion(r) \/ SuspendAccount(r)
      PROVE  TypeOK' /\ HasRequest'
  <2>1. HasRequest'
    BY <1>2 DEF FindNoDeletion, InsertDeletion, SuspendAccount, HasRequest
  <2>2. r \in Request
    BY DEF Request
  <2>3. CASE FindNoDeletion(r)
    BY <2>1, <2>2, <2>3 DEF FindNoDeletion, owned, TypeOK
  <2>4. CASE InsertDeletion(r)
    BY <2>1, <2>2, <2>4 DEF InsertDeletion, Inserted, owned, TypeOK
  <2>5. CASE SuspendAccount(r)
    BY <2>1, <2>2, <2>5 DEF SuspendAccount, owned, TypeOK
  <2> QED
    BY <1>2, <2>3, <2>4, <2>5
<1>3. CASE SignIn \/ Work
  <2>1. account' \in [profile: {"active", "pending", "none", "deleted"},
                      session: BOOLEAN, identity: BOOLEAN, anonymous: BOOLEAN]
    <3>1. CASE SignIn
      BY <3>1 DEF SignIn, TypeOK
    <3>2. CASE Work
      BY <3>2 DEF Work, TypeOK
    <3> QED
      BY <1>3, <3>1, <3>2
  <2>2. data' \subseteq {"rows", "cache", "new"}
    BY <1>3 DEF SignIn, Work, TypeOK
  <2>3. UNCHANGED <<api, request, dispatch, queued, exec, rows, sending, objects, tombstone,
                    faults, retries>>
    BY <1>3 DEF SignIn, Work
  <2>4. RequestsOK' /\ WorkersOK'
    <3>1. request' = request /\ exec' = exec
      BY <2>3
    <3> QED
      BY <1>0, <3>1 DEF RequestsOK, WorkersOK, HasRequest
  <2>5. HasRequest'
    BY <2>3 DEF HasRequest
  <2> QED
    BY <2>1, <2>2, <2>3, <2>4, <2>5 DEF TypeOK, RequestsOK, WorkersOK
<1>4. ASSUME NEW f \in File, FinishUpload(f) PROVE TypeOK' /\ HasRequest'
  BY <1>4 DEF FinishUpload, TypeOK, HasRequest
<1>5. ASSUME NEW w \in Worker, NEW r \in Request, Take(w, r) PROVE TypeOK' /\ HasRequest'
  <2>1. WorkersOK'
    <3> DEFINE row == [req |-> r, at |-> IF r \in Export THEN "export" ELSE "access", todo |-> {}]
    <3>1. /\ row \in Busy
          /\ row.at = "export" => row.req \in Export
          /\ row.at \in Stages \ {"complete"} => row.req \in Deletion
      BY DEF Stages, Request
    <3>2. exec' = exec \/ exec' = [exec EXCEPT ![w] = row]
      BY <1>5 DEF Take
    <3> HIDE DEF row
    <3>3. CASE exec' = exec
      BY <1>0, <3>3 DEF WorkersOK, HasRequest
    <3> QED
      BY <1>0, <3>1, <3>2, <3>3, GoesOn
  <2>2. RequestsOK'
    BY <1>0, <1>5 DEF Take, Failed, RequestsOK
  <2>3. queued' \subseteq Request /\ faults' \in 0 .. MaxFaults
    BY <1>5, PrivacyAssumption DEF Take, Fault, TypeOK
  <2> QED
    BY <1>5, <2>1, <2>2, <2>3 DEF Take, owned, TypeOK, WorkersOK, RequestsOK
<1>6. ASSUME NEW w \in Worker, StoreExport(w) PROVE TypeOK' /\ HasRequest'
  <2> DEFINE row == [exec[w] EXCEPT !.at = "complete"]
  <2>1. /\ exec[w].req \in Export
        /\ row \in Busy /\ row.at = "complete"
    BY <1>0, <1>6, RowOfWorker DEF StoreExport, At, Stages
  <2>2. exec' = [exec EXCEPT ![w] = row]
    BY <1>0, <1>6 DEF StoreExport, WorkersOK
  <2> HIDE DEF row
  <2>3. WorkersOK'
    BY <1>0, <2>1, <2>2, GoesOn
  <2> QED
    <3>1. objects' \subseteq File \cup Export
      BY <1>6, <2>1 DEF StoreExport, TypeOK
    <3>2. UNCHANGED <<api, request, dispatch, queued, account, data, rows, sending, tombstone,
                      faults, retries>>
      BY <1>6 DEF StoreExport, At, owned
    <3> QED
      BY <2>3, <3>1, <3>2 DEF TypeOK, WorkersOK
<1>7. ASSUME NEW w \in Worker, RevokeAccess(w) PROVE TypeOK' /\ HasRequest'
  <2>1. WorkersOK' /\ RequestsOK'
    <3>1. exec[w].at = "access" /\ Checkpoint(w, "list")
      BY <1>7 DEF RevokeAccess, At
    <3>2. "access" \in Stages \ {"complete"} /\ "list" \in Stages
      BY DEF Stages
    <3> QED
      BY <1>0, <3>1, <3>2, CheckpointType
  <2> QED
    BY <1>7, <2>1 DEF RevokeAccess, At, TypeOK, WorkersOK, RequestsOK
<1>8. ASSUME NEW w \in Worker, ListObjects(w) PROVE TypeOK' /\ HasRequest'
  <2> DEFINE todo == {f \in File : rows[f] \in {"pending", "uploaded"}}
             row == [exec[w] EXCEPT !.at = "remove", !.todo = todo]
  <2>1. /\ row \in Busy
        /\ row.at = "remove" /\ row.req \in Deletion
    BY <1>0, <1>8, RowOfWorker DEF ListObjects, At, Stages
  <2>2. exec' = [exec EXCEPT ![w] = row]
    BY <1>0, <1>8 DEF ListObjects, WorkersOK
  <2> HIDE DEF row
  <2>3. WorkersOK'
    BY <1>0, <2>1, <2>2, GoesOn
  <2> QED
    BY <1>8, <2>3 DEF ListObjects, Listed, At, TypeOK, WorkersOK
<1>9. ASSUME NEW w \in Worker, MarkRows(w) PROVE TypeOK' /\ HasRequest'
  <2>1. WorkersOK' /\ RequestsOK'
    BY <1>0, <1>9, CheckpointType DEF MarkRows, At, Stages
  <2> QED
    BY <1>9, <2>1 DEF MarkRows, Marked, At, TypeOK, WorkersOK, RequestsOK
<1>10. ASSUME NEW w \in Worker, PurgeRows(w) PROVE TypeOK' /\ HasRequest'
  <2>1. WorkersOK' /\ RequestsOK'
    BY <1>0, <1>10, CheckpointType DEF PurgeRows, At, Stages
  <2> QED
    BY <1>10, <2>1 DEF PurgeRows, At, TypeOK, WorkersOK, RequestsOK
<1>11. ASSUME NEW w \in Worker, PurgeCache(w) PROVE TypeOK' /\ HasRequest'
  <2>1. Checkpoint(w, "anonymise") \/ Fails(w)
    BY <1>11 DEF PurgeCache
  <2>2. WorkersOK' /\ RequestsOK'
    BY <1>0, <1>11, <2>1, CheckpointType, FailsType DEF PurgeCache, At, Stages
  <2>3. data' \subseteq data
    BY <1>11 DEF PurgeCache
  <2>4. faults' \in 0 .. MaxFaults
    BY <1>11, PrivacyAssumption DEF PurgeCache, Fault, TypeOK
  <2> QED
    BY <1>11, <2>2, <2>3, <2>4 DEF PurgeCache, At, TypeOK, WorkersOK, RequestsOK
<1>12. ASSUME NEW w \in Worker, Anonymise(w) PROVE TypeOK' /\ HasRequest'
  <2> DEFINE r == exec[w].req
             row == [exec[w] EXCEPT !.at = "complete"]
  <2>1. /\ r \in Deletion /\ r \in Request
        /\ row \in Busy /\ row.at = "complete"
    BY <1>0, <1>12, RowOfWorker DEF Anonymise, At, Stages
  <2>2. CASE tombstone \in {None, r}
    <3>1. exec' = [exec EXCEPT ![w] = row]
      BY <1>0, <1>12, <2>2 DEF Anonymise, WorkersOK
    <3>2. request' = [request EXCEPT ![r] = [status |-> "awaiting_retention", lease |-> "running"]]
      BY <1>12, <2>2 DEF Anonymise
    <3>3. RequestsOK'
      BY <1>0, <2>1, <3>2, NewRow
    <3>4. WorkersOK'
      <4> HIDE DEF row
      <4> QED
        BY <1>0, <2>1, <3>1, GoesOn
    <3>5. account' \in [profile: {"active", "pending", "none", "deleted"},
                        session: BOOLEAN, identity: BOOLEAN, anonymous: BOOLEAN]
      <4>1. account' = [profile |-> IF account.profile = "none" THEN "none" ELSE "deleted",
                        session |-> account.session, identity |-> FALSE, anonymous |-> TRUE]
        BY <1>12, <2>2 DEF Anonymise
      <4>2. account.session \in BOOLEAN
        BY DEF TypeOK
      <4> QED
        BY <4>1, <4>2
    <3>6. tombstone' \in Deletion \cup {None}
      BY <1>12, <2>1, <2>2 DEF Anonymise
    <3> QED
      BY <1>12, <3>3, <3>4, <3>5, <3>6 DEF Anonymise, At, TypeOK, WorkersOK, RequestsOK
  <2>3. CASE tombstone \notin {None, r}
    <3>1. WorkersOK' /\ RequestsOK'
      BY <1>0, <1>12, <2>3, FailsType DEF Anonymise, At
    <3> QED
      BY <1>12, <2>3, <3>1 DEF Anonymise, At, TypeOK, WorkersOK, RequestsOK
  <2> QED
    BY <2>2, <2>3
<1>13. ASSUME NEW w \in Worker, Complete(w) PROVE TypeOK' /\ HasRequest'
  <2>1. exec[w].req \in Request
    BY <1>0, <1>13, RowOfWorker DEF Complete, At
  <2>2. CASE Fails(w)
    BY <1>0, <1>13, <2>2, FailsType DEF Complete, At, owned, TypeOK, WorkersOK, RequestsOK
  <2>3. CASE /\ request' = [request EXCEPT ![exec[w].req] = [status |-> "completed", lease |-> "none"]]
             /\ exec' = [exec EXCEPT ![w] = Idle]
    <3>1. WorkersOK' /\ RequestsOK'
      BY <1>0, <2>1, <2>3, GoesIdle, NewRow
    <3> QED
      BY <1>13, <3>1 DEF Complete, At, owned, TypeOK, WorkersOK, RequestsOK
  <2> QED
    BY <1>13, <2>2, <2>3 DEF Complete, Ends
<1>14. ASSUME NEW w \in Worker, NEW f \in File, RemoveObject(w, f) PROVE TypeOK' /\ HasRequest'
  <2> DEFINE row == [exec[w] EXCEPT !.todo = exec[w].todo \ {f}]
  <2>1. /\ row \in Busy
        /\ row.at = "remove" /\ row.req \in Deletion
    BY <1>0, <1>14, RowOfWorker DEF RemoveObject, At, Stages
  <2>2. exec' = [exec EXCEPT ![w] = row]
    BY <1>0, <1>14 DEF RemoveObject, WorkersOK
  <2> HIDE DEF row
  <2>3. WorkersOK'
    BY <1>0, <2>1, <2>2, GoesOn
  <2> QED
    BY <1>14, <2>3 DEF RemoveObject, At, TypeOK, WorkersOK
<1>15. ASSUME NEW w \in Worker, Fail(w) PROVE TypeOK' /\ HasRequest'
  <2>1. WorkersOK' /\ RequestsOK'
    BY <1>0, <1>15, FailsType DEF Fail, Stages
  <2>2. faults' \in 0 .. MaxFaults
    BY <1>15, PrivacyAssumption DEF Fail, Fault, TypeOK
  <2> QED
    BY <1>15, <2>1, <2>2 DEF Fail, owned, TypeOK, WorkersOK, RequestsOK
<1>16. ASSUME NEW w \in Worker, Crash(w) PROVE TypeOK' /\ HasRequest'
  <2>1. exec[w].req \in Request
    BY <1>16 DEF Crash, HasRequest
  <2>3. WorkersOK'
    BY <1>0, <1>16, GoesIdle DEF Crash
  <2>4. faults' \in 0 .. MaxFaults
    BY <1>16, PrivacyAssumption DEF Crash, Fault, TypeOK
  <2> QED
    BY <1>16, <2>1, <2>3, <2>4 DEF Crash, owned, TypeOK, WorkersOK
<1>17. CASE UNCHANGED vars
  BY <1>17 DEF vars, TypeOK, HasRequest
<1> QED
  BY <1>1, <1>2, <1>3, <1>4, <1>5, <1>6, <1>7, <1>8, <1>9, <1>10, <1>11, <1>12, <1>13, <1>14,
     <1>15, <1>16, <1>17 DEF Next

-----------------------------------------------------------------------------
(* Safety. *)

Safe == FilesRemoved /\ DataPurged /\ NothingForgotten /\ TruthfulInProduction

\* The steps that leave what the stages and the properties are about as it is.
LEMMA NothingComesBack ==
  ASSUME Safe,
         OldFile \cap objects' \subseteq objects, data' \cap {"rows", "cache"} \subseteq data,
         \A f \in OldFile \cap objects' : rows'[f] = rows[f],
         tombstone' = tombstone,
         account.anonymous => account'.anonymous /\ (account'.identity => account.identity),
         \A w \in Worker : exec'[w] = exec[w] \/ exec'[w].at \in {"idle", "export", "access", "list", "complete"}
  PROVE  Safe'
<1>1. FilesRemoved'
  BY DEF Safe, FilesRemoved
<1>2. DataPurged'
  BY DEF Safe, DataPurged
<1>3. NothingForgotten'
  BY DEF Safe, NothingForgotten
<1>4. TruthfulInProduction'
  BY DEF Safe, TruthfulInProduction, TombstoneTruthful
<1> QED
  BY <1>1, <1>2, <1>3, <1>4 DEF Safe

LEMMA SafeInductive ==
  ASSUME IInv, [Next]_vars
  PROVE  Safe'
<1>0. Safe /\ WorkersOK
  BY DEF IInv, Safe, TypeOK, WorkersOK
<1>1. \A w \in Worker : \A next : Checkpoint(w, next) =>
        exec'[w].at = next /\ \A v \in Worker \ {w} : exec'[v] = exec[v]
  BY <1>0 DEF Checkpoint, WorkersOK
<1>2. \A w \in Worker : Fails(w) => exec'[w] = Idle /\ \A v \in Worker \ {w} : exec'[v] = exec[v]
  BY <1>0 DEF Fails, WorkersOK
<1>3. ASSUME NEW r \in Request, CreateExport(r) \/ Publish(r) \/ Retry(r) \/ LeaseEnds(r)
      PROVE  Safe'
  BY <1>0, <1>3, NothingComesBack DEF CreateExport, Publish, Retry, LeaseEnds, owned
<1>4. ASSUME NEW r \in Deletion, FindNoDeletion(r) \/ InsertDeletion(r) \/ SuspendAccount(r)
      PROVE  Safe'
  BY <1>0, <1>4, NothingComesBack DEF FindNoDeletion, InsertDeletion, SuspendAccount, owned, IInv, TypeOK
<1>5. CASE SignIn \/ Work
  BY <1>0, <1>5, NothingComesBack DEF SignIn, Work
<1>6. ASSUME NEW f \in File, FinishUpload(f) PROVE Safe'
  <2>1. f \notin OldFile
    BY <1>6, PrivacyAssumption DEF FinishUpload, IInv, TypeOK
  <2>2. \A g \in OldFile : rows'[g] = rows[g]
    BY <1>6, <2>1 DEF FinishUpload, IInv, TypeOK, File
  <2> QED
    BY <1>0, <1>6, <2>1, <2>2, NothingComesBack DEF FinishUpload
<1>7. ASSUME NEW w \in Worker, NEW r \in Request, Take(w, r) PROVE Safe'
  <2>1. \A v \in Worker : exec'[v] = exec[v] \/ exec'[v].at \in {"export", "access"}
    BY <1>0, <1>7 DEF Take, WorkersOK
  <2> QED
    BY <1>0, <1>7, <2>1, NothingComesBack DEF Take, owned
<1>8. ASSUME NEW w \in Worker, StoreExport(w) PROVE Safe'
  <2>1. exec[w].req \notin OldFile
    BY <1>0, <1>8, RowOfWorker, PrivacyAssumption DEF StoreExport, At, File
  <2>2. \A v \in Worker : exec'[v] = exec[v] \/ exec'[v].at = "complete"
    BY <1>0, <1>8 DEF StoreExport, WorkersOK
  <2> QED
    BY <1>0, <1>8, <2>1, <2>2, NothingComesBack DEF StoreExport
<1>9. ASSUME NEW w \in Worker, RevokeAccess(w) PROVE Safe'
  <2>1. account'.anonymous = account.anonymous /\ account'.identity = account.identity
    BY <1>9 DEF RevokeAccess, IInv, TypeOK
  <2> QED
    BY <1>0, <1>1, <1>9, <2>1, NothingComesBack DEF RevokeAccess
<1>10. ASSUME NEW w \in Worker, ListObjects(w) PROVE Safe'
  <2>1. /\ exec'[w].at = "remove" /\ exec'[w].todo = {f \in File : rows[f] \in {"pending", "uploaded"}}
        /\ \A v \in Worker \ {w} : exec'[v] = exec[v]
    BY <1>0, <1>10 DEF ListObjects, WorkersOK
  <2>2. OldFile \cap objects \subseteq exec'[w].todo
    BY <1>0, <2>1 DEF Safe, NothingForgotten, File
  <2>3. rows' = rows
    BY <1>10 DEF ListObjects, Listed, IInv, TypeOK
  <2>4. FilesRemoved'
    BY <1>0, <1>10, <2>1, <2>2 DEF ListObjects, Safe, FilesRemoved
  <2>5. DataPurged'
    BY <1>0, <1>10, <2>1 DEF ListObjects, Safe, DataPurged
  <2> QED
    BY <1>0, <1>10, <2>3, <2>4, <2>5
      DEF ListObjects, Safe, NothingForgotten, TruthfulInProduction, TombstoneTruthful
<1>11. ASSUME NEW w \in Worker, MarkRows(w) PROVE Safe'
  <2>1. OldFile \cap objects = {}
    BY <1>0, <1>11 DEF MarkRows, At, Safe, FilesRemoved
  <2>2. exec'[w].at = "purge" /\ \A v \in Worker \ {w} : exec'[v] = exec[v]
    BY <1>1, <1>11 DEF MarkRows
  <2>3. FilesRemoved' /\ NothingForgotten'
    BY <1>0, <1>11, <2>1, <2>2 DEF MarkRows, Safe, FilesRemoved, NothingForgotten
  <2>4. DataPurged'
    BY <1>0, <1>11, <2>2 DEF MarkRows, Safe, DataPurged
  <2> QED
    BY <1>0, <1>11, <2>3, <2>4 DEF MarkRows, Safe, TruthfulInProduction, TombstoneTruthful
<1>12. ASSUME NEW w \in Worker, PurgeRows(w) PROVE Safe'
  <2>1. OldFile \cap objects = {}
    BY <1>0, <1>12 DEF PurgeRows, At, Safe, FilesRemoved
  <2>2. exec'[w].at = "cache" /\ \A v \in Worker \ {w} : exec'[v] = exec[v]
    BY <1>1, <1>12 DEF PurgeRows
  <2>3. account'.anonymous = account.anonymous /\ ~account'.identity
    BY <1>12 DEF PurgeRows, IInv, TypeOK
  <2>4. FilesRemoved' /\ NothingForgotten'
    BY <1>0, <1>12, <2>1, <2>2 DEF PurgeRows, Safe, FilesRemoved, NothingForgotten
  <2>5. DataPurged'
    BY <1>0, <1>12, <2>2 DEF PurgeRows, Safe, DataPurged
  <2> QED
    BY <1>0, <1>12, <2>3, <2>4, <2>5 DEF PurgeRows, Safe, TruthfulInProduction, TombstoneTruthful
<1>13. ASSUME NEW w \in Worker, PurgeCache(w) PROVE Safe'
  <2>1. OldFile \cap objects = {} /\ "rows" \notin data
    BY <1>0, <1>13 DEF PurgeCache, At, Safe, FilesRemoved, DataPurged
  <2>2. data' \subseteq data /\ UNCHANGED <<account, rows, objects, tombstone>>
    BY <1>13 DEF PurgeCache
  <2>3. CASE Fails(w)
    BY <1>0, <1>2, <2>2, <2>3, NothingComesBack DEF Idle
  <2>4. CASE Checkpoint(w, "anonymise") /\ (Production => "cache" \notin data')
    <3>1. exec'[w].at = "anonymise" /\ \A v \in Worker \ {w} : exec'[v] = exec[v]
      BY <1>1, <2>4
    <3>2. FilesRemoved' /\ NothingForgotten'
      BY <1>0, <2>1, <2>2, <3>1 DEF Safe, FilesRemoved, NothingForgotten
    <3>3. DataPurged'
      BY <1>0, <2>1, <2>2, <2>4, <3>1 DEF Safe, DataPurged
    <3> QED
      BY <1>0, <2>2, <3>2, <3>3 DEF Safe, TruthfulInProduction, TombstoneTruthful
  <2> QED
    BY <1>13, <2>3, <2>4 DEF PurgeCache, Tolerated
<1>14. ASSUME NEW w \in Worker, Anonymise(w) PROVE Safe'
  <2>1. OldFile \cap objects = {} /\ "rows" \notin data /\ (Production => "cache" \notin data)
    BY <1>0, <1>14 DEF Anonymise, At, Safe, FilesRemoved, DataPurged
  <2>2. UNCHANGED <<data, rows, objects>>
    BY <1>14 DEF Anonymise
  <2>3. CASE Fails(w) /\ UNCHANGED <<account, tombstone>>
    BY <1>0, <1>2, <2>2, <2>3, NothingComesBack DEF Idle
  <2>4. CASE /\ exec' = [exec EXCEPT ![w].at = "complete"]
             /\ account'.anonymous /\ ~account'.identity
    <3>1. exec'[w].at = "complete" /\ \A v \in Worker \ {w} : exec'[v] = exec[v]
      BY <1>0, <2>4 DEF WorkersOK
    <3>2. FilesRemoved' /\ DataPurged' /\ NothingForgotten'
      BY <1>0, <2>2, <3>1 DEF Safe, FilesRemoved, DataPurged, NothingForgotten
    <3>3. TruthfulInProduction'
      BY <2>1, <2>2, <2>4 DEF TruthfulInProduction, TombstoneTruthful
    <3> QED
      BY <3>2, <3>3 DEF Safe
  <2> QED
    BY <1>14, <2>3, <2>4 DEF Anonymise
<1>15. ASSUME NEW w \in Worker, Complete(w) PROVE Safe'
  <2>1. \A v \in Worker : exec'[v] = exec[v] \/ exec'[v] = Idle
    BY <1>0, <1>2, <1>15 DEF Complete, Ends, WorkersOK
  <2> QED
    BY <1>0, <1>15, <2>1, NothingComesBack DEF Complete, owned, Idle
<1>16. ASSUME NEW w \in Worker, NEW f \in File, RemoveObject(w, f) PROVE Safe'
  <2>1. /\ exec'[w].at = "remove" /\ exec'[w].todo = exec[w].todo \ {f}
        /\ \A v \in Worker \ {w} : exec'[v] = exec[v]
    BY <1>0, <1>16 DEF RemoveObject, At, WorkersOK
  <2>2. exec[w].at = "remove" /\ objects' = objects \ {f} /\ UNCHANGED <<data, account, rows, tombstone>>
    BY <1>16 DEF RemoveObject, At
  <2>3. FilesRemoved'
    BY <1>0, <2>1, <2>2 DEF Safe, FilesRemoved
  <2>4. DataPurged'
    BY <1>0, <2>1, <2>2 DEF Safe, DataPurged
  <2> QED
    BY <1>0, <2>2, <2>3, <2>4 DEF Safe, NothingForgotten, TruthfulInProduction, TombstoneTruthful
<1>17. ASSUME NEW w \in Worker, Fail(w) \/ Crash(w) PROVE Safe'
  <2>1. \A v \in Worker : exec'[v] = exec[v] \/ exec'[v] = Idle
    BY <1>0, <1>2, <1>17 DEF Fail, Crash, WorkersOK
  <2> QED
    BY <1>0, <1>17, <2>1, NothingComesBack DEF Fail, Crash, owned, Idle
<1>18. CASE UNCHANGED vars
  BY <1>0, <1>18, NothingComesBack DEF vars
<1> QED
  BY <1>3, <1>4, <1>5, <1>6, <1>7, <1>8, <1>9, <1>10, <1>11, <1>12, <1>13, <1>14, <1>15, <1>16,
     <1>17, <1>18 DEF Next

LEMMA AlwaysIInv == Spec => []IInv
<1>1. IInv /\ [Next]_vars => IInv'
  BY TypeInductive, SafeInductive DEF IInv, Safe
<1> QED
  BY InitIInv, <1>1, PTL DEF Spec

-----------------------------------------------------------------------------

\* Every row, message and worker keeps its type.
THEOREM TypeCorrect == Spec => []TypeOK
BY AlwaysIInv, PTL DEF IInv

\* Whatever stops a deletion half way, no row of an old file whose object
\* exists is marked: the next deletion finds it.
THEOREM NoFileForgotten == Spec => []NothingForgotten
BY AlwaysIInv, PTL DEF IInv

\* In production, where an error of the cache fails a deletion, the tombstone
\* says the truth.
THEOREM TombstoneSaysTheTruth ==
  ASSUME Production
  PROVE  Spec => []TombstoneTruthful
<1>1. IInv => TombstoneTruthful
  BY DEF IInv, TruthfulInProduction
<1> QED
  BY AlwaysIInv, <1>1, PTL
=============================================================================
