------------------------------ MODULE JobSearch ------------------------------
(***************************************************************************)
(* One job search run (ProductJobSearchService, product.jobs.search): the  *)
(* row and its dispatch, the message that may be delivered to two workers, *)
(* the retrieval from the index and from the web, the replacement of the   *)
(* stored results, the numbered events, and the client that follows them   *)
(* over server-sent events.                                                *)
(*                                                                         *)
(* Every action is one transaction, or one read made outside of any; the   *)
(* progress and job events are emitted with the step they report.  An      *)
(* execution keeps no lease: the status of the row is the only thing that  *)
(* tells a second delivery what the first one is doing.  The contents of   *)
(* the index change all the time: a retrieval finds any postings that have *)
(* a row.  A smaller number ranks higher.                                   *)
(***************************************************************************)
EXTENDS Naturals, FiniteSets

CONSTANTS
  Jobs,             \* the postings
  Workers,          \* the worker processes
  Modes,            \* the modes a run may be created with
  MaxResults,       \* maximum_results of the run
  MaxMessages,      \* bound: times the message may be put into the queue
  MaxFaults         \* bound: failures of the provider, unexpected exceptions

ASSUME SearchAssumption ==
  /\ Jobs \subseteq Nat /\ IsFiniteSet(Jobs)
  /\ Modes \subseteq {"indexed", "live", "hybrid"}
  /\ MaxResults \in Nat \ {0}
  /\ MaxMessages \in Nat
  /\ MaxFaults \in Nat

VARIABLES
  status,       \* JobSearchRun.status, "none" before the request
  mode,         \* JobSearchRun.mode
  dispatch,     \* JobSearchDispatch.status
  queue,        \* messages no worker has taken
  sent,         \* messages ever put into the queue
  faults,       \* failures so far
  worker,       \* what each worker is doing, and what it holds in memory
  results,      \* the rows of JobSearchResult
  degraded,     \* degraded_reasons has EXPLANATION_FAILED
  rows,         \* the postings that have a row in the catalog
  news,         \* there are events the client of the stream has not been sent
  client        \* the stream: "ending" is a poll that saw the run ended

runVars == <<status, mode, dispatch, queue, sent, faults>>
vars == <<runVars, worker, results, degraded, rows, news, client>>

Terminal == {"completed", "failed"}

Steps == {"idle", "index", "live", "fetch", "write", "rank", "replace", "store",
          "rest", "close", "update", "finish", "failing", "lament"}

Idle == [at |-> "idle", turn |-> 0, scored |-> {}, todo |-> {}, known |-> FALSE,
         replaced |-> {}, aware |-> FALSE]

\* The place of a posting in the ranking of S.
Place(j, S) == Cardinality({k \in S : k <= j})

\* Only the first results of a ranking are explained.
Explained == 3

\* The rows a worker inserts for the postings S; "by" is its execution, so that
\* the rows of two executions are never the same.
Ranking(w, S) ==
  {[rank |-> Place(j, S), job |-> j, by |-> worker[w].turn] : j \in {k \in S : Place(k, S) <= MaxResults}}

\* Fault: no constraint on the rank.
CollidesOnJob(old, new) == \E a \in old, b \in new : a.job = b.job

\* The unique constraints (run, rank) and (run, job).
Collides(old, new) == \E a \in old, b \in new : a.rank = b.rank \/ a.job = b.job

TypeOK ==
  /\ status \in {"none", "queued", "searching", "verifying", "ranking"} \union Terminal
  /\ mode \in Modes
  /\ dispatch \in {"none", "pending", "published"}
  /\ queue \in 0 .. sent /\ sent \in 0 .. MaxMessages /\ faults \in 0 .. MaxFaults
  /\ \A w \in Workers : worker[w].at \in Steps /\ worker[w].scored \subseteq rows
  /\ \A r \in results : r.rank \in 1 .. MaxResults /\ r.job \in Jobs /\ r.by \in 1 .. MaxMessages
  /\ degraded \in BOOLEAN
  /\ rows \subseteq Jobs
  /\ news \in BOOLEAN
  /\ client \in {"waiting", "polling", "ending", "closed"}

Init ==
  /\ status = "none" /\ mode \in Modes /\ dispatch = "none"
  /\ queue = 0 /\ sent = 0 /\ faults = 0
  /\ worker = [w \in Workers |-> Idle]
  /\ results = {}
  /\ degraded = FALSE
  /\ rows \in SUBSET Jobs
  /\ news = FALSE
  /\ client = "waiting"

\* The next event takes the number after the last one; the row lock of the run
\* makes the reading of the last number and the insertion one step.
Emit == news' = TRUE

Goto(w, step) == worker' = [worker EXCEPT ![w].at = step]
-----------------------------------------------------------------------------
(* The request, the dispatch and the queue.                                *)

\* A repeated request finds the row by its idempotency key and returns it.
CreateRun ==
  /\ status = "none"
  /\ status' = "queued" /\ dispatch' = "pending"
  /\ Emit
  /\ UNCHANGED <<mode, queue, sent, faults, worker, results, degraded, rows, client>>

\* The request and the beat publish alike.  The message may be in the queue
\* although the commit of "published" is lost.
Publish ==
  /\ dispatch = "pending" /\ sent < MaxMessages
  /\ queue' = queue + 1 /\ sent' = sent + 1
  /\ dispatch' \in {"pending", "published"}
  /\ UNCHANGED <<status, mode, faults, worker, results, degraded, rows, news, client>>

\* The deliveries taken so far, this one included: the number of the execution.
Turn == sent - queue + 1

\* Fault: only a queued run is executed, a redelivered one is taken for done.
TakeQueued(w) ==
  /\ worker[w].at = "idle" /\ queue > 0
  /\ queue' = queue - 1
  /\ IF status # "queued"
       THEN UNCHANGED <<status, worker>>
       ELSE /\ status' = "searching"
            /\ worker' = [worker EXCEPT ![w].at = IF mode = "live" THEN "live" ELSE "index",
                                        ![w].turn = Turn,
                                        ![w].aware = degraded]
  /\ UNCHANGED <<mode, dispatch, sent, faults, results, degraded, rows, news, client>>

\* A worker takes the message; a run that has ended is left alone.
Take(w) ==
  /\ worker[w].at = "idle" /\ queue > 0
  /\ queue' = queue - 1
  /\ IF status \in Terminal
       THEN UNCHANGED <<status, worker>>
       ELSE /\ status' = "searching"
            /\ worker' = [worker EXCEPT ![w].at = IF mode = "live" THEN "live" ELSE "index",
                                        ![w].turn = Turn,
                                        ![w].aware = degraded]
  /\ UNCHANGED <<mode, dispatch, sent, faults, results, degraded, rows, news, client>>

\* The process dies: late acknowledgement gives the message to another one.
Crash(w) ==
  /\ worker[w].at # "idle" /\ sent < MaxMessages
  /\ queue' = queue + 1 /\ sent' = sent + 1
  /\ worker' = [worker EXCEPT ![w] = Idle]
  /\ UNCHANGED <<status, mode, dispatch, faults, results, degraded, rows, news, client>>
-----------------------------------------------------------------------------
(* The execution.                                                          *)

Index(w) ==
  /\ worker[w].at = "index"
  /\ \E found \in SUBSET rows :
       worker' = [worker EXCEPT ![w].scored = found,
                                ![w].at = IF mode = "hybrid" THEN "live" ELSE "rank"]
  /\ Emit
  /\ UNCHANGED <<runVars, results, degraded, rows, client>>

AfterItem(todo) == IF todo = {} THEN "rank" ELSE "fetch"

\* The provider names postings ...
Discover(w) ==
  /\ worker[w].at = "live"
  /\ \E found \in SUBSET Jobs :
       worker' = [worker EXCEPT ![w].todo = found, ![w].at = AfterItem(found)]
  /\ status' = "verifying"
  /\ Emit
  /\ UNCHANGED <<mode, dispatch, queue, sent, faults, results, degraded, rows, client>>

\* ... or fails: a live search fails with it, a hybrid one goes on degraded.
ProviderFails(w) ==
  /\ worker[w].at = "live" /\ faults < MaxFaults
  /\ faults' = faults + 1
  /\ Goto(w, IF mode = "live" THEN "failing" ELSE "rank")
  /\ UNCHANGED <<status, mode, dispatch, queue, sent, results, degraded, rows, news, client>>

Item(w) == CHOOSE j \in worker[w].todo : \A k \in worker[w].todo : j <= k

\* The page of the next posting is fetched and its row is looked up, unlocked;
\* a page the policy refuses is rejected at once.
Fetch(w) ==
  /\ worker[w].at = "fetch"
  /\ \/ /\ worker' = [worker EXCEPT ![w].known = Item(w) \in rows, ![w].at = "write"]
        /\ UNCHANGED news
     \/ /\ LET left == worker[w].todo \ {Item(w)} IN
           worker' = [worker EXCEPT ![w].todo = left, ![w].at = AfterItem(left)]
        /\ Emit
  /\ UNCHANGED <<runVars, results, degraded, rows, client>>

\* The row is inserted or updated.  An insertion finds by the unique fingerprint
\* that another search has been faster, which is no AppError: the run fails.
\* What passes the verification and the filters joins the ranking.
Write(w) ==
  /\ worker[w].at = "write"
  /\ LET left == worker[w].todo \ {Item(w)} IN
     IF ~worker[w].known /\ Item(w) \in rows
       THEN Goto(w, "failing") /\ UNCHANGED <<rows, news>>
       ELSE /\ rows' = rows \union {Item(w)}
            /\ \E joins \in SUBSET {Item(w)} :
                 worker' = [worker EXCEPT ![w].scored = @ \union joins, ![w].todo = left,
                                          ![w].known = FALSE, ![w].at = AfterItem(left)]
            /\ Emit
  /\ UNCHANGED <<runVars, results, degraded, client>>

Rank(w) ==
  /\ worker[w].at = "rank"
  /\ status' = "ranking"
  /\ Goto(w, "replace")
  /\ UNCHANGED <<mode, dispatch, queue, sent, faults, results, degraded, rows, news, client>>

\* DELETE takes the rows its snapshot shows; they go with the commit.
Replace(w) ==
  /\ worker[w].at = "replace"
  /\ worker' = [worker EXCEPT ![w].replaced = results, ![w].at = "store"]
  /\ UNCHANGED <<runVars, results, degraded, rows, news, client>>

\* The new rows are committed together, or, when the first explanation fails, up
\* to the one that could not be explained: recording the degradation commits.
Store(w) ==
  LET new == Ranking(w, worker[w].scored)
      kept == results \ worker[w].replaced
  IN
  /\ worker[w].at = "store"
  /\ \/ /\ ~Collides(kept, new)
        /\ results' = kept \union new
        /\ worker' = [worker EXCEPT ![w].replaced = {}, ![w].at = "close"]
        /\ UNCHANGED degraded
     \/ /\ ~Collides(kept, new) /\ ~worker[w].aware
        /\ degraded' = TRUE
        /\ \E last \in new :
             results' = kept \union {r \in new : r.rank <= last.rank}
        /\ worker' = [worker EXCEPT ![w].replaced = {}, ![w].at = "rest"]
     \/ /\ Collides(kept, new)
        /\ Goto(w, "failing")
        /\ UNCHANGED <<results, degraded>>
  /\ UNCHANGED <<runVars, rows, news, client>>

\* The rows after the degradation; what has been committed stays.
StoreRest(w) ==
  LET more == Ranking(w, worker[w].scored) \ results IN
  /\ worker[w].at = "rest"
  /\ IF Collides(results, more)
       THEN Goto(w, "failing") /\ UNCHANGED results
       ELSE Goto(w, "close") /\ results' = results \union more
  /\ UNCHANGED <<runVars, degraded, rows, news, client>>

Complete(w) ==
  /\ worker[w].at = "close"
  /\ status' = "completed"
  /\ Goto(w, "update")
  /\ UNCHANGED <<mode, dispatch, queue, sent, faults, results, degraded, rows, news, client>>

\* The two last events have transactions of their own, after the status.
Announce(w) ==
  /\ \/ worker[w].at = "update" /\ Goto(w, "finish")
     \/ worker[w].at = "finish" /\ worker' = [worker EXCEPT ![w] = Idle]
  /\ Emit
  /\ UNCHANGED <<runVars, results, degraded, rows, client>>

\* An exception the execution does not handle.
Raise(w) ==
  /\ worker[w].at \notin {"idle", "failing", "lament"} /\ faults < MaxFaults
  /\ faults' = faults + 1
  /\ Goto(w, "failing")
  /\ UNCHANGED <<status, mode, dispatch, queue, sent, results, degraded, rows, news, client>>

\* The task writes "failed" over whatever status the row has.
Fail(w) ==
  /\ worker[w].at = "failing"
  /\ status' = "failed"
  /\ worker' = [worker EXCEPT ![w] = [Idle EXCEPT !.at = "lament"]]
  /\ UNCHANGED <<mode, dispatch, queue, sent, faults, results, degraded, rows, news, client>>

\* It reports the failure and acknowledges the message.
Lament(w) ==
  /\ worker[w].at = "lament"
  /\ Emit
  /\ worker' = [worker EXCEPT ![w] = Idle]
  /\ UNCHANGED <<runVars, results, degraded, rows, client>>
-----------------------------------------------------------------------------
(* The client of the stream.                                               *)

\* A poll reads the status of the run ...
ReadStatus ==
  /\ client = "waiting" /\ status # "none"
  /\ client' = IF status \in Terminal THEN "ending" ELSE "polling"
  /\ UNCHANGED <<runVars, worker, results, degraded, rows, news>>

\* ... and then the events after the last one it has sent.  The stream closes
\* when the run had ended and there was nothing new.
ReadEvents ==
  /\ client \in {"polling", "ending"}
  /\ client' = IF client = "ending" /\ ~news THEN "closed" ELSE "waiting"
  /\ news' = FALSE
  /\ UNCHANGED <<runVars, worker, results, degraded, rows>>
-----------------------------------------------------------------------------
Execution(w) ==
  \/ Index(w) \/ Discover(w) \/ Fetch(w) \/ Write(w) \/ Rank(w) \/ Replace(w)
  \/ Store(w) \/ StoreRest(w) \/ Complete(w) \/ Announce(w) \/ Fail(w) \/ Lament(w)

Next ==
  \/ CreateRun \/ Publish
  \/ \E w \in Workers :
       Take(w) \/ Crash(w) \/ ProviderFails(w) \/ Raise(w) \/ Execution(w)
  \/ ReadStatus \/ ReadEvents

Spec == Init /\ [][Next]_vars

\* The beat publishes every thirty seconds, a worker that has not died works,
\* and the server polls for the client once a second.
Fairness ==
  /\ WF_vars(Publish)
  /\ \A w \in Workers : WF_vars(Take(w)) /\ WF_vars(Execution(w))
  /\ WF_vars(ReadStatus) /\ WF_vars(ReadEvents)

FairSpec == Spec /\ Fairness
-----------------------------------------------------------------------------
(* Properties.                                                             *)

\* FR-JOB-007, FR-JOB-009: what a run shows as its results is one ranking, whole
\* and of one execution, at every moment and whatever second delivery replaces
\* it: never the first rows of one worker and the last rows of another.  (Once an
\* explanation has failed this is not so: see Store.)
ResultsOfOneRanking == degraded \/
  \A r, s \in results :
    /\ r.by = s.by
    /\ \A i \in 1 .. r.rank : \E t \in results : t.rank = i

\* FR-JOB-009: a run that was created comes to rest in "completed" or "failed",
\* although workers die, its dispatch is published twice and executions overlap;
\* and the stream of its events is closed.
RunEnds ==
  (status = "queued") ~>
    (/\ status \in Terminal
     /\ \A w \in Workers : worker[w].at = "idle"
     /\ client = "closed")
=============================================================================
