--------------------------- MODULE JobSearchProofs ---------------------------
(***************************************************************************)
(* For every number of postings, workers, deliveries and faults: until an  *)
(* explanation fails, the results of a run are one ranking of one          *)
(* execution, although executions overlap and no lease keeps them apart.   *)
(*                                                                         *)
(* What keeps them apart is the unique constraint on the rank, and the     *)
(* proof says why it is enough: an execution that deletes the rows it saw  *)
(* deletes all that is there or nothing of it (rows of another execution   *)
(* are never the same rows), and in the second case the first rank of its  *)
(* own rows collides.                                                      *)
(***************************************************************************)
EXTENDS JobSearch, FiniteSetTheorems, WellFoundedInduction, TLAPS

-----------------------------------------------------------------------------
(* The places of a ranking.                                                *)

\* Every set of natural numbers that is not empty has a least element.
LEMMA LeastNat ==
  ASSUME NEW T, T \subseteq Nat, T # {}
  PROVE  \E x \in T : \A y \in T : x <= y
<1> DEFINE R == {ss \in Nat \X Nat : ss[1] < ss[2]}
<1>1. OpToRel(<, Nat) = R
  BY DEF OpToRel
<1>2. IsWellFoundedOn(R, Nat)
  BY <1>1, NatLessThanWellFounded
<1> HIDE DEF R
<1>3. PICK x \in T : \A y \in T : ~ (<<y, x>> \in R)
  BY <1>2, WFMin
<1>4. ASSUME NEW y \in T PROVE x <= y
  <2>1. ~ (<<y, x>> \in R)
    BY <1>3
  <2>2. x \in Nat /\ y \in Nat
    OBVIOUS
  <2>3. ~ (y < x)
    BY <2>1, <2>2 DEF R
  <2> QED
    BY <2>2, <2>3
<1> QED
  BY <1>3, <1>4

\* A posting of S comes after at least itself.
LEMMA PlaceIsPositive ==
  ASSUME NEW S \in SUBSET Jobs, NEW j \in S
  PROVE  Place(j, S) \in Nat \ {0}
<1> DEFINE D == {k \in S : k <= j}
<1>1. IsFiniteSet(D)
  BY SearchAssumption, FS_Subset
<1>2. j \in D
  BY SearchAssumption
<1> HIDE DEF D
<1>3. Cardinality(D) \in Nat /\ Cardinality(D) # 0
  BY <1>1, <1>2, FS_CardinalityType, FS_EmptySet
<1> QED
  BY <1>3 DEF Place, D

\* The posting before j in S, if j is not the first.
LEMMA PlaceBefore ==
  ASSUME NEW S \in SUBSET Jobs, NEW j \in S, Place(j, S) # 1
  PROVE  \E k \in S : Place(k, S) = Place(j, S) - 1
<1> DEFINE D == {k \in S : k <= j}
           B == D \ {j}
           gaps == {j - k : k \in B}
<1>1. S \subseteq Nat /\ j \in Nat /\ IsFiniteSet(D) /\ j \in D
  <2>1. S \subseteq Nat /\ j \in Nat /\ IsFiniteSet(S)
    BY SearchAssumption, FS_Subset
  <2>2. j \in D /\ D \subseteq S
    BY <2>1
  <2> HIDE DEF D
  <2>3. IsFiniteSet(D)
    BY <2>1, <2>2, FS_Subset
  <2> QED
    BY <2>1, <2>2, <2>3
<1>2. Cardinality(B) = Place(j, S) - 1
  <2> HIDE DEF D
  <2>1. Cardinality(B) = Cardinality(D) - 1
    BY <1>1, FS_RemoveElement
  <2> QED
    BY <2>1 DEF Place, D
<1>3. B # {}
  <2> HIDE DEF B
  <2>1. Place(j, S) \in Nat \ {0}
    BY PlaceIsPositive
  <2> QED
    BY <1>2, <2>1, FS_EmptySet
<1>4. gaps \subseteq Nat /\ gaps # {}
  <2>1. ASSUME NEW g \in gaps PROVE g \in Nat
    <3>1. PICK k \in B : g = j - k
      OBVIOUS
    <3>2. k \in S /\ k <= j
      OBVIOUS
    <3> QED
      BY <1>1, <3>1, <3>2
  <2>2. PICK k : k \in B
    BY <1>3
  <2>3. j - k \in gaps
    BY <2>2
  <2> QED
    BY <2>1, <2>3
<1>5. PICK x \in gaps : \A y \in gaps : x <= y
  <2> HIDE DEF gaps
  <2> QED
    BY <1>4, LeastNat
<1>6. PICK k \in B : x = j - k
  BY DEF gaps
<1>7. ASSUME NEW m \in S PROVE m <= k <=> m \in B
  <2>1. /\ m \in Nat /\ k \in Nat /\ k <= j /\ k # j
    BY <1>1, <1>6
  <2>2. ASSUME m \in B PROVE m <= k
    <3>1. x <= j - m
      BY <1>5, <2>2
    <3> QED
      BY <1>1, <1>6, <2>1, <3>1
  <2>3. ASSUME m <= k PROVE m \in B
    BY <1>1, <2>1, <2>3
  <2> QED
    BY <2>2, <2>3
<1>8. {m \in S : m <= k} = B
  BY <1>7
<1>9. Place(k, S) = Cardinality(B)
  BY <1>8 DEF Place
<1> QED
  BY <1>2, <1>6, <1>9

\* The places of S have no gap.
LEMMA NoPlaceIsMissing ==
  ASSUME NEW S \in SUBSET Jobs, NEW j \in S, NEW i \in 1 .. Place(j, S)
  PROVE  \E k \in S : Place(k, S) = i
<1> DEFINE above == {n \in Nat : n >= i /\ \E k \in S : Place(k, S) = n}
<1>1. Place(j, S) \in Nat /\ i \in Nat /\ i >= 1 /\ i <= Place(j, S)
  BY PlaceIsPositive
<1>2. above \subseteq Nat /\ above # {}
  BY <1>1
<1>3. PICK n \in above : \A m \in above : n <= m
  <2> HIDE DEF above
  <2> QED
    BY <1>2, LeastNat
<1>4. PICK k \in S : Place(k, S) = n
  OBVIOUS
<1>5. CASE n = i
  BY <1>4, <1>5
<1>6. CASE n # i
  <2>1. n \in Nat /\ n - 1 \in Nat /\ n - 1 >= i /\ n # 1
    BY <1>1, <1>6
  <2>2. PICK l \in S : Place(l, S) = n - 1
    BY <1>4, <2>1, PlaceBefore
  <2>3. n - 1 \in above
    BY <2>1, <2>2
  <2> QED
    BY <1>3, <2>1, <2>3
<1> QED
  BY <1>5, <1>6

-----------------------------------------------------------------------------
(* The invariant.                                                          *)

Row == [rank: 1 .. MaxResults, job: Jobs, by: 1 .. MaxMessages]

WorkerRow == [at: Steps, turn: 0 .. MaxMessages, scored: SUBSET Jobs, todo: SUBSET Jobs,
              known: BOOLEAN, replaced: SUBSET Row, aware: BOOLEAN]

\* What the workers hold: an execution that is at a posting has one to be at.
Held ==
  /\ worker \in [Workers -> WorkerRow]
  /\ \A w \in Workers :
       /\ worker[w].scored \subseteq rows
       /\ worker[w].at \in {"fetch", "write"} => worker[w].todo # {}

Shared ==
  /\ status \in {"none", "queued", "searching", "verifying", "ranking"} \union Terminal
  /\ mode \in Modes
  /\ dispatch \in {"none", "pending", "published"}
  /\ queue \in 0 .. sent /\ sent \in 0 .. MaxMessages /\ faults \in 0 .. MaxFaults
  /\ results \subseteq Row
  /\ degraded \in BOOLEAN
  /\ rows \subseteq Jobs
  /\ news \in BOOLEAN
  /\ client \in {"waiting", "polling", "ending", "closed"}

Typed == Held /\ Shared

\* The deliveries that have been taken.
Taken == sent - queue

\* An execution in one of these steps has not written any row.
Before == {"index", "live", "fetch", "write", "rank", "replace", "store"}

\* Executions have numbers of their own, and rows the number of one of them.
Numbered ==
  /\ \A w \in Workers : /\ worker[w].turn <= Taken
                        /\ worker[w].at \notin {"idle", "lament"} => worker[w].turn # 0
                        /\ \A r \in worker[w].replaced : r.by <= Taken
  /\ \A v, w \in Workers : v # w /\ worker[v].turn = worker[w].turn => worker[v].turn = 0
  /\ \A r \in results : r.by <= Taken

Unwritten ==
  \A w \in Workers : worker[w].at \in Before =>
    /\ \A r \in results : r.by # worker[w].turn
    /\ \A v \in Workers : \A r \in worker[v].replaced : r.by # worker[w].turn

\* R is one ranking, whole and of one execution.
Whole(R) ==
  \A r, s \in R : r.by = s.by /\ \A i \in 1 .. r.rank : \E t \in R : t.rank = i

\* What a worker has deleted is all that is there, or nothing of it.
AllOrNothing(w) == results \subseteq worker[w].replaced \/ results \cap worker[w].replaced = {}

OneRanking ==
  degraded \/ /\ Whole(results)
              /\ \A w \in Workers : /\ worker[w].at # "rest"
                                    /\ worker[w].at = "store" => AllOrNothing(w)

IInv == Typed /\ Numbered /\ Unwritten /\ OneRanking

LEMMA TakenBounds ==
  ASSUME Typed
  PROVE  Taken \in Nat /\ Taken <= MaxMessages /\ queue \in Nat /\ sent \in Nat
         /\ \A w \in Workers : worker[w].turn \in Nat
BY SearchAssumption DEF Typed, Held, Shared, Taken, WorkerRow

\* The rows of a ranking.
LEMMA RankingRows ==
  ASSUME Typed, Numbered, NEW w \in Workers, worker[w].at \notin {"idle", "lament"}
  PROVE  LET new == Ranking(w, worker[w].scored)
         IN  new \subseteq Row /\ Whole(new) /\ \A r \in new : r.by = worker[w].turn
<1> DEFINE S == worker[w].scored
           t == worker[w].turn
           new == Ranking(w, S)
<1>1. S \in SUBSET Jobs /\ t \in 1 .. MaxMessages
  BY TakenBounds DEF Typed, Held, Numbered, WorkerRow
<1>2. new = {[rank |-> Place(j, S), job |-> j, by |-> t] : j \in {k \in S : Place(k, S) <= MaxResults}}
  BY DEF Ranking
<1> HIDE DEF S, t, new
<1>3. ASSUME NEW r \in new
      PROVE  \E j \in S : /\ r.rank = Place(j, S) /\ r.job = j /\ r.by = t /\ r \in Row
                          /\ Place(j, S) <= MaxResults
  <2>1. PICK j \in S : Place(j, S) <= MaxResults /\ r = [rank |-> Place(j, S), job |-> j, by |-> t]
    BY <1>2
  <2>2. Place(j, S) \in 1 .. MaxResults /\ j \in Jobs
    BY <1>1, <2>1, PlaceIsPositive, SearchAssumption
  <2> QED
    BY <1>1, <2>1, <2>2 DEF Row
<1>4. ASSUME NEW r \in new, NEW i \in 1 .. r.rank PROVE \E u \in new : u.rank = i
  <2>1. PICK j \in S : r.rank = Place(j, S) /\ Place(j, S) <= MaxResults
    BY <1>3
  <2>2. PICK k \in S : Place(k, S) = i
    BY <1>1, <2>1, NoPlaceIsMissing
  <2>3. i <= MaxResults
    <3>1. Place(j, S) \in Nat /\ MaxResults \in Nat
      BY <1>1, PlaceIsPositive, SearchAssumption
    <3>2. i \in 1 .. Place(j, S)
      BY <2>1
    <3>3. i \in Nat /\ i <= Place(j, S)
      BY <3>1, <3>2
    <3> QED
      BY <2>1, <3>1, <3>3
  <2> DEFINE u == [rank |-> Place(k, S), job |-> k, by |-> t]
  <2>4. u \in new /\ u.rank = i
    BY <1>2, <2>2, <2>3
  <2> QED
    BY <2>4
<1>5. \A r \in new : r \in Row /\ r.by = t
  BY <1>3
<1>6. Whole(new)
  BY <1>4, <1>5 DEF Whole
<1> QED
  BY <1>5, <1>6 DEF new, t, S

-----------------------------------------------------------------------------
(* Steps of one worker.                                                    *)

\* A step in which worker w writes, if any, rows of its own, and deletes, if
\* any, rows that were there.
LEMMA WorkerNumbers ==
  ASSUME Typed, Numbered, Unwritten, NEW w \in Workers,
         Typed', \A v \in Workers \ {w} : worker'[v] = worker[v], Taken' = Taken,
         worker'[w].turn \in {0, worker[w].turn},
         worker'[w].at \notin {"idle", "lament"} => worker'[w].turn # 0,
         worker'[w].at \in Before => worker[w].at \in Before /\ worker'[w].turn = worker[w].turn
                                     /\ results' = results,
         worker'[w].replaced \subseteq worker[w].replaced \cup results,
         \A r \in results' : r \in results \/ (r.by = worker[w].turn /\ worker[w].turn # 0)
  PROVE  Numbered' /\ Unwritten'
<1>1. /\ Taken \in Nat /\ \A v \in Workers : worker[v].turn \in Nat /\ worker'[v].turn \in Nat
  BY TakenBounds DEF Typed, Held, WorkerRow
<1>2. Numbered'
  <2>1. ASSUME NEW v \in Workers
        PROVE  /\ worker'[v].turn <= Taken'
               /\ worker'[v].at \notin {"idle", "lament"} => worker'[v].turn # 0
               /\ \A r \in worker'[v].replaced : r.by <= Taken'
    BY <1>1 DEF Numbered
  <2>2. ASSUME NEW u \in Workers, NEW v \in Workers, u # v, worker'[u].turn = worker'[v].turn
        PROVE  worker'[u].turn = 0
    BY <2>2 DEF Numbered
  <2>3. \A r \in results' : r.by <= Taken'
    BY DEF Numbered
  <2> QED
    BY <2>1, <2>2, <2>3 DEF Numbered
<1>3. ASSUME NEW v \in Workers, worker'[v].at \in Before
      PROVE  /\ \A r \in results' : r.by # worker'[v].turn
             /\ \A u \in Workers : \A r \in worker'[u].replaced : r.by # worker'[v].turn
  <2>1. worker[v].at \in Before /\ worker'[v].turn = worker[v].turn
    BY <1>3
  <2>2. \A r \in results : r.by # worker[v].turn
    BY <2>1 DEF Unwritten
  <2>3. \A u \in Workers : \A r \in worker[u].replaced : r.by # worker[v].turn
    BY <2>1 DEF Unwritten
  <2>4. ASSUME NEW r \in results' PROVE r.by # worker'[v].turn
    <3>1. CASE v = w
      BY <1>3, <2>1, <2>2, <3>1
    <3>2. CASE v # w
      BY <2>1, <2>2, <3>2 DEF Numbered
    <3> QED
      BY <3>1, <3>2
  <2>5. ASSUME NEW u \in Workers, NEW r \in worker'[u].replaced PROVE r.by # worker'[v].turn
    BY <2>1, <2>2, <2>3
  <2> QED
    BY <2>4, <2>5
<1> QED
  BY <1>2, <1>3 DEF Unwritten

\* A step that writes nothing.
LEMMA WorkerQuiet ==
  ASSUME IInv, NEW w \in Workers,
         Typed', \A v \in Workers \ {w} : worker'[v] = worker[v], Taken' = Taken,
         UNCHANGED <<results, degraded>>,
         \/ worker'[w].at \in {"idle", "lament"} /\ worker'[w].turn = 0
         \/ /\ worker[w].at \notin {"idle", "lament"} /\ worker'[w].turn = worker[w].turn
            /\ worker'[w].at \in Before => worker[w].at \in Before,
         worker'[w].at \notin {"store", "rest"},
         worker'[w].replaced \subseteq worker[w].replaced
  PROVE  IInv'
<1>1. worker[w].at \notin {"idle", "lament"} => worker[w].turn # 0
  BY DEF IInv, Numbered
<1>2. Numbered' /\ Unwritten'
  BY <1>1, WorkerNumbers DEF IInv, Before
<1>3. OneRanking'
  BY DEF IInv, OneRanking, AllOrNothing
<1> QED
  BY <1>2, <1>3 DEF IInv

\* Worker w goes to a row that is well typed.
LEMMA WorkerTyped ==
  ASSUME Held, NEW w \in Workers, NEW row \in WorkerRow,
         worker' = [worker EXCEPT ![w] = row],
         rows \subseteq rows', row.scored \subseteq rows',
         row.at \in {"fetch", "write"} => row.todo # {}
  PROVE  /\ Held' /\ worker'[w] = row
         /\ \A v \in Workers \ {w} : worker'[v] = worker[v]
<1>1. worker'[w] = row /\ \A v \in Workers \ {w} : worker'[v] = worker[v]
  BY DEF Held
<1>2. worker' \in [Workers -> WorkerRow]
  BY DEF Held
<1>3. ASSUME NEW v \in Workers
      PROVE  /\ worker'[v].scored \subseteq rows'
             /\ worker'[v].at \in {"fetch", "write"} => worker'[v].todo # {}
  <2>1. CASE v = w
    BY <1>1, <2>1
  <2>2. CASE v # w
    BY <1>1, <2>2 DEF Held
  <2> QED
    BY <2>1, <2>2
<1> QED
  BY <1>1, <1>2, <1>3 DEF Held

\* The posting an execution is at.
LEMMA ItemIsOne ==
  ASSUME Typed, NEW w \in Workers, worker[w].at \in {"fetch", "write"}
  PROVE  Item(w) \in worker[w].todo /\ Item(w) \in Jobs
<1>1. worker[w].todo \subseteq Jobs /\ worker[w].todo # {}
  BY DEF Typed, Held, WorkerRow
<1>2. worker[w].todo \subseteq Nat
  BY <1>1, SearchAssumption
<1>3. \E j \in worker[w].todo : \A k \in worker[w].todo : j <= k
  BY <1>1, <1>2, LeastNat
<1> QED
  BY <1>1, <1>3 DEF Item

\* Only the step of worker w is changed, and nothing the rows depend on.
LEMMA GotoTyped ==
  ASSUME Typed, Shared', NEW w \in Workers, NEW step \in Steps \ {"fetch", "write"},
         Goto(w, step), rows' = rows
  PROVE  /\ Typed' /\ \A v \in Workers \ {w} : worker'[v] = worker[v]
         /\ worker'[w].at = step /\ worker'[w].turn = worker[w].turn
         /\ worker'[w].replaced = worker[w].replaced
<1> DEFINE row == [worker[w] EXCEPT !.at = step]
<1>1. worker' = [worker EXCEPT ![w] = row]
  BY DEF Goto, Typed, Held
<1>2. row \in WorkerRow /\ row.at = step /\ row.turn = worker[w].turn
      /\ row.replaced = worker[w].replaced /\ row.scored = worker[w].scored
  BY DEF Typed, Held, WorkerRow
<1>3. row.scored \subseteq rows
  BY <1>2 DEF Typed, Held
<1> HIDE DEF row
<1> QED
  BY <1>1, <1>2, <1>3, WorkerTyped DEF Typed

\* Idle is well typed.
LEMMA IdleTyped ==
  ASSUME NEW step \in {"idle", "lament"}
  PROVE  /\ [Idle EXCEPT !.at = step] \in WorkerRow
         /\ [Idle EXCEPT !.at = step].at = step
         /\ [Idle EXCEPT !.at = step].turn = 0
         /\ [Idle EXCEPT !.at = step].scored = {}
         /\ [Idle EXCEPT !.at = step].replaced = {}
<1>1. 0 \in 0 .. MaxMessages
  BY SearchAssumption
<1>2. Idle \in WorkerRow
  BY <1>1 DEF Idle, WorkerRow, Steps
<1>3. /\ Idle.turn = 0 /\ Idle.scored = {} /\ Idle.replaced = {}
      /\ step \in Steps
  BY DEF Idle, Steps
<1> QED
  BY <1>2, <1>3 DEF WorkerRow

\* Worker w leaves its execution.
LEMMA LeaveTyped ==
  ASSUME Typed, Shared', NEW w \in Workers, NEW step \in {"idle", "lament"},
         worker' = [worker EXCEPT ![w] = [Idle EXCEPT !.at = step]], rows' = rows
  PROVE  /\ Typed' /\ \A v \in Workers \ {w} : worker'[v] = worker[v]
         /\ worker'[w].at = step /\ worker'[w].turn = 0 /\ worker'[w].replaced = {}
<1> DEFINE row == [Idle EXCEPT !.at = step]
<1>1. row \in WorkerRow /\ row.at = step /\ row.turn = 0 /\ row.scored = {} /\ row.replaced = {}
  BY IdleTyped
<1> HIDE DEF row
<1>2. Held' /\ worker'[w] = row /\ \A v \in Workers \ {w} : worker'[v] = worker[v]
  BY <1>1, WorkerTyped DEF Typed, row
<1> QED
  BY <1>1, <1>2 DEF Typed

-----------------------------------------------------------------------------
(* The actions that write no row.                                          *)

LEMMA IndexStep ==
  ASSUME IInv, NEW w \in Workers, Index(w)
  PROVE  IInv'
<1> USE DEF IInv
<1>1. PICK found \in SUBSET rows :
        worker' = [worker EXCEPT ![w].scored = found,
                                 ![w].at = IF mode = "hybrid" THEN "live" ELSE "rank"]
  BY DEF Index
<1> DEFINE row == [worker[w] EXCEPT !.scored = found,
                                    !.at = IF mode = "hybrid" THEN "live" ELSE "rank"]
<1>2. worker' = [worker EXCEPT ![w] = row]
  BY <1>1 DEF Typed, Held
<1>3. Shared' /\ rows' = rows /\ Taken' = Taken /\ UNCHANGED <<results, degraded>>
  BY DEF Index, Emit, runVars, Typed, Shared, Taken
<1>4. /\ row \in WorkerRow /\ row.turn = worker[w].turn /\ row.replaced = worker[w].replaced
      /\ row.scored = found /\ row.at \in {"live", "rank"}
  BY DEF Typed, Held, Shared, WorkerRow, Steps
<1>5. worker[w].at = "index"
  BY DEF Index
<1> HIDE DEF row
<1>6. Held' /\ worker'[w] = row /\ \A v \in Workers \ {w} : worker'[v] = worker[v]
  BY <1>2, <1>3, <1>4, WorkerTyped DEF Typed
<1>7. Typed'
  BY <1>3, <1>6 DEF Typed
<1> QED
  BY <1>3, <1>4, <1>5, <1>6, <1>7, WorkerQuiet DEF Before

LEMMA DiscoverStep ==
  ASSUME IInv, NEW w \in Workers, Discover(w)
  PROVE  IInv'
<1> USE DEF IInv
<1>1. PICK found \in SUBSET Jobs :
        worker' = [worker EXCEPT ![w].todo = found, ![w].at = AfterItem(found)]
  BY DEF Discover
<1> DEFINE row == [worker[w] EXCEPT !.todo = found, !.at = AfterItem(found)]
<1>2. worker' = [worker EXCEPT ![w] = row]
  BY <1>1 DEF Typed, Held
<1>3. Shared' /\ rows' = rows /\ Taken' = Taken /\ UNCHANGED <<results, degraded>>
  BY DEF Discover, Emit, Typed, Shared, Taken, Terminal
<1>4. /\ row \in WorkerRow /\ row.turn = worker[w].turn /\ row.replaced = worker[w].replaced
      /\ row.scored = worker[w].scored /\ row.at \in {"fetch", "rank"}
      /\ row.at = "fetch" => row.todo # {}
  BY DEF Typed, Held, WorkerRow, Steps, AfterItem
<1>5. worker[w].at = "live" /\ worker[w].scored \subseteq rows
  BY DEF Discover, Typed, Held
<1> HIDE DEF row
<1>6. Held' /\ worker'[w] = row /\ \A v \in Workers \ {w} : worker'[v] = worker[v]
  BY <1>2, <1>3, <1>4, <1>5, WorkerTyped DEF Typed
<1>7. Typed'
  BY <1>3, <1>6 DEF Typed
<1> QED
  BY <1>3, <1>4, <1>5, <1>6, <1>7, WorkerQuiet DEF Before

LEMMA FetchStep ==
  ASSUME IInv, NEW w \in Workers, Fetch(w)
  PROVE  IInv'
<1> USE DEF IInv
<1> DEFINE left == worker[w].todo \ {Item(w)}
           seen == Item(w) \in rows
           row == [worker[w] EXCEPT !.known = seen, !.at = "write"]
           out == [worker[w] EXCEPT !.todo = left, !.at = AfterItem(left)]
<1>1. worker' = [worker EXCEPT ![w] = row] \/ worker' = [worker EXCEPT ![w] = out]
  BY DEF Fetch, Typed, Held
<1>2. Shared' /\ rows' = rows /\ Taken' = Taken /\ UNCHANGED <<results, degraded>>
  BY DEF Fetch, Emit, runVars, Typed, Shared, Taken
<1>3. worker[w].at = "fetch" /\ worker[w].scored \subseteq rows /\ worker[w].todo # {}
  BY DEF Fetch, Typed, Held
<1>4. \E new \in {row, out} :
        /\ new \in WorkerRow /\ new.turn = worker[w].turn /\ new.replaced = worker[w].replaced
        /\ new.scored = worker[w].scored /\ new.at \in {"fetch", "write", "rank"}
        /\ new.at # "rank" => new.todo # {}
        /\ worker' = [worker EXCEPT ![w] = new]
  <2>1. /\ row \in WorkerRow /\ row.turn = worker[w].turn /\ row.replaced = worker[w].replaced
        /\ row.scored = worker[w].scored /\ row.at = "write" /\ row.todo # {}
    <3>1. seen \in BOOLEAN /\ worker[w] \in WorkerRow
      BY DEF Typed, Held
    <3> HIDE DEF seen
    <3> QED
      BY <1>3, <3>1 DEF WorkerRow, Steps
  <2>2. /\ out \in WorkerRow /\ out.turn = worker[w].turn /\ out.replaced = worker[w].replaced
        /\ out.scored = worker[w].scored /\ out.at \in {"fetch", "rank"}
        /\ out.at # "rank" => out.todo # {}
    BY <1>3 DEF Typed, Held, WorkerRow, Steps, AfterItem
  <2> HIDE DEF row, out
  <2> QED
    BY <1>1, <2>1, <2>2
<1> HIDE DEF row, out
<1>5. PICK new : /\ new \in WorkerRow /\ new.turn = worker[w].turn
                 /\ new.replaced = worker[w].replaced /\ new.scored = worker[w].scored
                 /\ new.at \in {"fetch", "write", "rank"}
                 /\ new.at # "rank" => new.todo # {}
                 /\ worker' = [worker EXCEPT ![w] = new]
  BY <1>4
<1>6. Held' /\ worker'[w] = new /\ \A v \in Workers \ {w} : worker'[v] = worker[v]
  BY <1>2, <1>3, <1>5, WorkerTyped DEF Typed
<1>7. Typed'
  BY <1>2, <1>6 DEF Typed
<1> QED
  BY <1>2, <1>3, <1>5, <1>6, <1>7, WorkerQuiet DEF Before

LEMMA WriteStep ==
  ASSUME IInv, NEW w \in Workers, Write(w)
  PROVE  IInv'
<1> USE DEF IInv
<1>1. worker[w].at = "write" /\ worker[w].scored \subseteq rows
  BY DEF Write, Typed, Held
<1>2. Item(w) \in Jobs
  BY <1>1, ItemIsOne
<1>3. Shared' /\ Taken' = Taken /\ UNCHANGED <<results, degraded>> /\ rows \subseteq rows'
  BY <1>2 DEF Write, Emit, runVars, Typed, Shared, Taken
<1>4. CASE ~worker[w].known /\ Item(w) \in rows
  <2>1. Goto(w, "failing") /\ rows' = rows
    BY <1>4 DEF Write
  <2> QED
    BY <1>1, <1>3, <2>1, GotoTyped, WorkerQuiet DEF Before, Steps
<1>5. CASE ~(~worker[w].known /\ Item(w) \in rows)
  <2> DEFINE left == worker[w].todo \ {Item(w)}
  <2>1. rows' = rows \union {Item(w)}
    BY <1>5 DEF Write
  <2>2. PICK joins \in SUBSET {Item(w)} :
          worker' = [worker EXCEPT ![w].scored = @ \union joins, ![w].todo = left,
                                   ![w].known = FALSE, ![w].at = AfterItem(left)]
    BY <1>5 DEF Write
  <2> DEFINE row == [worker[w] EXCEPT !.scored = @ \union joins, !.todo = left,
                                      !.known = FALSE, !.at = AfterItem(left)]
  <2>3. worker' = [worker EXCEPT ![w] = row]
    BY <2>2 DEF Typed, Held
  <2>4. /\ row \in WorkerRow /\ row.turn = worker[w].turn /\ row.replaced = worker[w].replaced
        /\ row.scored = worker[w].scored \union joins /\ row.at \in {"fetch", "rank"}
        /\ row.at = "fetch" => row.todo # {}
    <3>1. worker[w] \in WorkerRow
      BY DEF Typed, Held
    <3>2. AfterItem(left) \in {"fetch", "rank"} /\ (AfterItem(left) = "fetch" => left # {})
      BY DEF AfterItem
    <3>3. joins \in SUBSET Jobs /\ left \in SUBSET Jobs
      BY <1>2, <3>1 DEF WorkerRow
    <3> HIDE DEF left
    <3>4. row \in WorkerRow
      BY <3>1, <3>2, <3>3 DEF WorkerRow, Steps
    <3>5. /\ row.turn = worker[w].turn /\ row.replaced = worker[w].replaced
          /\ row.scored = worker[w].scored \union joins /\ row.todo = left
          /\ row.at = AfterItem(left)
      BY <3>1 DEF WorkerRow
    <3> QED
      BY <3>2, <3>4, <3>5
  <2> HIDE DEF row
  <2>5. row.scored \subseteq rows'
    BY <1>1, <2>1, <2>4
  <2>6. Held' /\ worker'[w] = row /\ \A v \in Workers \ {w} : worker'[v] = worker[v]
    BY <1>3, <2>3, <2>4, <2>5, WorkerTyped DEF Typed
  <2>7. Typed'
    BY <1>3, <2>6 DEF Typed
  <2> QED
    BY <1>1, <1>3, <2>4, <2>6, <2>7, WorkerQuiet DEF Before
<1> QED
  BY <1>4, <1>5

\* The steps that only go on to another step.
LEMMA GotoStep ==
  ASSUME IInv, NEW w \in Workers,
         \/ ProviderFails(w) \/ Raise(w) \/ Rank(w) \/ Complete(w)
         \/ Announce(w) /\ worker[w].at = "update"
  PROVE  IInv'
<1> USE DEF IInv
<1>1. Shared' /\ Taken' = Taken /\ UNCHANGED <<results, degraded>> /\ rows' = rows
  <2>1. /\ status' \in {status, "ranking", "completed"}
        /\ \/ faults' = faults
           \/ faults < MaxFaults /\ faults' = faults + 1
        /\ news' \in {news, TRUE}
        /\ UNCHANGED <<mode, dispatch, queue, sent, results, degraded, rows, client>>
    <3>1. CASE ProviderFails(w)
      BY <3>1 DEF ProviderFails
    <3>2. CASE Raise(w)
      BY <3>2 DEF Raise
    <3>3. CASE Rank(w)
      BY <3>3 DEF Rank
    <3>4. CASE Complete(w)
      BY <3>4 DEF Complete
    <3>5. CASE Announce(w)
      BY <3>5 DEF Announce, Emit, runVars
    <3> QED
      BY <3>1, <3>2, <3>3, <3>4, <3>5
  <2>2. faults' \in 0 .. MaxFaults
    BY <2>1, SearchAssumption DEF Typed, Shared
  <2> QED
    BY <2>1, <2>2 DEF Typed, Shared, Taken, Terminal
<1>2. PICK step \in {"failing", "rank", "replace", "update", "finish"} :
        /\ Goto(w, step) /\ worker[w].at \notin {"idle", "lament"}
        /\ step \in Before => worker[w].at \in Before
  BY DEF ProviderFails, Raise, Rank, Complete, Announce, Before
<1>3. /\ Typed' /\ \A v \in Workers \ {w} : worker'[v] = worker[v]
      /\ worker'[w].at = step /\ worker'[w].turn = worker[w].turn
      /\ worker'[w].replaced = worker[w].replaced
  BY <1>1, <1>2, GotoTyped DEF Steps
<1>4. /\ worker'[w].at \in Before => worker[w].at \in Before
      /\ worker'[w].at \notin {"store", "rest"}
      /\ worker'[w].replaced \subseteq worker[w].replaced
  BY <1>2, <1>3
<1> QED
  BY <1>1, <1>2, <1>3, <1>4, WorkerQuiet

\* The steps that end an execution.
LEMMA LeaveStep ==
  ASSUME IInv, NEW w \in Workers,
         \/ Crash(w) \/ Fail(w) \/ Lament(w)
         \/ Announce(w) /\ worker[w].at = "finish"
  PROVE  IInv'
<1> USE DEF IInv
<1>1. Shared' /\ Taken' = Taken /\ UNCHANGED <<results, degraded>> /\ rows' = rows
  <2>1. /\ status' \in {status, "failed"} /\ news' \in {news, TRUE}
        /\ \/ UNCHANGED <<queue, sent>>
           \/ sent < MaxMessages /\ queue' = queue + 1 /\ sent' = sent + 1
        /\ UNCHANGED <<mode, dispatch, faults, results, degraded, rows, client>>
    BY DEF Crash, Fail, Lament, Announce, Emit, runVars
  <2>2. queue' \in 0 .. sent' /\ sent' \in 0 .. MaxMessages /\ Taken' = Taken
    BY <2>1, TakenBounds, SearchAssumption DEF Typed, Shared, Taken
  <2> QED
    BY <2>1, <2>2 DEF Typed, Shared, Terminal
<1>2. PICK step \in {"idle", "lament"} : worker' = [worker EXCEPT ![w] = [Idle EXCEPT !.at = step]]
  <2>1. Idle = [Idle EXCEPT !.at = "idle"]
    BY DEF Idle
  <2> QED
    BY <2>1 DEF Crash, Fail, Lament, Announce
<1>3. /\ Typed' /\ \A v \in Workers \ {w} : worker'[v] = worker[v]
      /\ worker'[w].at = step /\ worker'[w].turn = 0 /\ worker'[w].replaced = {}
  BY <1>1, <1>2, LeaveTyped
<1>4. /\ worker'[w].at \in {"idle", "lament"} /\ worker'[w].at \notin {"store", "rest"}
      /\ worker'[w].replaced \subseteq worker[w].replaced
  BY <1>2, <1>3
<1> QED
  BY <1>1, <1>2, <1>3, <1>4, WorkerQuiet

\* DELETE takes all the rows there are, so what is left to the worker is nothing.
LEMMA ReplaceStep ==
  ASSUME IInv, NEW w \in Workers, Replace(w)
  PROVE  IInv'
<1> USE DEF IInv
<1> DEFINE row == [worker[w] EXCEPT !.replaced = results, !.at = "store"]
<1>1. worker' = [worker EXCEPT ![w] = row] /\ worker[w].at = "replace"
  BY DEF Replace, Typed, Held
<1>2. Shared' /\ Taken' = Taken /\ UNCHANGED <<results, degraded>> /\ rows' = rows
  BY DEF Replace, runVars, Typed, Shared, Taken
<1>3. /\ row \in WorkerRow /\ row.turn = worker[w].turn /\ row.replaced = results
      /\ row.scored = worker[w].scored /\ row.at = "store"
  BY DEF Typed, Held, Shared, WorkerRow, Steps
<1>4. worker[w].scored \subseteq rows
  BY DEF Typed, Held
<1> HIDE DEF row
<1>5. Held' /\ worker'[w] = row /\ \A v \in Workers \ {w} : worker'[v] = worker[v]
  BY <1>1, <1>2, <1>3, <1>4, WorkerTyped DEF Typed
<1>6. Typed'
  BY <1>2, <1>5 DEF Typed
<1>7. worker[w].turn # 0
  BY <1>1 DEF Numbered
<1>8. Numbered' /\ Unwritten'
  BY <1>1, <1>2, <1>3, <1>5, <1>6, <1>7, WorkerNumbers DEF Before
<1>9. OneRanking'
  <2>1. AllOrNothing(w)'
    BY <1>2, <1>3, <1>5 DEF AllOrNothing
  <2> QED
    BY <1>2, <1>3, <1>5, <2>1 DEF OneRanking, AllOrNothing
<1> QED
  BY <1>6, <1>8, <1>9

\* Two whole rankings that are not empty both have a first row.
LEMMA WholesCollide ==
  ASSUME NEW R \in SUBSET Row, NEW N \in SUBSET Row, Whole(R), Whole(N), R # {}, N # {}
  PROVE  Collides(R, N)
<1>1. ASSUME NEW M \in SUBSET Row, Whole(M), M # {} PROVE \E t \in M : t.rank = 1
  <2>1. PICK r \in M : r.rank \in 1 .. MaxResults
    BY <1>1 DEF Row
  <2>2. 1 \in 1 .. r.rank
    BY <2>1, SearchAssumption
  <2> QED
    BY <1>1, <2>1, <2>2 DEF Whole
<1>2. PICK a \in R : a.rank = 1
  BY <1>1
<1>3. PICK b \in N : b.rank = 1
  BY <1>1
<1> QED
  BY <1>2, <1>3 DEF Collides

\* The commit of a whole ranking replaces the one that was there.
LEMMA StoreRanking ==
  ASSUME IInv, NEW w \in Workers, worker[w].at = "store", ~degraded,
         NEW new \in SUBSET Row, Whole(new), \A r \in new : r.by = worker[w].turn,
         ~Collides(results \ worker[w].replaced, new),
         results' = (results \ worker[w].replaced) \union new,
         \A v \in Workers \ {w} : worker'[v] = worker[v],
         worker'[w].at \notin {"store", "rest"}
  PROVE  OneRanking'
<1> USE DEF IInv
<1>1. Whole(results) /\ results \subseteq Row /\ AllOrNothing(w)
  BY DEF OneRanking, Typed, Shared
<1>2. results' = results \/ results' = new
  <2>1. CASE results \subseteq worker[w].replaced
    BY <2>1
  <2>2. CASE results \cap worker[w].replaced = {}
    <3>1. results \ worker[w].replaced = results
      BY <2>2
    <3>2. results = {} \/ new = {}
      BY <1>1, <3>1, WholesCollide
    <3> QED
      BY <3>1, <3>2
  <2> QED
    BY <1>1, <2>1, <2>2 DEF AllOrNothing
<1>3. Whole(results')
  BY <1>1, <1>2
<1>4. \A v \in Workers : worker[v].replaced \cap new = {}
  BY DEF Unwritten, Before
<1>5. ASSUME NEW v \in Workers
      PROVE  /\ worker'[v].at # "rest"
             /\ worker'[v].at = "store" => AllOrNothing(v)'
  <2>1. CASE v = w
    BY <2>1
  <2>2. CASE v # w
    <3>1. worker'[v] = worker[v]
      BY <2>2
    <3>2. worker[v].at # "rest" /\ (worker[v].at = "store" => AllOrNothing(v))
      BY DEF OneRanking
    <3>3. results' = results => (AllOrNothing(v)' <=> AllOrNothing(v))
      BY <3>1 DEF AllOrNothing
    <3>4. results' = new => AllOrNothing(v)'
      BY <1>4, <3>1 DEF AllOrNothing
    <3> QED
      BY <1>2, <3>1, <3>2, <3>3, <3>4
  <2> QED
    BY <2>1, <2>2
<1>6. Whole(results)'
  BY <1>3 DEF Whole
<1> QED
  BY <1>5, <1>6 DEF OneRanking

LEMMA StoreStep ==
  ASSUME IInv, NEW w \in Workers, Store(w)
  PROVE  IInv'
<1> USE DEF IInv
<1> DEFINE new == Ranking(w, worker[w].scored)
           kept == results \ worker[w].replaced
<1>1. /\ worker[w].at = "store" /\ worker[w].turn # 0 /\ worker[w].scored \subseteq rows
      /\ worker[w] \in WorkerRow
  BY DEF Store, Typed, Held, Numbered
<1>2. new \subseteq Row /\ Whole(new) /\ \A r \in new : r.by = worker[w].turn
  BY <1>1, RankingRows
<1>3. /\ \/ /\ ~Collides(kept, new)
            /\ results' = kept \union new
            /\ worker' = [worker EXCEPT ![w].replaced = {}, ![w].at = "close"]
            /\ degraded' = degraded
         \/ /\ ~Collides(kept, new) /\ ~worker[w].aware
            /\ degraded' = TRUE
            /\ \E last \in new : results' = kept \union {r \in new : r.rank <= last.rank}
            /\ worker' = [worker EXCEPT ![w].replaced = {}, ![w].at = "rest"]
         \/ /\ Collides(kept, new)
            /\ Goto(w, "failing")
            /\ results' = results /\ degraded' = degraded
      /\ UNCHANGED <<runVars, rows, news, client>>
  BY DEF Store
<1> HIDE DEF new
<1>4. Taken' = Taken /\ rows' = rows
  BY <1>3 DEF runVars, Taken
<1>5. /\ degraded' \in BOOLEAN /\ results' \subseteq Row
      /\ \A r \in results' : r \in results \/ (r.by = worker[w].turn /\ worker[w].turn # 0)
  BY <1>1, <1>2, <1>3 DEF Typed, Shared
<1>6. Shared'
  BY <1>3, <1>5 DEF runVars, Typed, Shared
<1>7. CASE Collides(kept, new)
  <2>1. Goto(w, "failing") /\ UNCHANGED <<results, degraded>>
    BY <1>3, <1>7
  <2> QED
    BY <1>1, <1>4, <1>6, <2>1, GotoTyped, WorkerQuiet DEF Before, Steps
<1>8. CASE ~Collides(kept, new)
  <2>1. PICK step \in {"close", "rest"} :
          /\ worker' = [worker EXCEPT ![w].replaced = {}, ![w].at = step]
          /\ step = "close" => degraded' = degraded /\ results' = kept \union new
          /\ step = "rest" => degraded' = TRUE
    BY <1>3, <1>8
  <2> DEFINE row == [worker[w] EXCEPT !.replaced = {}, !.at = step]
  <2>2. worker' = [worker EXCEPT ![w] = row]
    BY <2>1 DEF Typed, Held
  <2>3. /\ row \in WorkerRow /\ row.turn = worker[w].turn /\ row.replaced = {}
        /\ row.scored = worker[w].scored /\ row.at = step
    BY <1>1 DEF WorkerRow, Steps
  <2> HIDE DEF row, kept
  <2>4. Held' /\ worker'[w] = row /\ \A v \in Workers \ {w} : worker'[v] = worker[v]
    BY <1>1, <1>4, <2>2, <2>3, WorkerTyped DEF Typed
  <2>5. Typed'
    BY <1>6, <2>4 DEF Typed
  <2>6. Numbered' /\ Unwritten'
    BY <1>1, <1>4, <1>5, <2>3, <2>4, <2>5, WorkerNumbers DEF Before
  <2>7. OneRanking'
    <3>1. CASE degraded' = TRUE
      BY <3>1 DEF OneRanking
    <3>2. CASE degraded' # TRUE
      <4>1. step = "close" /\ ~degraded
        BY <2>1, <3>2 DEF Typed, Shared
      <4>2. results' = (results \ worker[w].replaced) \union new
            /\ ~Collides(results \ worker[w].replaced, new)
        BY <1>8, <2>1, <4>1 DEF kept
      <4> QED
        BY <1>1, <1>2, <2>3, <2>4, <4>1, <4>2, StoreRanking
    <3> QED
      BY <3>1, <3>2
  <2> QED
    BY <2>5, <2>6, <2>7
<1> QED
  BY <1>7, <1>8

LEMMA StoreRestStep ==
  ASSUME IInv, NEW w \in Workers, StoreRest(w)
  PROVE  IInv'
<1> USE DEF IInv
<1> DEFINE new == Ranking(w, worker[w].scored)
           more == new \ results
<1>1. worker[w].at = "rest" /\ worker[w].turn # 0 /\ degraded
  BY DEF StoreRest, Numbered, OneRanking
<1>2. new \subseteq Row /\ \A r \in new : r.by = worker[w].turn
  BY <1>1, RankingRows
<1>3. /\ \/ Goto(w, "failing") /\ results' = results
         \/ Goto(w, "close") /\ results' = results \union more
      /\ UNCHANGED <<runVars, degraded, rows, news, client>>
  BY DEF StoreRest
<1> HIDE DEF new
<1>4. Taken' = Taken /\ rows' = rows
  BY <1>3 DEF runVars, Taken
<1>5. /\ results' \subseteq Row
      /\ \A r \in results' : r \in results \/ (r.by = worker[w].turn /\ worker[w].turn # 0)
  BY <1>1, <1>2, <1>3 DEF Typed, Shared
<1>6. Shared'
  BY <1>3, <1>5 DEF runVars, Typed, Shared
<1>7. PICK step \in {"failing", "close"} : Goto(w, step)
  BY <1>3
<1>8. /\ Typed' /\ \A v \in Workers \ {w} : worker'[v] = worker[v]
      /\ worker'[w].at = step /\ worker'[w].turn = worker[w].turn
      /\ worker'[w].replaced = worker[w].replaced
  BY <1>4, <1>6, <1>7, GotoTyped DEF Steps
<1>9. Numbered' /\ Unwritten'
  BY <1>1, <1>4, <1>5, <1>7, <1>8, WorkerNumbers DEF Before
<1>10. OneRanking'
  BY <1>1, <1>3 DEF OneRanking
<1> QED
  BY <1>8, <1>9, <1>10

\* The number of a new execution is a new one.
LEMMA TakeStep ==
  ASSUME IInv, NEW w \in Workers, Take(w)
  PROVE  IInv'
<1> USE DEF IInv
<1>1. /\ worker[w].at = "idle" /\ queue > 0 /\ queue' = queue - 1
      /\ UNCHANGED <<mode, dispatch, sent, faults, results, degraded, rows, news, client>>
  BY DEF Take
<1>2. /\ Taken \in Nat /\ Taken' = Taken + 1 /\ Turn = Taken + 1 /\ Turn \in 1 .. MaxMessages
      /\ queue' \in 0 .. sent'
  BY <1>1, TakenBounds, SearchAssumption DEF Typed, Shared, Taken, Turn
<1>3. \A v \in Workers : worker[v].turn \in Nat
  BY TakenBounds
<1>4. Shared'
  BY <1>1, <1>2 DEF Take, Typed, Shared, Terminal
<1>5. CASE UNCHANGED worker
  <2>1. Typed'
    BY <1>1, <1>4, <1>5 DEF Typed, Held
  <2>2. Numbered'
    <3>1. ASSUME NEW v \in Workers
          PROVE  /\ worker'[v].turn <= Taken'
                 /\ \A r \in worker'[v].replaced : r.by <= Taken'
      BY <1>1, <1>2, <1>3, <1>5 DEF Numbered, Typed, Held, WorkerRow, Row
    <3>2. \A r \in results' : r.by <= Taken'
      BY <1>1, <1>2 DEF Numbered, Typed, Shared, Row
    <3> QED
      BY <1>5, <3>1, <3>2 DEF Numbered
  <2>3. Unwritten' /\ OneRanking'
    BY <1>1, <1>5 DEF Unwritten, OneRanking, AllOrNothing, Whole
  <2> QED
    BY <2>1, <2>2, <2>3
<1>6. CASE ~UNCHANGED worker
  <2>1. PICK step \in {"live", "index"} :
          worker' = [worker EXCEPT ![w].at = step, ![w].turn = Turn, ![w].aware = degraded]
    BY <1>6 DEF Take
  <2> DEFINE row == [worker[w] EXCEPT !.at = step, !.turn = Turn, !.aware = degraded]
  <2>2. worker' = [worker EXCEPT ![w] = row]
    BY <2>1 DEF Typed, Held
  <2>3. /\ row \in WorkerRow /\ row.turn = Turn /\ row.replaced = worker[w].replaced
        /\ row.scored = worker[w].scored /\ row.at = step
    <3>1. worker[w] \in WorkerRow /\ degraded \in BOOLEAN /\ Turn \in 0 .. MaxMessages
      BY <1>2 DEF Typed, Held, Shared
    <3> QED
      BY <3>1 DEF WorkerRow, Steps
  <2>4. worker[w].scored \subseteq rows
    BY DEF Typed, Held
  <2> HIDE DEF row
  <2>5. Held' /\ worker'[w] = row /\ \A v \in Workers \ {w} : worker'[v] = worker[v]
    BY <1>1, <2>2, <2>3, <2>4, WorkerTyped DEF Typed
  <2>6. Typed'
    BY <1>4, <2>5 DEF Typed
  <2>7. /\ \A r \in results' : r.by <= Taken
        /\ \A v \in Workers : /\ \A r \in worker'[v].replaced : r.by <= Taken
                              /\ v # w => worker'[v].turn <= Taken
    BY <1>1, <2>3, <2>5 DEF Numbered
  <2>8. /\ \A r \in results' : r.by \in Nat
        /\ \A v \in Workers : worker'[v].turn \in Nat /\ \A r \in worker'[v].replaced : r.by \in Nat
    BY <2>6, SearchAssumption DEF Typed, Held, Shared, WorkerRow, Row
  <2>9. Numbered'
    <3>1. ASSUME NEW v \in Workers
          PROVE  /\ worker'[v].turn <= Taken'
                 /\ worker'[v].at \notin {"idle", "lament"} => worker'[v].turn # 0
                 /\ \A r \in worker'[v].replaced : r.by <= Taken'
      <4>1. worker'[v].turn <= Taken'
        BY <1>2, <2>3, <2>5, <2>7, <2>8
      <4>2. worker'[v].at \notin {"idle", "lament"} => worker'[v].turn # 0
        BY <1>2, <2>3, <2>5 DEF Numbered
      <4>3. \A r \in worker'[v].replaced : r.by <= Taken'
        BY <1>2, <2>7, <2>8
      <4> QED
        BY <4>1, <4>2, <4>3
    <3>2. ASSUME NEW u \in Workers, NEW v \in Workers, u # v, worker'[u].turn = worker'[v].turn
          PROVE  worker'[u].turn = 0
      <4>1. u # w /\ v # w
        BY <1>2, <2>3, <2>5, <2>7, <2>8, <3>2
      <4> QED
        BY <2>5, <3>2, <4>1 DEF Numbered
    <3>3. \A r \in results' : r.by <= Taken'
      BY <1>2, <2>7, <2>8
    <3> QED
      BY <3>1, <3>2, <3>3 DEF Numbered
  <2>10. ASSUME NEW v \in Workers, worker'[v].at \in Before
         PROVE  /\ \A r \in results' : r.by # worker'[v].turn
                /\ \A u \in Workers : \A r \in worker'[u].replaced : r.by # worker'[v].turn
    <3>1. CASE v = w
      BY <1>2, <2>3, <2>5, <2>7, <2>8, <3>1
    <3>2. CASE v # w
      <4>1. worker'[v] = worker[v]
        BY <2>5, <3>2
      <4>2. \A u \in Workers : worker'[u].replaced = worker[u].replaced
        BY <2>3, <2>5
      <4> QED
        BY <1>1, <2>10, <4>1, <4>2 DEF Unwritten
    <3> QED
      BY <3>1, <3>2
  <2>11. OneRanking'
    BY <1>1, <2>3, <2>5 DEF OneRanking, AllOrNothing, Whole
  <2> QED
    BY <2>6, <2>9, <2>10, <2>11 DEF Unwritten
<1> QED
  BY <1>5, <1>6

\* The steps of the request, the queue and the client leave the execution alone.
LEMMA OtherStep ==
  ASSUME IInv, CreateRun \/ Publish \/ ReadStatus \/ ReadEvents \/ UNCHANGED vars
  PROVE  IInv'
<1> USE DEF IInv
<1>1. UNCHANGED <<worker, results, degraded, rows>>
  BY DEF CreateRun, Publish, ReadStatus, ReadEvents, vars
<1>2. Shared' /\ Taken' = Taken
  <2>1. CASE CreateRun
    BY <2>1 DEF CreateRun, Emit, Typed, Shared, Taken
  <2>2. CASE Publish
    <3>1. queue' \in 0 .. sent' /\ sent' \in 0 .. MaxMessages /\ Taken' = Taken
      BY <2>2, TakenBounds, SearchAssumption DEF Publish, Typed, Shared, Taken
    <3> QED
      BY <2>2, <3>1 DEF Publish, Typed, Shared
  <2>3. CASE ReadStatus \/ ReadEvents
    BY <2>3 DEF ReadStatus, ReadEvents, runVars, Typed, Shared, Taken
  <2>4. CASE UNCHANGED vars
    BY <2>4 DEF vars, runVars, Typed, Shared, Taken
  <2> QED
    BY <2>1, <2>2, <2>3, <2>4
<1>3. Held'
  BY <1>1 DEF Typed, Held
<1>4. Numbered' /\ Unwritten' /\ OneRanking'
  BY <1>1, <1>2 DEF Numbered, Unwritten, OneRanking, AllOrNothing, Whole
<1> QED
  BY <1>2, <1>3, <1>4 DEF Typed

-----------------------------------------------------------------------------
(* The theorems.                                                           *)

LEMMA InitInvariant ==
  ASSUME Init
  PROVE  IInv
<1>1. Idle \in WorkerRow /\ Idle.at = "idle" /\ Idle.turn = 0 /\ Idle.scored = {}
      /\ Idle.replaced = {}
  <2>1. Idle = [Idle EXCEPT !.at = "idle"]
    BY DEF Idle
  <2> QED
    BY <2>1, IdleTyped
<1>2. worker = [w \in Workers |-> Idle] /\ results = {} /\ Taken = 0 /\ queue = 0 /\ sent = 0
  BY DEF Init, Taken
<1>3. Held
  BY <1>1, <1>2 DEF Held
<1>4. Shared
  <2>1. queue \in 0 .. sent /\ sent \in 0 .. MaxMessages /\ 0 \in 0 .. MaxFaults
    BY <1>2, SearchAssumption
  <2> QED
    BY <1>2, <2>1 DEF Init, Shared
<1>5. Numbered /\ Unwritten /\ OneRanking
  BY <1>1, <1>2 DEF Numbered, Unwritten, OneRanking, Before, Whole
<1> QED
  BY <1>3, <1>4, <1>5 DEF IInv, Typed

LEMMA StepKeepsInvariant ==
  ASSUME IInv, [Next]_vars
  PROVE  IInv'
<1>1. CASE CreateRun \/ Publish \/ ReadStatus \/ ReadEvents \/ UNCHANGED vars
  BY <1>1, OtherStep
<1>2. ASSUME NEW w \in Workers, Take(w) PROVE IInv'
  BY <1>2, TakeStep
<1>3. ASSUME NEW w \in Workers, Crash(w) PROVE IInv'
  BY <1>3, LeaveStep
<1>4. ASSUME NEW w \in Workers, ProviderFails(w) \/ Raise(w) PROVE IInv'
  BY <1>4, GotoStep
<1>5. ASSUME NEW w \in Workers, Execution(w) PROVE IInv'
  <2>1. Announce(w) => worker[w].at \in {"update", "finish"}
    BY DEF Announce
  <2> QED
    BY <1>5, <2>1, IndexStep, DiscoverStep, FetchStep, WriteStep, GotoStep, ReplaceStep,
       StoreStep, StoreRestStep, LeaveStep DEF Execution
<1> QED
  BY <1>1, <1>2, <1>3, <1>4, <1>5 DEF Next

LEMMA InvariantHolds == Spec => []IInv
<1>1. Init => IInv
  BY InitInvariant
<1>2. IInv /\ [Next]_vars => IInv'
  BY StepKeepsInvariant
<1> QED
  BY <1>1, <1>2, PTL DEF Spec

\* Every variable of the run has its type, the rows of the results stay within
\* the ranks and postings they may have, and no more deliveries are taken than
\* have been put into the queue (execute, the constraints of JobSearchResult).
THEOREM TypeCorrect == Spec => []TypeOK
<1>1. IInv => TypeOK
  BY DEF IInv, Typed, Held, Shared, WorkerRow, Row, TypeOK
<1> QED
  BY <1>1, InvariantHolds, PTL

\* FR-JOB-007, FR-JOB-009: whatever deliveries overlap, die and are repeated, what
\* the run shows is one ranking, without a gap and of one execution, until an
\* explanation fails (execute: the DELETE, the inserts and their one commit).
THEOREM ResultsAreOneRanking == Spec => []ResultsOfOneRanking
<1>1. IInv => ResultsOfOneRanking
  BY DEF IInv, OneRanking, Whole, ResultsOfOneRanking
<1> QED
  BY <1>1, InvariantHolds, PTL
=============================================================================
