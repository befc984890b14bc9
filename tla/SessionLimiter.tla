--------------------------- MODULE SessionLimiter ---------------------------
(***************************************************************************)
(* The limit on concurrent realtime sessions (GeminiSessionLimiter, and    *)
(* run and _lease_heartbeat of GeminiInterviewGateway) in production.      *)
(*                                                                         *)
(* A session is an entry of a sorted set in Redis whose score is the end   *)
(* of its lease.  Two scripts change the set, each in one step.  A session *)
(* renews its lease three times per lease; the renewal is late when the    *)
(* event loop is blocked, and it ends the session when its entry is gone   *)
(* or Redis does not answer.  Time is counted in thirds of a lease.        *)
(***************************************************************************)
EXTENDS Naturals, FiniteSets

CONSTANTS
  Sessions,      \* connections of candidates
  SessionLimit,  \* gemini_live_session_limit
  LeaseTime      \* gemini_live_lease_seconds, in heartbeat intervals

ASSUME LimiterAssumption ==
  IsFiniteSet(Sessions) /\ SessionLimit \in Nat \ {0} /\ LeaseTime \in Nat \ {0}

VARIABLES
  entry,      \* the entries: what is left of each lease
  keyLife,    \* what is left of the life of the key that holds them
  session,    \* the sessions: setting up, streaming, blocked or gone
  age         \* time since the acquisition or the last renewal

limiterVars == <<entry, keyLife, session, age>>

Open == {s \in Sessions : session[s] \in {"setup", "live", "blocked"}}

LimiterTypeOK ==
  /\ DOMAIN entry \subseteq Sessions
  /\ \A s \in DOMAIN entry : entry[s] \in 0 .. LeaseTime
  /\ keyLife \in 0 .. LeaseTime
  /\ session \in [Sessions -> {"none", "setup", "live", "blocked"}]
  /\ age \in [Sessions -> 0 .. LeaseTime]

LimiterInit ==
  /\ entry = <<>> /\ keyLife = 0
  /\ session = [s \in Sessions |-> "none"]
  /\ age = [s \in Sessions |-> 0]

Leased(s) == [r \in DOMAIN entry \union {s} |-> IF r = s THEN LeaseTime ELSE entry[r]]
Without(s) == [r \in DOMAIN entry \ {s} |-> entry[r]]
Gone(s) == session' = [session EXCEPT ![s] = "none"] /\ age' = [age EXCEPT ![s] = 0]
-----------------------------------------------------------------------------
\* _acquire_script; without Redis nobody is admitted.
Acquire(s) ==
  LET running == [r \in {r \in DOMAIN entry : entry[r] > 0} |-> entry[r]] IN
  /\ session[s] = "none" /\ s \notin DOMAIN running
  /\ IF Cardinality(DOMAIN running) >= SessionLimit
       THEN entry' = running /\ UNCHANGED <<keyLife, session, age>>
       ELSE /\ entry' = [r \in DOMAIN running \union {s} |->
                           IF r = s THEN LeaseTime ELSE running[r]]
            /\ keyLife' = LeaseTime
            /\ session' = [session EXCEPT ![s] = "setup"]
            /\ age' = [age EXCEPT ![s] = 0]

SetupComplete(s) ==
  /\ session[s] = "setup"
  /\ session' = [session EXCEPT ![s] = "live"]
  /\ UNCHANGED <<entry, keyLife, age>>

\* Fault: ZADD without the look at ZSCORE.
HasAny(s) == TRUE

HasEntry(s) == s \in DOMAIN entry

\* _refresh_script, or an error of Redis: the session goes on only with an entry.
Refresh(s) ==
  /\ session[s] = "live" /\ age[s] > 0
  /\ IF HasEntry(s)
       THEN /\ entry' = Leased(s) /\ keyLife' = LeaseTime
            /\ age' = [age EXCEPT ![s] = 0]
            /\ UNCHANGED session
       ELSE Gone(s) /\ UNCHANGED <<entry, keyLife>>

\* The end of a session, for whatever reason, releases its entry, unless Redis
\* does not answer or the process has died.
Release(s) ==
  /\ session[s] \in {"setup", "live"}
  /\ Gone(s)
  /\ entry' \in {entry, Without(s)}
  /\ UNCHANGED keyLife

\* A synchronous call keeps the event loop from running the heartbeat.
Block(s) ==
  /\ session[s] = "live"
  /\ session' = [session EXCEPT ![s] = "blocked"]
  /\ UNCHANGED <<entry, keyLife, age>>

Resume(s) ==
  /\ session[s] = "blocked"
  /\ session' = [session EXCEPT ![s] = "live"]
  /\ UNCHANGED <<entry, keyLife, age>>

Less(n) == IF n = 0 THEN 0 ELSE n - 1

\* An interval passes: a setup is over within gemini_live_setup_timeout_seconds, and
\* the first heartbeat comes an interval after it; heartbeats that are not blocked
\* are on time.  With its life the key and its entries are gone.
Tick ==
  /\ \A s \in Sessions : session[s] = "live" => age[s] <= 1
  /\ \A s \in Sessions : session[s] = "setup" => age[s] = 0
  /\ keyLife' = Less(keyLife)
  /\ entry' = IF keyLife' = 0 THEN <<>> ELSE [s \in DOMAIN entry |-> Less(entry[s])]
  /\ age' = [s \in Sessions |->
               IF s \in Open /\ age[s] < LeaseTime THEN age[s] + 1 ELSE age[s]]
  /\ UNCHANGED session

LimiterNext ==
  \/ \E s \in Sessions : \/ Acquire(s) \/ SetupComplete(s) \/ Refresh(s)
                         \/ Release(s) \/ Block(s) \/ Resume(s)
  \/ Tick
-----------------------------------------------------------------------------
(* Properties.                                                             *)

\* NFR-AVL-004: there are never more sessions than the limit, counting those that
\* have renewed within a lease, though processes die without releasing, Redis
\* fails, and blocked sessions come back after their entry was given away.
LimitHolds == Cardinality({s \in Open : age[s] < LeaseTime}) <= SessionLimit
=============================================================================
