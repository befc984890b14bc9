--------------------------- MODULE ProviderCalls ---------------------------
(***************************************************************************)
(* The guard around calls of an AI provider (ProviderExecutor, and the     *)
(* cost that ProviderUsageService reports to it).                          *)
(*                                                                         *)
(* Threads of one process call one purpose of one provider.  A call looks  *)
(* at the cost spent so far, at the circuit, takes a slot of the bulkhead, *)
(* tries a few times, and gives the slot back.  All three guards are keys  *)
(* of Redis, changed by single commands and not by scripts, so that the    *)
(* commands of two calls interleave; when Redis does not answer, a local   *)
(* copy stands in for the one command.                                     *)
(***************************************************************************)
EXTENDS Integers, FiniteSets

CONSTANTS
  Callers,           \* threads of the process
  BulkheadLimit,     \* provider_bulkhead_limit
  RetryAttempts,     \* provider_retry_attempts
  FailureThreshold,  \* provider_circuit_failure_threshold
  Budget,            \* openai_daily_budget_minor; every call costs 1
  MaxFaults          \* bound: commands Redis does not answer, and restarts

ASSUME ProviderAssumption ==
  /\ IsFiniteSet(Callers)
  /\ BulkheadLimit \in Nat \ {0} /\ RetryAttempts \in Nat \ {0}
  /\ FailureThreshold \in Nat \ {0} /\ Budget \in Nat \ {0} /\ MaxFaults \in Nat

Stores == {"redis", "local"}

VARIABLES
  caller,    \* per thread: its step, the attempt, where its slot is, its outcome
  slots,     \* the counter of the bulkhead, in either store
  lost,      \* slots of the counter in Redis that nobody will give back
  circuit,   \* failures counted, and whether the circuit is open, in either store
  spent,     \* the cost counted, in either store
  faults

providerVars == <<caller, slots, lost, circuit, spent, faults>>

IdleCaller == [step |-> "idle", attempt |-> 0, slot |-> "none", returned |-> FALSE]
ClosedCircuit == [failures |-> 0, isOpen |-> FALSE]

ProviderTypeOK ==
  /\ caller \in [Callers ->
       [step : {"idle", "budgeted", "admitted", "counted", "refused", "calling",
                "failed", "tripping", "leaving", "emptied", "charging"},
        attempt : 0 .. RetryAttempts, slot : Stores \union {"none"}, returned : BOOLEAN]]
  /\ slots \in [Stores -> Int]
  /\ lost \in Nat
  /\ circuit \in [Stores -> [failures : Nat, isOpen : BOOLEAN]]
  /\ spent \in [Stores -> Nat]
  /\ faults \in 0 .. MaxFaults

ProviderInit ==
  /\ caller = [c \in Callers |-> IdleCaller]
  /\ slots = [b \in Stores |-> 0] /\ lost = 0
  /\ circuit = [b \in Stores |-> ClosedCircuit]
  /\ spent = [b \in Stores |-> 0]
  /\ faults = 0

At(c, step) == caller[c].step = step
Goes(c, step) == caller' = [caller EXCEPT ![c].step = step]
Done(c) == caller' = [caller EXCEPT ![c] = IdleCaller]

\* A command reaches Redis, or fails and is served by the local copy.
Reaches(b) ==
  \/ b = "redis" /\ UNCHANGED faults
  \/ b = "local" /\ faults < MaxFaults /\ faults' = faults + 1
-----------------------------------------------------------------------------
\* _ensure_budget
EnsureBudget(c, b) ==
  /\ At(c, "idle") /\ spent[b] < Budget
  /\ Reaches(b) /\ Goes(c, "budgeted")
  /\ UNCHANGED <<slots, lost, circuit, spent>>

\* _ensure_circuit_closed
EnsureCircuitClosed(c, b) ==
  /\ At(c, "budgeted") /\ Reaches(b)
  /\ IF circuit[b].isOpen THEN Done(c) ELSE Goes(c, "admitted")
  /\ UNCHANGED <<slots, lost, circuit, spent>>

\* _acquire_bulkhead: INCR, whose result decides.
Count(c) ==
  /\ At(c, "admitted")
  /\ slots' = [slots EXCEPT !["redis"] = @ + 1]
  /\ Goes(c, IF slots["redis"] < BulkheadLimit THEN "counted" ELSE "refused")
  /\ UNCHANGED <<lost, circuit, spent, faults>>

Admit(c, b) ==
  caller' = [caller EXCEPT ![c] = [@ EXCEPT !.step = "calling", !.slot = b, !.attempt = 1]]

\* EXPIRE is answered, and the call goes ahead.
Hold(c) ==
  /\ At(c, "counted") /\ Admit(c, "redis")
  /\ UNCHANGED <<slots, lost, circuit, spent, faults>>

\* Fault: a call that is turned away leaves its count behind.
Kept(n) == n

Undone(n) == n - 1

\* DECR of a call above the limit.
Refuse(c) ==
  /\ At(c, "refused") /\ Done(c)
  /\ slots' = [slots EXCEPT !["redis"] = Undone(@)]
  /\ UNCHANGED <<lost, circuit, spent, faults>>

\* A command of the acquisition fails: the local count decides, and what Redis
\* has counted by then stays counted.
FallBack(c) ==
  /\ caller[c].step \in {"admitted", "counted", "refused"}
  /\ Reaches("local")
  /\ lost' = IF At(c, "admitted") THEN lost ELSE lost + 1
  /\ IF slots["local"] < BulkheadLimit
       THEN slots' = [slots EXCEPT !["local"] = @ + 1] /\ Admit(c, "local")
       ELSE Done(c) /\ UNCHANGED slots
  /\ UNCHANGED <<circuit, spent>>

\* operation() fails in a way that may be tried again, and is tried again.
Retry(c) ==
  /\ At(c, "calling") /\ caller[c].attempt < RetryAttempts
  /\ caller' = [caller EXCEPT ![c].attempt = @ + 1]
  /\ UNCHANGED <<slots, lost, circuit, spent, faults>>

\* operation() returns: _record_success closes the circuit.
Succeed(c, b) ==
  /\ At(c, "calling") /\ Reaches(b)
  /\ caller' = [caller EXCEPT ![c] = [@ EXCEPT !.step = "leaving", !.returned = TRUE]]
  /\ circuit' = [circuit EXCEPT ![b] = ClosedCircuit]
  /\ UNCHANGED <<slots, lost, spent>>

\* operation() fails for good: HINCRBY of _record_failure.
GiveUp(c, b) ==
  LET failures == IF circuit[b].failures < FailureThreshold
                    THEN circuit[b].failures + 1 ELSE FailureThreshold
      trips == failures = FailureThreshold IN
  /\ At(c, "calling") /\ Reaches(b)
  /\ circuit' = [circuit EXCEPT
       ![b] = [failures |-> failures, isOpen |-> IF b = "local" THEN trips ELSE @.isOpen]]
  /\ Goes(c, IF trips /\ b = "redis" THEN "tripping" ELSE "leaving")
  /\ UNCHANGED <<slots, lost, spent>>

\* HSET of _record_failure, on whatever the hash holds by now.
Trip(c) ==
  /\ At(c, "tripping") /\ Goes(c, "leaving")
  /\ circuit' = [circuit EXCEPT !["redis"].isOpen = TRUE]
  /\ UNCHANGED <<slots, lost, spent, faults>>

AfterSlot(c) ==
  IF caller[c].returned
    THEN caller' = [caller EXCEPT ![c] = [@ EXCEPT !.step = "charging", !.slot = "none"]]
    ELSE Done(c)

\* _release_bulkhead: DECR in Redis, or the local count, which never goes below 0.
Leave(c) ==
  LET left == slots[caller[c].slot] - 1 IN
  /\ At(c, "leaving")
  /\ slots' = [slots EXCEPT ![caller[c].slot] = left]
  /\ IF caller[c].slot = "redis" /\ left <= 0 THEN Goes(c, "emptied") ELSE AfterSlot(c)
  /\ UNCHANGED <<lost, circuit, spent, faults>>

\* The error of DECR is swallowed: the slot stays taken.
LeaveLost(c) ==
  /\ At(c, "leaving") /\ caller[c].slot = "redis" /\ Reaches("local")
  /\ lost' = lost + 1 /\ AfterSlot(c)
  /\ UNCHANGED <<slots, circuit, spent>>

\* DELETE after a DECR that left nothing, whoever has counted since.
Empty(c) ==
  /\ At(c, "emptied") /\ AfterSlot(c)
  /\ slots' = [slots EXCEPT !["redis"] = 0] /\ lost' = 0
  /\ UNCHANGED <<circuit, spent, faults>>

\* record_cost, once the caller has stored the usage.
Charge(c, b) ==
  /\ At(c, "charging") /\ Reaches(b) /\ Done(c)
  /\ spent' = [spent EXCEPT ![b] = @ + 1]
  /\ UNCHANGED <<slots, lost, circuit>>

\* The caller fails to store the usage, and the cost is never counted.
ChargeLost(c) ==
  /\ At(c, "charging") /\ Reaches("local") /\ Done(c)
  /\ UNCHANGED <<slots, lost, circuit, spent>>

\* The bulkhead's key lives provider_bulkhead_lease_seconds from the last EXPIRE.
SlotsExpire ==
  /\ slots["redis"] # 0 /\ \A c \in Callers : ~At(c, "counted")
  /\ slots' = [slots EXCEPT !["redis"] = 0] /\ lost' = 0
  /\ UNCHANGED <<caller, circuit, spent, faults>>

\* open_until passes, or the circuit's hash expires.
Cool(b) ==
  /\ circuit[b].isOpen
  /\ \/ circuit' = [circuit EXCEPT ![b].isOpen = FALSE]
     \/ b = "redis" /\ circuit' = [circuit EXCEPT ![b] = ClosedCircuit]
  /\ UNCHANGED <<caller, slots, lost, spent, faults>>

Counted(c) ==
  \/ caller[c].step \in {"counted", "refused"}
  \/ caller[c].slot = "redis" /\ ~At(c, "emptied")

\* The process restarts: the local copies are gone, Redis keeps its own.
Restart ==
  /\ faults < MaxFaults /\ faults' = faults + 1
  /\ caller' = [c \in Callers |-> IdleCaller]
  /\ lost' = lost + Cardinality({c \in Callers : Counted(c)})
  /\ slots' = [slots EXCEPT !["local"] = 0]
  /\ circuit' = [circuit EXCEPT !["local"] = ClosedCircuit]
  /\ spent' = [spent EXCEPT !["local"] = 0]

ProviderNext ==
  \/ \E c \in Callers, b \in Stores :
       \/ EnsureBudget(c, b) \/ EnsureCircuitClosed(c, b)
       \/ Succeed(c, b) \/ GiveUp(c, b) \/ Charge(c, b)
  \/ \E c \in Callers :
       \/ Count(c) \/ Hold(c) \/ Refuse(c) \/ FallBack(c) \/ Retry(c) \/ Trip(c)
       \/ Leave(c) \/ LeaveLost(c) \/ Empty(c) \/ ChargeLost(c)
  \/ \E b \in Stores : Cool(b)
  \/ SlotsExpire \/ Restart
-----------------------------------------------------------------------------
(* Properties.                                                             *)

\* NFR-AVL-004: whatever the order of the commands of several calls, a count of the
\* bulkhead stands for a call that will give it back, or for one of the slots lost
\* to a fault since the key was last deleted, so that no call is turned away from
\* an idle provider without a fault; and the local count is exact.
CallsAccounted ==
  /\ slots["redis"] <= Cardinality({c \in Callers : Counted(c)}) + lost
  /\ slots["local"] = Cardinality({c \in Callers : caller[c].slot = "local"})
=============================================================================
