----------------------------- MODULE RateLimit -----------------------------
(***************************************************************************)
(* The distributed rate limit of the API (DistributedRateLimitMiddleware): *)
(* all the API processes count in Redis, under the client's address and    *)
(* under the principal, for each action of its own, in fixed windows that  *)
(* begin with the first request counted.                                   *)
(*                                                                         *)
(* The script that counts a request is one step of Redis, and its answer   *)
(* decides.  The answer may be lost after the script has run: staging and  *)
(* production refuse the request then, as when Redis cannot be reached.    *)
(* Time is counted in fractions of a window.                               *)
(***************************************************************************)
EXTENDS Naturals

CONSTANTS
  HttpRequests,      \* what requests look like: see the assumption
  Proxies,       \* the addresses of trusted_proxy_cidrs
  NoValue,       \* a header, a token or a subject that is missing or cannot be read
  AiFamilies,    \* the paths under _AI_COST_PATHS
  DefaultLimit,  \* requests of an action in a window
  AiLimit,       \* the same for an action that calls an AI provider
  Window,        \* the length of a window
  MaxCount       \* bound: requests counted under a key

\* A request has the address of its peer, the address the proxy put in a header, a token
\* with the subject it names, a method, and a path: a family and the id within it.
ASSUME RateAssumption ==
  /\ \A q \in HttpRequests : DOMAIN q = {"peer", "forwarded", "token", "subject", "method", "family", "id"}
  /\ DefaultLimit \in Nat \ {0} /\ AiLimit \in Nat \ {0} /\ Window \in Nat \ {0}
  /\ MaxCount \in Nat /\ MaxCount > DefaultLimit /\ MaxCount > AiLimit

VARIABLES
  counter,     \* the counter of each key
  left,        \* what is left of its window, 0 when the key does not exist
  passed,      \* history: requests let through of each client and operation in a window
  since        \* history: what is left of that window

rateVars == <<counter, left, passed, since>>

\* Fault: the id stays in the path.
WithId(q) == <<q.method, q.family, q.id>>

\* _action_key: an id in the path is replaced by a placeholder.
ActionKey(q) == <<q.method, q.family>>

LimitFor(q) ==
  IF q.method \in {"POST", "PUT", "PATCH"} /\ q.family \in AiFamilies THEN AiLimit ELSE DefaultLimit

\* A header counts only when a trusted proxy sends the request, and only if it is an address.
ClientIp(q) == IF q.peer \in Proxies /\ q.forwarded # NoValue THEN q.forwarded ELSE q.peer

\* The subject of a token that can be read, the token otherwise.
PrincipalIdentifier(q) == IF q.subject # NoValue THEN q.subject ELSE q.token

KeysOf(q) ==
  {<<"ip", ClientIp(q), ActionKey(q)>>} \union
  (IF q.token = NoValue THEN {} ELSE {<<"principal", PrincipalIdentifier(q), ActionKey(q)>>})

RateKeys == UNION {KeysOf(q) : q \in HttpRequests}

\* Who really asks, and for which operation.
Askers(q) ==
  {<<"ip", ClientIp(q), q.method, q.family>>} \union
  (IF q.token = NoValue THEN {} ELSE {<<"principal", PrincipalIdentifier(q), q.method, q.family>>})
AllAskers == UNION {Askers(q) : q \in HttpRequests}

RateTypeOK ==
  /\ counter \in [RateKeys -> 0 .. MaxCount]
  /\ left \in [RateKeys -> 0 .. Window]
  /\ \A s \in AllAskers : passed[s] \in Nat /\ since[s] \in 0 .. Window

RateInit ==
  /\ counter = [k \in RateKeys |-> 0] /\ left = [k \in RateKeys |-> 0]
  /\ passed = [s \in AllAskers |-> 0] /\ since = [s \in AllAskers |-> 0]
-----------------------------------------------------------------------------
Raised(f, keys) == [k \in DOMAIN f |-> IF k \in keys THEN f[k] + 1 ELSE f[k]]
Started(f, keys) == [k \in DOMAIN f |-> IF k \in keys /\ f[k] = 0 THEN Window ELSE f[k]]
Ticked(f) == [k \in DOMAIN f |-> IF f[k] > 0 THEN f[k] - 1 ELSE 0]
Emptied(f, clock) == [k \in DOMAIN f |-> IF clock[k] = 1 THEN 0 ELSE f[k]]

\* The largest count of the request's keys decides.
Within(q) == \A k \in KeysOf(q) : counter[k] < LimitFor(q)

\* Every key is counted, whether the request will pass or not; the first count of a
\* key begins its window.
Arrive(q) == \E answered \in BOOLEAN :
  /\ \A k \in KeysOf(q) : counter[k] < MaxCount
  /\ counter' = Raised(counter, KeysOf(q))
  /\ left' = Started(left, KeysOf(q))
  /\ since' = Started(since, Askers(q))
  /\ passed' = IF answered /\ Within(q) THEN Raised(passed, Askers(q)) ELSE passed

\* Time passes; a key whose window is over is gone.
Elapse ==
  /\ \E k \in RateKeys : left[k] > 0
  /\ left' = Ticked(left) /\ counter' = Emptied(counter, left)
  /\ since' = Ticked(since) /\ passed' = Emptied(passed, since)

RateNext == (\E q \in HttpRequests : Arrive(q)) \/ Elapse
-----------------------------------------------------------------------------
\* FR-OPS-003: in a window no more requests for an operation pass than its limit, from one
\* address whatever principals, tokens and ids it names and for one principal whatever
\* addresses it comes from, and no key stays counted for longer than its window.
LimitIsShared ==
  /\ \A q \in HttpRequests : \A s \in Askers(q) : passed[s] <= LimitFor(q)
  /\ \A k \in RateKeys : counter[k] > 0 <=> left[k] > 0
=============================================================================
