------------------------------ MODULE TokenCheck ------------------------------
(***************************************************************************)
(* How a bearer token is verified (OidcVerifier) while the identity        *)
(* provider replaces its signing keys.                                     *)
(*                                                                         *)
(* get_product_user makes a verifier for each request, and the keys it has *)
(* fetched are attributes of that verifier: the class attributes of the    *)
(* same names stay empty, no key outlives its request, and every request   *)
(* fetches the keys under the one lock of the process.                     *)
(* The provider, its keys and its failures are external.                   *)
(***************************************************************************)
EXTENDS Integers

CONSTANTS
  Kids,      \* signing keys
  Tokens,    \* tokens: kid, signed (by that key), nbf, exp
  Checks,    \* requests being served by one process
  Skew,      \* oidc_clock_skew_seconds
  LastTick,  \* bound: the clock
  NoCaller

ASSUME TokenAssumption ==
  /\ \A t \in Tokens : t.kid \in Kids /\ t.signed \in BOOLEAN /\ t.nbf \in Nat /\ t.exp \in Nat
  /\ Skew \in Nat /\ LastTick \in Nat /\ NoCaller \notin Checks

VARIABLES
  publishedKeys,  \* the keys the provider publishes
  clock,
  verifier,    \* each request: its step, its token, the keys its verifier has
  fetching,   \* the request that holds OidcVerifier._lock
  offered,    \* history: keys published at some time since each request began
  withheld    \* history: keys not published at some time since each request began

tokenVars == <<publishedKeys, clock, verifier, fetching, offered, withheld>>

NoCheck == [at |-> "none", token |-> NoCaller, keys |-> {}, again |-> FALSE]
Verdicts == {"valid", "unknown_key", "invalid", "unavailable"}

TokenTypeOK ==
  /\ publishedKeys \subseteq Kids /\ clock \in 0 .. LastTick
  /\ \A c \in Checks :
       /\ verifier[c].at \in {"none", "load", "discover", "fetch", "verify"} \union Verdicts
       /\ verifier[c].at # "none" => verifier[c].token \in Tokens
       /\ verifier[c].keys \subseteq Kids /\ verifier[c].again \in BOOLEAN
       /\ offered[c] \subseteq Kids /\ withheld[c] \subseteq Kids
  /\ fetching \in Checks \union {NoCaller}

TokenInit ==
  /\ publishedKeys \in (SUBSET Kids) \ {{}} /\ clock = 0
  /\ verifier = [c \in Checks |-> NoCheck] /\ fetching = NoCaller
  /\ offered = [c \in Checks |-> {}] /\ withheld = [c \in Checks |-> {}]

CheckAt(c, step) == verifier[c].at = step
Turns(c, step) == verifier' = [verifier EXCEPT ![c].at = step]
world == <<publishedKeys, clock, offered, withheld>>
-----------------------------------------------------------------------------
\* The provider publishes a key, or withdraws one.
Rotate(keys) ==
  /\ keys # publishedKeys
  /\ publishedKeys' = keys
  /\ offered' = [c \in Checks |-> IF CheckAt(c, "none") THEN {} ELSE offered[c] \union keys]
  /\ withheld' = [c \in Checks |-> IF CheckAt(c, "none") THEN {} ELSE withheld[c] \union (Kids \ keys)]
  /\ UNCHANGED <<clock, verifier, fetching>>

TokenTick ==
  /\ clock < LastTick
  /\ clock' = clock + 1
  /\ UNCHANGED <<publishedKeys, verifier, fetching, offered, withheld>>
-----------------------------------------------------------------------------
\* Fault: the keys are those of the class, which the last request has left there.
KeysOfClass(c) == UNION {verifier[o].keys : o \in Checks}

KeysAtHand(c) == verifier[c].keys

\* _key: what follows when keys have been loaded, for the first or the second time.
Looked(c, keys) ==
  IF verifier[c].token.kid \in keys THEN "verify" ELSE IF verifier[c].again THEN "unknown_key" ELSE "load"

\* A request whose token is of the form expected, with a key id and RS256.
Present(c, t) ==
  /\ CheckAt(c, "none")
  /\ verifier' = [verifier EXCEPT ![c] = [at |-> "load", token |-> t, keys |-> {}, again |-> FALSE]]
  /\ offered' = [offered EXCEPT ![c] = publishedKeys]
  /\ withheld' = [withheld EXCEPT ![c] = Kids \ publishedKeys]
  /\ UNCHANGED <<publishedKeys, clock, fetching>>

\* _load_jwks: nothing at hand, or what is at hand has been declared old; one request at a
\* time goes on, to the address configured or to the one it must discover.
LoadKeys(c) ==
  /\ CheckAt(c, "load")
  /\ IF KeysAtHand(c) # {} /\ ~verifier[c].again
       THEN /\ verifier' = [verifier EXCEPT ![c].at = Looked(c, KeysAtHand(c)), ![c].again = TRUE]
            /\ UNCHANGED fetching
       ELSE /\ fetching = NoCaller /\ fetching' = c
            /\ \E step \in {"discover", "fetch"} : Turns(c, step)
  /\ UNCHANGED world

Discover(c) ==
  /\ CheckAt(c, "discover") /\ Turns(c, "fetch")
  /\ UNCHANGED <<world, fetching>>

\* The keys arrive.  Without the token's key among them they are fetched once more.
Fetch(c) ==
  /\ CheckAt(c, "fetch") /\ fetching' = NoCaller
  /\ verifier' = [verifier EXCEPT
       ![c].keys = publishedKeys, ![c].again = TRUE, ![c].at = Looked(c, publishedKeys)]
  /\ UNCHANGED world

\* Unreachable, or an answer that is no list of keys.
FetchFails(c) ==
  /\ CheckAt(c, "discover") \/ CheckAt(c, "fetch")
  /\ Turns(c, "unavailable") /\ fetching' = NoCaller
  /\ UNCHANGED world

InTime(t) == t.exp >= clock - Skew /\ t.nbf <= clock + Skew

VerifyToken(c) ==
  LET t == verifier[c].token IN
  /\ CheckAt(c, "verify")
  /\ Turns(c, IF t.signed /\ InTime(t) THEN "valid" ELSE "invalid")
  /\ UNCHANGED <<world, fetching>>

TokenServed(c) ==
  /\ verifier[c].at \in Verdicts
  /\ verifier' = [verifier EXCEPT ![c] = NoCheck]
  /\ offered' = [offered EXCEPT ![c] = {}] /\ withheld' = [withheld EXCEPT ![c] = {}]
  /\ UNCHANGED <<publishedKeys, clock, fetching>>

TokenNext ==
  \/ \E keys \in SUBSET Kids : Rotate(keys)
  \/ TokenTick
  \/ \E c \in Checks :
       \/ LoadKeys(c) \/ Discover(c) \/ Fetch(c) \/ FetchFails(c) \/ VerifyToken(c) \/ TokenServed(c)
       \/ \E t \in Tokens : Present(c, t)
-----------------------------------------------------------------------------
\* FR-AUTH-001: across rotations, a token is taken only when the provider published its
\* key at some time while it was being checked, and one whose key was there all the time
\* is never refused for an unknown key.
KeysAreCurrent ==
  \A c \in Checks :
    /\ CheckAt(c, "valid") => verifier[c].token.kid \in offered[c] /\ verifier[c].token.signed
    /\ CheckAt(c, "unknown_key") => verifier[c].token.kid \in withheld[c]
=============================================================================
