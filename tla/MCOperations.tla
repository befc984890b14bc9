---------------------------- MODULE MCOperations ----------------------------
(***************************************************************************)
(* The components that take money and keep order, for TLC: the catalog,    *)
(* trials, adjustments, checkouts and the requests that cost credits; the  *)
(* rollout of models, operational jobs and accounts; tokens, consent and   *)
(* the rate limit.  They share no state here: a behaviour is one of the    *)
(* component "part", and the variables of the others keep their value.     *)
(***************************************************************************)
EXTENDS BillingCatalog, SignupTrial, CreditAdjustment, Checkout, WorkRequest,
        ModelRollout, OperationalJob, AccountAccess, Consent, TokenCheck, RateLimit

VARIABLE part

MCAmounts == {-1, 2}
MCLogins == {<<"a1", 1>>, <<"a2", 1>>}
MCTokens == {[kid |-> "k1", signed |-> TRUE, nbf |-> 0, exp |-> 0],
             [kid |-> "k2", signed |-> TRUE, nbf |-> 2, exp |-> 4],
             [kid |-> "k2", signed |-> FALSE, nbf |-> 0, exp |-> 4]}

Http(peer, forwarded, token, subject, method, id) ==
  [peer |-> peer, forwarded |-> forwarded, token |-> token, subject |-> subject,
   method |-> method, family |-> "interviews", id |-> id]
\* Two tokens of one subject, from behind a proxy and from a peer with a header of its
\* own; a token that cannot be read; and another operation of the same path.
MCRequests == {Http("proxy", "a1", "t1", "s1", "POST", "i1"), Http("a1", "a3", "t2", "s1", "POST", "i2"),
               Http("a2", "", "t3", "", "POST", "i1"), Http("a1", "", "", "", "GET", "i1")}

Parts == {"catalog", "trial", "adjustment", "checkout", "work", "rollout", "job", "account",
          "consent", "token", "rate"}

allVars == <<part, catalogVars, trialVars, adjustmentVars, checkoutVars, workVars, rolloutVars,
             operationalJobVars, accountVars, consentVars, tokenVars, rateVars>>

\* The idle components have one initial state.  (The last conjunct makes TLC compute the
\* values, which it would otherwise keep as expressions.)
Init ==
  /\ part \in Parts
  /\ CatalogInit /\ TrialInit /\ AdjustmentInit /\ CheckoutInit /\ WorkInit /\ RolloutInit
  /\ OperationalJobInit /\ AccountInit /\ ConsentInit /\ TokenInit /\ RateInit
  /\ part # "adjustment" => balance = 0
  /\ part # "token" => publishedKeys = Kids
  /\ allVars = allVars

\* All components but p stand still.
Only(p) ==
  /\ UNCHANGED part
  /\ IF p = "catalog" THEN TRUE ELSE UNCHANGED catalogVars
  /\ IF p = "trial" THEN TRUE ELSE UNCHANGED trialVars
  /\ IF p = "adjustment" THEN TRUE ELSE UNCHANGED adjustmentVars
  /\ IF p = "checkout" THEN TRUE ELSE UNCHANGED checkoutVars
  /\ IF p = "work" THEN TRUE ELSE UNCHANGED workVars
  /\ IF p = "rollout" THEN TRUE ELSE UNCHANGED rolloutVars
  /\ IF p = "job" THEN TRUE ELSE UNCHANGED operationalJobVars
  /\ IF p = "account" THEN TRUE ELSE UNCHANGED accountVars
  /\ IF p = "consent" THEN TRUE ELSE UNCHANGED consentVars
  /\ IF p = "token" THEN TRUE ELSE UNCHANGED tokenVars
  /\ IF p = "rate" THEN TRUE ELSE UNCHANGED rateVars

Next ==
  \/ part = "catalog" /\ CatalogNext /\ Only("catalog")
  \/ part = "trial" /\ TrialNext /\ Only("trial")
  \/ part = "adjustment" /\ AdjustmentNext /\ Only("adjustment")
  \/ part = "checkout" /\ CheckoutNext /\ Only("checkout")
  \/ part = "work" /\ WorkNext /\ Only("work")
  \/ part = "rollout" /\ RolloutNext /\ Only("rollout")
  \/ part = "job" /\ OperationalJobNext /\ Only("job")
  \/ part = "account" /\ AccountNext /\ Only("account")
  \/ part = "consent" /\ ConsentNext /\ Only("consent")
  \/ part = "token" /\ TokenNext /\ Only("token")
  \/ part = "rate" /\ RateNext /\ Only("rate")

Spec == Init /\ [][Next]_allVars

\* What tells two states of a behaviour apart: the variables of the others never change.
Changing == CASE part = "catalog" -> <<part, catalogVars>>
              [] part = "trial" -> <<part, trialVars>>
              [] part = "adjustment" -> <<part, adjustmentVars>>
              [] part = "checkout" -> <<part, checkoutVars>>
              [] part = "work" -> <<part, workVars>>
              [] part = "rollout" -> <<part, rolloutVars>>
              [] part = "job" -> <<part, operationalJobVars>>
              [] part = "account" -> <<part, accountVars>>
              [] part = "consent" -> <<part, consentVars>>
              [] part = "token" -> <<part, tokenVars>>
              [] part = "rate" -> <<part, rateVars>>
-----------------------------------------------------------------------------
\* Every variable of the component that runs keeps its type.
TypeOK ==
  CASE part = "catalog" -> CatalogTypeOK
    [] part = "trial" -> TrialTypeOK
    [] part = "adjustment" -> AdjustmentTypeOK
    [] part = "checkout" -> CheckoutTypeOK
    [] part = "work" -> WorkTypeOK
    [] part = "rollout" -> RolloutTypeOK
    [] part = "job" -> OperationalJobTypeOK
    [] part = "account" -> AccountTypeOK
    [] part = "consent" -> ConsentTypeOK
    [] part = "token" -> TokenTypeOK
    [] part = "rate" -> RateTypeOK

\* FR-BILL-002, FR-BILL-004, FR-BILL-009, FR-ADMIN-005: a price, a trial, an adjustment and a
\* payment each have one origin: one catalog is in force, a user gets the trial once, a
\* balance moves only by an approved adjustment, a payment finds the checkout it was made
\* for.
BillingAccounted ==
  CASE part = "catalog" -> OneCatalogAtATime
    [] part = "trial" -> TrialOnce
    [] part = "adjustment" -> EffectsAuthorised
    [] part = "checkout" -> PaymentsFindTheirCheckout
    [] OTHER -> TRUE

\* FR-ADMIN-002, FR-ADMIN-003, FR-AUTH-004: what administrators and operators do to
\* models, jobs and accounts stays accounted for however their commands interleave.
AdministrationAccounted ==
  CASE part = "rollout" -> CanaryHasBaseline
    [] part = "job" -> RetriesAccounted
    [] part = "account" -> AccountsAreAccounted
    [] OTHER -> TRUE

\* FR-AUTH-001, FR-PROFILE-003, FR-PRIV-003, FR-OPS-003: a request is let through on the
\* provider's present keys, under the consent last given, and within the shared limit.
RequestsAreAdmitted ==
  CASE part = "token" -> KeysAreCurrent
    [] part = "consent" -> ConsentGoverns
    [] part = "rate" -> LimitIsShared
    [] OTHER -> TRUE

\* FR-BILL-005: see WorkIsPaidOnce.
RequestsArePaidOnce == part = "work" => WorkIsPaidOnce
=============================================================================
