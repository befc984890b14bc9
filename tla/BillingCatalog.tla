--------------------------- MODULE BillingCatalog ---------------------------
(***************************************************************************)
(* The catalog versions of one market and currency (create_catalog_version,*)
(* update_feature_price, activate_catalog and active_catalog of            *)
(* ProductBillingService).                                                 *)
(*                                                                         *)
(* A draft is activated for a moment of time; the catalogs that have been  *)
(* activated share the time line among them, and the price of an action is *)
(* read from the one whose window holds the present.  An activation locks  *)
(* the draft and the active catalogs it finds; a draft that another call   *)
(* is activating is none of those.  An edit of a price reads the status of *)
(* the catalog without a lock.                                             *)
(***************************************************************************)
EXTENDS Naturals, FiniteSets

CONSTANTS
  Catalogs,       \* the versions, by their primary key: flushed in this order
  Editors,        \* calls of administrators
  Prices,         \* the prices of one action
  LastMoment      \* bound of the moments a catalog may become effective at

ASSUME CatalogAssumption ==
  /\ Catalogs \subseteq Nat /\ IsFiniteSet(Catalogs)
  /\ IsFiniteSet(Prices)
  /\ LastMoment \in Nat

Moments == 1 .. LastMoment
Forever == LastMoment + 1        \* effective_to IS NULL

VARIABLES
  catalog,     \* the rows: status, window, price
  editor,      \* what each call has read
  cutTwice     \* a window between two catalogs was cut by two calls at once

catalogVars == <<catalog, editor, cutTwice>>

NoCall == [at |-> "none", id |-> 0, moment |-> 0, price |-> 0, found |-> {}]

CatalogInit ==
  /\ catalog = [c \in Catalogs |-> [status |-> "none", from |-> 0, to |-> 0, price |-> 0]]
  /\ editor = [e \in Editors |-> NoCall]
  /\ cutTwice = FALSE

CatalogTypeOK ==
  /\ \A c \in Catalogs :
       /\ catalog[c].status \in {"none", "draft", "active"}
       /\ catalog[c].status = "active" => catalog[c].from \in Moments
       /\ catalog[c].status = "active" => catalog[c].to \in catalog[c].from + 1 .. Forever
       /\ catalog[c].status # "none" => catalog[c].price \in Prices
  /\ \A e \in Editors : editor[e].at \in {"none", "activating", "pricing"}

Active == {c \in Catalogs : catalog[c].status = "active"}

Begin(e, call) ==
  /\ editor[e].at = "none"
  /\ editor' = [editor EXCEPT ![e] = call]
  /\ UNCHANGED <<catalog, cutTwice>>

End(e) == editor' = [editor EXCEPT ![e] = NoCall]
-----------------------------------------------------------------------------
CreateCatalog(c) ==
  /\ catalog[c].status = "none"
  /\ \E p \in Prices :
       catalog' = [catalog EXCEPT ![c].status = "draft", ![c].price = p]
  /\ UNCHANGED <<editor, cutTwice>>

\* The status is read ...
BeginPrice(e) ==
  \E c \in Catalogs, p \in Prices :
    /\ catalog[c].status = "draft"
    /\ Begin(e, [NoCall EXCEPT !.at = "pricing", !.id = c, !.price = p])

\* ... and the price written, whatever has become of the draft.
EndPrice(e) ==
  /\ editor[e].at = "pricing"
  /\ catalog' = [catalog EXCEPT ![editor[e].id].price = editor[e].price]
  /\ End(e)
  /\ UNCHANGED cutTwice

\* The draft is locked, so that one call at a time activates it, and the active
\* catalogs are found.
BeginActivation(e) ==
  \E c \in Catalogs, m \in Moments :
    /\ catalog[c].status = "draft"
    /\ \A f \in Editors : ~(editor[f].at = "activating" /\ editor[f].id = c)
    /\ Begin(e, [NoCall EXCEPT !.at = "activating", !.id = c, !.moment = m, !.found = Active])

\* When their locks are granted the found rows are as the last commit left them.
Before(e) == {c \in editor[e].found : catalog[c].from < editor[e].moment}
After(e) == {c \in editor[e].found : catalog[c].from > editor[e].moment}

LatestFrom(S) == {c \in S : \A d \in S : catalog[d].from <= catalog[c].from}
Earliest(S) == {c \in S : \A d \in S : catalog[c].from <= catalog[d].from}

NewEnd(e) ==
  IF After(e) = {} THEN Forever
  ELSE catalog[CHOOSE c \in Earliest(After(e)) : TRUE].from

\* The rows as _schedule_catalog_activation leaves them.
Scheduled(e) ==
  LET m == editor[e].moment IN
  [c \in Catalogs |->
     IF c = editor[e].id
       THEN [catalog[c] EXCEPT !.status = "active", !.from = m, !.to = NewEnd(e)]
     ELSE IF c \in LatestFrom(Before(e)) /\ catalog[c].to > m
       THEN [catalog[c] EXCEPT !.to = m]
     ELSE catalog[c]]

\* Fault: no unique index.
NoTwoTails(e) == FALSE

\* The unique index of the catalogs without an end is checked with every row, and
\* the rows are written in the order of their keys.
TwoTails(e) ==
  \E c, d \in Catalogs :
    LET row(x) == IF x <= c THEN Scheduled(e)[x] ELSE catalog[x] IN
    /\ c # d
    /\ row(c).status = "active" /\ row(c).to = Forever
    /\ row(d).status = "active" /\ row(d).to = Forever

\* The window the call cuts has been cut by another one since it looked.
CutMeanwhile(e) ==
  /\ NewEnd(e) # Forever
  /\ \E c \in Active \ editor[e].found :
       /\ \A b \in Before(e) : catalog[b].from < catalog[c].from
       /\ catalog[c].from < NewEnd(e)

EndActivation(e) ==
  LET call == editor[e] IN
  /\ call.at = "activating"
  /\ IF (\E c \in call.found : catalog[c].from = call.moment) \/ TwoTails(e)
       THEN UNCHANGED <<catalog, cutTwice>>
       ELSE /\ catalog' = Scheduled(e)
            /\ cutTwice' = (cutTwice \/ CutMeanwhile(e))
  /\ End(e)

CatalogNext ==
  \/ \E c \in Catalogs : CreateCatalog(c)
  \/ \E e \in Editors : BeginPrice(e) \/ EndPrice(e) \/ BeginActivation(e) \/ EndActivation(e)
-----------------------------------------------------------------------------
(* Properties.                                                             *)

\* What active_catalog finds at a moment.
InForce(m) == {c \in Active : catalog[c].from <= m /\ m < catalog[c].to}

\* docs/billing/pricing-and-credits.md, section 9: from the first catalog on there
\* is exactly one in force at every moment, in whatever order catalogs are
\* scheduled, and also when two calls append to the end of the time line at once.
\* (Two calls that cut the same window between two catalogs overlap: neither finds
\* the other's draft, and the index looks only at the last window.)
OneCatalogAtATime ==
  cutTwice \/
    \A m \in Moments :
      (\E c \in Active : catalog[c].from <= m) => Cardinality(InForce(m)) = 1
=============================================================================
