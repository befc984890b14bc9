---------------------------- MODULE AccountAccess ----------------------------
(***************************************************************************)
(* Accounts: how a request is let in (get_product_user and                 *)
(* _resolve_oidc_user of core/identity_security.py), how a login is        *)
(* revoked (IdentityService), and how an administrator or the owner        *)
(* changes the account (update_account_status, _command and _audit of      *)
(* ProductAdminOpsService, create_deletion of ProductPrivacyService).      *)
(*                                                                         *)
(* An administrator's command locks the administrator's own user row, then *)
(* the user's and the profile's, then the head of the audit chain, and     *)
(* holds them until it commits.  The other operations take turns with it   *)
(* at those rows.                                                          *)
(***************************************************************************)
EXTENDS Naturals, Sequences, FiniteSets

CONSTANTS
  Accounts,    \* users; every one of them has the scope "admin" here
  Logins,      \* pairs <<account, n>>: the sessions of the identity provider
  Visits,      \* HTTP requests being served
  CommandKeys, \* idempotency keys
  MaxEvents,   \* bound: account status events
  MaxReads,    \* bound: audited reads
  Nobody

ASSUME AccountAssumption ==
  /\ Logins \subseteq Accounts \X Nat
  /\ Nobody \notin Visits /\ MaxEvents \in Nat /\ MaxReads \in Nat

Standing == {"active", "locked", "disabled", "pending_deletion"}
Owner(l) == l[1]

VARIABLES
  accountStatus, \* UserProductProfile.account_status
  enabled,    \* User.is_active
  logins,     \* UserSession per login: "none", "open" or "revoked"
  visit,      \* what each request is doing
  userRow,    \* the request that holds the lock of each user row
  headRow,    \* the request that holds the lock of the head of the audit chain
  events,     \* AccountStatusEvent, in commit order
  audits,     \* PrivilegedAuditEvent, in commit order
  head,       \* AuditChainHead.sequence
  privileged, \* PrivilegedCommand: the actor, the target, the key, the new status
  shut        \* history: the logins that have been revoked

accountVars == <<accountStatus, enabled, logins, visit, userRow, headRow, events, audits,
                 head, privileged, shut>>

Steps == {"out", "known", "found", "written", "in", "self", "target", "head"}
Away == [step |-> "out", login |-> <<>>, target |-> Nobody, key |-> Nobody,
         to |-> "none", from |-> "none", was |-> FALSE]

AccountTypeOK ==
  /\ accountStatus \in [Accounts -> Standing] /\ enabled \in [Accounts -> BOOLEAN]
  /\ logins \in [Logins -> {"none", "open", "revoked"}]
  /\ \A v \in Visits : visit[v].step \in Steps
  /\ userRow \in [Accounts -> Visits \union {Nobody}] /\ headRow \in Visits \union {Nobody}
  /\ \A i \in DOMAIN events : events[i].to \in Standing /\ events[i].from \in Standing
  /\ head \in Nat /\ shut \subseteq Logins

AccountInit ==
  /\ accountStatus = [u \in Accounts |-> "active"] /\ enabled = [u \in Accounts |-> TRUE]
  /\ logins = [l \in Logins |-> "none"]
  /\ visit = [v \in Visits |-> Away]
  /\ userRow = [u \in Accounts |-> Nobody] /\ headRow = Nobody
  /\ events = <<>> /\ audits = <<>> /\ head = 0
  /\ privileged = {} /\ shut = {}

Me(v) == Owner(visit[v].login)
VisitAt(v, step) == visit[v].step = step
GoTo(v, step) == visit' = [visit EXCEPT ![v].step = step]
LeaveVisit(v) == visit' = [visit EXCEPT ![v] = Away]

tables == <<accountStatus, enabled, logins, events, audits, head, privileged, shut>>
locks == <<userRow, headRow>>
-----------------------------------------------------------------------------
(* A request is let in.                                                    *)

\* A valid token of an enabled user whose account is neither locked nor disabled.
\* The session keeps the user it has loaded, and what is_active was.
SignIn(v, l) ==
  /\ VisitAt(v, "out")
  /\ enabled[Owner(l)] /\ accountStatus[Owner(l)] \notin {"locked", "disabled"}
  /\ visit' = [visit EXCEPT ![v] = [Away EXCEPT !.step = "known", !.login = l, !.was = TRUE]]
  /\ UNCHANGED <<tables, locks>>

\* The row of the login is read; a revoked one ends the request.
FindSession(v) ==
  /\ VisitAt(v, "known")
  /\ IF logins[visit[v].login] = "revoked" THEN LeaveVisit(v) ELSE GoTo(v, "found")
  /\ UNCHANGED <<tables, locks>>

\* A new row waits for the lock of its user, which its foreign key refers to; a row
\* that exists, one of a request at the same time included, is written without
\* revoked_at, or refused by its unique index.
WriteSession(v) ==
  LET l == visit[v].login IN
  /\ VisitAt(v, "found")
  /\ logins[l] = "none" => userRow[Owner(l)] = Nobody
  /\ logins' = [logins EXCEPT ![l] = IF @ = "none" THEN "open" ELSE @]
  /\ \/ GoTo(v, "written")
     \/ logins[l] # "none" /\ LeaveVisit(v)
  /\ UNCHANGED <<accountStatus, enabled, events, audits, head, privileged, shut, locks>>

\* The account is read once more after the commit.
LetIn(v) ==
  /\ VisitAt(v, "written")
  /\ IF accountStatus[Me(v)] = "active" THEN GoTo(v, "in") ELSE LeaveVisit(v)
  /\ UNCHANGED <<tables, locks>>

\* Any other operation, which is none of this module's.
Finish(v) ==
  /\ VisitAt(v, "in") /\ LeaveVisit(v)
  /\ UNCHANGED <<tables, locks>>
-----------------------------------------------------------------------------
(* What the owner does.                                                    *)

Revoke(v, l) ==
  /\ VisitAt(v, "in") /\ Owner(l) = Me(v) /\ logins[l] # "none"
  /\ logins' = [logins EXCEPT ![l] = "revoked"]
  /\ shut' = shut \union {l}
  /\ LeaveVisit(v)
  /\ UNCHANGED <<accountStatus, enabled, events, audits, head, privileged, locks>>

\* The request row refers to the user and waits for its lock; the profile is locked
\* and read after that.  A deletion under way refuses the next one, but two requests
\* that look at the same time see none.
AskDeletion(v) ==
  LET u == Me(v) IN
  /\ VisitAt(v, "in") /\ userRow[u] = Nobody /\ Len(events) < MaxEvents
  /\ accountStatus' = [accountStatus EXCEPT ![u] = "pending_deletion"]
  /\ events' = Append(events, [user |-> u, from |-> accountStatus[u],
                               to |-> "pending_deletion"])
  /\ LeaveVisit(v)
  /\ UNCHANGED <<enabled, logins, audits, head, privileged, shut, locks>>
-----------------------------------------------------------------------------
(* What an administrator does.                                             *)

Answered(u, target, key) ==
  {c \in privileged : c.actor = u /\ c.target = target /\ c.key = key}

\* _command: a command of an earlier request is answered, or refused when it asked for
\* something else; an administrator does not lock or disable himself.
Command(v, target, key, to) ==
  LET u == Me(v) IN
  /\ VisitAt(v, "in") /\ userRow[u] = Nobody
  /\ IF Answered(u, target, key) # {} \/ (u = target /\ to # "active")
       THEN LeaveVisit(v) /\ UNCHANGED userRow
       ELSE /\ visit' = [visit EXCEPT ![v].step = "self", ![v].target = target,
                                      ![v].key = key, ![v].to = to]
            /\ userRow' = [userRow EXCEPT ![u] = v]
  /\ UNCHANGED <<tables, headRow>>

\* Fault: the target is read without FOR UPDATE.
ReadAnyway(v) == TRUE

TargetFree(v) == userRow[visit[v].target] \in {Nobody, v}

\* The target's rows are locked and the status that is replaced is read.
TakeTarget(v) ==
  LET u == visit[v].target IN
  /\ VisitAt(v, "self") /\ TargetFree(v)
  /\ userRow' = [userRow EXCEPT ![u] = IF @ = Nobody THEN v ELSE @]
  /\ visit' = [visit EXCEPT ![v].step = "target", ![v].from = accountStatus[u],
                            ![v].was = IF u = Me(v) THEN @ ELSE enabled[u]]
  /\ UNCHANGED <<tables, headRow>>

\* _audit
TakeHead(v) ==
  /\ VisitAt(v, "target") /\ headRow = Nobody
  /\ headRow' = v
  /\ GoTo(v, "head")
  /\ UNCHANGED <<tables, userRow>>

Released(v) ==
  /\ userRow' = [u \in Accounts |-> IF userRow[u] = v THEN Nobody ELSE userRow[u]]
  /\ headRow' = IF headRow = v THEN Nobody ELSE headRow

\* is_active is written when it differs from what the session has loaded, which for
\* the administrator's own account dates from when the request was let in.
NowEnabled(v) ==
  IF visit[v].was = (visit[v].to # "disabled") THEN enabled[visit[v].target]
  ELSE visit[v].to # "disabled"

Ends(v) == {l \in Logins : Owner(l) = visit[v].target /\ logins[l] = "open"}

CommitStatus(v) ==
  LET r == visit[v]
      ended == IF r.to = "active" THEN {} ELSE Ends(v) IN
  /\ VisitAt(v, "head") /\ Len(events) < MaxEvents
  /\ accountStatus' = [accountStatus EXCEPT ![r.target] = r.to]
  /\ enabled' = [enabled EXCEPT ![r.target] = NowEnabled(v)]
  /\ logins' = [l \in Logins |-> IF l \in ended THEN "revoked" ELSE logins[l]]
  /\ shut' = shut \union ended
  /\ events' = Append(events, [user |-> r.target, from |-> r.from, to |-> r.to])
  /\ privileged' = privileged \union {[actor |-> Me(v), target |-> r.target, key |-> r.key,
                                   to |-> r.to]}
  /\ audits' = Append(audits, [number |-> head + 1, after |-> head, action |-> "update"])
  /\ head' = head + 1
  /\ Released(v)
  /\ LeaveVisit(v)

\* An error, a crash, or a deadlock: two administrators that change each other's
\* account hold their own rows and wait for the other's, and one is aborted.
Undo(v) ==
  /\ visit[v].step \in {"self", "target", "head"}
  /\ Released(v)
  /\ LeaveVisit(v)
  /\ UNCHANGED tables

\* The queries of an administrator are audited too, in a transaction of their own.
Read(v) ==
  /\ VisitAt(v, "in") /\ headRow = Nobody
  /\ Cardinality({i \in DOMAIN audits : audits[i].action = "read"}) < MaxReads
  /\ audits' = Append(audits, [number |-> head + 1, after |-> head, action |-> "read"])
  /\ head' = head + 1
  /\ LeaveVisit(v)
  /\ UNCHANGED <<accountStatus, enabled, logins, events, privileged, shut, locks>>

AccountNext ==
  \E v \in Visits :
    \/ FindSession(v) \/ WriteSession(v) \/ LetIn(v) \/ Finish(v)
    \/ AskDeletion(v) \/ TakeTarget(v) \/ TakeHead(v) \/ CommitStatus(v) \/ Undo(v) \/ Read(v)
    \/ \E l \in Logins : SignIn(v, l) \/ Revoke(v, l)
    \/ \E target \in Accounts, key \in CommandKeys, to \in {"active", "locked", "disabled"} :
         Command(v, target, key, to)
-----------------------------------------------------------------------------
(* Properties.                                                             *)

\* The status the first n events leave an account in.
LeftIn(u, n, status) ==
  \/ \E i \in 1 .. n : /\ events[i].user = u /\ events[i].to = status
                       /\ \A k \in i + 1 .. n : events[k].user # u
  \/ status = "active" /\ \A i \in 1 .. n : events[i].user # u

\* FR-AUTH-004: what an account went through is one story that ends in its present
\* status, whoever changes it at the same time; a disabled user stays disabled until
\* the account is activated again; and a login that was revoked, one by one or with the
\* account, is never open again.
AccountStory ==
  /\ \A i \in DOMAIN events : LeftIn(events[i].user, i - 1, events[i].from)
  /\ \A u \in Accounts :
       /\ LeftIn(u, Len(events), accountStatus[u])
       /\ accountStatus[u] = "disabled" => ~enabled[u]
  /\ \A l \in shut : logins[l] = "revoked"

\* FR-ADMIN-001, FR-AUTH-004: the audit chain has no gap and no fork, and each command
\* that took effect, once for its key, has its entry, whatever fails in between.
AuditChain ==
  /\ \A i \in DOMAIN audits : audits[i].number = i /\ audits[i].after = i - 1
  /\ head = Len(audits)
  /\ Cardinality(privileged) =
       Cardinality({i \in DOMAIN audits : audits[i].action = "update"})
  /\ \A c, d \in privileged :
       c.actor = d.actor /\ c.target = d.target /\ c.key = d.key => c = d

AccountsAreAccounted == AccountStory /\ AuditChain
=============================================================================
