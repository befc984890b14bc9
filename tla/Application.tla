----------------------------- MODULE Application -----------------------------
(***************************************************************************)
(* A job application that its owner moves along from several devices       *)
(* (create_application and update_application of                           *)
(* ProductRecommendationService, with the replay of core/idempotency.py).  *)
(*                                                                         *)
(* A device looks at the application, decides on a status, and sends the   *)
(* decision under a key of its own until an answer reaches it.  The row    *)
(* lock and the unique index of the replay records make a request one      *)
(* step; only its answer may be lost.                                      *)
(***************************************************************************)
EXTENDS Naturals, Sequences, FiniteSets

CONSTANTS
  Devices,     \* the devices of the owner
  MaxVersion   \* bound: the version of the application

ASSUME ApplicationAssumption == MaxVersion \in Nat \ {0}

Transitions ==
  [planned      |-> {"applied", "withdrawn"},
   applied      |-> {"screening", "rejected", "withdrawn"},
   screening    |-> {"interviewing", "rejected", "withdrawn"},
   interviewing |-> {"offered", "rejected", "withdrawn"},
   offered      |-> {"accepted", "rejected", "withdrawn"},
   accepted     |-> {},
   rejected     |-> {},
   withdrawn    |-> {}]

Statuses == DOMAIN Transitions
Closed == {s \in Statuses : Transitions[s] = {}}
Absent == "absent"

VARIABLES
  application,  \* the row: status, version, whether applied_at and closed_at are set
  history,      \* its events
  replays,      \* the keys whose request has been completed
  device,       \* what each device has seen, decided and sent
  used          \* the number of keys used so far

applicationVars == <<application, history, replays, device, used>>

Waiting == [key |-> 0, saw |-> Absent, expected |-> 0, target |-> Absent]

ApplicationTypeOK ==
  /\ application.status \in Statuses \union {Absent}
  /\ application.version \in 0 .. MaxVersion
  /\ application.applied \in BOOLEAN /\ application.closed \in BOOLEAN
  /\ replays \subseteq 1 .. used
  /\ \A d \in Devices : device[d].key \in 0 .. used

ApplicationInit ==
  /\ application = [status |-> Absent, version |-> 0, applied |-> FALSE, closed |-> FALSE]
  /\ history = <<>>
  /\ replays = {}
  /\ device = [d \in Devices |-> Waiting]
  /\ used = 0

\* A device decides on what it has been shown.  Two devices that record the same
\* application at once record two of them; this is the story of one.
Decide(d) ==
  /\ device[d].key = 0 /\ application.version < MaxVersion /\ used <= MaxVersion
  /\ application.status = Absent => \A e \in Devices : device[e].key = 0
  /\ used' = used + 1
  /\ \E target \in Statuses :
       device' = [device EXCEPT ![d] =
         [key |-> used + 1, saw |-> application.status,
          expected |-> application.version, target |-> target]]
  /\ UNCHANGED <<application, history, replays>>

\* Fault: a version that once existed is taken for the present one.
VersionKnown(r) == r.expected <= application.version

\* Nothing newer has been written since the device looked.
Unchanged(r) == application.version = r.expected

Allowed(from, to) == to = from \/ to \in Transitions[from]

New(r) == r.key \notin replays

\* What a request may do when it reaches the service: it is the first with its
\* key, it is up to date, and the status may follow.
Accepted(r) ==
  /\ New(r)
  /\ IF r.saw = Absent THEN TRUE ELSE Unchanged(r) /\ Allowed(application.status, r.target)

\* Creating sets the dates for the status it is created with; an update sets
\* applied_at once, and closed_at with a final status.
Written(r) ==
  [status  |-> r.target,
   version |-> application.version + 1,
   applied |-> \/ application.applied \/ r.target = "applied"
               \/ r.saw = Absent /\ r.target # "planned",
   closed  |-> application.closed \/ r.target \in Closed]

\* The request is served; the device learns the answer, or sends it again.  A
\* refused request, and one whose key has been served, write nothing.
Send(d) ==
  LET r == device[d] IN
  /\ r.key # 0
  /\ IF Accepted(r)
       THEN /\ application' = Written(r)
            /\ history' = Append(history, [from |-> application.status, to |-> r.target,
                                          key |-> r.key, saw |-> r.saw])
            /\ replays' = replays \union {r.key}
       ELSE UNCHANGED <<application, history, replays>>
  /\ device' \in {device, [device EXCEPT ![d] = Waiting]}
  /\ UNCHANGED used

ApplicationNext == \E d \in Devices : Decide(d) \/ Send(d)
-----------------------------------------------------------------------------
(* Properties.                                                             *)

\* FR-JOB-010: each event follows the one before it, was decided by a device that
\* saw the status it replaced, and no request has made two of them, though its
\* answers are lost and another device decides at the same time.
HistoryIsOneStory ==
  /\ \A i \in DOMAIN history : history[i].from = history[i].saw
  /\ \A i, k \in DOMAIN history : history[i].key = history[k].key => i = k
  /\ \A i \in 1 .. Len(history) - 1 : history[i].to = history[i + 1].from
  /\ history # <<>> => history[Len(history)].to = application.status
  /\ application.closed = (application.status \in Closed)
  /\ application.status \in {"screening", "interviewing", "offered", "accepted"} =>
       application.applied
=============================================================================
