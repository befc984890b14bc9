----------------------------- MODULE LeasedTask -----------------------------
(***************************************************************************)
(* What outbox, broker and leases together promise about the processing of *)
(* one resource: however often it is started, lost, recovered and started  *)
(* again, it is finished by the last execution that took it, and a result  *)
(* is never replaced.                                                      *)
(***************************************************************************)
CONSTANTS Holder, NoHolder

VARIABLES state, holder

Init == state = "waiting" /\ holder = NoHolder

\* An execution takes the resource, over from another one if need be.
Take(h) ==
  /\ state # "done"
  /\ state' = "running"
  /\ holder' = h

\* Only the execution that took it last ends it, and not with a result once
\* it was given up.
Finish(h) ==
  /\ holder = h
  /\ state # "done"
  /\ state' \in IF state = "running" THEN {"done", "failed"} ELSE {"failed"}
  /\ holder' = NoHolder

\* The execution is presumed dead.
PutBack ==
  /\ state = "running"
  /\ state' = "waiting"
  /\ holder' = NoHolder

\* Nobody finished it in time.
GiveUp ==
  /\ state \in {"waiting", "running"}
  /\ state' = "failed"
  /\ UNCHANGED holder

Next == (\E h \in Holder : Take(h) \/ Finish(h)) \/ PutBack \/ GiveUp

Spec == Init /\ [][Next]_<<state, holder>>
=============================================================================
