-------------------------- MODULE MCPrivacyRequest --------------------------
(***************************************************************************)
(* One account with an export, two deletions, an old and a new file.       *)
(***************************************************************************)
EXTENDS PrivacyRequest, TLC

CONSTANTS e1, d1, d2, w1, w2, f1, f2

Symmetric == Permutations({w1, w2}) \cup Permutations({d1, d2})
=============================================================================
