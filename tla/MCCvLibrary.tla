---------------------------- MODULE MCCvLibrary -----------------------------
(***************************************************************************)
(* One file, two scans and one CV, for TLC.                              *)
(***************************************************************************)
EXTENDS CvLibrary, TLC

CONSTANTS u1, u2, s1, s2, k1, e1, e2, ta, tb

Symmetric == {e @@ t @@ u @@ s : e \in Permutations({e1, e2}), t \in Permutations({ta, tb}),
                                 u \in Permutations({u1, u2}), s \in Permutations({s1, s2})}
=============================================================================
