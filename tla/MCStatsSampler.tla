---------------------------- MODULE MCStatsSampler ----------------------------
(* Instances of StatsSampler for TLC *)
EXTENDS StatsSampler, TLC

\* Subscriptions are interchangeable.
Symmetry == Permutations(Sub)
=============================================================================
