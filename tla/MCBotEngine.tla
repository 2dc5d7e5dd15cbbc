---------------------------- MODULE MCBotEngine ----------------------------
(* Instances of BotEngine for TLC. *)
EXTENDS BotEngine, TLC

\* Evaluators are interchangeable.  Only used where no liveness property is
\* checked.
EvalSymmetry == Permutations(Evals)
=============================================================================
