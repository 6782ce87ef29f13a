-------------------------- MODULE MCDeliberationPanel --------------------------
(***************************************************************************)
(* Model-checking instance of DeliberationPanel.                           *)
(***************************************************************************)
EXTENDS DeliberationPanel

\* A body the fallback enters and one it avoids; two members may tie on their risk.
MCCards == {[score |-> 80, risk |-> 1], [score |-> 20, risk |-> 3]}
================================================================================
