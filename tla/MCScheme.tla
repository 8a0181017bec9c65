------------------------------ MODULE MCScheme ------------------------------
(* Scheme with the scripts of SchemeScripts for TLC.                       *)
EXTENDS SchemeScripts

CONSTANT Scripts
VARIABLES script, answers, heap, env, stack, callStack, s, pc
INSTANCE Scheme
=============================================================================
