-------------------------------- MODULE Codec --------------------------------
(***************************************************************************)
(* The pure functions of the system, one step each: an input of some kind  *)
(* is chosen, the code's function is applied to it, and the invariants     *)
(* compare the output with a definition that does not follow the code.     *)
(***************************************************************************)
EXTENDS Integers, Sequences, SequencesExt, FiniteSets, FiniteSetsExt, TLC

CONSTANT None

VARIABLES
  input,   \* [kind, ...]: what the function is given
  output   \* what it returns, None before

pending(kind) == input.kind = kind /\ output = None

\* the output of an input of this kind, if there is one
Has(kind) == input.kind = kind /\ output # None
=============================================================================
