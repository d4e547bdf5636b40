-------------------------- MODULE MCFortunaKeeper --------------------------
(***************************************************************************)
(* Instances of the Fortuna keeper for TLC.                                *)
(***************************************************************************)
EXTENDS FortunaKeeper, TLC

NoDelays == << >>
OneDelay == <<1>>

\* One chain of five elements, registered at number 0.
FiveElements == <<[offset |-> 0, length |-> 5]>>

UserSymmetry == Permutations(User)
=============================================================================
