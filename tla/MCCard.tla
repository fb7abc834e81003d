------------------------------- MODULE MCCard -------------------------------
(***************************************************************************)
(* JobCardLifecycle with up to three requests open at a time, and the      *)
(* history of whether they overlapped.                                     *)
(***************************************************************************)
EXTENDS MCJobCardLifecycle, CardHistory
=============================================================================
