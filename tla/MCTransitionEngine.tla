------------------------- MODULE MCTransitionEngine -------------------------
(***************************************************************************)
(* Instances of TransitionEngine on the seeded graph, with confirm and     *)
(* cancel made two-person gates: one line, an owner and a salesman.        *)
(***************************************************************************)
EXTENDS TransitionEngine, SeededGraph, TLC

CONSTANTS olga, sam, line

MCLines == {line}
MCUsers == {olga, sam}
MCRolesOf == [u \in MCUsers |-> IF u = olga THEN {"OWNER"} ELSE {"SALES"}]
MCRules == SeededRules({"confirm", "cancel"})

\* What each of the two asks for; a missing note is tried for cancel alone.
\* The salesman may not confirm, and "lose" goes the way of cancel.
MCInputs ==
  [line : MCLines, user : {sam}, action : {"quote", "rework", "confirm"}, note : {TRUE}]
    \cup [line : MCLines, user : {olga}, action : {"quote", "confirm"}, note : {TRUE}]
    \cup [line : MCLines, user : {olga}, action : {"cancel"}, note : BOOLEAN]

\* A line that is quoted, reworked, quoted again and confirmed.
MCRevisit ==
  {[line |-> line, user |-> ask[1], action |-> ask[2], note |-> TRUE] :
     ask \in {<<sam, "quote">>, <<sam, "rework">>, <<olga, "quote">>, <<olga, "confirm">>}}

MCSymmetry == Permutations(Requests)
=============================================================================
