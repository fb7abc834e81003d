---------------------------- MODULE MCAdminDesk ----------------------------
(***************************************************************************)
(* One request and one save of the admin's form about the same line.       *)
(***************************************************************************)
EXTENDS AdminDesk, SeededGraph

CONSTANTS olga, line

DLines == {line}
DUsers == {olga}
DRolesOf == [u \in DUsers |-> {"OWNER"}]
DRules == SeededRules({})
DInputs == [line : DLines, user : DUsers, action : {"quote"}, note : {TRUE}]
=============================================================================
