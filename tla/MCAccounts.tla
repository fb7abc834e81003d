----------------------------- MODULE MCAccounts -----------------------------
(***************************************************************************)
(* Instances of Accounts: one employee, and two clients who sign in, or    *)
(* administer the account, at the same time.                               *)
(***************************************************************************)
EXTENDS Accounts, FiniteSets, TLC

\* One exception to the rules is followed up, not several on top of each other;
\* and after an administrator's form has made one, no form is opened.
MCOneCaveat ==
  \A a \in Accounts :
    /\ Cardinality(caveats[a]) <= 1
    /\ caveats[a] \cap {"edit", "count", "must"} # {} =>
         \A c \in Clients : job[c].kind \notin {"render", "edit"}

MCSymmetry == Permutations(Clients)

ASSUME AccountsAssumption
=============================================================================
