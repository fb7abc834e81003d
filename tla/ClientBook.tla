----------------------------- MODULE ClientBook -----------------------------
(***************************************************************************)
(* The contacts of one client, and which of them is primary.               *)
(*                                                                         *)
(* add_client_contact demotes the incumbent and inserts the new contact in *)
(* one transaction at READ COMMITTED.  Its UPDATE looks for primaries once *)
(* and, when it has waited for a row, only asks again whether that row     *)
(* still qualifies; the partial unique index makes an insert wait for      *)
(* another one not yet committed and refuses it beside a committed one.    *)
(***************************************************************************)
CONSTANTS
  Requests,    \* POST .../contacts; each runs once and may add one contact
  Incumbents,  \* contacts that were there before
  NoOne        \* no contact, no request

People == Incumbents \cup Requests

ClientAssumption == NoOne \notin People /\ Incumbents \cap Requests = {}

VARIABLES
  contacts,    \* committed contacts
  primary,     \* those of them with is_primary
  pc,          \* pc[r]: how far request r has got
  wants,       \* wants[r]: r's payload has is_primary
  found,       \* found[r]: the primaries r's UPDATE looks at
  demoted,     \* demoted[r]: rows r has updated, and holds
  beaten       \* beaten[r]: another primary was committed since r began (history)

vars == <<contacts, primary, pc, wants, found, demoted, beaten>>

Points == {"idle", "begun", "demoting", "demoted", "inserted", "201", "422",
           "invalid", "lost"}

Open == {"begun", "demoting", "demoted", "inserted"}

Init ==
  /\ contacts = Incumbents
  /\ \/ primary = {}
     \/ \E c \in Incumbents : primary = {c}
  /\ pc = [r \in Requests |-> "idle"]
  /\ wants = [r \in Requests |-> FALSE]
  /\ found = [r \in Requests |-> {}]
  /\ demoted = [r \in Requests |-> {}]
  /\ beaten = [r \in Requests |-> FALSE]

Begin(r) ==
  /\ pc[r] = "idle"
  /\ pc' = [pc EXCEPT ![r] = "begun"]
  /\ \E flag \in BOOLEAN : wants' = [wants EXCEPT ![r] = flag]
  /\ UNCHANGED <<contacts, primary, found, demoted, beaten>>

\* Mutant: the incumbent is left for the constraint to find.
Incumbent_Left(r) == {}

\* What the UPDATE of an is_primary request finds.
Incumbent(r) == primary

FindIncumbent(r) ==
  /\ pc[r] = "begun"
  /\ pc' = [pc EXCEPT ![r] = IF wants[r] THEN "demoting" ELSE "demoted"]
  /\ found' = [found EXCEPT ![r] = IF wants[r] THEN Incumbent(r) ELSE {}]
  /\ UNCHANGED <<contacts, primary, wants, demoted, beaten>>

\* It waits for whoever is demoting the same row.
Demote(r) ==
  /\ pc[r] = "demoting"
  /\ \A other \in Requests \ {r} : demoted[other] \cap found[r] = {}
  /\ pc' = [pc EXCEPT ![r] = "demoted"]
  /\ demoted' = [demoted EXCEPT ![r] = found[r] \cap primary]
  /\ UNCHANGED <<contacts, primary, wants, found, beaten>>

\* uk_client_contacts_primary against what is committed by now.
Taken(r) == wants[r] /\ primary \ demoted[r] # {}

\* Mutant: the demotion is committed before the insert is tried.
Refuse_AfterDemotion(r, answer) ==
  /\ pc' = [pc EXCEPT ![r] = answer]
  /\ primary' = primary \ demoted[r]
  /\ demoted' = [demoted EXCEPT ![r] = {}]
  /\ UNCHANGED <<contacts, wants, found, beaten>>

\* The exception leaves audit_actor's atomic block: the demotion is undone.
Refuse(r, answer) ==
  /\ pc' = [pc EXCEPT ![r] = answer]
  /\ demoted' = [demoted EXCEPT ![r] = {}]
  /\ UNCHANGED <<contacts, primary, wants, found, beaten>>

Insert(r) ==
  /\ pc[r] = "demoted"
  /\ wants[r] => \A other \in Requests : pc[other] = "inserted" => ~wants[other]
  /\ \/ Taken(r) /\ Refuse(r, "422")
     \/ /\ ~Taken(r)
        /\ pc' = [pc EXCEPT ![r] = "inserted"]
        /\ UNCHANGED <<contacts, primary, wants, found, demoted, beaten>>

\* A contact without phone or email breaks ck_client_contacts_reach.
Unreachable(r) == pc[r] = "demoted" /\ Refuse(r, "invalid")

Commit(r) ==
  /\ pc[r] = "inserted"
  /\ pc' = [pc EXCEPT ![r] = "201"]
  /\ contacts' = contacts \cup {r}
  /\ primary' = (primary \ demoted[r]) \cup (IF wants[r] THEN {r} ELSE {})
  /\ demoted' = [demoted EXCEPT ![r] = {}]
  /\ beaten' = [x \in Requests |-> beaten[x] \/ (wants[r] /\ pc[x] \in Open)]
  /\ UNCHANGED <<wants, found>>

Crash(r) == pc[r] \in Open /\ Refuse(r, "lost")

Finished ==
  /\ \A r \in Requests : pc[r] \in {"201", "422", "invalid", "lost"}
  /\ UNCHANGED vars

Next ==
  \/ \E r \in Requests :
        \/ Begin(r) \/ FindIncumbent(r) \/ Demote(r) \/ Insert(r)
        \/ Unreachable(r) \/ Commit(r) \/ Crash(r)
  \/ Finished

Spec == Init /\ [][Next]_vars
---------------------------------------------------------------------------
\* Properties

TypeOK ==
  /\ contacts \subseteq People /\ primary \subseteq contacts
  /\ pc \in [Requests -> Points]
  /\ wants \in [Requests -> BOOLEAN] /\ beaten \in [Requests -> BOOLEAN]
  /\ found \in [Requests -> SUBSET People]
  /\ demoted \in [Requests -> SUBSET People]

\* A client has at most one primary contact, however adds overlap.
OnePrimary == \A a, b \in primary : a = b

\* And, once it has one, never none: a demotion and the contact it makes
\* room for arrive together or not at all.
PrimaryStands == [][primary # {} => primary' # {}]_vars

\* "Demote the incumbent rather than making the caller ... discover the
\* constraint the hard way": the constraint refuses a new primary only when
\* another one was committed while the request ran.
RefusedOnlyWhenBeaten == \A r \in Requests : pc[r] = "422" => beaten[r]
=============================================================================
