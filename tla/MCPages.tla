------------------------------- MODULE MCPages -------------------------------
(***************************************************************************)
(* Two pages of the web front end and the API under them: the form that    *)
(* opens a job card (Intake) with the dialog that adds a client's contact  *)
(* (ClientBook), and the board (Board).  They share no state here, so a    *)
(* behaviour is one of one part, and the others stay as they began.        *)
(*                                                                         *)
(* Intake has one client on file and one to be made, a contact to be made  *)
(* for either, and a form of two lines.  The board shows one line of the   *)
(* seeded graph to the owner, while a salesman works too.                  *)
(***************************************************************************)
EXTENDS Intake, ClientBook, Board, SeededGraph, TLC

CONSTANTS acme, brand_new, bala

MCDefaultOf == [c \in {acme} |-> "full"]
MCHomeOf == [k \in {bala} |-> Nobody]

---------------------------------------------------------------------------

CONSTANTS olga, sam, line, tab

BUsers == {olga, sam}
BRolesOf == [u \in BUsers |-> IF u = olga THEN {"OWNER"} ELSE {"SALES"}]
BUserOf == [v \in {tab} |-> olga]
BInScope == [v \in {tab} |-> {line}]
BSequenceNo ==
  [s \in SeededStages |->
     CASE s = "ENQUIRY" -> 1 [] s = "QUOTATION" -> 2 [] s = "NEGOTIATION" -> 3
       [] s = "ORDER_CONFIRMED" -> 4 [] s = "LOST" -> 5 [] s = "CANCELLED" -> 6]
BRules == SeededRules({"confirm", "cancel"})

ASSUME IntakeAssumption /\ ClientAssumption /\ BoardAssumption

\* A colleague adds a line, or one edits a client or a line, not both.
OneColleague == edits + extra <= 1

VARIABLE part   \* the part this behaviour is about

\* Of contacts that do nothing, one initial state stands for all.
PagesInit ==
  /\ PageInit /\ Init /\ BoardInit
  /\ part \in {"intake", "contacts", "board"}
  /\ part # "contacts" => primary = {}

IntakeStep ==
  /\ part = "intake"
  /\ PageNext /\ OneColleague'
  /\ UNCHANGED <<vars, boardVars, part>>
ContactStep == part = "contacts" /\ Next /\ UNCHANGED <<pageVars, boardVars, part>>
BoardStep == part = "board" /\ BoardNext /\ UNCHANGED <<pageVars, vars, part>>

PagesSpec ==
  PagesInit /\ [][IntakeStep \/ ContactStep \/ BoardStep]_<<pageVars, vars, boardVars, part>>
=============================================================================
