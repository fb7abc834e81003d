-------------------------- MODULE JobCardLifecycle --------------------------
(***************************************************************************)
(* The lifecycle status of one job card, and everything that writes it:    *)
(* the cascade that follows a line's move, the upload of a quotation, the  *)
(* cancellation and the PATCH.  Each is a request, a transaction at READ   *)
(* COMMITTED on one of the gunicorn workers.                               *)
(*                                                                         *)
(* A request sees what is committed and its own writes.  What it wrote is  *)
(* locked until it ends: others who want the same line, the card or the    *)
(* quotation number series wait.  TransitionEngine shows that taking the   *)
(* line's lock, inserting the row and the trigger's update are one step;   *)
(* here they are.  Whom a two-person gate stops is left to it as well.     *)
(***************************************************************************)
EXTENDS StageGraph

CONSTANTS
  MaxLines,    \* bound on the lines of the card
  Requests,    \* each runs once
  Inputs,      \* what the requests may ask for
  Workers,     \* gunicorn --workers times --threads: requests open at one time
  Cascades,    \* Stage.cascades_job_card_status, "none" where NULL
  NoStage      \* the line is not there

LineNos == 1..MaxLines

Statuses == {"open", "quoted", "rework", "won", "lost", "cancelled"}

MoveInput == [kind : {"move"}, user : Users, line : LineNos,
              action : Actions, note : BOOLEAN]
UploadInput == [kind : {"upload"}, user : Users]
CancelInput == [kind : {"cancel"}]
PatchInput == [kind : {"patch"}, status : Statuses]

Input == MoveInput \cup UploadInput \cup CancelInput \cup PatchInput

ASSUME CardAssumption ==
  /\ MaxLines \in Nat
  /\ IsFiniteSet(Requests)
  /\ Workers \in Nat \ {0}
  /\ Inputs # {} /\ Inputs \subseteq Input
  /\ "quote" \in Actions
  /\ Cascades \in [Stages -> {"none", "won", "lost", "cancelled"}]
  /\ NoStage \notin Stages

VARIABLES
  stage,       \* stage[l]: current stage of line l, NoStage before it is added
  cardStatus,  \* sales_job_cards.lifecycle_status
  revisions,   \* quotation revisions of the card
  notes,       \* "Cancelled: ..." notes of the card
  basis,       \* the lines whose agreement decided the status; {} if none did
  pc, req,     \* each request's progress and what it asks for
  tx           \* each request's memory and uncommitted writes

database == <<stage, cardStatus, revisions, notes, basis>>
vars == <<database, pc, req, tx>>

NoLines == [l \in LineNos |-> NoStage]

\* loaded: status of the card the request loaded.  base: revisions when it
\* looked for the previous one.  todo: lines still to move, at the stage the
\* request saw.  draft: lines it has moved.  read: the card the cascade read.
\* want: the status about to be written, card: the one written, and lines:
\* those that decided it.
Blank ==
  [loaded |-> "none", base |-> 0, todo |-> NoLines, draft |-> NoLines,
   read |-> [status |-> "none", reworked |-> FALSE],
   want |-> "none", lines |-> {}, card |-> "none"]

Kind(r) == req[r].kind

Open(r) == pc[r] \notin {"idle", "done"}

WorkerFree == Cardinality({r \in Requests : Open(r)}) < Workers

AnyInput == CHOOSE input \in Inputs : TRUE

Init ==
  /\ stage = NoLines
  /\ cardStatus = "open"
  /\ revisions = 0
  /\ notes = 0
  /\ basis = {}
  /\ pc = [r \in Requests |-> "idle"]
  /\ req = [r \in Requests |-> AnyInput]
  /\ tx = [r \in Requests |-> Blank]

---------------------------------------------------------------------------
\* What a request sees, and what others keep it from writing.

Lines == {l \in LineNos : stage[l] # NoStage}

View(r, l) == IF tx[r].draft[l] # NoStage THEN tx[r].draft[l] ELSE stage[l]

\* The quotation row is in: its number came from the series row, which stays
\* locked to the end of the transaction.
Inserted(r) ==
  Kind(r) = "upload" /\ pc[r] \in {"listing", "advancing", "syncing",
                                   "deciding", "writing", "closing", "ready"}

SeriesFree(r) == \A other \in Requests \ {r} : ~Inserted(other)
LineFree(r, l) == \A other \in Requests \ {r} : tx[other].draft[l] = NoStage
CardFree(r) == \A other \in Requests \ {r} : tx[other].card = "none"

\* has_quotation_pdf_for_card and card.quotations.exists(), which agree:
\* every revision has its PDF.
Quoted(r) == revisions > 0 \/ Inserted(r)

Pending(r) == {l \in LineNos : tx[r].todo[l] # NoStage}

\* lines_for orders by line_no.
NextLine(r, l) == l \in Pending(r) /\ \A k \in Pending(r) : l <= k

---------------------------------------------------------------------------
\* Beginning and ending a request.

\* Mutant: a request that fails is not rolled back.
End_Dangling(r) ==
  /\ pc' = [pc EXCEPT ![r] = "done"]
  /\ tx' = tx
  /\ UNCHANGED req

End(r) ==
  /\ pc' = [pc EXCEPT ![r] = "done"]
  /\ tx' = [tx EXCEPT ![r] = Blank]
  /\ UNCHANGED req

\* An error answer, a crash or a lost connection: everything is rolled back.
Refuse(r) == End(r) /\ UNCHANGED database

\* The request goes on from point, with m for its memory.
Remember(r, m) == tx' = [tx EXCEPT ![r] = m]
Goto(r, point) == pc' = [pc EXCEPT ![r] = point] /\ UNCHANGED <<database, req>>

\* The view loads the line or the card its URL names.
Load(r) ==
  /\ pc[r] = "idle" /\ WorkerFree
  /\ \E input \in Inputs :
        /\ req' = [req EXCEPT ![r] = input]
        /\ IF input.kind = "move"
           THEN /\ input.line \in Lines
                /\ pc' = [pc EXCEPT ![r] = "advancing"]
                /\ Remember(r, [tx[r] EXCEPT !.todo[input.line] = stage[input.line]])
           ELSE /\ pc' = [pc EXCEPT ![r] = "loaded"]
                /\ Remember(r, [tx[r] EXCEPT !.loaded = cardStatus])
  /\ UNCHANGED database

Crash(r) == Open(r) /\ Refuse(r)

---------------------------------------------------------------------------
\* Moving lines: the one line of a move, each line of an upload.

Action(r) == IF Kind(r) = "upload" THEN "quote" ELSE req[r].action
Note(r) == Kind(r) = "move" /\ req[r].note

Candidates(r, l) == CandidateRules(req[r].user, tx[r].todo[l], Action(r))

\* What the rule says of the move, the two-person gate aside.
Ruling(r, rule) ==
  IF NoteMissing(rule, Note(r)) THEN "422" ELSE ConditionVerdict(rule, Quoted(r))

Permitting(r, l) ==
  IF Conflicting(Candidates(r, l)) THEN {}
  ELSE {rule \in Candidates(r, l) : Ruling(r, rule) = "permit"}

\* No rule permits the move, or a broken one was met first.
Refusing(r, l) ==
  \/ Permitting(r, l) = {}
  \/ \E rule \in Candidates(r, l) : Ruling(r, rule) = "config"

\* perform_transition raised: the view answers with the error, the upload
\* goes on to its next line.
GiveUp(r, l) ==
  \/ Kind(r) = "move" /\ Refuse(r)
  \/ /\ Kind(r) = "upload"
     /\ Remember(r, [tx[r] EXCEPT !.todo[l] = NoStage])
     /\ Goto(r, "advancing")

\* The trigger accepts the row: the line has moved, for r.
Move(r, l) ==
  /\ \E rule \in Permitting(r, l) :
        Remember(r, [tx[r] EXCEPT !.todo[l] = NoStage, !.draft[l] = rule.to])
  /\ Goto(r, "syncing")

\* Judge the move, wait for the line, insert the row: stale or applied.
Advance(r) ==
  /\ pc[r] = "advancing"
  /\ \E l \in LineNos :
        /\ NextLine(r, l)
        /\ \/ Refusing(r, l) /\ GiveUp(r, l)
           \/ /\ Permitting(r, l) # {} /\ LineFree(r, l)
              /\ \/ stage[l] # tx[r].todo[l] /\ GiveUp(r, l)
                 \/ stage[l] = tx[r].todo[l] /\ Move(r, l)

---------------------------------------------------------------------------
\* sync_job_card_status_from_lines, on every row a transition inserts.

\* What a line at stage s says of its card.
Outcome(s, reworked) ==
  IF Cascades[s] # "none" THEN Cascades[s]
  ELSE IF s = InitialStage /\ reworked THEN "rework" ELSE "none"

\* Mutant: lines that carry no outcome are left out of the vote.
Outcomes_OnlyDecided(r) ==
  {Outcome(View(r, l), tx[r].read.reworked) : l \in Lines} \ {"none"}

\* Mutant: the signal fires before the row and its trigger.
Outcomes_BeforeMove(r) == {Outcome(stage[l], tx[r].read.reworked) : l \in Lines}

Outcomes(r) == {Outcome(View(r, l), tx[r].read.reworked) : l \in Lines}

SyncReadCard(r) ==
  /\ pc[r] = "syncing"
  /\ Remember(r, [tx[r] EXCEPT !.read =
       [status |-> IF tx[r].card = "none" THEN cardStatus ELSE tx[r].card,
        reworked |-> Quoted(r)]])
  /\ Goto(r, "deciding")

\* Where the caller of perform_transition goes on.
Resume(r) == Goto(r, IF Kind(r) = "upload" THEN "advancing" ELSE "ready")

SyncDecide(r) ==
  /\ pc[r] = "deciding"
  /\ \/ /\ \E outcome \in Statuses \ {tx[r].read.status} :
             /\ Outcomes(r) = {outcome}
             /\ Remember(r, [tx[r] EXCEPT !.want = outcome, !.lines = Lines])
        /\ Goto(r, "writing")
     \/ /\ ~\E outcome \in Statuses \ {tx[r].read.status} : Outcomes(r) = {outcome}
        /\ tx' = tx
        /\ Resume(r)

\* The UPDATE of the card waits for whoever wrote it before, then writes
\* what was decided, whatever that other wrote.
WriteCard(r) ==
  /\ pc[r] \in {"writing", "closing"}
  /\ CardFree(r)
  /\ Remember(r, [tx[r] EXCEPT !.card = tx[r].want])
  /\ \/ pc[r] = "writing" /\ Resume(r)
     \/ pc[r] = "closing" /\ Goto(r, "ready")

---------------------------------------------------------------------------
\* create_quotation_revision.  The chain of revisions is left out but for
\* its length: a revision computed from one no longer the last collides with
\* uk_quotations_revision or uk_quotations_supersedes.

ReadPrevious(r) ==
  /\ pc[r] = "loaded" /\ Kind(r) = "upload"
  /\ Remember(r, [tx[r] EXCEPT !.base = revisions])
  /\ Goto(r, "numbering")

InsertQuotation(r) ==
  /\ pc[r] = "numbering"
  /\ SeriesFree(r)
  /\ \/ revisions # tx[r].base /\ Refuse(r)
     \/ revisions = tx[r].base /\ tx' = tx /\ Goto(r, "listing")

ListLines(r) ==
  /\ pc[r] = "listing"
  /\ Remember(r, [tx[r] EXCEPT !.todo = stage])
  /\ Goto(r, "advancing")

\* Mutant: a card in rework only.
Quotable_ReworkOnly(r) == tx[r].loaded = "rework"

Quotable(r) == tx[r].loaded \in {"open", "rework"}

\* The lines are done; the card follows if it was open or in rework when the
\* request loaded it.
CloseUpload(r) ==
  /\ pc[r] = "advancing" /\ Kind(r) = "upload" /\ Pending(r) = {}
  /\ \/ /\ Quotable(r)
        /\ Remember(r, [tx[r] EXCEPT !.want = "quoted", !.lines = {}])
        /\ Goto(r, "closing")
     \/ ~Quotable(r) /\ tx' = tx /\ Goto(r, "ready")

---------------------------------------------------------------------------
\* cancel_job_card, update_job_card.

CancelCard(r) ==
  /\ pc[r] = "loaded" /\ Kind(r) = "cancel"
  /\ \/ tx[r].loaded = "cancelled" /\ Refuse(r)
     \/ /\ tx[r].loaded # "cancelled"
        /\ Remember(r, [tx[r] EXCEPT !.want = "cancelled"])
        /\ Goto(r, "closing")

PatchCard(r) ==
  /\ pc[r] = "loaded" /\ Kind(r) = "patch"
  /\ Remember(r, [tx[r] EXCEPT !.want = req[r].status])
  /\ Goto(r, "closing")

---------------------------------------------------------------------------

Commit(r) ==
  /\ pc[r] = "ready"
  /\ stage' = [l \in LineNos |-> View(r, l)]
  /\ revisions' = IF Inserted(r) THEN revisions + 1 ELSE revisions
  /\ notes' = IF Kind(r) = "cancel" THEN notes + 1 ELSE notes
  /\ IF tx[r].card = "none"
     THEN UNCHANGED <<cardStatus, basis>>
     ELSE cardStatus' = tx[r].card /\ basis' = tx[r].lines
  /\ End(r)

\* add_job_line, a request of one step: no transition, so no cascade.
AddLine ==
  /\ WorkerFree
  /\ \E l \in LineNos \ Lines :
        /\ \A k \in LineNos \ Lines : l <= k
        /\ stage' = [stage EXCEPT ![l] = InitialStage]
  /\ UNCHANGED <<cardStatus, revisions, notes, basis, pc, req, tx>>

Finished ==
  /\ \A r \in Requests : pc[r] = "done"
  /\ UNCHANGED vars

Step(r) ==
  \/ Advance(r) \/ SyncReadCard(r) \/ SyncDecide(r) \/ WriteCard(r)
  \/ ReadPrevious(r) \/ InsertQuotation(r) \/ ListLines(r) \/ CloseUpload(r)
  \/ CancelCard(r) \/ PatchCard(r) \/ Commit(r)

Next ==
  \/ \E r \in Requests : Load(r) \/ Step(r) \/ Crash(r)
  \/ AddLine
  \/ Finished

Spec == Init /\ [][Next]_vars
---------------------------------------------------------------------------
\* Properties

Points == {"idle", "loaded", "numbering", "listing", "advancing", "syncing",
           "deciding", "writing", "closing", "ready", "done"}

LineStages == [LineNos -> Stages \cup {NoStage}]

Memory ==
  [loaded : Statuses \cup {"none"}, base : Nat, todo : LineStages,
   draft : LineStages,
   read : [status : Statuses \cup {"none"}, reworked : BOOLEAN],
   want : Statuses \cup {"none"}, lines : SUBSET LineNos,
   card : Statuses \cup {"none"}]

TypeOK ==
  /\ stage \in LineStages
  /\ cardStatus \in Statuses
  /\ revisions \in Nat
  /\ notes \in Nat
  /\ basis \in SUBSET LineNos
  /\ pc \in [Requests -> Points]
  /\ req \in [Requests -> Input]
  /\ tx \in [Requests -> Memory]

\* The stages a line can stand at once the card has had a status by cascade:
\* the smallest set that holds the stages behind that status and that no
\* rule leaves.
Sources(status) ==
  {s \in Stages : Cascades[s] = status \/ (status = "rework" /\ s = InitialStage)}

ClosedUnderRules(set) == \A rule \in Rules : rule.from \in set => rule.to \in set

Downstream ==
  [status \in Statuses |->
     {s \in Stages : \A set \in SUBSET Stages :
        Sources(status) \subseteq set /\ ClosedUnderRules(set) => s \in set}]

\* A status that a cascade gave the card stays founded on every line that was
\* counted: a lost card's lines are lost, a won card's are confirmed or were
\* cancelled since.  It holds however requests overlap, although nothing
\* locks the lines that are counted.
Founded == \A l \in basis : stage[l] \in Downstream[cardStatus]

\* Quoting a line leaves its outcome open, as on the seeded graph: the stage
\* a quote leads to cascades nothing and is not where lines begin.
QuoteDecidesNothing ==
  \A rule \in Rules :
    rule.action = "quote" => Cascades[rule.to] = "none" /\ rule.to # InitialStage

\* A request that has written the card never goes on to wait for a line: an
\* upload moves all its lines first.  With line before card everywhere, no
\* two requests wait for each other.
CardComesLast ==
  \A r \in Requests : tx[r].card # "none" => Pending(r) = {}

\* A card with a quotation on file is not "open" again, unless a PATCH says
\* so: the list of open cards never shows one that has been quoted, whether
\* its upload found the card open, in rework or already decided.
NeverReopened ==
  \A r \in Requests :
    pc[r] # "idle" /\ Kind(r) = "patch" => req[r].status # "open"

QuotedIsNotOpen ==
  NeverReopened /\ revisions > 0 => cardStatus # "open"

\* The cascade's docstring: the card keeps in step with what happened to
\* every line.  When a move leaves all lines agreed, the card agrees.
AgreedOn(status) ==
  Lines # {} /\ \A l \in Lines : Outcome(stage[l], revisions > 0) = status

LineMoved == \E l \in Lines : stage'[l] # stage[l]

KeepsInStep ==
  LineMoved => \A status \in Statuses : AgreedOn(status)' => cardStatus' = status

CardInStep == [][KeepsInStep]_vars

\* create_quotation_revision's comment: an upload never walks back a card
\* that is won, lost or cancelled.
KeepsClosed ==
  revisions' > revisions /\ cardStatus' # cardStatus => cardStatus \in {"open", "rework"}

\* "That job card is already cancelled.": nobody cancels it again.
CancelsOpen == notes' > notes => cardStatus # "cancelled"

\* Every request that began ends: nothing waits for ever for a line, the
\* card or a quotation number.
EveryRequestEnds == \A r \in Requests : pc[r] # "idle" ~> pc[r] = "done"
=============================================================================
