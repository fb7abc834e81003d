-------------------------- MODULE TransitionEngine --------------------------
(***************************************************************************)
(* perform_transition as concurrent requests run it.                       *)
(*                                                                         *)
(* Each request is one POST .../transitions: a transaction of its own      *)
(* (ATOMIC_REQUESTS, READ COMMITTED) that reads the line, decides whether  *)
(* its user may move it, takes the line's row lock, inserts a transition   *)
(* row and lets the apply_transition() trigger validate and advance the    *)
(* line.  Every read sees what is committed when it is made, and nothing   *)
(* holds the line between the reads and the lock.                          *)
(*                                                                         *)
(* Row locks are PostgreSQL's: FOR UPDATE excludes everybody, the KEY      *)
(* SHARE lock of the foreign key excludes FOR UPDATE only, and both last   *)
(* to the end of the transaction.                                          *)
(*                                                                         *)
(* A row's performed_at is NOW(), the start of the transaction that wrote  *)
(* it; its id is drawn from a sequence when it is inserted.  Transactions  *)
(* need not commit in the order they start, so the row the code takes for  *)
(* a line's latest need not be the one that put the line where it stands.  *)
(***************************************************************************)
EXTENDS StageGraph, Sequences

CONSTANTS
  Lines,      \* job lines
  Requests,   \* POST requests; each runs once
  Inputs,     \* what the requests may ask for
  NoOne,      \* no user, no request
  MaxClock    \* bound: the clock counts no further, and then stands still

Input == [line : Lines, user : Users, action : Actions, note : BOOLEAN]

ASSUME EngineAssumption ==
  /\ Inputs # {} /\ Inputs \subseteq Input
  /\ NoOne \notin Users /\ NoOne \notin Requests
  /\ MaxClock \in Nat

VARIABLES
  stage,      \* stage[l]: the committed current_stage_id of line l
  history,    \* history[l]: the committed transition rows of line l, in the
              \* order they were committed
  quoted,     \* quoted[l]: the line's card has a quotation with a PDF
  pc,         \* pc[r]: how far request r has got
  req,        \* req[r]: what request r asks for
  seen,       \* seen[r]: the stage request r read when it began
  mover,      \* mover[r]: who r believes moved the line into that stage
  dest,       \* dest[r]: to_stage of the rule that permits r's move
  owner,      \* owner[l]: the request holding FOR UPDATE on line l
  sharers,    \* sharers[l]: the requests holding KEY SHARE on line l
  reply,      \* reply[r]: the answer of request r
  clock,      \* the database server's clock
  stamp,      \* stamp[r]: NOW() in request r's transaction
  drawn,      \* the last id the table's identity sequence gave out
  serial      \* serial[r]: the id request r's row got

database == <<stage, history, quoted>>
locks == <<owner, sharers>>
times == <<clock, stamp>>
ids == <<drawn, serial>>
order == <<times, ids>>
vars == <<database, locks, order, pc, req, seen, mover, dest, reply>>

Move == [id : Requests, from : Stages, to : Stages, action : Actions,
         by : Users, note : BOOLEAN]

Points == {"idle", "begun", "loaded", "judging", "permitted", "locked", "inserting",
           "applied", "answering", "done"}

\* The transaction is open, has read the line, and has taken its lock.
Open == {"begun", "loaded", "judging", "permitted", "locked", "inserting", "applied"}
Looked == Open \ {"begun"}
Locking == {"locked", "inserting", "applied"}

Refusals == {"403", "422", "409", "config", "lost"}

Line(r) == req[r].line

Candidates(r) == CandidateRules(req[r].user, seen[r], req[r].action)

---------------------------------------------------------------------------
\* Row locks.

CanForUpdate(r, l) == owner[l] \in {NoOne, r} /\ sharers[l] \subseteq {r}

CanKeyShare(r, l) == owner[l] \in {NoOne, r}

Release(r) ==
  /\ owner' = [l \in Lines |-> IF owner[l] = r THEN NoOne ELSE owner[l]]
  /\ sharers' = [l \in Lines |-> sharers[l] \ {r}]

---------------------------------------------------------------------------

\* Fills req[r] until request r arrives.
AnyInput == CHOOSE input \in Inputs : TRUE

Init ==
  /\ stage = [l \in Lines |-> InitialStage]
  /\ history = [l \in Lines |-> <<>>]
  /\ quoted = [l \in Lines |-> FALSE]
  /\ pc = [r \in Requests |-> "idle"]
  /\ req = [r \in Requests |-> AnyInput]
  /\ seen = [r \in Requests |-> InitialStage]
  /\ mover = [r \in Requests |-> NoOne]
  /\ dest = [r \in Requests |-> InitialStage]
  /\ owner = [l \in Lines |-> NoOne]
  /\ sharers = [l \in Lines |-> {}]
  /\ reply = [r \in Requests |-> "none"]
  /\ clock = 0
  /\ stamp = [r \in Requests |-> 0]
  /\ drawn = 0
  /\ serial = [r \in Requests |-> 0]

\* Mutant: the exception handler leaves the transaction open.
Refuse_StillOpen(r, answer) ==
  /\ pc' = [pc EXCEPT ![r] = "done"]
  /\ reply' = [reply EXCEPT ![r] = answer]
  /\ UNCHANGED <<database, order, locks, req, seen, mover, dest>>

\* The transaction ends without effect: the exception leaves the view, the
\* request's transaction is rolled back and its locks are released.
Refuse(r, answer) ==
  /\ pc' = [pc EXCEPT ![r] = "done"]
  /\ reply' = [reply EXCEPT ![r] = answer]
  /\ Release(r)
  /\ UNCHANGED <<database, order, req, seen, mover, dest>>

\* ATOMIC_REQUESTS: BEGIN, which fixes NOW() for the whole transaction.  The
\* clock counts microseconds: two transactions may begin in the same one.
Begin(r) ==
  /\ pc[r] = "idle"
  /\ \E now \in {clock, clock + 1} \cap 0..MaxClock :
        clock' = now /\ stamp' = [stamp EXCEPT ![r] = now]
  /\ pc' = [pc EXCEPT ![r] = "begun"]
  /\ UNCHANGED <<database, locks, ids, req, seen, mover, dest, reply>>

\* create_transition loads the line, current_stage included, without a lock,
\* in a statement of its own after BEGIN.
Load(r) ==
  /\ pc[r] = "begun"
  /\ \E input \in Inputs :
        /\ req' = [req EXCEPT ![r] = input]
        /\ seen' = [seen EXCEPT ![r] = stage[input.line]]
  /\ pc' = [pc EXCEPT ![r] = "loaded"]
  /\ UNCHANGED <<database, order, locks, mover, dest, reply>>

\* ORDER BY performed_at DESC, id DESC puts row a before row b.
Newer(a, b) ==
  \/ stamp[a.id] > stamp[b.id]
  \/ stamp[a.id] = stamp[b.id] /\ serial[a.id] > serial[b.id]

\* The places in l's history of the row that order puts first.
Newest(l) ==
  {i \in DOMAIN history[l] : \A j \in DOMAIN history[l] \ {i} : Newer(history[l][i], history[l][j])}

\* Mutant: the history is read oldest row first.
LatestMover_OldestFirst(l) ==
  IF history[l] = <<>> THEN NoOne ELSE history[l][1].by

\* performed_by of the first row in that order; nobody for a line never moved.
LatestMover(l) ==
  IF Newest(l) = {} THEN NoOne ELSE history[l][CHOOSE i \in Newest(l) : TRUE].by

\* The rules are looked up for the stage the request saw, and then, in a
\* query of its own, who moved the line last.
ReadMover(r) ==
  /\ mover' = [mover EXCEPT ![r] = LatestMover(Line(r))]
  /\ pc' = [pc EXCEPT ![r] = "judging"]
  /\ UNCHANGED <<database, order, locks, req, seen, dest, reply>>

FindRules(r) ==
  /\ pc[r] = "loaded"
  /\ \/ Candidates(r) = {} /\ Refuse(r, "403")
     \/ Candidates(r) # {} /\ Conflicting(Candidates(r)) /\ Refuse(r, "config")
     \/ Candidates(r) # {} /\ ~Conflicting(Candidates(r)) /\ ReadMover(r)

Judged(r, rule) ==
  Verdict(rule, req[r].user, mover[r], req[r].note, quoted[Line(r)])

Permit(r, rule) ==
  /\ dest' = [dest EXCEPT ![r] = rule.to]
  /\ pc' = [pc EXCEPT ![r] = "permitted"]
  /\ UNCHANGED <<database, order, locks, req, seen, mover, reply>>

\* The rules are tried in the order the database returns them, which nothing
\* fixes.  The first that permits wins; a broken expression met before it
\* ends the request; when none permits, the first refusal is the answer.
Judge(r) ==
  /\ pc[r] = "judging"
  /\ \E rule \in Candidates(r) :
        \/ Judged(r, rule) = "permit" /\ Permit(r, rule)
        \/ Judged(r, rule) = "config" /\ Refuse(r, "config")
        \/ /\ Judged(r, rule) \in {"403", "422"}
           /\ \A other \in Candidates(r) : Judged(r, other) \in {"403", "422"}
           /\ Refuse(r, Judged(r, rule))

\* Mutant: no row lock before the INSERT, as BACKEND_PLAN first had it.
SerialiseOn_Skipped(r) ==
  /\ pc[r] = "permitted"
  /\ pc' = [pc EXCEPT ![r] = "locked"]
  /\ UNCHANGED <<database, order, locks, req, seen, mover, dest, reply>>

\* _serialise_on: SELECT ... FOR UPDATE, which waits for its turn.
SerialiseOn(r) ==
  /\ pc[r] = "permitted"
  /\ CanForUpdate(r, Line(r))
  /\ owner' = [owner EXCEPT ![Line(r)] = r]
  /\ pc' = [pc EXCEPT ![r] = "locked"]
  /\ UNCHANGED <<database, order, sharers, req, seen, mover, dest, reply>>

\* The INSERT: the row draws its id, which no rollback gives back, and its
\* foreign key takes KEY SHARE on the line.
InsertRow(r) ==
  /\ pc[r] = "locked"
  /\ CanKeyShare(r, Line(r))
  /\ sharers' = [sharers EXCEPT ![Line(r)] = @ \cup {r}]
  /\ drawn' = drawn + 1
  /\ serial' = [serial EXCEPT ![r] = drawn + 1]
  /\ pc' = [pc EXCEPT ![r] = "inserting"]
  /\ UNCHANGED <<database, times, owner, req, seen, mover, dest, reply>>

\* Mutant: the trigger does not compare.
Stale_Unchecked(r) == FALSE

\* The trigger's IS DISTINCT FROM, against the stage committed by now.
Stale(r) == stage[Line(r)] # seen[r]

\* The trigger accepts the row and updates the line's current stage.
Accept(r) ==
  /\ owner' = [owner EXCEPT ![Line(r)] = r]
  /\ pc' = [pc EXCEPT ![r] = "applied"]
  /\ UNCHANGED <<database, order, sharers, req, seen, mover, dest, reply>>

\* Mutant: the trigger's exception is swallowed and the view answers 201.
ApplyTransition_Swallowed(r) ==
  /\ pc[r] = "inserting"
  /\ CanForUpdate(r, Line(r))
  /\ IF Stale(r)
     THEN /\ Release(r)
          /\ pc' = [pc EXCEPT ![r] = "answering"]
          /\ UNCHANGED <<database, order, req, seen, mover, dest, reply>>
     ELSE Accept(r)

\* The AFTER INSERT trigger: FOR UPDATE on the line, then the stale check.
ApplyTransition(r) ==
  /\ pc[r] = "inserting"
  /\ CanForUpdate(r, Line(r))
  /\ \/ Stale(r) /\ Refuse(r, "409")
     \/ ~Stale(r) /\ Accept(r)

\* The row of history r writes.
NewRow(r) ==
  [id |-> r, from |-> seen[r], to |-> dest[r], action |-> req[r].action,
   by |-> req[r].user, note |-> req[r].note]

\* Mutant: a lost COMMIT acknowledgement makes the worker insert again.
Commit_Repeated(r) ==
  /\ pc[r] = "applied"
  /\ stage' = [stage EXCEPT ![Line(r)] = dest[r]]
  /\ history' = [history EXCEPT ![Line(r)] = Append(@, NewRow(r))]
  /\ UNCHANGED <<quoted, locks, order, pc, req, seen, mover, dest, reply>>

\* The view has returned: row, stage and locks leave together.
Commit(r) ==
  /\ pc[r] = "applied"
  /\ stage' = [stage EXCEPT ![Line(r)] = dest[r]]
  /\ history' = [history EXCEPT ![Line(r)] = Append(@, NewRow(r))]
  /\ Release(r)
  /\ pc' = [pc EXCEPT ![r] = "answering"]
  /\ UNCHANGED <<quoted, order, req, seen, mover, dest, reply>>

Answer(r) ==
  /\ pc[r] = "answering"
  /\ pc' = [pc EXCEPT ![r] = "done"]
  /\ \E answer \in {"201", "lost"} : reply' = [reply EXCEPT ![r] = answer]
  /\ UNCHANGED <<database, order, locks, req, seen, mover, dest>>

\* The worker or the connection dies before COMMIT.
Crash(r) == pc[r] \in Open /\ Refuse(r, "lost")

\* create_quotation_revision commits a revision with a PDF for l's card.
\* Quotations are never deleted, so this is for ever.
AttachPdf(l) ==
  /\ ~quoted[l]
  /\ quoted' = [quoted EXCEPT ![l] = TRUE]
  /\ UNCHANGED <<stage, history, locks, order, pc, req, seen, mover, dest, reply>>

\* Every request has run.
Finished ==
  /\ \A r \in Requests : pc[r] = "done"
  /\ UNCHANGED vars

Step(r) ==
  \/ Begin(r) \/ Load(r) \/ FindRules(r) \/ Judge(r) \/ SerialiseOn(r) 
  \/ InsertRow(r) \/ ApplyTransition(r) \/ Commit(r) \/ Answer(r)

Next ==
  \/ \E r \in Requests : Step(r) \/ Crash(r)
  \/ \E l \in Lines : AttachPdf(l)
  \/ Finished

Spec == Init /\ [][Next]_vars

\* A worker runs the request it accepted, PostgreSQL grants a row lock to
\* the waiters in turn; nothing forces a request to arrive or to crash.
FairSpec ==
  Spec /\ \A r \in Requests : WF_vars(pc[r] # "idle" /\ Step(r))
---------------------------------------------------------------------------
\* Properties

TypeOK ==
  /\ stage \in [Lines -> Stages]
  /\ history \in [Lines -> Seq(Move)]
  /\ quoted \in [Lines -> BOOLEAN]
  /\ pc \in [Requests -> Points]
  /\ req \in [Requests -> Input]
  /\ seen \in [Requests -> Stages]
  /\ mover \in [Requests -> Users \cup {NoOne}]
  /\ dest \in [Requests -> Stages]
  /\ owner \in [Lines -> Requests \cup {NoOne}]
  /\ sharers \in [Lines -> SUBSET Requests]
  /\ reply \in [Requests -> Refusals \cup {"none", "201"}]
  /\ clock \in Nat /\ stamp \in [Requests -> Nat]
  /\ drawn \in Nat /\ serial \in [Requests -> Nat]

\* Where line l stood after its first i moves.
StageAfter(l, i) == IF i = 0 THEN InitialStage ELSE history[l][i].to

\* In the order of their ids, though not of performed_at, the rows of a line
\* are a walk that starts at the initial stage, each move leaving the stage
\* the one before it reached, and the walk ends where the line stands:
\* however requests interleave, no move is lost and none is made twice.
HistoryIsWalk ==
  \A l \in Lines :
    /\ \A i \in 1..Len(history[l]) : history[l][i].from = StageAfter(l, i - 1)
    /\ stage[l] = StageAfter(l, Len(history[l]))
    /\ \A i \in 1..Len(history[l]) : \A j \in 1..(i - 1) :
          serial[history[l][j].id] < serial[history[l][i].id]

\* Every recorded move was open to its user: an unbroken rule of a role they
\* hold leads from where the line stood to where it went, with a note when
\* the rule wants one and a quotation PDF on file when the rule wants that.
MovesAuthorised ==
  \A l \in Lines : \A i \in 1..Len(history[l]) :
    \E rule \in Rules :
      /\ rule.from = history[l][i].from /\ rule.to = history[l][i].to
      /\ rule.action = history[l][i].action
      /\ rule.role \in RolesOf[history[l][i].by]
      /\ rule.needsNote => history[l][i].note
      /\ rule.condition = "none" \/ (rule.condition = "quoted" /\ quoted[l])

\* No rule of the user would have let them approve their own move here.
Gated(row) ==
  \A rule \in CandidateRules(row.by, row.from, row.action) : ~rule.selfApproval

SameHands(l, i) == history[l][i].by = history[l][i - 1].by

\* The two-person rule as its help text states it: whoever moved the line
\* into a stage does not move it out through a gated rule.
TwoPerson ==
  \A l \in Lines : \A i \in 2..Len(history[l]) :
    Gated(history[l][i]) => ~SameHands(l, i)

\* Some row recorded before l's n-th carries a later performed_at.
Overtaken(l, n) ==
  \E j \in 1..(n - 1) : stamp[history[l][j].id] > stamp[history[l][n].id]

\* What the engine guarantees of it.  The same hands take a line into and out
\* of a gated stage only in two cases: the line had stood there before, so
\* that a request judged in an earlier visit can land in a later one; or the
\* move in began before a move that was recorded before it, so that its
\* performed_at makes it look like the older of the two.
TwoPersonUnlessOverlapped ==
  \A l \in Lines : \A i \in 2..Len(history[l]) :
    Gated(history[l][i]) /\ SameHands(l, i) =>
      \/ \E j \in 0..(i - 2) : StageAfter(l, j) = history[l][i].from
      \/ Overtaken(l, i - 1)

\* _serialise_on's promise: by the time the trigger asks for FOR UPDATE,
\* nobody else holds the KEY SHARE that would make two writers wait for each
\* other.
TriggerNeverWaits ==
  \A r \in Requests : pc[r] = "inserting" => CanForUpdate(r, Line(r))

RowsOf(r) ==
  UNION {{<<l, i>> : i \in {n \in DOMAIN history[l] : history[l][n].id = r}} : l \in Lines}

\* A 201 means the move is on record, once; an error answer means it is not.
AnswersAreTrue ==
  \A r \in Requests :
    /\ reply[r] = "201" => Cardinality(RowsOf(r)) = 1
    /\ reply[r] \in {"403", "422", "409", "config"} => RowsOf(r) = {}

\* A lost or cancelled line stays so: a request that read the line before it
\* was closed cannot bring it back.
DeadEndsAreFinal ==
  [][\A l \in Lines : stage[l] \in DeadEnds => stage'[l] = stage[l]]_vars

\* Seen through the committed rows alone, requests are atomic moves.
LH == INSTANCE LineHistory WITH MoveIds <- Requests

AtomicMoves == LH!Spec

\* Every request that began is answered: no lock is left behind for it to
\* wait on.
EveryRequestEnds ==
  \A r \in Requests : pc[r] # "idle" ~> pc[r] = "done"
=============================================================================
